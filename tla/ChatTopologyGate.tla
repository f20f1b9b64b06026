-------------------------- MODULE ChatTopologyGate --------------------------
(***************************************************************************)
(* chat_topology_sync_gate: rooms marked hidden (stories) are left out of  *)
(* /sync until the device has proved a build that can show them, and come  *)
(* whole with the first /sync after that.                                  *)
(*                                                                         *)
(* The module keeps the build each device reported, the threshold of the   *)
(* version-gate service with a TTL, a list of hidden rooms per user that a *)
(* topology event invalidates, and a marker per device that passed.        *)
(* Requests of one device run one PUT and one /sync at a time; requests of *)
(* different devices, events and callbacks interleave at every await.      *)
(* A value that may be absent is a set of at most one element.  Device ids *)
(* are taken to differ between users, and devices to be of one platform.   *)
(***************************************************************************)
EXTENDS Naturals, FiniteSets

CONSTANTS
  Users, Devices,
  UserOf,      \* the user of each device
  Rooms,
  Stories,     \* rooms whose m.room.create marks them as stories
  Builds,      \* builds a device may report, thresholds of the service
  Bounds       \* instances: devices that send requests, those that have synced,
               \* rooms joined and threshold at first, and bounds on events,
               \* memberships, PUTs, /syncs, thresholds and faults

Maybe(S) == {{}} \union {{x} : x \in S}

ASSUME ConstantsAssumption ==
  /\ UserOf \in [Devices -> Users]
  /\ Stories \subseteq Rooms
  /\ Builds \subseteq Nat
  /\ Bounds \subseteq [devices: SUBSET Devices, since: SUBSET Devices, joined: SUBSET Rooms,
                       published: Maybe(Builds), topologies: Nat, memberships: Nat,
                       puts: Nat, syncs: Nat, thresholds: Nat, faults: Nat]

VARIABLES
  joined,      \* rooms each user is joined to
  topology,    \* "hidden" of the com.liza.chat.topology event of each room, if any
  pending,     \* topology events of each room whose callback has not run
  published,   \* the threshold the version-gate service answers
  capability,  \* device_capabilities: the build of each device, if any
  markers,     \* chat_topology_forced_full_state
  threshold,   \* VersionGateThresholds._cache
  inTtl,       \* whether _cache_ts is younger than the TTL
  cache,       \* HiddenRoomsLookup._cache: the list of each user, if any
  since,       \* devices that hold a since token
  newer,       \* rooms joined after the token of each device
  parted,      \* rooms with an invite, a knock or a leave of the user after it
  pc,          \* where the PUT and the /sync of each device are
  build,       \* the build that request read
  answers,     \* thresholds the service has had since the request asked it
  passed,      \* /sync: the verdict of the gate
  snapshot,    \* /sync: the joined rooms it started from
  recent,      \* /sync: those of them joined after the since token
  beside,      \* /sync: rooms with an invite, a knock or a leave after it
  todo, found, \* get_hidden_room_ids_for_user: rooms to read, hidden ones found
  excluded,    \* /sync: mutable_rooms_to_exclude
  forced,      \* /sync: forced_newly_joined_room_ids
  tainted,     \* history: rooms the list in the cache may be wrong about
  late,        \* history: rooms that changed while the list was read
  odd,         \* history: rooms the response may be wrong about
  reported,    \* history: builds each device has reported
  offered,     \* history: thresholds the service has had
  due,         \* history: devices whose next /sync must bring hidden rooms whole
  left         \* what is left of the bounds

events  == <<joined, topology, pending>>
stored  == <<capability, markers>>
gate    == <<published, threshold, inTtl>>
client  == <<since, newer, parted>>
list    == <<cache, todo, found, tainted, late>>
request == <<build, answers, passed, snapshot, recent, beside, excluded, forced>>
proof   == <<reported, offered, due>>
vars    == <<events, stored, gate, client, list, request, proof, pc, odd, left>>

Kinds   == {"put", "sync"}
Pcs     == {"idle", "capability", "min", "fetch", "mark", "hide", "marker", "show", "sent"}

TypeOK ==
  /\ joined \in [Users -> SUBSET Rooms]
  /\ topology \in [Rooms -> Maybe(BOOLEAN)]
  /\ pending \in [Rooms -> Nat]
  /\ published \in Maybe(Builds) /\ threshold \in Maybe(Builds) /\ inTtl \in BOOLEAN
  /\ capability \in [Devices -> Maybe(Builds)] /\ markers \subseteq Devices
  /\ cache \in [Users -> Maybe(SUBSET Rooms)]
  /\ since \subseteq Devices
  /\ pc \in [Devices -> [Kinds -> Pcs]]
  /\ build \in [Devices -> [Kinds -> Maybe(Builds)]]
  /\ answers \in [Devices -> [Kinds -> SUBSET Maybe(Builds)]]
  /\ passed \in [Devices -> BOOLEAN]
  /\ \A v \in {newer, parted, snapshot, recent, beside, todo, found, excluded, forced, late, odd} :
       v \in [Devices -> SUBSET Rooms]
  /\ tainted \in [Users -> SUBSET Rooms]
  /\ reported \in [Devices -> SUBSET Builds] /\ offered \subseteq Builds
  /\ due \subseteq Devices

(* Some devices have synced before; the process has started and nothing is *)
(* cached.                                                                 *)
Init ==
  /\ left \in Bounds
  /\ joined = [u \in Users |-> left.joined]
  /\ topology = [r \in Rooms |-> {}]
  /\ pending = [r \in Rooms |-> 0]
  /\ published = left.published
  /\ threshold = {} /\ inTtl = FALSE
  /\ capability = [d \in Devices |-> {}] /\ markers = {}
  /\ cache = [u \in Users |-> {}]
  /\ since = left.since
  /\ newer = [d \in Devices |-> {}] /\ parted = newer
  /\ pc = [d \in Devices |-> [k \in Kinds |-> "idle"]]
  /\ build = [d \in Devices |-> [k \in Kinds |-> {}]]
  /\ answers = [d \in Devices |-> [k \in Kinds |-> {}]]
  /\ passed = [d \in Devices |-> FALSE]
  /\ snapshot = [d \in Devices |-> {}] /\ recent = snapshot /\ beside = snapshot
  /\ todo = snapshot /\ found = snapshot
  /\ excluded = snapshot /\ forced = snapshot
  /\ tainted = [u \in Users |-> {}]
  /\ late = snapshot /\ odd = snapshot
  /\ reported = [d \in Devices |-> {}] /\ offered = published
  /\ due = {}

-----------------------------------------------------------------------------
Spend(field) == left[field] > 0 /\ left' = [left EXCEPT ![field] = @ - 1]

(* Whether a room counts as hidden: its topology event decides, and with-  *)
(* out one the room's creation content.                                    *)
Hidden(r) == topology[r] = {TRUE} \/ (topology[r] = {} /\ r \in Stories)

(* device_passed_gate: an unknown build or threshold keeps the gate closed. *)
\* Fault: an unknown threshold opens the gate.
Passes_FailOpen(b, m) == \E x \in b : \A y \in m : x >= y
Passes(b, m) == \E x \in b, y \in m : x >= y

Goes(d, k, to) == pc' = [pc EXCEPT ![d][k] = to]
Running(d) == pc[d]["sync"] # "idle"
Reading(d) == pc[d]["sync"] \in {"hide", "show"}

-----------------------------------------------------------------------------
(* HiddenRoomsLookup *)

(* invalidate_user, for the users in S.                                    *)
Invalidate(S) ==
  /\ cache' = [u \in Users |-> IF u \in S THEN {} ELSE cache[u]]
  /\ tainted' = [u \in Users |-> IF u \in S THEN {} ELSE tainted[u]]

(* The list S is there: the first call of a /sync excludes its rooms, the  *)
(* second one forces them in.                                              *)
Listed(d, at, S, doubtful) ==
  /\ odd' = [odd EXCEPT ![d] = @ \union doubtful]
  /\ \/ at = "hide" /\ excluded' = [excluded EXCEPT ![d] = S] /\ Goes(d, "sync", "marker")
        /\ UNCHANGED forced
     \/ at = "show" /\ forced' = [forced EXCEPT ![d] = S] /\ Goes(d, "sync", "sent")
        /\ UNCHANGED excluded

(* get_hidden_room_ids_for_user, up to its first read of a room.           *)
LookUp(d, at) ==
  \/ /\ \E S \in cache[UserOf[d]] : Listed(d, at, S, tainted[UserOf[d]])
     /\ UNCHANGED list
  \/ /\ cache[UserOf[d]] = {}
     /\ todo' = [todo EXCEPT ![d] = joined[UserOf[d]]]
     /\ Goes(d, "sync", at)
     /\ UNCHANGED <<cache, tainted, found, late, excluded, forced, odd>>

(* One room: its topology event, and m.room.create, which never changes.   *)
ReadRoom(d, r) ==
  /\ pc[d]["sync"] \in {"hide", "show"} /\ r \in todo[d]
  /\ todo' = [todo EXCEPT ![d] = @ \ {r}]
  /\ found' = [found EXCEPT ![d] = IF Hidden(r) THEN @ \union {r} ELSE @]
  /\ UNCHANGED <<events, stored, gate, client, cache, tainted, late, request, proof, pc, odd, left>>

(* The list is stored, whatever happened while it was read.                *)
Store(d) ==
  /\ pc[d]["sync"] \in {"hide", "show"} /\ todo[d] = {}
  /\ cache' = [cache EXCEPT ![UserOf[d]] = {found[d]}]
  /\ tainted' = [tainted EXCEPT ![UserOf[d]] = late[d]]
  /\ Listed(d, pc[d]["sync"], found[d], late[d])
  /\ found' = [found EXCEPT ![d] = {}]
  /\ late' = [late EXCEPT ![d] = {}]
  /\ UNCHANGED <<events, stored, gate, client, todo, build, answers, passed, snapshot,
                 recent, beside, proof, left>>

-----------------------------------------------------------------------------
(* device_passed_gate and get_min_build, called by PUT and by /sync *)

(* The verdict, for the build the request read and the threshold m.        *)
Verdict(d, k, m) ==
  \/ /\ k = "put"
     /\ Goes(d, k, IF Passes(build[d][k], m) THEN "mark" ELSE "idle")
     /\ UNCHANGED <<passed, list, excluded, forced, odd>>
  \/ /\ k = "sync" /\ Passes(build[d][k], m)
     /\ passed' = [passed EXCEPT ![d] = TRUE]
     /\ Goes(d, k, "marker")
     /\ UNCHANGED <<list, excluded, forced, odd>>
  \/ /\ k = "sync" /\ ~Passes(build[d][k], m)
     /\ LookUp(d, "hide")
     /\ UNCHANGED passed

Decide(d, k, m) == build' = [build EXCEPT ![d][k] = {}] /\ Verdict(d, k, m)

GetCapability(d, k) ==
  /\ pc[d][k] = "capability"
  /\ build' = [build EXCEPT ![d][k] = capability[d]]
  /\ Goes(d, k, "min")
  /\ UNCHANGED <<events, stored, gate, client, list, answers, passed, snapshot, recent,
                 beside, excluded, forced, proof, odd, left>>

(* No build, or a threshold within its TTL: the verdict; or ask the service. *)
GetMinBuild(d, k) ==
  /\ pc[d][k] = "min"
  /\ \/ /\ build[d][k] = {} \/ inTtl
        /\ Decide(d, k, threshold)
        /\ UNCHANGED answers
     \/ /\ build[d][k] # {} /\ ~inTtl
        /\ answers' = [answers EXCEPT ![d][k] = {published}]
        /\ Goes(d, k, "fetch")
        /\ UNCHANGED <<build, passed, list, excluded, forced, odd>>
  /\ UNCHANGED <<events, stored, gate, client, snapshot, recent, beside, proof, left>>

(* The service has answered with a threshold or with none.                 *)
Answer(d, k) ==
  /\ pc[d][k] = "fetch"
  /\ \E m \in answers[d][k] : threshold' = m /\ Decide(d, k, m)
  /\ inTtl' = TRUE
  /\ answers' = [answers EXCEPT ![d][k] = {}]
  /\ UNCHANGED <<events, stored, published, client, snapshot, recent, beside, proof, left>>

(* No answer: the last threshold known, which is tried again next time.    *)
\* Fault: a failed request forgets the threshold.
NoAnswer_Forgets(d, k) ==
  /\ pc[d][k] = "fetch" /\ Spend("faults")
  /\ threshold' = {}
  /\ Decide(d, k, {})
  /\ answers' = [answers EXCEPT ![d][k] = {}]
  /\ UNCHANGED <<events, stored, published, inTtl, client, snapshot, recent, beside, proof>>
NoAnswer(d, k) ==
  /\ pc[d][k] = "fetch" /\ Spend("faults")
  /\ Decide(d, k, threshold)
  /\ answers' = [answers EXCEPT ![d][k] = {}]
  /\ UNCHANGED <<events, stored, gate, client, snapshot, recent, beside, proof>>

-----------------------------------------------------------------------------
(* PUT of a device's capabilities *)

(* upsert_capability; the gate is asked only when the build went up.       *)
Put(d, b) ==
  /\ pc[d]["put"] = "idle" /\ d \in left.devices /\ Spend("puts")
  /\ capability' = [capability EXCEPT ![d] = {b}]
  /\ Goes(d, "put", IF \A x \in capability[d] : b > x THEN "capability" ELSE "idle")
  /\ reported' = [reported EXCEPT ![d] = @ \union {b}]
  /\ due' = IF \A x \in capability[d] : b >= x THEN due ELSE due \ {d}
  /\ UNCHANGED <<events, markers, gate, client, list, request, offered, odd>>

(* Whatever threshold the next request of d works with, d passes.          *)
SurelyOpen(d) ==
  \A m \in {published, threshold} \union UNION {answers[e][k] : e \in Devices, k \in Kinds} :
    Passes(capability[d], m)

(* ForcedFullStateMarkers.mark *)
\* Fault: the marker is stored under the user.
Mark_User(d) ==
  /\ pc[d]["put"] = "mark"
  /\ markers' = markers \union {UserOf[d]}
  /\ Goes(d, "put", "idle")
  /\ due' = IF pc[d]["sync"] = "idle" /\ SurelyOpen(d) THEN due \union {d} ELSE due
  /\ UNCHANGED <<events, capability, gate, client, list, request, reported, offered, odd, left>>
Mark(d) ==
  /\ pc[d]["put"] = "mark"
  /\ markers' = markers \union {d}
  /\ Goes(d, "put", "idle")
  /\ due' = IF pc[d]["sync"] = "idle" /\ SurelyOpen(d) THEN due \union {d} ELSE due
  /\ UNCHANGED <<events, capability, gate, client, list, request, reported, offered, odd, left>>

-----------------------------------------------------------------------------
(* /sync: get_sync_result_builder *)

Sync(d) ==
  /\ pc[d]["sync"] = "idle" /\ d \in left.devices /\ Spend("syncs")
  /\ snapshot' = [snapshot EXCEPT ![d] = joined[UserOf[d]]]
  /\ recent' = [recent EXCEPT ![d] = newer[d]]
  /\ newer' = [newer EXCEPT ![d] = {}]
  /\ beside' = [beside EXCEPT ![d] = parted[d]]
  /\ parted' = [parted EXCEPT ![d] = {}]
  /\ Goes(d, "sync", "capability")
  /\ UNCHANGED <<events, stored, gate, since, list, build, answers, passed, excluded, forced,
                 proof, odd>>

(* ForcedFullStateMarkers.consume, for a request with a since token.       *)
Marker(d) ==
  /\ pc[d]["sync"] = "marker"
  /\ IF d \in since /\ d \in markers
       THEN markers' = markers \ {d} /\ LookUp(d, "show")
       ELSE Goes(d, "sync", "sent") /\ UNCHANGED <<markers, list, excluded, forced, odd>>
  /\ UNCHANGED <<events, capability, gate, client, build, answers, passed, snapshot,
                 recent, beside, proof, left>>

(* The joined rooms of a response, and those that come with their state:   *)
(* all of them in a first response, then the rooms newly joined or forced. *)
\* Fault: the rooms to exclude are not taken out.
Shown_All(d) == snapshot[d]
Shown(d) == snapshot[d] \ excluded[d]
Whole(d) == IF d \in since THEN Shown(d) \intersect (recent[d] \union forced[d]) ELSE Shown(d)

(* The rooms in its invite, knock and leave sections.  After a token they  *)
(* come from the membership events since, which are read before the gate:  *)
(* a room that is left out above and that the user was invited to and then *)
(* joined is among them.  A first response takes the rooms the user is not *)
(* in, without those to exclude.  Senders of invites are not ignored, and  *)
(* the filter asks for rooms the user left.                                *)
Beside(d) == IF d \in since THEN beside[d] \ Shown(d)
                            ELSE beside[d] \ (snapshot[d] \union excluded[d])

(* The local variables of the /syncs of the devices in S are gone.         *)
Forget(S) ==
  /\ passed' = [d \in Devices |-> passed[d] /\ d \notin S]
  /\ snapshot' = [d \in Devices |-> IF d \in S THEN {} ELSE snapshot[d]]
  /\ recent' = [d \in Devices |-> IF d \in S THEN {} ELSE recent[d]]
  /\ beside' = [d \in Devices |-> IF d \in S THEN {} ELSE beside[d]]
  /\ excluded' = [d \in Devices |-> IF d \in S THEN {} ELSE excluded[d]]
  /\ forced' = [d \in Devices |-> IF d \in S THEN {} ELSE forced[d]]
  /\ odd' = [d \in Devices |-> IF d \in S THEN {} ELSE odd[d]]

Receive(d) ==
  /\ pc[d]["sync"] = "sent"
  /\ since' = since \union {d}
  /\ due' = due \ {d}
  /\ Forget({d}) /\ Goes(d, "sync", "idle")
  /\ UNCHANGED <<events, stored, gate, newer, parted, list, build, answers, reported, offered, left>>

(* The response does not arrive and is no longer in the response cache     *)
(* when the device asks again from the same token.                         *)
Lose(d) ==
  /\ pc[d]["sync"] = "sent" /\ Spend("faults")
  /\ newer' = [newer EXCEPT ![d] = @ \union recent[d]]
  /\ parted' = [parted EXCEPT ![d] = @ \union beside[d]]
  /\ due' = due \ {d}
  /\ Forget({d}) /\ Goes(d, "sync", "idle")
  /\ UNCHANGED <<events, stored, gate, since, list, build, answers, reported, offered>>

-----------------------------------------------------------------------------
(* Events, the service, time, the process *)

(* A room changes: what is cached or being read may be wrong about it.     *)
Doubt(S, r) ==
  /\ tainted' = [u \in Users |-> IF u \in S /\ cache[u] # {} THEN tainted[u] \union {r} ELSE tainted[u]]
  /\ late' = [d \in Devices |-> IF UserOf[d] \in S /\ Reading(d) THEN late[d] \union {r} ELSE late[d]]
  /\ odd' = [d \in Devices |-> IF UserOf[d] \in S /\ Running(d) THEN odd[d] \union {r} ELSE odd[d]]

(* A com.liza.chat.topology event is persisted; its callback comes later.  *)
SetTopology(r, hidden) ==
  /\ topology[r] # {hidden} /\ Spend("topologies")
  /\ topology' = [topology EXCEPT ![r] = {hidden}]
  /\ pending' = [pending EXCEPT ![r] = @ + 1]
  /\ Doubt(Users, r)
  /\ UNCHANGED <<joined, stored, gate, client, cache, todo, found, request, proof, pc>>

(* _on_new_event, for a topology event: every joined member at that time.  *)
\* Fault: the lists of one member are dropped, say the sender's.
OnNewEvent_Sender(r) ==
  /\ pending[r] > 0
  /\ pending' = [pending EXCEPT ![r] = @ - 1]
  /\ \E sender \in Users : cache' = [cache EXCEPT ![sender] = {}]
  /\ tainted' = [u \in Users |-> IF r \in joined[u] THEN {} ELSE tainted[u]]
  /\ UNCHANGED <<joined, topology, stored, gate, client, todo, found, late, request, proof, pc, odd, left>>
OnNewEvent(r) ==
  /\ pending[r] > 0
  /\ pending' = [pending EXCEPT ![r] = @ - 1]
  /\ Invalidate({u \in Users : r \in joined[u]})
  /\ UNCHANGED <<joined, topology, stored, gate, client, todo, found, late, request, proof, pc, odd, left>>

(* Membership events: none of them invalidates a list.                     *)
Parts(u, r) ==
  parted' = [d \in Devices |-> IF UserOf[d] = u THEN parted[d] \union {r} ELSE parted[d]]

Join(u, r) ==
  /\ r \notin joined[u] /\ Spend("memberships")
  /\ joined' = [joined EXCEPT ![u] = @ \union {r}]
  /\ newer' = [d \in Devices |-> IF UserOf[d] = u THEN newer[d] \union {r} ELSE newer[d]]
  /\ Doubt({u}, r)
  /\ UNCHANGED <<topology, pending, stored, gate, since, parted, cache, todo, found, request, proof, pc>>

Leave(u, r) ==
  /\ r \in joined[u] /\ Spend("memberships")
  /\ joined' = [joined EXCEPT ![u] = @ \ {r}]
  /\ newer' = [d \in Devices |-> IF UserOf[d] = u THEN newer[d] \ {r} ELSE newer[d]]
  /\ Parts(u, r) /\ Doubt({u}, r)
  /\ UNCHANGED <<topology, pending, stored, gate, since, cache, todo, found, request, proof, pc>>

(* The user is invited, or knocks.                                         *)
Invite(u, r) ==
  /\ r \notin joined[u] /\ Spend("memberships")
  /\ Parts(u, r)
  /\ UNCHANGED <<events, stored, gate, since, newer, list, request, proof, pc, odd>>

(* The service's min_stories_build changes.                                *)
Publish(m) ==
  /\ m # published /\ Spend("thresholds")
  /\ published' = m
  /\ offered' = offered \union m
  /\ answers' = [d \in Devices |-> [k \in Kinds |->
                  IF pc[d][k] = "fetch" THEN answers[d][k] \union {m} ELSE answers[d][k]]]
  /\ due' = {d \in due : Passes(capability[d], m) /\ ~Running(d)}
  /\ UNCHANGED <<events, stored, threshold, inTtl, client, list, build, passed, snapshot,
                 recent, beside, excluded, forced, reported, pc, odd>>

(* threshold_ttl_seconds have passed.                                      *)
Expire ==
  /\ inTtl /\ inTtl' = FALSE
  /\ UNCHANGED <<events, stored, published, threshold, client, list, request, proof, pc, odd, left>>

(* The process starts again: requests, callbacks and caches are gone.      *)
Restart ==
  /\ Spend("faults")
  /\ pending' = [r \in Rooms |-> 0]
  /\ threshold' = {} /\ inTtl' = FALSE
  /\ Invalidate(Users)
  /\ newer' = [d \in Devices |-> newer[d] \union recent[d]]
  /\ parted' = [d \in Devices |-> parted[d] \union beside[d]]
  /\ pc' = [d \in Devices |-> [k \in Kinds |-> "idle"]]
  /\ build' = [d \in Devices |-> [k \in Kinds |-> {}]] /\ answers' = [d \in Devices |-> [k \in Kinds |-> {}]]
  /\ todo' = [d \in Devices |-> {}] /\ found' = todo' /\ late' = todo'
  /\ Forget(Devices)
  /\ due' = {}
  /\ UNCHANGED <<joined, topology, stored, published, since, reported, offered>>

Next ==
  \/ \E d \in Devices :
       \/ \E b \in Builds : Put(d, b)
       \/ Mark(d) \/ Sync(d) \/ Marker(d) \/ Receive(d) \/ Lose(d) \/ Store(d)
       \/ \E r \in Rooms : ReadRoom(d, r)
       \/ \E k \in Kinds : GetCapability(d, k) \/ GetMinBuild(d, k) \/ Answer(d, k) \/ NoAnswer(d, k)
  \/ \E r \in Rooms :
       \/ \E hidden \in BOOLEAN : SetTopology(r, hidden)
       \/ OnNewEvent(r)
       \/ \E d \in left.devices : Join(UserOf[d], r) \/ Leave(UserOf[d], r) \/ Invite(UserOf[d], r)
  \/ \E m \in Maybe(Builds) : Publish(m)
  \/ Expire
  \/ Restart

Spec == Init /\ [][Next]_vars

-----------------------------------------------------------------------------
(* The list of hidden rooms that /sync takes from the cache without asking *)
(* the database is right about every room the user is in, except a room    *)
(* that changed, or that the user joined or left, while the list was being *)
(* read or since it was, and whose callback has not dropped the list.      *)
ListIsTrue ==
  \A u \in Users : \A S \in cache[u] : \A r \in joined[u] \ tainted[u] :
    r \in S <=> Hidden(r)

(* In a response to a device that has not passed the gate a hidden room is *)
(* never among the rooms the user is in, whether the list came from the    *)
(* cache or was read, unless the room changed while the request ran or the *)
(* cached list was already in doubt about it.  Where such a room does come *)
(* is in the invite, knock and leave sections: get_sync_result_builder     *)
(* takes them from membership events it does not filter, although its      *)
(* comment says that these devices must not see hidden rooms.              *)
HiddenOnlyBeside ==
  \A d \in Devices : pc[d]["sync"] = "sent" /\ ~passed[d] =>
    \A r \in (Shown(d) \union Beside(d)) \ odd[d] : Hidden(r) => r \in Beside(d)

(* The gate is open, to a /sync or to the marker, only for a device that   *)
(* has itself reported a build no smaller than a threshold the service has *)
(* had: not through a failed request, an absent threshold or a restart.    *)
OpenOnlyWithProof ==
  \A d \in Devices :
    (pc[d]["put"] = "mark" \/ d \in markers \/ (Running(d) /\ passed[d])) =>
      \E b \in reported[d], m \in offered : b >= m

(* A device that passed the gate when it reported its build, while it had  *)
(* no /sync running and no smaller verdict was on its way, gets every      *)
(* hidden room of its user whole with its next /sync, although the TTL     *)
(* runs out, the service stops answering or another device of the user     *)
(* reads the same list.  Lost responses and restarts are excepted.         *)
FirstSyncIsWhole ==
  \A d \in due : pc[d]["sync"] = "sent" =>
    \A r \in snapshot[d] \ odd[d] : Hidden(r) => r \in Whole(d)
=============================================================================
