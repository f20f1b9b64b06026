-------------------------- MODULE MiniAppRegistry --------------------------
(***************************************************************************)
(* The registry of mini apps: AppRegistry of the miniapp Synapse module    *)
(* and the three resources that use it.  The developer portal is the       *)
(* source of truth; the registry keeps the last snapshot of it, refreshed  *)
(* by whichever request finds it older than the TTL, and falls back to a   *)
(* static list from the configuration.                                     *)
(*                                                                         *)
(* Requests interleave only while they await the portal's answer; what     *)
(* maybe_refresh does before and after that await is one step together     *)
(* with its caller.  Of the clock only the age of the snapshot matters, up *)
(* to the TTL; _last_refresh = 0.0 is an age that has reached it.          *)
(***************************************************************************)
EXTENDS Naturals

CONSTANTS
  Apps,        \* app ids
  Requests,    \* requests that may be under way at one time
  Static,      \* the apps: section of the configuration: app -> status
  RegistryTTL, \* registry_ttl
  MaxChanges,  \* bound: changes made on the portal
  MaxFaults    \* bound: fetches that fail

Statuses == {"absent", "listed", "suspended"}

ASSUME RegistryAssumption ==
  /\ Static \in [Apps -> Statuses]
  /\ RegistryTTL \in Nat \ {0} /\ MaxChanges \in Nat /\ MaxFaults \in Nat

VARIABLES
  portal,      \* the apps as the developer portal's endpoint gives them
  version,     \* history: number of changes of the portal
  dynamic,     \* _dynamic: the apps of the last snapshot
  held,        \* history: portal version of that snapshot
  age,         \* clock() - _last_refresh, as far as it matters
  refreshing,  \* _refreshing
  request,     \* the requests: kind, progress, and the answer of their fetch
  faults

registry == <<portal, version, dynamic, held, age, refreshing, request, faults>>

Kinds    == {"none", "init_data", "apps", "registry_refresh"}
Versions == 0..MaxChanges

Request == [kind: Kinds, app: Apps, pc: {"idle", "sent", "answered", "done"},
            snapshot: [Apps -> Statuses], ver: Versions,
            result: {"none", "ok", "not_found", "suspended"}]

RegistryTypeOK ==
  /\ portal \in [Apps -> Statuses] /\ version \in Versions
  /\ dynamic \in [Apps -> Statuses] /\ held \in Versions
  /\ age \in 0..RegistryTTL
  /\ refreshing \in {"yes", "no"}
  /\ request \in [Requests -> Request]
  /\ faults \in 0..MaxFaults

Empty == [a \in Apps |-> "absent"]

Free(a) == [kind |-> "none", app |-> a, pc |-> "idle", snapshot |-> Empty,
            ver |-> 0, result |-> "none"]

(* Also the state after a restart: nothing of this is stored. *)
RegistryInit ==
  /\ portal \in [Apps -> Statuses]
  /\ version = 0
  /\ dynamic = Empty /\ held = 0
  /\ age = RegistryTTL
  /\ refreshing = "no"
  /\ \E a \in Apps : request = [i \in Requests |-> Free(a)]
  /\ faults = 0

-----------------------------------------------------------------------------
(* AppRegistry *)

(* get: the snapshot wins over the configuration *)
Get(dyn, a) == IF dyn[a] # "absent" THEN dyn[a] ELSE Static[a]

IsListed(dyn, a) == Get(dyn, a) = "listed"

\* Fault: a snapshot, once there, is never replaced.
NeedsRefresh_WhileEmpty == age >= RegistryTTL /\ dynamic = Empty
NeedsRefresh == age >= RegistryTTL

(* all_listed: what the apps resource shows *)
AllListed(dyn) == {a \in Apps : IsListed(dyn, a)}


(* What a request answers once maybe_refresh has returned. *)
Answer(r, dyn) ==
  IF r.kind # "init_data" THEN "ok"
  ELSE IF Get(dyn, r.app) = "absent" THEN "not_found"
  ELSE IF ~IsListed(dyn, r.app) THEN "suspended" ELSE "ok"

Answered(r, dyn) ==
  [kind |-> r.kind, app |-> r.app, pc |-> "done", snapshot |-> Empty,
   ver |-> 0, result |-> Answer(r, dyn)]

Waiting(r, pc, snapshot, ver) ==
  [kind |-> r.kind, app |-> r.app, pc |-> pc, snapshot |-> snapshot,
   ver |-> ver, result |-> "none"]


(* maybe_refresh up to its await, or through to the answer of its caller *)
MaybeRefresh(i, r, stale) ==
  IF stale /\ refreshing = "no"
  THEN /\ refreshing' = "yes"
       /\ request' = [request EXCEPT ![i] = Waiting(r, "sent", Empty, 0)]
  ELSE /\ UNCHANGED refreshing
       /\ request' = [request EXCEPT ![i] = Answered(r, dynamic)]

-----------------------------------------------------------------------------
(* Requests *)

Incoming(kind, a) ==
  [kind |-> kind, app |-> a, pc |-> "idle", snapshot |-> Empty,
   ver |-> 0, result |-> "none"]

(* InitDataResource and AppsResource *)
Ask(i, kind, a) ==
  /\ request[i].pc = "idle"
  /\ MaybeRefresh(i, Incoming(kind, a), NeedsRefresh)
  /\ UNCHANGED <<portal, version, dynamic, held, age, faults>>

(* RegistryRefreshResource: invalidate, then maybe_refresh *)
RegistryRefresh(i, a) ==
  /\ request[i].pc = "idle"
  /\ age' = RegistryTTL
  /\ MaybeRefresh(i, Incoming("registry_refresh", a), TRUE)
  /\ UNCHANGED <<portal, version, dynamic, held, faults>>

(* The portal reads its tables and answers. *)
PortalAnswers(i) ==
  /\ request[i].pc = "sent"
  /\ request' = [request EXCEPT ![i] = Waiting(@, "answered", portal, version)]
  /\ UNCHANGED <<portal, version, dynamic, held, age, refreshing, faults>>

\* Fault: a failure drops the last good snapshot.
FetchFails_DropsSnapshot(i) ==
  /\ request[i].pc = "sent"
  /\ faults < MaxFaults
  /\ faults' = faults + 1
  /\ age' = 0
  /\ refreshing' = "no"
  /\ dynamic' = Empty /\ held' = 0
  /\ request' = [request EXCEPT ![i] = Answered(@, Empty)]
  /\ UNCHANGED <<portal, version>>

(* The fetch fails: keep the snapshot, wait a TTL, reset the flag. *)
FetchFails(i) ==
  /\ request[i].pc = "sent"
  /\ faults < MaxFaults
  /\ faults' = faults + 1
  /\ age' = 0
  /\ refreshing' = "no"
  /\ request' = [request EXCEPT ![i] = Answered(@, dynamic)]
  /\ UNCHANGED <<portal, version, dynamic, held>>


(* apply_snapshot, the reset of the flag and the rest of the request *)
ApplySnapshot(i) ==
  /\ request[i].pc = "answered"
  /\ dynamic' = request[i].snapshot
  /\ held' = request[i].ver
  /\ age' = 0
  /\ refreshing' = "no"
  /\ request' = [request EXCEPT ![i] = Answered(@, request[i].snapshot)]
  /\ UNCHANGED <<portal, version, faults>>

(* The answer has been written; the slot is free for another request. *)
Finish(i) ==
  /\ request[i].pc = "done"
  /\ request' = [request EXCEPT ![i] = Free(@.app)]
  /\ UNCHANGED <<portal, version, dynamic, held, age, refreshing, faults>>

-----------------------------------------------------------------------------
(* The portal publishes, suspends or removes an app. *)
PortalChanges(a, s) ==
  /\ version < MaxChanges
  /\ portal[a] # s
  /\ portal' = [portal EXCEPT ![a] = s]
  /\ version' = version + 1
  /\ UNCHANGED <<dynamic, held, age, refreshing, request, faults>>

RegistryTick ==
  /\ age < RegistryTTL
  /\ age' = age + 1
  /\ UNCHANGED <<portal, version, dynamic, held, refreshing, request, faults>>

Fetch(i) == PortalAnswers(i) \/ FetchFails(i) \/ ApplySnapshot(i)

SomeoneAsks ==
  \E i \in Requests, kind \in {"init_data", "apps"}, a \in Apps : Ask(i, kind, a)

RegistryNext ==
  \/ SomeoneAsks
  \/ \E i \in Requests, a \in Apps : RegistryRefresh(i, a)
  \/ \E i \in Requests : Fetch(i) \/ Finish(i)
  \/ \E a \in Apps, s \in Statuses : PortalChanges(a, s)
  \/ RegistryTick

(* A fetch ends: the HTTP client has a timeout, which is a failure. *)
RegistryFairness ==
  /\ \A i \in Requests : WF_registry(Fetch(i)) /\ WF_registry(Finish(i))
  /\ WF_registry(RegistryTick)

RegistrySpec == RegistryInit /\ [][RegistryNext]_registry /\ RegistryFairness

-----------------------------------------------------------------------------
(* Properties *)

Fetching(i) == request[i].pc \in {"sent", "answered"}

(* The flag _refreshing is up exactly while a fetch is under way, and never *)
(* more than one is: no failure leaves it up, which would stop refreshing   *)
(* for good.                                                                *)
OneFetchAtATime ==
  /\ refreshing = "yes" <=> \E i \in Requests : Fetching(i)
  /\ \A i, j \in Requests : Fetching(i) /\ Fetching(j) => i = j

(* The registry never replaces a snapshot by an older one, although answers *)
(* of the portal may be delayed and failures come in between.               *)
SnapshotNeverGoesBack == [][held' >= held]_registry

(* As long as clients keep asking, an app that stays listed on the portal   *)
(* is listed by the registry for good, without anyone calling               *)
(* registry_refresh and although fetches may fail.                          *)
ClientsKeepAsking == WF_registry(SomeoneAsks)

PublishedAppIsServed ==
  ClientsKeepAsking =>
    \A a \in Apps : <>[](portal[a] = "listed") => <>[](a \in AllListed(dynamic))
=============================================================================
