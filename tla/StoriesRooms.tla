---------------------------- MODULE StoriesRooms ----------------------------
(***************************************************************************)
(* stories_membership: each local user has a hidden stories room, made on  *)
(* first use and remembered in account data; the two sides of a DM are     *)
(* invited to each other's room when one joins the DM and removed when one *)
(* leaves it; at start every DM is subscribed again; expired stories are   *)
(* redacted by a timer.  The client makes the room of its user too, when   *)
(* the account data it has synced names none.                              *)
(*                                                                         *)
(* Callbacks and background processes are jobs that interleave at every    *)
(* await.  A guest is in the audience of a room when invited or joined.    *)
(* Names of rooms, and the renaming of old ones, are left out.             *)
(***************************************************************************)
EXTENDS Naturals, FiniteSets, Sequences

CONSTANTS
  Users,
  Local,       \* users of this server
  Reachable,   \* users of this server and of servers in the federation whitelist
  AiNames,     \* users with a localpart of a known bot
  AiRoles,     \* local users with the role ai
  DMs,         \* rooms of two users
  SidesOf,     \* the two users of each of them
  Jobs,        \* bound: callbacks and processes at one time
  MaxRooms,    \* bound: stories rooms
  Stories,     \* stories that may be posted
  Foreign,     \* those of them whose authors are of other servers
  Bounds       \* instances: who is in which DM and lists it in m.direct at first,
               \* and bounds on events, rooms made by clients, stories, faults and restarts

ASSUME ConstantsAssumption ==
  /\ Local \subseteq Users /\ AiNames \subseteq Users /\ AiRoles \subseteq Local
  /\ \A dm \in DMs : \E a, b \in Users : a # b /\ SidesOf[dm] = {a, b}
  /\ Local \subseteq Reachable /\ Reachable \subseteq Users
  /\ MaxRooms \in Nat /\ Foreign \subseteq Stories
  /\ Bounds \subseteq [in: [DMs -> SUBSET Users], direct: [Users -> SUBSET DMs],
                       dms: SUBSET DMs, events: Nat, lists: Nat, clients: Nat,
                       stories: Nat, faults: Nat, restarts: Nat]

VARIABLES
  in,          \* members of each DM
  direct,      \* DMs each user lists in m.direct
  tag,         \* com.liza.stories of each user: the room, if any
  owner,       \* creator of each stories room, {} before it exists
  audience,    \* guests of each stories room
  muted,       \* room rules dont_notify: <<user, room>>
  notifying,   \* override rules for stories: <<user, room>>
  client,      \* rooms the clients of a user have made and not yet stored
  story,       \* what became of each story
  armed,       \* the expiry timer is set
  job,         \* callbacks and background processes
  wish,        \* history: what the last finished job wanted for each pair
  tangled,     \* history: pairs whose jobs overlapped or were cut short
  doubled,     \* history: owners whose room was made while another was, or was lost
  loud,        \* history: <<user, room>> whose mute failed
  left         \* what is left of the bounds

matrix  == <<in, direct>>
rooms   == <<tag, owner, audience>>
rules   == <<muted, notifying, loud>>
history == <<wish, tangled, doubled>>
expiry  == <<story, armed>>
vars    == <<matrix, rooms, client, rules, history, expiry, job, left>>

Rooms  == 1..MaxRooms
Pairs  == {SidesOf[dm] : dm \in DMs}
Pcs    == {"idle", "start", "gate", "next", "ensure", "create", "tag", "mute", "rule",
           "invite", "find", "kick", "sweep", "redact"}
(* what: subscribe, unsubscribe; event: the membership event; turns: the   *)
(* owners and guests of the pair in hand still to be served.               *)
Idle   == [pc |-> "idle", what |-> "in", event |-> {}, todo |-> {}, turns |-> << >>,
           room |-> 0, list |-> {}]

TypeOK ==
  /\ in \in [DMs -> SUBSET Users] /\ direct \in [Users -> SUBSET DMs]
  /\ tag \in [Users -> {{}} \union {{r} : r \in Rooms}]
  /\ owner \in [Rooms -> {{}} \union {{u} : u \in Local}]
  /\ audience \in [Rooms -> SUBSET Users]
  /\ muted \subseteq Local \X Rooms /\ notifying \subseteq Local \X Rooms /\ loud \subseteq Local \X Rooms
  /\ client \in [Local -> SUBSET Rooms]
  /\ story \in [Stories -> {"none", "live", "expired", "redacted"}] /\ armed \in BOOLEAN
  /\ \A j \in Jobs :
       /\ job[j].pc \in Pcs /\ job[j].what \in {"in", "out"}
       /\ job[j].event \subseteq Users \X DMs /\ job[j].todo \subseteq Pairs
       /\ job[j].turns \in Seq(Users \X Users) /\ job[j].room \in 0..MaxRooms
  /\ wish \in [Pairs -> {"none", "in", "out"}]
  /\ tangled \subseteq Pairs /\ doubled \subseteq Local

(* The process runs and its start-up processes have found nothing to do.   *)
Init ==
  /\ left \in Bounds
  /\ in = left.in /\ direct = left.direct
  /\ tag = [u \in Users |-> {}]
  /\ owner = [r \in Rooms |-> {}]
  /\ audience = [r \in Rooms |-> {}]
  /\ muted = {} /\ notifying = {} /\ loud = {}
  /\ client = [u \in Local |-> {}]
  /\ story = [s \in Stories |-> "none"] /\ armed = TRUE
  /\ job = [j \in Jobs |-> Idle]
  /\ wish = [p \in Pairs |-> "none"]
  /\ tangled = {} /\ doubled = {}

-----------------------------------------------------------------------------
Spend(field) == left[field] > 0 /\ left' = [left EXCEPT ![field] = @ - 1]

At(j, pc) == job[j].pc = pc
Owner(j)  == Head(job[j].turns)[1]
Guest(j)  == Head(job[j].turns)[2]
PairOf(j) == {Owner(j), Guest(j)}
Made      == {r \in Rooms : owner[r] # {}}

(* The pairs a job works on, or will.                                      *)
Concerns(j) ==
  job[j].todo \union {{t[1], t[2]} : t \in {job[j].turns[i] : i \in DOMAIN job[j].turns}}
              \union {SidesOf[e[2]] : e \in job[j].event}
Busy(p) == \E j \in Jobs : p \in Concerns(j)

Put(j, rec) == job' = [job EXCEPT ![j] = rec]
Goes(j, pc) == job' = [job EXCEPT ![j].pc = pc]

(* One owner is served: the other side of the pair, or the next pair.  The *)
(* history notes what was wanted, and the pairs it was not done for.       *)
Turn(j, failed) ==
  LET rest == Tail(job[j].turns)
      pc   == IF rest = << >> THEN "next" ELSE IF job[j].what = "in" THEN "ensure" ELSE "find"
  IN /\ Put(j, IF rest = << >> /\ job[j].todo = {} THEN Idle
               ELSE [job[j] EXCEPT !.pc = pc, !.turns = rest, !.room = 0])
     /\ wish' = IF rest = << >> THEN [wish EXCEPT ![PairOf(j)] = job[j].what] ELSE wish
     /\ tangled' = IF failed THEN tangled \union {PairOf(j)} ELSE tangled

(* An exception out of subscribe_pair: the backfill goes on with the next  *)
(* pair, a callback ends.                                                  *)
Abort(j) ==
  /\ Put(j, IF job[j].todo = {} THEN Idle
            ELSE [job[j] EXCEPT !.pc = "next", !.turns = << >>, !.room = 0])
  /\ tangled' = tangled \union {PairOf(j)}
  /\ UNCHANGED wish

-----------------------------------------------------------------------------
(* _on_new_event *)

(* A join or a leave of a DM is persisted, and its callback begins.        *)
Event(j, u, dm, what) ==
  /\ At(j, "idle") /\ dm \in left.dms /\ Spend("events")
  /\ Put(j, [Idle EXCEPT !.pc = "start", !.what = what, !.event = {<<u, dm>>}])
  /\ tangled' = IF Busy(SidesOf[dm]) THEN tangled \union {SidesOf[dm]} ELSE tangled
  /\ UNCHANGED <<direct, rooms, rules, wish, doubled, client, expiry>>

JoinDM(j, u, dm) ==
  /\ u \in SidesOf[dm] \ in[dm]
  /\ in' = [in EXCEPT ![dm] = @ \union {u}]
  /\ Event(j, u, dm, "in")

LeaveDM(j, u, dm) ==
  /\ u \in in[dm]
  /\ in' = [in EXCEPT ![dm] = @ \ {u}]
  /\ Event(j, u, dm, "out")

(* The members the callback sees; without others there is nothing to do.   *)
Start(j) ==
  /\ At(j, "start")
  /\ \E e \in job[j].event :
       Put(j, IF in[e[2]] \ {e[1]} = {} THEN Idle
              ELSE [job[j] EXCEPT !.pc = IF job[j].what = "in" THEN "next" ELSE "gate",
                                  !.event = IF job[j].what = "in" THEN {} ELSE @,
                                  !.todo = {SidesOf[e[2]]}])
  /\ UNCHANGED <<matrix, rooms, rules, history, client, expiry, left>>

(* _room_is_registered_dm: only a local user who lists the room in         *)
(* m.direct is unsubscribed.                                               *)
Gate(j) ==
  /\ At(j, "gate")
  /\ \E e \in job[j].event :
       Put(j, IF e[1] \in Local /\ e[2] \in direct[e[1]]
                THEN [job[j] EXCEPT !.pc = "next", !.event = {}] ELSE Idle)
  /\ UNCHANGED <<matrix, rooms, rules, history, client, expiry, left>>

-----------------------------------------------------------------------------
(* subscribe_pair, unsubscribe_pair *)

(* The next pair; _is_ai_user leaves bots out, and takes a user whose role *)
(* cannot be read for a human.                                             *)
TakePair(j, p, a) ==
  /\ At(j, "next") /\ p \in job[j].todo /\ a \in p
  /\ \E ai \in {AiNames \union AiRoles} \union (IF left.faults > 0 THEN {AiNames} ELSE {}) :
       /\ left' = IF ai = AiNames \union AiRoles THEN left ELSE [left EXCEPT !.faults = @ - 1]
       /\ Put(j, IF job[j].what = "in" /\ p \intersect ai # {}
                   THEN IF job[j].todo = {p} THEN Idle ELSE [job[j] EXCEPT !.todo = @ \ {p}]
                   ELSE [job[j] EXCEPT !.pc = IF job[j].what = "in" THEN "ensure" ELSE "find",
                                       !.todo = @ \ {p},
                                       !.turns = LET b == CHOOSE x \in p : x # a
                                                 IN <<<<a, b>>, <<b, a>>>>])
  /\ UNCHANGED <<matrix, rooms, rules, history, client, expiry>>

(* The room of u is being made, by another job or by a client.             *)
BeingMade(u) == client[u] # {} \/ \E i \in Jobs : job[i].pc \in {"create", "tag"} /\ Owner(i) = u

(* ensure_stories_room: the room in account data, or a new one; a read     *)
(* that fails raises.                                                      *)
\* Fault: a guest of a room that exists is not muted.
Ensure_Loud(j) ==
  /\ At(j, "ensure")
  /\ \/ Owner(j) \notin Local /\ Turn(j, FALSE) /\ UNCHANGED <<doubled, left>>
     \/ /\ Owner(j) \in Local /\ tag[Owner(j)] # {}
        /\ \E r \in tag[Owner(j)] : Put(j, [job[j] EXCEPT !.pc = "invite", !.room = r])
        /\ UNCHANGED <<history, left>>
     \/ /\ Owner(j) \in Local /\ tag[Owner(j)] = {}
        /\ Goes(j, "create")
        /\ doubled' = IF BeingMade(Owner(j)) THEN doubled \union {Owner(j)} ELSE doubled
        /\ UNCHANGED <<wish, tangled, left>>
     \/ Owner(j) \in Local /\ Spend("faults") /\ Abort(j) /\ UNCHANGED doubled
  /\ UNCHANGED <<matrix, rooms, rules, client, expiry>>
Ensure(j) ==
  /\ At(j, "ensure")
  /\ \/ Owner(j) \notin Local /\ Turn(j, FALSE) /\ UNCHANGED <<doubled, left>>
     \/ /\ Owner(j) \in Local /\ tag[Owner(j)] # {}
        /\ \E r \in tag[Owner(j)] : Put(j, [job[j] EXCEPT !.pc = "mute", !.room = r])
        /\ UNCHANGED <<history, left>>
     \/ /\ Owner(j) \in Local /\ tag[Owner(j)] = {}
        /\ Goes(j, "create")
        /\ doubled' = IF BeingMade(Owner(j)) THEN doubled \union {Owner(j)} ELSE doubled
        /\ UNCHANGED <<wish, tangled, left>>
     \/ Owner(j) \in Local /\ Spend("faults") /\ Abort(j) /\ UNCHANGED doubled
  /\ UNCHANGED <<matrix, rooms, rules, client, expiry>>

Create(j) ==
  /\ At(j, "create")
  /\ \/ /\ Cardinality(Made) < MaxRooms
        /\ LET r == Cardinality(Made) + 1 IN
             /\ owner' = [owner EXCEPT ![r] = {Owner(j)}]
             /\ Put(j, [job[j] EXCEPT !.pc = "tag", !.room = r])
        /\ UNCHANGED <<wish, tangled, left>>
     \/ Spend("faults") /\ Abort(j) /\ UNCHANGED owner
  /\ UNCHANGED <<matrix, tag, audience, rules, doubled, client, expiry>>

\* Fault: the id of the new room is not stored.
StoreTag_Skipped(j) ==
  /\ At(j, "tag")
  /\ Goes(j, "mute")
  /\ UNCHANGED <<matrix, rooms, rules, history, client, expiry, left>>
StoreTag(j) ==
  /\ At(j, "tag")
  /\ \/ /\ tag' = [tag EXCEPT ![Owner(j)] = {job[j].room}]
        /\ Goes(j, "mute")
        /\ UNCHANGED <<history, left>>
     \/ Spend("faults") /\ Abort(j) /\ doubled' = doubled \union {Owner(j)} /\ UNCHANGED tag
  /\ UNCHANGED <<matrix, owner, audience, rules, client, expiry>>

(* _mute_room_for_local_user, then _ensure_story_notify_rule; an error is  *)
(* logged and passed over.                                                 *)
\* Fault: rules are written for remote guests too.
Mute_Remote(j) ==
  /\ At(j, "mute")
  /\ Goes(j, "rule")
  /\ muted' = muted \union {<<Guest(j), job[j].room>>}
  /\ UNCHANGED <<matrix, rooms, notifying, loud, history, client, expiry, left>>
Mute(j) ==
  /\ At(j, "mute")
  /\ LET rule == <<Guest(j), job[j].room>> IN
       \/ Guest(j) \notin Local /\ Goes(j, "invite") /\ UNCHANGED <<rules, left>>
       \/ /\ Guest(j) \in Local /\ Goes(j, "rule")
          /\ \/ muted' = muted \union {rule} /\ UNCHANGED <<loud, left>>
             \/ loud' = loud \union {rule} /\ Spend("faults") /\ UNCHANGED muted
          /\ UNCHANGED notifying
  /\ UNCHANGED <<matrix, rooms, history, client, expiry>>

NotifyRule(j) ==
  /\ At(j, "rule") /\ Goes(j, "invite")
  /\ \/ notifying' = notifying \union {<<Guest(j), job[j].room>>} /\ UNCHANGED left
     \/ Spend("faults") /\ UNCHANGED notifying
  /\ UNCHANGED <<matrix, rooms, muted, loud, history, client, expiry>>

(* An invite that fails is passed over.                                    *)
Invite(j) ==
  /\ At(j, "invite")
  /\ \/ audience' = [audience EXCEPT ![job[j].room] = @ \union {Guest(j)}] /\ Turn(j, FALSE) /\ UNCHANGED left
     \/ Spend("faults") /\ Turn(j, TRUE) /\ UNCHANGED audience
  /\ UNCHANGED <<matrix, tag, owner, rules, doubled, client, expiry>>

(* The client of u finds no room in the account data it has synced, which  *)
(* may lag behind, and creates one; it stores the id, over any other, and  *)
(* mutes the room.                                                         *)
ClientCreates(u) ==
  /\ Spend("clients") /\ Cardinality(Made) < MaxRooms
  /\ LET r == Cardinality(Made) + 1 IN
       /\ owner' = [owner EXCEPT ![r] = {u}]
       /\ client' = [client EXCEPT ![u] = @ \union {r}]
  /\ doubled' = IF tag[u] # {} \/ BeingMade(u) THEN doubled \union {u} ELSE doubled
  /\ UNCHANGED <<matrix, tag, audience, rules, wish, tangled, expiry, job>>

ClientStores(u, r) ==
  /\ r \in client[u]
  /\ client' = [client EXCEPT ![u] = @ \ {r}]
  /\ \/ /\ tag' = [tag EXCEPT ![u] = {r}]
        /\ muted' \in {muted, muted \union {<<u, r>>}}
        /\ UNCHANGED <<doubled, left>>
     \/ Spend("faults") /\ doubled' = doubled \union {u} /\ UNCHANGED <<tag, muted>>
  /\ UNCHANGED <<matrix, owner, audience, notifying, loud, wish, tangled, expiry, job>>

(* _leave_owner_room: no room is made; a failure is passed over.           *)
Find(j) ==
  /\ At(j, "find")
  /\ \/ /\ Owner(j) \notin Local \/ tag[Owner(j)] = {}
        /\ Turn(j, FALSE) /\ UNCHANGED left
     \/ /\ Owner(j) \in Local
        /\ \E r \in tag[Owner(j)] : Put(j, [job[j] EXCEPT !.pc = "kick", !.room = r])
        /\ UNCHANGED <<wish, tangled, left>>
     \/ Owner(j) \in Local /\ Spend("faults") /\ Turn(j, TRUE)
  /\ UNCHANGED <<matrix, rooms, rules, doubled, client, expiry>>

\* Fault: only the first side of a pair is removed.
Kick_OneSide(j) ==
  /\ At(j, "kick")
  /\ audience' = [audience EXCEPT ![job[j].room] = @ \ {Guest(j)}]
  /\ Put(j, Idle)
  /\ wish' = [wish EXCEPT ![PairOf(j)] = "out"]
  /\ UNCHANGED <<matrix, tag, owner, rules, tangled, doubled, client, expiry, left>>
Kick(j) ==
  /\ At(j, "kick")
  /\ \/ audience' = [audience EXCEPT ![job[j].room] = @ \ {Guest(j)}] /\ Turn(j, FALSE) /\ UNCHANGED left
     \/ Spend("faults") /\ Turn(j, TRUE) /\ UNCHANGED audience
  /\ UNCHANGED <<matrix, tag, owner, rules, doubled, client, expiry>>

-----------------------------------------------------------------------------
(* Start of the process *)

(* _find_dm_pairs_txn: pairs of a DM that a local user lists in m.direct   *)
(* and in which a local user, either of the two, is; without those of      *)
(* servers out of reach.                                                   *)
DmPairs ==
  {p \in Pairs : p \subseteq Reachable /\ \E u \in Local \intersect p, dm \in DMs :
     dm \in direct[u] /\ SidesOf[dm] = p /\ in[dm] \intersect Local # {}}

(* _find_stories_room_members_txn, without creators and remote users.      *)
ToMute == {e \in Local \X Rooms : e[1] \in audience[e[2]] /\ owner[e[2]] # {e[1]}}

(* The process dies and starts: backfill_existing_dms, unless its query    *)
(* fails, and mute_existing_stories_rooms.  A pair the backfill brings     *)
(* back after its DM was left, or that it does not take up, is tangled.    *)
Restart(i, j) ==
  /\ i # j /\ Spend("restarts")
  /\ \E found \in {DmPairs, {}} :
       /\ job' = [k \in Jobs |->
            CASE k = i /\ found # {} -> [Idle EXCEPT !.pc = "next", !.todo = found]
              [] k = j /\ ToMute # {} -> [Idle EXCEPT !.pc = "sweep", !.list = ToMute]
              [] OTHER -> Idle]
       /\ tangled' = tangled \union {p \in found : wish[p] = "out"}
                             \union {p \in Pairs : Busy(p) /\ p \notin found}
                             \union {p \in found : \E k \in Jobs : p \in Concerns(k) /\ job[k].what = "out"}
  /\ doubled' = doubled \union {Owner(k) : k \in {x \in Jobs : At(x, "tag")}}
  /\ armed' = TRUE
  /\ UNCHANGED <<matrix, rooms, client, rules, wish, story>>

(* mute_existing_stories_rooms, one member: both rules.                    *)
Sweep(j, e) ==
  /\ At(j, "sweep") /\ e \in job[j].list
  /\ Put(j, IF job[j].list = {e} THEN Idle ELSE [job[j] EXCEPT !.list = @ \ {e}])
  /\ \/ /\ muted' = muted \union {e} /\ notifying' = notifying \union {e}
        /\ loud' = loud \ {e}
        /\ UNCHANGED left
     \/ Spend("faults") /\ UNCHANGED rules
  /\ UNCHANGED <<matrix, rooms, history, client, expiry>>

-----------------------------------------------------------------------------
(* Stories and their expiry *)

Post(s) ==
  /\ story[s] = "none" /\ Spend("stories")
  /\ story' = [story EXCEPT ![s] = "live"]
  /\ UNCHANGED <<matrix, rooms, client, rules, history, armed, job>>

Expire(s) ==
  /\ story[s] = "live"
  /\ story' = [story EXCEPT ![s] = "expired"]
  /\ UNCHANGED <<matrix, rooms, client, rules, history, armed, job, left>>

(* _find_expired_stories_txn: expired and not redacted, whoever sent it.   *)
Expired == {s \in Stories : story[s] = "expired"}

(* The timer fires and is set again in any case; the query or its start    *)
(* may fail.  A round may begin while another is under way; one that finds *)
(* nothing is left out.                                                    *)
\* Fault: the timer is set again only when the round has started.
Round_Unarmed(j) ==
  /\ armed /\ At(j, "idle") /\ Expired # {}
  /\ \/ Put(j, [Idle EXCEPT !.pc = "redact", !.list = Expired]) /\ UNCHANGED <<armed, left>>
     \/ Spend("faults") /\ armed' = FALSE /\ UNCHANGED job
  /\ UNCHANGED <<matrix, rooms, client, rules, history, story>>
Round(j) ==
  /\ armed /\ At(j, "idle") /\ Expired # {}
  /\ \/ Put(j, [Idle EXCEPT !.pc = "redact", !.list = Expired]) /\ UNCHANGED left
     \/ Spend("faults") /\ UNCHANGED job
  /\ armed' = TRUE
  /\ UNCHANGED <<matrix, rooms, client, rules, history, story>>

(* A story is redacted, or the send fails and is left to the next round.   *)
(* In the name of an author of another server it fails in every round.     *)
Redact(j, s) ==
  /\ At(j, "redact") /\ s \in job[j].list
  /\ Put(j, IF job[j].list = {s} THEN Idle ELSE [job[j] EXCEPT !.list = @ \ {s}])
  /\ \/ s \notin Foreign /\ story' = [story EXCEPT ![s] = "redacted"] /\ UNCHANGED left
     \/ s \notin Foreign /\ Spend("faults") /\ UNCHANGED story
     \/ s \in Foreign /\ UNCHANGED <<story, left>>
  /\ UNCHANGED <<matrix, rooms, client, rules, history, armed>>

(* The client of u adds a DM to m.direct or takes it out.                  *)
List(u, dm) ==
  /\ u \in Local \intersect SidesOf[dm] /\ dm \in left.dms /\ Spend("lists")
  /\ direct' = [direct EXCEPT ![u] = IF dm \in @ THEN @ \ {dm} ELSE @ \union {dm}]
  /\ UNCHANGED <<in, rooms, rules, history, client, expiry, job>>

Work(j) ==
  \/ Start(j) \/ Gate(j) \/ Ensure(j) \/ Create(j) \/ StoreTag(j) \/ Mute(j) \/ NotifyRule(j)
  \/ Invite(j) \/ Find(j) \/ Kick(j)
  \/ \E p \in Pairs : \E a \in p : TakePair(j, p, a)
  \/ \E e \in Local \X Rooms : Sweep(j, e)
  \/ \E s \in Stories : Redact(j, s)

Next ==
  \/ \E j \in Jobs :
       \/ \E dm \in DMs, u \in Users : JoinDM(j, u, dm) \/ LeaveDM(j, u, dm)
       \/ Work(j)
       \/ Round(j)
       \/ \E i \in Jobs : Restart(i, j)
  \/ \E s \in Stories : Post(s) \/ Expire(s)
  \/ \E u \in Users, dm \in DMs : List(u, dm)
  \/ \E u \in Local : ClientCreates(u) \/ \E r \in Rooms : ClientStores(u, r)

(* The reactor resumes every job and fires a timer that is set.            *)
Fairness == (\A j \in Jobs : WF_vars(Work(j))) /\ WF_vars(\E j \in Jobs : Round(j))

Spec == Init /\ [][Next]_vars /\ Fairness

-----------------------------------------------------------------------------
(* A user has one stories room, the one account data names or is about to  *)
(* name, although callbacks, the backfill and the clients of the user all  *)
(* make rooms, except where a client or a job made it while another was    *)
(* there that its reading of account data did not show, or its id was not  *)
(* stored.                                                                 *)
OneRoomPerOwner ==
  \A u \in Local \ doubled :
    \A r \in Made : owner[r] = {u} =>
      tag[u] = {r} \/ r \in client[u] \/ \E j \in Jobs : At(j, "tag") /\ job[j].room = r

(* No local guest is invited to a stories room that could notify him: the  *)
(* mute comes first, whichever job invites, except where it failed and no  *)
(* later start has repeated it.                                            *)
InvitesAreSilent ==
  \A r \in Rooms : \A g \in audience[r] \intersect Local : <<g, r>> \in muted \union loud

(* When the jobs of a pair are done, each of the two who is local has the  *)
(* other in his audience after a join, and in none of his rooms after a    *)
(* leave, also when the process died in between and the backfill took the  *)
(* pair up.  Excepted: pairs with overlapping jobs, failed calls, or owners *)
(* with two rooms, and pairs the backfill brings back.                     *)
AudienceFollowsDms ==
  \A p \in Pairs \ tangled : ~Busy(p) =>
    \A o \in (p \intersect Local) \ doubled : \A g \in p \ {o} :
      /\ wish[p] = "in" => \E r \in tag[o] : g \in audience[r]
      /\ wish[p] = "out" => \A r \in Made : owner[r] = {o} => g \notin audience[r]

(* Every expired story of an author of this server is redacted in the end, *)
(* although sends and queries fail, rounds are cut off and every round also *)
(* meets stories of other servers, which it can never redact.              *)
ExpiredAreRedacted ==
  \A s \in Stories \ Foreign : (story[s] = "expired") ~> (story[s] = "redacted")
=============================================================================
