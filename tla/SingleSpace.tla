----------------------------- MODULE SingleSpace -----------------------------
(***************************************************************************)
(* single_space_guard: a server has one main root space, the company.      *)
(* Creating a second root space and leaving the main one are refused, new  *)
(* groups become children of the main space and direct chats do not, and   *)
(* an optional backfill adds the groups that were there before.            *)
(*                                                                         *)
(* Requests run concurrently, also those of one user, and interleave at    *)
(* every await.  Rooms are numbered in the order of origin_server_ts.      *)
(* room_stats_state follows the rooms with a delay, and has the spaces of  *)
(* other servers too.  Publication and the list of companies of other      *)
(* servers are left out.                                                   *)
(***************************************************************************)
EXTENDS Naturals, FiniteSets

CONSTANTS
  Users,
  Requests,    \* bound: requests at one time
  MaxRooms,    \* bound: rooms
  Bounds       \* instances: what is asked for, auto_add_new, backfill_existing, the
               \* rooms at first, and bounds on requests, upgrades, nestings, remote
               \* spaces, faults and restarts

(* "root" is a space that _on_create_room has admitted, "sub" one that it  *)
(* does not look at: made with m.space.parent, or by upgrading a space.    *)
Spaces == {"root", "sub", "remote"}
Chats  == {"group", "dm"}
Asks   == {"root", "sub", "group", "dm", "leave", "other"}
Kinds  == Spaces \union Chats \union {"none"}
Rooms  == 1..MaxRooms

ASSUME ConstantsAssumption ==
  /\ MaxRooms \in Nat
  /\ Bounds \subseteq [asks: SUBSET Asks, auto: BOOLEAN, backfill: BOOLEAN, at: [Rooms -> Kinds],
                       requests: Nat, upgrades: Nat, nests: Nat, remotes: Nat, faults: Nat, restarts: Nat]
  /\ \A b \in Bounds : \A r, s \in Rooms : b.at[r] = "root" /\ b.at[s] = "root" => r = s

VARIABLES
  kind,        \* kind of each persisted room, "none" before
  stats,       \* rooms in room_stats_state
  children,    \* m.space.child: <<space, room>>
  direct,      \* rooms some user lists in m.direct
  done,        \* backfill_done of single_space_guard_meta
  main,        \* _main_root_space_id, if known
  marks,       \* _pending_dm_senders
  started,     \* _backfill_started
  req,         \* requests: createRoom, a leave or a ban, any other that looks for main
  adds,        \* background processes that add a room: <<space, room>>
  fill,        \* the backfill process
  mains,       \* history: rooms that ever were the main space
  older,       \* history: a space became older than the main one, or that was made a child
  doubled,     \* history: a root was allowed while another was in the making or not in stats
  gone,        \* history: spaces left by a request made after they were the main one
  mixed,       \* history: users whose creations overlapped or failed before the mark was taken,
               \* or who upgraded a direct chat, which sets none
  owed,        \* history: groups, of users not mixed, checked when main was known
  apart,       \* history: direct chats of users not mixed
  missed,      \* history: rooms whose adding failed or was cut off
  early,       \* history: groups, and direct chats not listed yet, that the backfill saw
  left         \* what is left of the bounds

db      == <<kind, stats, children, direct, done>>
known   == <<main, started, fill, mains>>
checks  == <<gone, mixed, owed, apart>>
vars    == <<db, known, marks, req, adds, older, doubled, checks, missed, early, left>>

Pcs    == {"idle", "check", "find", "found", "creator", "persist"}
NoReq  == [pc |-> "idle", root |-> FALSE, ask |-> "other", user |-> {}, room |-> 0, space |-> {},
           old |-> {}, sure |-> FALSE]
NoFill == [pc |-> "idle", space |-> {}, todo |-> {}]
AtMostOne(S) == {{}} \union {{x} : x \in S}

TypeOK ==
  /\ kind \in [Rooms -> Kinds] /\ stats \subseteq {r \in Rooms : kind[r] # "none"}
  /\ children \subseteq {r \in Rooms : kind[r] \in Spaces} \X Rooms
  /\ direct \subseteq Rooms /\ done \in BOOLEAN
  /\ main \in AtMostOne(Rooms) /\ marks \subseteq Users /\ started \in BOOLEAN
  /\ req \in [Requests -> [pc: Pcs, root: BOOLEAN, ask: Asks, user: AtMostOne(Users), room: 0..MaxRooms,
                           space: AtMostOne(Rooms), old: AtMostOne(Rooms), sure: BOOLEAN]]
  /\ adds \subseteq Rooms \X Rooms
  /\ fill \in [pc: {"idle", "meta", "orphans", "add"}, space: AtMostOne(Rooms), todo: SUBSET Rooms]
  /\ mains \union gone \union owed \union apart \union missed \union early \subseteq Rooms
  /\ older \in BOOLEAN /\ doubled \in BOOLEAN /\ mixed \subseteq Users

(* The server starts with the rooms it has.                                *)
Init ==
  /\ left \in Bounds
  /\ kind = left.at /\ stats = {r \in Rooms : kind[r] # "none"}
  /\ children = {} /\ direct = {r \in Rooms : kind[r] = "dm"} /\ done = FALSE
  /\ main = {} /\ marks = {} /\ started = FALSE
  /\ req = [c \in Requests |-> NoReq] /\ adds = {} /\ fill = NoFill
  /\ mains = {} /\ older = FALSE /\ doubled = FALSE /\ gone = {}
  /\ mixed = {} /\ owed = {} /\ apart = direct /\ missed = {} /\ early = {}

-----------------------------------------------------------------------------
Spend(field) == left[field] > 0 /\ left' = [left EXCEPT ![field] = @ - 1]
At(c, pc)    == req[c].pc = pc
Goes(c, pc)  == req' = [req EXCEPT ![c].pc = pc]
Ends(c)      == req' = [req EXCEPT ![c] = NoReq]
InASpace(r)  == \E s \in Rooms : <<s, r>> \in children
Oldest(S)    == {r \in S : \A s \in S : r <= s}
Free         == {r \in Rooms : kind[r] = "none"} \ ({req[c].room : c \in Requests}
                                                   \union {e[2] : e \in adds \union children})
Considered   == mains \union UNION {req[c].space : c \in Requests}

(* _find_main_root_space_txn: the earliest space in the statistics that is *)
(* no child, if any.                                                       *)
\* Fault: the latest one.
MainRoot_Latest ==
  LET roots == {r \in stats : kind[r] \in Spaces /\ ~InASpace(r)}
  IN {r \in roots : \A s \in roots : s <= r}
MainRoot == Oldest({r \in stats : kind[r] \in Spaces /\ ~InASpace(r)})

(* get_main_root_space_id has the answer m: it is kept, and the backfill   *)
(* begins, once in the life of the process.                                *)
Learn(m) ==
  LET begins == m # {} /\ left.backfill /\ ~started
  IN /\ main' = IF m = {} THEN main ELSE m
     /\ mains' = mains \union m
     /\ started' = (started \/ begins)
     /\ fill' = IF begins THEN [NoFill EXCEPT !.pc = "meta", !.space = m] ELSE fill

-----------------------------------------------------------------------------
(* Requests *)

Creating(c) == ~At(c, "idle") /\ req[c].ask \in {"root", "sub", "group", "dm"}

(* _on_create_room: a direct chat marks its creator; a root space needs    *)
(* that there is no main space, and looks for it.                          *)
OnCreateRoom(c, u, ask) ==
  /\ At(c, "idle") /\ ask \in left.asks \ {"leave", "other"} /\ Spend("requests")
  /\ marks' = IF ask = "dm" THEN marks \union {u} ELSE marks
  /\ mixed' = IF \E d \in Requests : u \in req[d].user THEN mixed \union {u}
              ELSE IF u \in marks THEN mixed ELSE mixed \ {u}
  /\ req' = IF ask = "root" /\ main # {} THEN req
            ELSE [req EXCEPT ![c] = [NoReq EXCEPT !.pc = IF ask = "root" THEN "find" ELSE "check",
                                                   !.root = (ask = "root"), !.ask = ask, !.user = {u}]]
  /\ UNCHANGED <<db, known, adds, older, doubled, gone, owed, apart, missed, early>>

(* clone_existing_room: room r is upgraded.  The new room has its type and *)
(* is created without _on_create_room, so it is neither checked nor marked. *)
Upgrade(c, u, r) ==
  /\ At(c, "idle") /\ kind[r] # "none" /\ Spend("upgrades")
  /\ mixed' = IF kind[r] = "dm" \/ \E d \in Requests : u \in req[d].user THEN mixed \union {u}
              ELSE IF u \in marks THEN mixed ELSE mixed \ {u}
  /\ req' = [req EXCEPT ![c] = [NoReq EXCEPT !.pc = "check", !.user = {u}, !.old = {r},
                                             !.ask = IF kind[r] \in Spaces THEN "sub" ELSE kind[r]]]
  /\ UNCHANGED <<db, known, marks, adds, older, doubled, gone, owed, apart, missed, early>>

(* A leave or a ban from space s, or another event or request.             *)
OnEvent(c, ask, s) ==
  /\ At(c, "idle") /\ ask \in left.asks \intersect {"leave", "other"} /\ Spend("requests")
  /\ IF ask = "leave" THEN kind[s] \in Spaces ELSE s = 1
  /\ req' = [req EXCEPT ![c] = [NoReq EXCEPT !.pc = "check", !.ask = ask,
                                             !.room = IF ask = "leave" THEN s ELSE 0,
                                             !.sure = ask = "leave" /\ s \in mains]]
  /\ UNCHANGED <<db, known, marks, adds, older, doubled, checks, missed, early>>

(* _check_event_allowed once m is the main space, or it has none.  The     *)
(* mark goes whatever comes of the room.                                   *)
Direct(c) == req[c].user \subseteq marks
Candidate(c, m) == left.auto /\ m # {} /\ ~Direct(c) /\ req[c].ask \in Chats
\* Fault: the mark stays while there is no main space.
Unmark_IfMain(c, m) == IF m = {} THEN marks ELSE marks \ req[c].user
Unmark(c, m)  == marks \ req[c].user
AllowCreate(c, m) ==
  LET clear == req[c].user \intersect mixed = {}
  IN \E n \in Oldest(Free) :
       /\ marks' = Unmark(c, m)
       /\ req' = [req EXCEPT ![c].room = n, ![c].space = m, ![c].root = FALSE,
                             ![c].pc = IF Candidate(c, m) THEN "creator" ELSE "persist"]
       /\ owed' = IF clear /\ left.auto /\ m # {} /\ req[c].ask = "group" THEN owed \union {n} ELSE owed
       /\ apart' = IF clear /\ req[c].ask = "dm" THEN apart \union {n} ELSE apart
       /\ UNCHANGED <<gone, mixed>>

(* is_protected_membership_change refuses the leave or the ban.            *)
Protected(c, m) == req[c].ask = "leave" /\ req[c].room \in m
AllowEvent(c, m) ==
  /\ gone' = IF req[c].sure /\ ~Protected(c, m) THEN gone \union {req[c].room} ELSE gone
  /\ Ends(c)
  /\ UNCHANGED <<marks, mixed, owed, apart>>
Checked(c, m) == IF Creating(c) THEN AllowCreate(c, m) ELSE AllowEvent(c, m)

CheckEvent(c) ==
  /\ At(c, "check")
  /\ IF main # {} THEN Checked(c, main) ELSE Goes(c, "find") /\ UNCHANGED <<marks, checks>>
  /\ UNCHANGED <<db, known, adds, older, doubled, missed, early, left>>

FindMain(c) ==
  /\ At(c, "find")
  /\ req' = [req EXCEPT ![c].pc = "found", ![c].space = MainRoot]
  /\ doubled' = (doubled \/ (req[c].root /\ MainRoot = {}
                              /\ \/ \E r \in Rooms \ stats : kind[r] = "root"
                                 \/ \E d \in Requests \ {c} : req[d].ask = "root"))
  /\ UNCHANGED <<db, known, marks, adds, older, checks, missed, early, left>>

(* The answer arrives, in _on_create_room or in _check_event_allowed.      *)
\* Fault: a root space is not refused when it is the request that finds the main space.
FoundMain_NotRefused(c) ==
  /\ At(c, "found")
  /\ Learn(req[c].space)
  /\ IF req[c].root
       THEN req' = [req EXCEPT ![c].pc = "check", ![c].space = {}, ![c].root = FALSE] /\ UNCHANGED <<marks, checks>>
       ELSE Checked(c, req[c].space)
  /\ UNCHANGED <<db, adds, older, doubled, missed, early, left>>
FoundMain(c) ==
  /\ At(c, "found")
  /\ Learn(req[c].space)
  /\ IF req[c].root
       THEN /\ req' = [req EXCEPT ![c] = IF @.space # {} THEN NoReq
                                         ELSE [@ EXCEPT !.pc = "check", !.root = FALSE]]
            /\ UNCHANGED <<marks, checks>>
       ELSE Checked(c, req[c].space)
  /\ UNCHANGED <<db, adds, older, doubled, missed, early, left>>

(* The creator of the main space is read; the adding runs by itself, while *)
(* the room is still being made.  A main space that was purged has none,   *)
(* and the room is not added.                                              *)
Creator(c) ==
  /\ At(c, "creator")
  /\ \/ /\ adds' = adds \union {<<m, req[c].room>> : m \in req[c].space}
        /\ UNCHANGED <<missed, left>>
     \/ missed' = missed \union {req[c].room} /\ Spend("faults") /\ UNCHANGED adds
  /\ Goes(c, "persist")
  /\ UNCHANGED <<db, known, marks, older, doubled, checks, early>>

(* The room is there; one that replaces a space has its children too.      *)
Copied(c) == {<<req[c].room, e[2]>> : e \in {x \in children : req[c].ask \in Spaces /\ x[1] \in req[c].old}}
Persist(c) ==
  /\ At(c, "persist")
  /\ kind' = [kind EXCEPT ![req[c].room] = req[c].ask]
  /\ children' = children \union Copied(c)
  /\ Ends(c)
  /\ UNCHANGED <<stats, direct, done, known, marks, adds, older, doubled, checks, missed,
                 early, left>>

(* Something else refuses the room or fails, before or after the check.    *)
Refuse(c) ==
  /\ Creating(c) /\ req[c].pc \in {"check", "persist"} /\ ~req[c].root /\ Spend("faults")
  /\ owed' = owed \ {req[c].room} /\ apart' = apart \ {req[c].room}
  /\ mixed' = IF At(c, "check") THEN mixed \union req[c].user ELSE mixed
  /\ Ends(c)
  /\ UNCHANGED <<db, known, marks, adds, older, doubled, gone, missed, early>>

-----------------------------------------------------------------------------
(* Adding rooms to the main space *)

(* _add_room_to_main_space: an event into the space, or a logged failure.  *)
(* A space of another server has a creator that cannot send from here.     *)
\* Fault: room_id and state_key are swapped.
Child_Swapped(s, r) == <<r, s>>
Child(s, r) == <<s, r>>
AddTo(s, r) ==
  \/ kind[s] # "remote" /\ children' = children \union {Child(s, r)} /\ UNCHANGED <<missed, left>>
  \/ kind[s] = "remote" /\ missed' = missed \union {r} /\ UNCHANGED <<children, left>>
  \/ missed' = missed \union {r} /\ Spend("faults") /\ UNCHANGED children

AddRoom(s, r) ==
  /\ <<s, r>> \in adds /\ adds' = adds \ {<<s, r>>}
  /\ AddTo(s, r)
  /\ UNCHANGED <<kind, stats, direct, done, known, marks, req, older, doubled, checks, early>>

(* _maybe_backfill: the flag in the database, the rooms, one at a time,    *)
(* the flag again.                                                         *)
ReadMeta ==
  /\ fill.pc = "meta"
  /\ fill' = IF done THEN NoFill ELSE [fill EXCEPT !.pc = "orphans"]
  /\ UNCHANGED <<db, main, started, mains, marks, req, adds, older, doubled, checks, missed, early, left>>

(* _orphan_rooms_txn: groups in no space; a direct chat counts as a group  *)
(* until m.direct lists it.                                                *)
\* Fault: m.direct is not consulted.
Orphans_Direct == {r \in stats : kind[r] \in Chats /\ ~InASpace(r)}
Orphans == {r \in stats \ direct : kind[r] \in Chats /\ ~InASpace(r)}
ReadOrphans ==
  /\ fill.pc = "orphans"
  /\ fill' = [fill EXCEPT !.pc = "add", !.todo = Orphans]
  /\ early' = early \union {r \in stats \ direct : kind[r] \in Chats}
  /\ UNCHANGED <<db, main, started, mains, marks, req, adds, older, doubled, checks, missed, left>>

FillRoom(r) ==
  /\ fill.pc = "add" /\ r \in fill.todo
  /\ fill' = [fill EXCEPT !.todo = @ \ {r}]
  /\ \E s \in fill.space : AddTo(s, r)
  /\ UNCHANGED <<kind, stats, direct, done, main, started, mains, marks, req, adds, older, doubled,
                 checks, early>>

\* Fault: the flag is set before the rooms are added.
SetMeta_First ==
  /\ fill.pc = "add" /\ ~done
  /\ done' = TRUE
  /\ UNCHANGED <<kind, stats, children, direct, known, marks, req, adds, older, doubled, checks,
                 missed, early, left>>
SetMeta ==
  /\ fill.pc = "add" /\ fill.todo = {}
  /\ done' = TRUE /\ fill' = NoFill
  /\ UNCHANGED <<kind, stats, children, direct, main, started, mains, marks, req, adds, older,
                 doubled, checks, missed, early, left>>

(* A transaction of the backfill fails, and with it the process.           *)
FillFails ==
  /\ fill.pc # "idle" /\ Spend("faults")
  /\ fill' = NoFill
  /\ UNCHANGED <<db, main, started, mains, marks, req, adds, older, doubled, checks, missed, early>>

-----------------------------------------------------------------------------
(* Statistics, clients, the process *)

UpdateStats(r) ==
  /\ kind[r] # "none" /\ r \notin stats /\ stats' = stats \union {r}
  /\ older' = (older \/ (kind[r] \in Spaces /\ \E m \in Considered : r < m))
  /\ UNCHANGED <<kind, children, direct, done, known, marks, req, adds, doubled, checks, missed,
                 early, left>>

(* The client lists the direct chat it has made.                           *)
ListDirect(r) ==
  /\ kind[r] = "dm" /\ r \notin direct /\ direct' = direct \union {r}
  /\ UNCHANGED <<kind, stats, children, done, known, marks, req, adds, older, doubled, checks,
                 missed, early, left>>

(* A user joins a space of another server.                                 *)
JoinRemote(r) ==
  /\ r \in Free /\ Spend("remotes")
  /\ kind' = [kind EXCEPT ![r] = "remote"]
  /\ UNCHANGED <<stats, children, direct, done, known, marks, req, adds, older, doubled, checks,
                 missed, early>>

(* A user makes space r a child of space s.                                *)
Nest(s, r) ==
  /\ s # r /\ {kind[s], kind[r]} \subseteq Spaces /\ Spend("nests")
  /\ children' = children \union {<<s, r>>}
  /\ older' = (older \/ r \in Considered)
  /\ UNCHANGED <<kind, stats, direct, done, known, marks, req, adds, doubled, checks, missed, early>>

(* The process dies and starts: what is not in the database is gone.       *)
Restart ==
  /\ Spend("restarts")
  /\ main' = {} /\ marks' = {} /\ started' = FALSE /\ fill' = NoFill
  /\ req' = [c \in Requests |-> NoReq] /\ adds' = {}
  /\ missed' = missed \union {e[2] : e \in adds}
  /\ LET unmade == {req[c].room : c \in {d \in Requests : Creating(d)}}
     IN owed' = owed \ unmade /\ apart' = apart \ unmade
  /\ mixed' = {}
  /\ UNCHANGED <<db, mains, older, doubled, gone, early>>

Next ==
  \/ \E c \in Requests :
       \/ \E u \in Users, ask \in Asks : OnCreateRoom(c, u, ask)
       \/ \E u \in Users, r \in Rooms : Upgrade(c, u, r)
       \/ \E ask \in Asks, s \in Rooms : OnEvent(c, ask, s)
       \/ CheckEvent(c) \/ FindMain(c) \/ FoundMain(c) \/ Creator(c) \/ Persist(c) \/ Refuse(c)
  \/ \E s, r \in Rooms : AddRoom(s, r) \/ Nest(s, r)
  \/ ReadMeta \/ ReadOrphans \/ SetMeta \/ FillFails
  \/ \E r \in Rooms : FillRoom(r) \/ UpdateStats(r) \/ ListDirect(r) \/ JoinRemote(r)
  \/ Restart

Spec == Init /\ [][Next]_vars

-----------------------------------------------------------------------------
(* Properties *)

(* The module's root-spaces: spaces that are no child.                     *)
RootSpaces == {r \in Rooms : kind[r] \in Spaces /\ ~InASpace(r)}

(* _on_create_room: at most one root-space has come through its check, un- *)
(* less one was checked while another was being made or was not yet in the *)
(* statistics; neither a restart nor the nesting of spaces, the company's  *)
(* included, lets a second one through.  The check is not the only way to  *)
(* a root-space: a space made with m.space.parent that is never made a     *)
(* child, the upgrade of a space and a space of another server do not pass *)
(* it, although the module promises exactly one.                           *)
OneRoot == doubled \/ Cardinality({r \in RootSpaces : kind[r] = "root"}) <= 1

(* get_main_root_space_id: overlapping lookups and lookups after a restart *)
(* give one and the same main space, and nobody leaves it once it has been *)
(* known, although the process may have forgotten it, as long as no older  *)
(* space turns up and it is not made a child.                              *)
MainIsStable == older \/ (Cardinality(mains) <= 1 /\ gone = {})

(* A direct chat is never put into a space of the company, unless its      *)
(* creator made two rooms at once, one of them failed in between, it is    *)
(* the upgrade of another, or the backfill came before m.direct.           *)
DmStaysOut == \A e \in children : e[2] \notin apart \/ e[2] \in early

(* A group made when the main space is known is its child, or is being     *)
(* added, or its adding has failed.  The mark of a direct chat hides it    *)
(* only if the creations overlapped or that of the direct chat failed.     *)
GroupsAreListed ==
  \A r \in owed : kind[r] = "group" => InASpace(r) \/ r \in missed \/ \E e \in adds : e[2] = r

(* _maybe_backfill: with backfill_done set every group it saw is in a      *)
(* space or has failed, whatever the crashes and retries before.           *)
BackfillCompletes ==
  done => \A r \in early : kind[r] = "group" => InASpace(r) \/ r \in missed
=============================================================================
