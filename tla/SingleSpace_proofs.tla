------------------------- MODULE SingleSpace_proofs -------------------------
(***************************************************************************)
(* Proofs about single_space_guard, for any number of users, requests,     *)
(* rooms, faults and restarts.                                             *)
(*                                                                         *)
(* First, what each action does to the fields of a request and of the      *)
(* backfill.  Then the parts of the inductive invariant, each with a lemma *)
(* for the steps of requests and one for the other steps:                  *)
(*   Types       every variable has its type;                              *)
(*   KindsInv    a room in the making belongs to one request, and what is  *)
(*               added to a space is no space;                             *)
(*   MainInv     all answers about the main space that are in use agree;   *)
(*   RootInv     one admitted root-space, or one request that may make it; *)
(*   MarkInv     a user's mark tells what the creation at hand makes;      *)
(*   DmInv       no direct chat is on its way into a space;                *)
(*   OwedInv     a group is listed, failed, or on its way;                 *)
(*   FillInv     the running backfill has forgotten no group.              *)
(***************************************************************************)
EXTENDS SingleSpace, FiniteSetTheorems, WellFoundedInduction, TLAPS

ReqType == [pc: Pcs, root: BOOLEAN, ask: Asks, user: AtMostOne(Users), room: 0..MaxRooms,
            space: AtMostOne(Rooms), old: AtMostOne(Rooms), sure: BOOLEAN]
FillType == [pc: {"idle", "meta", "orphans", "add"}, space: AtMostOne(Rooms), todo: SUBSET Rooms]

DbTypes ==
  /\ kind \in [Rooms -> Kinds] /\ stats \subseteq {r \in Rooms : kind[r] # "none"}
  /\ children \subseteq {r \in Rooms : kind[r] \in Spaces} \X Rooms
  /\ direct \subseteq Rooms /\ done \in BOOLEAN

ProcessTypes ==
  /\ main \in AtMostOne(Rooms) /\ marks \subseteq Users /\ started \in BOOLEAN
  /\ req \in [Requests -> ReqType]
  /\ adds \subseteq Rooms \X Rooms
  /\ fill \in FillType

HistoryTypes ==
  /\ mains \subseteq Rooms /\ gone \subseteq Rooms /\ owed \subseteq Rooms /\ apart \subseteq Rooms
  /\ missed \subseteq Rooms /\ early \subseteq Rooms
  /\ older \in BOOLEAN /\ doubled \in BOOLEAN /\ mixed \subseteq Users

Types == DbTypes /\ ProcessTypes /\ HistoryTypes

LEMMA TypesAreTypeOK == Types => TypeOK
BY DEF TypeOK, Types, DbTypes, ProcessTypes, HistoryTypes, ReqType, FillType

(* A value that may be absent. *)
LEMMA AtMostOneFacts ==
  ASSUME NEW S
  PROVE  /\ {} \in AtMostOne(S)
         /\ \A x \in S : {x} \in AtMostOne(S)
         /\ \A M \in AtMostOne(S) : M \subseteq S
         /\ \A M \in AtMostOne(S) : \A x, y \in M : x = y
BY DEF AtMostOne

-----------------------------------------------------------------------------
(* How a step changes a request *)

(* Request c gets these fields, the others stay as they are. *)
Becomes(c, pc, root, ask, user, room, space, sure) ==
  /\ \A e \in Requests : e # c => req'[e] = req[e]
  /\ req'[c].pc = pc /\ req'[c].root = root /\ req'[c].ask = ask /\ req'[c].user = user
  /\ req'[c].room = room /\ req'[c].space = space /\ req'[c].sure = sure

LEMMA EndsFacts ==
  ASSUME Types, NEW c \in Requests, Ends(c)
  PROVE  Becomes(c, "idle", FALSE, "other", {}, 0, {}, FALSE) /\ req' \in [Requests -> ReqType]
<1>1. NoReq \in ReqType
  BY AtMostOneFacts, ConstantsAssumption DEF NoReq, ReqType, Pcs, Asks
<1>2. Becomes(c, "idle", FALSE, "other", {}, 0, {}, FALSE)
  BY DEF Ends, NoReq, Becomes, Types, ProcessTypes
<1> QED BY <1>1, <1>2 DEF Ends, Types, ProcessTypes

LEMMA ReqFields ==
  ASSUME Types, NEW c \in Requests
  PROVE  /\ req[c].pc \in Pcs /\ req[c].root \in BOOLEAN /\ req[c].ask \in Asks
         /\ req[c].user \in AtMostOne(Users) /\ req[c].room \in 0..MaxRooms
         /\ req[c].space \in AtMostOne(Rooms) /\ req[c].sure \in BOOLEAN
BY DEF Types, ProcessTypes, ReqType

LEMMA GoesFacts ==
  ASSUME Types, NEW c \in Requests, NEW to \in Pcs, Goes(c, to)
  PROVE  /\ Becomes(c, to, req[c].root, req[c].ask, req[c].user, req[c].room, req[c].space, req[c].sure)
         /\ req' \in [Requests -> ReqType]
<1>1. req' = [req EXCEPT ![c].pc = to] /\ req \in [Requests -> ReqType]
  BY DEF Goes, Types, ProcessTypes
<1>2. Becomes(c, to, req[c].root, req[c].ask, req[c].user, req[c].room, req[c].space, req[c].sure)
  BY <1>1, Zenon DEF Becomes, ReqType
<1>3. req' \in [Requests -> ReqType]
  BY <1>1, Zenon DEF ReqType
<1> QED BY <1>2, <1>3

LEMMA FindFacts ==
  ASSUME Types, NEW c \in Requests, NEW m \in AtMostOne(Rooms),
         req' = [req EXCEPT ![c].pc = "found", ![c].space = m]
  PROVE  /\ Becomes(c, "found", req[c].root, req[c].ask, req[c].user, req[c].room, m, req[c].sure)
         /\ req' \in [Requests -> ReqType]
<1>1. req \in [Requests -> ReqType] /\ "found" \in Pcs
  BY DEF Types, ProcessTypes, Pcs
<1>2. Becomes(c, "found", req[c].root, req[c].ask, req[c].user, req[c].room, m, req[c].sure)
  BY <1>1, Zenon DEF Becomes, ReqType
<1>3. req' \in [Requests -> ReqType]
  BY <1>1, Zenon DEF ReqType
<1> QED BY <1>2, <1>3

LEMMA AllowFacts ==
  ASSUME Types, NEW c \in Requests, NEW n \in 0..MaxRooms, NEW m \in AtMostOne(Rooms), NEW to \in Pcs,
         req' = [req EXCEPT ![c].room = n, ![c].space = m, ![c].root = FALSE, ![c].pc = to]
  PROVE  /\ Becomes(c, to, FALSE, req[c].ask, req[c].user, n, m, req[c].sure)
         /\ req' \in [Requests -> ReqType]
<1>1. req \in [Requests -> ReqType]
  BY DEF Types, ProcessTypes
<1>2. Becomes(c, to, FALSE, req[c].ask, req[c].user, n, m, req[c].sure)
  BY <1>1, Zenon DEF Becomes, ReqType
<1>3. req' \in [Requests -> ReqType]
  <2> DEFINE f == [req EXCEPT ![c].room = n, ![c].space = m]
             g == [f EXCEPT ![c].root = FALSE, ![c].pc = to]
  <2>1. f \in [Requests -> ReqType]
    BY <1>1, Zenon DEF ReqType
  <2>2. g \in [Requests -> ReqType]
    <3> HIDE DEF f
    <3> QED BY <2>1, Zenon DEF ReqType
  <2>3. req' = g
    BY Zenon
  <2> QED BY <2>2, <2>3
<1> QED BY <1>2, <1>3

LEMMA BeginFacts ==
  ASSUME Types, NEW c \in Requests, NEW u \in Users, NEW ask \in Asks, NEW to \in Pcs, NEW root \in BOOLEAN,
         req' = [req EXCEPT ![c] = [NoReq EXCEPT !.pc = to, !.root = root, !.ask = ask, !.user = {u}]]
  PROVE  Becomes(c, to, root, ask, {u}, 0, {}, FALSE) /\ req' \in [Requests -> ReqType]
<1> DEFINE new == [NoReq EXCEPT !.pc = to, !.root = root, !.ask = ask, !.user = {u}]
<1>1. NoReq \in ReqType /\ {u} \in AtMostOne(Users)
  BY AtMostOneFacts, ConstantsAssumption DEF NoReq, ReqType, Pcs, Asks
<1>2. new \in ReqType
  <2> DEFINE f == [NoReq EXCEPT !.pc = to, !.root = root]
             g == [f EXCEPT !.ask = ask, !.user = {u}]
  <2>1. f \in ReqType
    BY <1>1, Zenon DEF ReqType
  <2>2. g \in ReqType
    <3> HIDE DEF f
    <3> QED BY <1>1, <2>1, Zenon DEF ReqType
  <2>3. new = g
    BY Zenon
  <2> QED BY <2>2, <2>3
<1>3. /\ new.pc = to /\ new.root = root /\ new.ask = ask /\ new.user = {u}
      /\ new.room = NoReq.room /\ new.space = NoReq.space /\ new.sure = NoReq.sure
  BY <1>1, Zenon DEF ReqType
<1>4. NoReq.room = 0 /\ NoReq.space = {} /\ NoReq.sure = FALSE
  BY DEF NoReq
<1> HIDE DEF new
<1>5. req' = [req EXCEPT ![c] = new]
  BY DEF new
<1> QED BY <1>2, <1>3, <1>4, <1>5 DEF Becomes, Types, ProcessTypes

LEMMA UpgradeFacts ==
  ASSUME Types, NEW c \in Requests, NEW u \in Users, NEW r \in Rooms, NEW ask \in Asks,
         req' = [req EXCEPT ![c] = [NoReq EXCEPT !.pc = "check", !.user = {u}, !.old = {r}, !.ask = ask]]
  PROVE  Becomes(c, "check", FALSE, ask, {u}, 0, {}, FALSE) /\ req' \in [Requests -> ReqType]
<1> DEFINE new == [NoReq EXCEPT !.pc = "check", !.user = {u}, !.old = {r}, !.ask = ask]
<1>1. NoReq \in ReqType /\ {u} \in AtMostOne(Users) /\ {r} \in AtMostOne(Rooms) /\ "check" \in Pcs
  BY AtMostOneFacts, ConstantsAssumption DEF NoReq, ReqType, Pcs, Asks
<1>2. new \in ReqType
  <2> DEFINE f == [NoReq EXCEPT !.pc = "check", !.user = {u}]
             g == [f EXCEPT !.old = {r}, !.ask = ask]
  <2>1. f \in ReqType
    BY <1>1, Zenon DEF ReqType
  <2>2. g \in ReqType
    <3> HIDE DEF f
    <3> QED BY <1>1, <2>1, Zenon DEF ReqType
  <2>3. new = g
    BY Zenon
  <2> QED BY <2>2, <2>3
<1>3. /\ new.pc = "check" /\ new.ask = ask /\ new.user = {u} /\ new.root = NoReq.root
      /\ new.room = NoReq.room /\ new.space = NoReq.space /\ new.sure = NoReq.sure
  BY <1>1, Zenon DEF ReqType
<1>4. NoReq.room = 0 /\ NoReq.space = {} /\ NoReq.sure = FALSE /\ NoReq.root = FALSE
  BY DEF NoReq
<1> HIDE DEF new
<1>5. req' = [req EXCEPT ![c] = new]
  BY DEF new
<1> QED BY <1>2, <1>3, <1>4, <1>5 DEF Becomes, Types, ProcessTypes

LEMMA EventFacts ==
  ASSUME Types, NEW c \in Requests, NEW ask \in Asks, NEW room \in 0..MaxRooms, NEW sure \in BOOLEAN,
         req' = [req EXCEPT ![c] = [NoReq EXCEPT !.pc = "check", !.ask = ask, !.room = room, !.sure = sure]]
  PROVE  Becomes(c, "check", FALSE, ask, {}, room, {}, sure) /\ req' \in [Requests -> ReqType]
<1> DEFINE new == [NoReq EXCEPT !.pc = "check", !.ask = ask, !.room = room, !.sure = sure]
<1>1. NoReq \in ReqType /\ "check" \in Pcs
  BY AtMostOneFacts, ConstantsAssumption DEF NoReq, ReqType, Pcs, Asks
<1>2. new \in ReqType
  <2> DEFINE f == [NoReq EXCEPT !.pc = "check", !.ask = ask]
             g == [f EXCEPT !.room = room, !.sure = sure]
  <2>1. f \in ReqType
    BY <1>1, Zenon DEF ReqType
  <2>2. g \in ReqType
    <3> HIDE DEF f
    <3> QED BY <1>1, <2>1, Zenon DEF ReqType
  <2>3. new = g
    BY Zenon
  <2> QED BY <2>2, <2>3
<1>3. /\ new.pc = "check" /\ new.ask = ask /\ new.room = room /\ new.sure = sure
      /\ new.root = NoReq.root /\ new.space = NoReq.space /\ new.user = NoReq.user
  BY <1>1, Zenon DEF ReqType
<1>4. NoReq.root = FALSE /\ NoReq.space = {} /\ NoReq.user = {}
  BY DEF NoReq
<1> HIDE DEF new
<1>5. req' = [req EXCEPT ![c] = new]
  BY DEF new
<1> QED BY <1>2, <1>3, <1>4, <1>5 DEF Becomes, Types, ProcessTypes

LEMMA RootFoundFacts ==
  ASSUME Types, NEW c \in Requests, req[c].space = {},
         req' = [req EXCEPT ![c] = IF @.space # {} THEN NoReq ELSE [@ EXCEPT !.pc = "check", !.root = FALSE]]
  PROVE  /\ Becomes(c, "check", FALSE, req[c].ask, req[c].user, req[c].room, {}, req[c].sure)
         /\ req' \in [Requests -> ReqType]
<1> DEFINE new == [req[c] EXCEPT !.pc = "check", !.root = FALSE]
<1>1. req[c] \in ReqType /\ "check" \in Pcs
  BY DEF Types, ProcessTypes, Pcs
<1>2. new \in ReqType
  BY <1>1, Zenon DEF ReqType
<1>3. /\ new.pc = "check" /\ new.root = FALSE /\ new.ask = req[c].ask /\ new.room = req[c].room
      /\ new.sure = req[c].sure /\ new.space = req[c].space /\ new.user = req[c].user
  BY <1>1, Zenon DEF ReqType
<1>4. req' = [req EXCEPT ![c] = new]
  <2>1. (IF req[c].space # {} THEN NoReq ELSE [req[c] EXCEPT !.pc = "check", !.root = FALSE]) = new
    BY Zenon
  <2> QED BY <2>1, Zenon
<1> HIDE DEF new
<1> QED BY <1>2, <1>3, <1>4 DEF Becomes, Types, ProcessTypes

(* The backfill process gets these fields. *)
FillBecomes(pc, space, todo) ==
  fill' \in FillType /\ fill'.pc = pc /\ fill'.space = space /\ fill'.todo = todo

LEMMA FillFacts ==
  ASSUME Types, NEW m \in AtMostOne(Rooms), NEW T \in SUBSET Rooms
  PROVE  /\ fill' = NoFill => FillBecomes("idle", {}, {})
         /\ fill' = [NoFill EXCEPT !.pc = "meta", !.space = m] => FillBecomes("meta", m, {})
         /\ fill' = [fill EXCEPT !.pc = "orphans"] => FillBecomes("orphans", fill.space, fill.todo)
         /\ fill' = [fill EXCEPT !.pc = "add", !.todo = T] => FillBecomes("add", fill.space, T)
         /\ fill' = [fill EXCEPT !.todo = T] => FillBecomes(fill.pc, fill.space, T)
<1> USE DEF FillBecomes
<1>1. fill \in FillType
  BY DEF Types, ProcessTypes
<1>2. NoFill \in FillType /\ NoFill.pc = "idle" /\ NoFill.space = {} /\ NoFill.todo = {}
  BY AtMostOneFacts DEF NoFill, FillType
<1>3. fill' = [NoFill EXCEPT !.pc = "meta", !.space = m] => FillBecomes("meta", m, NoFill.todo)
  BY <1>2, Zenon DEF FillType
<1>4. fill' = [fill EXCEPT !.pc = "orphans"] => FillBecomes("orphans", fill.space, fill.todo)
  BY <1>1, Zenon DEF FillType
<1>5. fill' = [fill EXCEPT !.pc = "add", !.todo = T] => FillBecomes("add", fill.space, T)
  BY <1>1, Zenon DEF FillType
<1>6. fill' = [fill EXCEPT !.todo = T] => FillBecomes(fill.pc, fill.space, T)
  BY <1>1, Zenon DEF FillType
<1> QED BY <1>2, <1>3, <1>4, <1>5, <1>6, Zenon

-----------------------------------------------------------------------------
(* What each action does *)

Typed == req' \in [Requests -> ReqType]

(* A new room marks its user, or is the upgrade of a direct chat. *)
MarksDo(u, ask) ==
  \/ /\ marks' = IF ask = "dm" THEN marks \union {u} ELSE marks
     /\ mixed' = IF \E d \in Requests : u \in req[d].user THEN mixed \union {u}
                 ELSE IF u \in marks THEN mixed ELSE mixed \ {u}
  \/ ask = "dm" /\ UNCHANGED marks /\ mixed' = mixed \union {u}

OnCreateRoomDoes(c, u, ask) ==
  /\ req[c].pc = "idle" /\ ask \in {"root", "sub", "group", "dm"}
  /\ MarksDo(u, ask)
  /\ \/ UNCHANGED req /\ ask = "root"
     \/ ask = "root" /\ Becomes(c, "find", TRUE, ask, {u}, 0, {}, FALSE) /\ Typed
     \/ ask # "root" /\ Becomes(c, "check", FALSE, ask, {u}, 0, {}, FALSE) /\ Typed
  /\ UNCHANGED <<db, known, adds, older, doubled, gone, owed, apart, missed, early>>

LEMMA OnCreateRoomEffect ==
  ASSUME Types, NEW c \in Requests, NEW u \in Users, NEW ask \in Asks, OnCreateRoom(c, u, ask)
  PROVE  OnCreateRoomDoes(c, u, ask)
<1>1. /\ req[c].pc = "idle" /\ ask \in left.asks \ {"leave", "other"}
      /\ marks' = IF ask = "dm" THEN marks \union {u} ELSE marks
      /\ mixed' = IF \E d \in Requests : u \in req[d].user THEN mixed \union {u}
                  ELSE IF u \in marks THEN mixed ELSE mixed \ {u}
      /\ UNCHANGED <<db, known, adds, older, doubled, gone, owed, apart, missed, early>>
  BY Zenon DEF OnCreateRoom, At
<1>2. ask \in {"root", "sub", "group", "dm"}
  BY <1>1 DEF Asks
<1>3. \/ UNCHANGED req /\ ask = "root"
      \/ ask = "root" /\ Becomes(c, "find", TRUE, ask, {u}, 0, {}, FALSE) /\ Typed
      \/ ask # "root" /\ Becomes(c, "check", FALSE, ask, {u}, 0, {}, FALSE) /\ Typed
  <2>1. CASE ask = "root" /\ main # {}
    BY <2>1, Zenon DEF OnCreateRoom
  <2>2. CASE ask = "root" /\ ~(main # {})
    <3>1. req' = [req EXCEPT ![c] = [NoReq EXCEPT !.pc = "find", !.root = TRUE, !.ask = ask, !.user = {u}]]
      BY <2>2, Zenon DEF OnCreateRoom
    <3>2. "find" \in Pcs /\ TRUE \in BOOLEAN
      BY DEF Pcs
    <3> QED BY <2>2, <3>1, <3>2, BeginFacts, Zenon DEF Typed
  <2>3. CASE ask # "root"
    <3>1. req' = [req EXCEPT ![c] = [NoReq EXCEPT !.pc = "check", !.root = FALSE, !.ask = ask, !.user = {u}]]
      BY <2>3, Zenon DEF OnCreateRoom
    <3>2. "check" \in Pcs /\ FALSE \in BOOLEAN
      BY DEF Pcs
    <3> QED BY <2>3, <3>1, <3>2, BeginFacts, Zenon DEF Typed
  <2> QED BY <2>1, <2>2, <2>3
<1>4. MarksDo(u, ask)
  BY <1>1, Zenon DEF MarksDo
<1> QED BY <1>1, <1>2, <1>3, <1>4, Zenon DEF OnCreateRoomDoes

(* An upgrade is a creation that is not checked. *)
LEMMA UpgradeEffect ==
  ASSUME Types, NEW c \in Requests, NEW u \in Users, NEW r \in Rooms, Upgrade(c, u, r)
  PROVE  \E ask \in Asks : OnCreateRoomDoes(c, u, ask)
<1> DEFINE ask == IF kind[r] \in Spaces THEN "sub" ELSE kind[r]
<1>1. /\ req[c].pc = "idle" /\ kind[r] # "none" /\ UNCHANGED marks
      /\ mixed' = IF kind[r] = "dm" \/ \E d \in Requests : u \in req[d].user THEN mixed \union {u}
                  ELSE IF u \in marks THEN mixed ELSE mixed \ {u}
      /\ req' = [req EXCEPT ![c] = [NoReq EXCEPT !.pc = "check", !.user = {u}, !.old = {r}, !.ask = ask]]
      /\ UNCHANGED <<db, known, adds, older, doubled, gone, owed, apart, missed, early>>
  BY Zenon DEF Upgrade, At
<1>2. kind[r] \in Kinds \ {"none"}
  BY <1>1 DEF Types, DbTypes
<1>3. ask \in {"sub", "group", "dm"} /\ (ask = "dm" <=> kind[r] = "dm") /\ ask \in Asks
  BY <1>2 DEF Kinds, Spaces, Chats, Asks
<1> HIDE DEF ask
<1>4. Becomes(c, "check", FALSE, ask, {u}, 0, {}, FALSE) /\ Typed
  BY <1>1, <1>3, UpgradeFacts, Zenon DEF Typed
<1>5. MarksDo(u, ask)
  BY <1>1, <1>3 DEF MarksDo
<1>6. ask # "root" /\ ask \in {"root", "sub", "group", "dm"}
  BY <1>3
<1> QED BY <1>1, <1>3, <1>4, <1>5, <1>6, Zenon DEF OnCreateRoomDoes

OnEventDoes(c) ==
  /\ req[c].pc = "idle" /\ Typed
  /\ \E ask \in {"leave", "other"}, room \in 0..MaxRooms, sure \in BOOLEAN :
       /\ Becomes(c, "check", FALSE, ask, {}, room, {}, sure)
       /\ sure => ask = "leave" /\ room \in mains
  /\ UNCHANGED <<db, known, marks, adds, older, doubled, checks, missed, early>>

LEMMA OnEventEffect ==
  ASSUME Types, NEW c \in Requests, NEW ask \in Asks, NEW s \in Rooms, OnEvent(c, ask, s)
  PROVE  OnEventDoes(c)
<1> DEFINE room == IF ask = "leave" THEN s ELSE 0
           sure == ask = "leave" /\ s \in mains
<1>1. /\ req[c].pc = "idle" /\ ask \in left.asks \intersect {"leave", "other"}
      /\ req' = [req EXCEPT ![c] = [NoReq EXCEPT !.pc = "check", !.ask = ask, !.room = room, !.sure = sure]]
      /\ UNCHANGED <<db, known, marks, adds, older, doubled, checks, missed, early>>
  BY Zenon DEF OnEvent, At
<1>2. ask \in {"leave", "other"} /\ room \in 0..MaxRooms /\ sure \in BOOLEAN /\ (sure => ask = "leave" /\ room \in mains)
  BY <1>1, ConstantsAssumption DEF Rooms
<1> HIDE DEF room, sure
<1>3. Becomes(c, "check", FALSE, ask, {}, room, {}, sure) /\ Typed
  BY <1>1, <1>2, EventFacts, Zenon DEF Typed
<1> QED BY <1>1, <1>2, <1>3, Zenon DEF OnEventDoes

(* get_main_root_space_id keeps an answer. *)
Learns(m) ==
  /\ main' = IF m = {} THEN main ELSE m
  /\ mains' = mains \union m
  /\ started' \in BOOLEAN
  /\ UNCHANGED fill \/ FillBecomes("meta", m, {})

LEMMA LearnEffect ==
  ASSUME Types, NEW m \in AtMostOne(Rooms), Learn(m) PROVE Learns(m)
<1>1. /\ main' = IF m = {} THEN main ELSE m
      /\ mains' = mains \union m
      /\ started' = (started \/ (m # {} /\ left.backfill /\ ~started))
      /\ UNCHANGED fill \/ fill' = [NoFill EXCEPT !.pc = "meta", !.space = m]
  BY Zenon DEF Learn
<1>2. started' \in BOOLEAN
  BY <1>1
<1>3. UNCHANGED fill \/ FillBecomes("meta", m, {})
  BY <1>1, FillFacts, Zenon
<1> QED BY <1>1, <1>2, <1>3, Zenon DEF Learns

AllowCreateDoes(c, m) ==
  \E n \in Rooms, to \in {"creator", "persist"} :
    /\ kind[n] = "none" /\ \A d \in Requests : req[d].room # n
    /\ \A e \in adds \union children : e[2] # n
    /\ marks' = marks \ req[c].user
    /\ Becomes(c, to, FALSE, req[c].ask, req[c].user, n, m, req[c].sure) /\ Typed
    /\ to = "creator" <=> Candidate(c, m)
    /\ owed' = IF req[c].user \intersect mixed = {} /\ left.auto /\ m # {} /\ req[c].ask = "group"
                 THEN owed \union {n} ELSE owed
    /\ apart' = IF req[c].user \intersect mixed = {} /\ req[c].ask = "dm" THEN apart \union {n} ELSE apart
    /\ UNCHANGED <<gone, mixed>>

AllowEventDoes(c, m) ==
  /\ gone' = IF req[c].sure /\ ~Protected(c, m) THEN gone \union {req[c].room} ELSE gone
  /\ Becomes(c, "idle", FALSE, "other", {}, 0, {}, FALSE) /\ Typed
  /\ UNCHANGED <<marks, mixed, owed, apart>>

CheckedDoes(c, m) ==
  (Creating(c) /\ AllowCreateDoes(c, m)) \/ (~Creating(c) /\ AllowEventDoes(c, m))

LEMMA CheckedEffect ==
  ASSUME Types, NEW c \in Requests, NEW m \in AtMostOne(Rooms), Checked(c, m)
  PROVE  CheckedDoes(c, m)
<1>1. CASE Creating(c)
  <2> DEFINE to == IF Candidate(c, m) THEN "creator" ELSE "persist"
  <2>1. PICK n \in Oldest(Free) :
          /\ marks' = Unmark(c, m)
          /\ req' = [req EXCEPT ![c].room = n, ![c].space = m, ![c].root = FALSE, ![c].pc = to]
          /\ owed' = IF req[c].user \intersect mixed = {} /\ left.auto /\ m # {} /\ req[c].ask = "group"
                       THEN owed \union {n} ELSE owed
          /\ apart' = IF req[c].user \intersect mixed = {} /\ req[c].ask = "dm"
                        THEN apart \union {n} ELSE apart
          /\ UNCHANGED <<gone, mixed>>
    BY <1>1, Zenon DEF Checked, AllowCreate
  <2>2. n \in Free
    BY <2>1, Zenon DEF Oldest
  <2>3. /\ n \in Rooms /\ kind[n] = "none" /\ \A d \in Requests : req[d].room # n
        /\ \A e \in adds \union children : e[2] # n
    BY <2>2, Zenon DEF Free
  <2>4. n \in 0..MaxRooms
    BY <2>3, ConstantsAssumption DEF Rooms
  <2>5. to \in {"creator", "persist"} /\ to \in Pcs /\ (to = "creator" <=> Candidate(c, m))
    BY DEF Pcs
  <2> HIDE DEF to
  <2>6. Becomes(c, to, FALSE, req[c].ask, req[c].user, n, m, req[c].sure) /\ Typed
    BY <2>1, <2>4, <2>5, AllowFacts, Zenon DEF Typed
  <2>7. marks' = marks \ req[c].user
    BY <2>1, Zenon DEF Unmark
  <2>8. AllowCreateDoes(c, m)
    BY <2>1, <2>3, <2>5, <2>6, <2>7, Zenon DEF AllowCreateDoes
  <2> QED BY <1>1, <2>8, Zenon DEF CheckedDoes
<1>2. CASE ~Creating(c)
  <2>1. /\ gone' = IF req[c].sure /\ ~Protected(c, m) THEN gone \union {req[c].room} ELSE gone
        /\ Ends(c) /\ UNCHANGED <<marks, mixed, owed, apart>>
    BY <1>2, Zenon DEF Checked, AllowEvent
  <2> QED BY <1>2, <2>1, EndsFacts, Zenon DEF CheckedDoes, AllowEventDoes, Typed
<1> QED BY <1>1, <1>2

Stays(c, to) ==
  Becomes(c, to, req[c].root, req[c].ask, req[c].user, req[c].room, req[c].space, req[c].sure) /\ Typed

CheckEventDoes(c) ==
  /\ req[c].pc = "check"
  /\ \/ main # {} /\ CheckedDoes(c, main)
     \/ Stays(c, "find") /\ UNCHANGED <<marks, checks>>
  /\ UNCHANGED <<db, known, adds, older, doubled, missed, early>>

LEMMA CheckEventEffect ==
  ASSUME Types, NEW c \in Requests, CheckEvent(c) PROVE CheckEventDoes(c)
<1>1. /\ req[c].pc = "check"
      /\ (main # {} /\ Checked(c, main)) \/ (Goes(c, "find") /\ UNCHANGED <<marks, checks>>)
      /\ UNCHANGED <<db, known, adds, older, doubled, missed, early>>
  BY Zenon DEF CheckEvent, At
<1>2. main \in AtMostOne(Rooms) /\ "find" \in Pcs
  BY DEF Types, ProcessTypes, Pcs
<1> QED BY <1>1, <1>2, CheckedEffect, GoesFacts, Zenon DEF CheckEventDoes, Stays, Typed

LEMMA MainRootType == ASSUME Types PROVE MainRoot \in AtMostOne(Rooms)
<1>1. \A r \in MainRoot : r \in Rooms /\ r \in Nat
  BY DEF MainRoot, Oldest, Types, DbTypes, Rooms
<1>2. \A r, s \in MainRoot : r <= s
  BY DEF MainRoot, Oldest
<1>3. \A r, s \in MainRoot : r = s
  BY <1>1, <1>2
<1>4. MainRoot = {} \/ \E r \in Rooms : MainRoot = {r}
  BY <1>1, <1>3, Zenon
<1> QED BY <1>4 DEF AtMostOne

FindMainDoes(c) ==
  /\ req[c].pc = "find"
  /\ Becomes(c, "found", req[c].root, req[c].ask, req[c].user, req[c].room, MainRoot, req[c].sure) /\ Typed
  /\ doubled' = (doubled \/ (req[c].root /\ MainRoot = {}
                              /\ \/ \E r \in Rooms \ stats : kind[r] = "root"
                                 \/ \E d \in Requests \ {c} : req[d].ask = "root"))
  /\ UNCHANGED <<db, known, marks, adds, older, checks, missed, early>>

LEMMA FindMainEffect ==
  ASSUME Types, NEW c \in Requests, FindMain(c) PROVE FindMainDoes(c)
<1>1. /\ req[c].pc = "find"
      /\ req' = [req EXCEPT ![c].pc = "found", ![c].space = MainRoot]
      /\ doubled' = (doubled \/ (req[c].root /\ MainRoot = {}
                                  /\ \/ \E r \in Rooms \ stats : kind[r] = "root"
                                     \/ \E d \in Requests \ {c} : req[d].ask = "root"))
      /\ UNCHANGED <<db, known, marks, adds, older, checks, missed, early>>
  BY Zenon DEF FindMain, At
<1> QED BY <1>1, MainRootType, FindFacts, Zenon DEF FindMainDoes, Typed

FoundMainDoes(c) ==
  /\ req[c].pc = "found" /\ Learns(req[c].space)
  /\ \/ /\ req[c].root /\ req[c].space # {} /\ UNCHANGED <<marks, checks>>
        /\ Becomes(c, "idle", FALSE, "other", {}, 0, {}, FALSE) /\ Typed
     \/ /\ req[c].root /\ req[c].space = {} /\ UNCHANGED <<marks, checks>>
        /\ Becomes(c, "check", FALSE, req[c].ask, req[c].user, req[c].room, {}, req[c].sure) /\ Typed
     \/ ~req[c].root /\ CheckedDoes(c, req[c].space)
  /\ UNCHANGED <<db, adds, older, doubled, missed, early>>

LEMMA FoundMainEffect ==
  ASSUME Types, NEW c \in Requests, FoundMain(c) PROVE FoundMainDoes(c)
<1>1. /\ req[c].pc = "found" /\ Learn(req[c].space)
      /\ UNCHANGED <<db, adds, older, doubled, missed, early>>
  BY Zenon DEF FoundMain, At
<1>2. req[c].space \in AtMostOne(Rooms)
  BY ReqFields
<1>3. Learns(req[c].space)
  BY <1>1, <1>2, LearnEffect
<1>4. CASE req[c].root
  <2>1. /\ req' = [req EXCEPT ![c] = IF @.space # {} THEN NoReq
                                     ELSE [@ EXCEPT !.pc = "check", !.root = FALSE]]
        /\ UNCHANGED <<marks, checks>>
    BY <1>4, Zenon DEF FoundMain
  <2>2. CASE req[c].space = {}
    BY <1>1, <1>3, <1>4, <2>1, <2>2, RootFoundFacts, Zenon DEF FoundMainDoes, Typed
  <2>3. CASE req[c].space # {}
    <3>1. Ends(c)
      BY <2>1, <2>3, Zenon DEF Ends
    <3> QED BY <1>1, <1>3, <1>4, <2>1, <2>3, <3>1, EndsFacts, Zenon DEF FoundMainDoes, Typed
  <2> QED BY <2>2, <2>3
<1>5. CASE ~req[c].root
  <2>1. Checked(c, req[c].space)
    BY <1>5, Zenon DEF FoundMain
  <2> QED BY <1>1, <1>2, <1>3, <1>5, <2>1, CheckedEffect, Zenon DEF FoundMainDoes
<1> QED BY <1>4, <1>5

CreatorDoes(c) ==
  /\ req[c].pc = "creator" /\ Stays(c, "persist")
  /\ \/ adds' = adds \union {<<m, req[c].room>> : m \in req[c].space} /\ UNCHANGED missed
     \/ missed' = missed \union {req[c].room} /\ UNCHANGED adds
  /\ UNCHANGED <<db, known, marks, older, doubled, checks, early>>

LEMMA CreatorEffect ==
  ASSUME Types, NEW c \in Requests, Creator(c) PROVE CreatorDoes(c)
<1>1. "persist" \in Pcs
  BY DEF Pcs
<1> QED BY <1>1, GoesFacts, Zenon DEF Creator, At, CreatorDoes, Stays, Typed

Idles(c) == Becomes(c, "idle", FALSE, "other", {}, 0, {}, FALSE) /\ Typed

PersistDoes(c) ==
  /\ req[c].pc = "persist" /\ kind' = [kind EXCEPT ![req[c].room] = req[c].ask] /\ Idles(c)
  /\ children \subseteq children'
  /\ \A e \in children' : \/ e \in children
                          \/ req[c].ask \in Spaces /\ \E x \in children : e = <<req[c].room, x[2]>>
  /\ UNCHANGED <<stats, direct, done, known, marks, adds, older, doubled, checks, missed, early>>

RefuseDoes(c) ==
  /\ Creating(c) /\ req[c].pc \in {"check", "persist"}
  /\ owed' = owed \ {req[c].room} /\ apart' = apart \ {req[c].room}
  /\ mixed' = IF req[c].pc = "check" THEN mixed \union req[c].user ELSE mixed
  /\ Idles(c)
  /\ UNCHANGED <<db, known, marks, adds, older, doubled, gone, missed, early>>

LEMMA EndEffects ==
  ASSUME Types, NEW c \in Requests
  PROVE  (Persist(c) => PersistDoes(c)) /\ (Refuse(c) => RefuseDoes(c))
<1>1. ASSUME Persist(c) PROVE PersistDoes(c)
  <2>1. children' = children \union Copied(c)
    BY <1>1, Zenon DEF Persist
  <2>2. \A e \in Copied(c) : req[c].ask \in Spaces /\ \E x \in children : e = <<req[c].room, x[2]>>
    BY Zenon DEF Copied
  <2>3. /\ children \subseteq children'
        /\ \A e \in children' : \/ e \in children
                                \/ req[c].ask \in Spaces /\ \E x \in children : e = <<req[c].room, x[2]>>
    BY <2>1, <2>2, Zenon
  <2> QED BY <1>1, <2>3, EndsFacts, Zenon DEF Persist, At, PersistDoes, Idles, Typed
<1>2. Refuse(c) => RefuseDoes(c)
  BY EndsFacts, Zenon DEF Refuse, At, RefuseDoes, Idles, Typed
<1> QED BY <1>1, <1>2

(* The rooms that are added, and the rest of the backfill. *)
AddToDoes(s, r) ==
  \/ children' = children \union {<<s, r>>} /\ UNCHANGED missed
  \/ missed' = missed \union {r} /\ UNCHANGED children

LEMMA AddToEffect == ASSUME NEW s, NEW r, AddTo(s, r) PROVE AddToDoes(s, r)
BY Zenon DEF AddTo, AddToDoes, Child

others == <<kind, stats, direct, main, started, mains, marks, req, older, doubled, checks>>

FillDoes ==
  \/ /\ fill.pc = "meta" /\ ~done /\ FillBecomes("orphans", fill.space, fill.todo)
     /\ UNCHANGED <<others, adds, children, done, missed, early>>
  \/ /\ fill.pc = "orphans" /\ FillBecomes("add", fill.space, Orphans)
     /\ early' = early \union {r \in stats \ direct : kind[r] \in Chats}
     /\ UNCHANGED <<others, adds, children, done, missed>>
  \/ /\ \E r \in fill.todo : /\ fill.pc = "add" /\ FillBecomes(fill.pc, fill.space, fill.todo \ {r})
                             /\ \E s \in fill.space : AddToDoes(s, r)
     /\ UNCHANGED <<others, adds, done, early>>
  \/ /\ fill.pc = "add" /\ fill.todo = {} /\ done' = TRUE /\ FillBecomes("idle", {}, {})
     /\ UNCHANGED <<others, adds, children, missed, early>>
  \/ /\ FillBecomes("idle", {}, {})
     /\ UNCHANGED <<others, adds, children, done, missed, early>>

LEMMA FillEffect ==
  ASSUME Types, ReadMeta \/ ReadOrphans \/ (\E r \in Rooms : FillRoom(r)) \/ SetMeta \/ FillFails
  PROVE  FillDoes
<1>0. {} \in AtMostOne(Rooms) /\ {} \in SUBSET Rooms /\ Orphans \in SUBSET Rooms
  BY AtMostOneFacts DEF Orphans, Types, DbTypes
<1>1. CASE ReadMeta
  <2>1. /\ fill.pc = "meta" /\ UNCHANGED <<others, adds, children, done, missed, early>>
        /\ fill' = IF done THEN NoFill ELSE [fill EXCEPT !.pc = "orphans"]
    BY <1>1, Zenon DEF ReadMeta, others, db
  <2> QED BY <1>0, <2>1, FillFacts, Zenon DEF FillDoes
<1>2. CASE ReadOrphans
  <2>1. /\ fill.pc = "orphans" /\ UNCHANGED <<others, adds, children, done, missed>>
        /\ fill' = [fill EXCEPT !.pc = "add", !.todo = Orphans]
        /\ early' = early \union {r \in stats \ direct : kind[r] \in Chats}
    BY <1>2, Zenon DEF ReadOrphans, others, db
  <2> QED BY <1>0, <2>1, FillFacts, Zenon DEF FillDoes
<1>3. ASSUME NEW r \in Rooms, FillRoom(r) PROVE FillDoes
  <2>1. /\ fill.pc = "add" /\ r \in fill.todo /\ UNCHANGED <<others, adds, done, early>>
        /\ fill' = [fill EXCEPT !.todo = fill.todo \ {r}]
        /\ \E s \in fill.space : AddTo(s, r)
    BY <1>3, Zenon DEF FillRoom, others
  <2>2. fill.todo \ {r} \in SUBSET Rooms
    BY DEF Types, ProcessTypes, FillType
  <2>3. FillBecomes(fill.pc, fill.space, fill.todo \ {r})
    BY <1>0, <2>1, <2>2, FillFacts, Zenon
  <2> QED BY <2>1, <2>3, AddToEffect, Zenon DEF FillDoes
<1>4. CASE SetMeta
  BY <1>0, <1>4, FillFacts, Zenon DEF SetMeta, others, FillDoes
<1>5. CASE FillFails
  BY <1>0, <1>5, FillFacts, Zenon DEF FillFails, others, FillDoes, db
<1> QED BY <1>1, <1>2, <1>3, <1>4, <1>5

(* The remaining actions. *)
AddRoomDoes(s, r) ==
  /\ <<s, r>> \in adds /\ adds' = adds \ {<<s, r>>} /\ AddToDoes(s, r)
  /\ UNCHANGED <<kind, stats, direct, done, known, marks, req, older, doubled, checks, early>>

NestDoes(s, r) ==
  /\ kind[s] \in Spaces /\ kind[r] \in Spaces
  /\ children' = children \union {<<s, r>>}
  /\ older' = (older \/ r \in Considered)
  /\ UNCHANGED <<kind, stats, direct, done, known, marks, req, adds, doubled, checks, missed, early>>

JoinRemoteDoes(r) ==
  /\ kind[r] = "none" /\ (\A d \in Requests : req[d].room # r) /\ \A e \in adds \union children : e[2] # r
  /\ kind' = [kind EXCEPT ![r] = "remote"]
  /\ UNCHANGED <<stats, children, direct, done, known, marks, req, adds, older, doubled, checks,
                 missed, early>>

IsIdle(c) ==
  /\ req[c].pc = "idle" /\ req[c].root = FALSE /\ req[c].ask = "other" /\ req[c].user = {}
  /\ req[c].space = {} /\ req[c].sure = FALSE

RestartDoes ==
  /\ main' = {} /\ marks' = {} /\ started' = FALSE /\ FillBecomes("idle", {}, {})
  /\ Typed /\ \A c \in Requests : IsIdle(c)'
  /\ adds' = {} /\ missed' = missed \union {e[2] : e \in adds}
  /\ owed' \subseteq owed /\ apart' \subseteq apart
  /\ \A c \in Requests : Creating(c) => req[c].room \notin owed' /\ req[c].room \notin apart'
  /\ mixed' = {}
  /\ UNCHANGED <<db, mains, older, doubled, gone, early>>

LEMMA AddRoomEffect ==
  ASSUME NEW s, NEW r, AddRoom(s, r) PROVE AddRoomDoes(s, r)
BY AddToEffect, Zenon DEF AddRoom, AddRoomDoes

LEMMA NestEffect ==
  ASSUME NEW s, NEW r, Nest(s, r) PROVE NestDoes(s, r)
<1>1. /\ {kind[s], kind[r]} \subseteq Spaces
      /\ children' = children \union {<<s, r>>}
      /\ older' = (older \/ r \in Considered)
      /\ UNCHANGED <<kind, stats, direct, done, known, marks, req, adds, doubled, checks, missed, early>>
  BY Zenon DEF Nest
<1> QED BY <1>1, Zenon DEF NestDoes

LEMMA JoinRemoteEffect ==
  ASSUME NEW r, JoinRemote(r) PROVE JoinRemoteDoes(r)
BY Zenon DEF JoinRemote, JoinRemoteDoes, Free

LEMMA RestartEffect ==
  ASSUME Types, Restart PROVE RestartDoes
<1>1. /\ main' = {} /\ marks' = {} /\ started' = FALSE /\ fill' = NoFill
      /\ req' = [c \in Requests |-> NoReq] /\ adds' = {}
      /\ missed' = missed \union {e[2] : e \in adds}
      /\ owed' = owed \ {req[c].room : c \in {d \in Requests : Creating(d)}}
      /\ apart' = apart \ {req[c].room : c \in {d \in Requests : Creating(d)}}
      /\ mixed' = {}
      /\ UNCHANGED <<db, mains, older, doubled, gone, early>>
  BY Zenon DEF Restart
<1>2. FillBecomes("idle", {}, {})
  BY <1>1, FillFacts, AtMostOneFacts, Zenon
<1>3. NoReq \in ReqType
  BY AtMostOneFacts, ConstantsAssumption DEF NoReq, ReqType, Pcs, Asks
<1>4. Typed /\ \A c \in Requests : IsIdle(c)'
  BY <1>1, <1>3 DEF Typed, IsIdle, NoReq
<1>5. \A c \in Requests : Creating(c) => req[c].room \notin owed' /\ req[c].room \notin apart'
  BY <1>1, Zenon
<1>6. owed' \subseteq owed /\ apart' \subseteq apart
  BY <1>1, Zenon
<1> QED BY <1>1, <1>2, <1>4, <1>5, <1>6, Zenon DEF RestartDoes

RequestStep(c) ==
  \/ \E u \in Users, ask \in Asks : OnCreateRoomDoes(c, u, ask)
  \/ OnEventDoes(c) \/ CheckEventDoes(c) \/ FindMainDoes(c) \/ FoundMainDoes(c)
  \/ CreatorDoes(c) \/ PersistDoes(c) \/ RefuseDoes(c)

OtherStep ==
  \/ \E s, r \in Rooms : AddRoomDoes(s, r) \/ NestDoes(s, r)
  \/ \E r \in Rooms : UpdateStats(r) \/ ListDirect(r) \/ JoinRemoteDoes(r)
  \/ FillDoes \/ RestartDoes \/ UNCHANGED vars

(* Every step of the specification is one of these. *)
LEMMA StepCases ==
  ASSUME Types, [Next]_vars PROVE (\E c \in Requests : RequestStep(c)) \/ OtherStep
<1>1. ASSUME NEW c \in Requests, NEW u \in Users, NEW ask \in Asks, OnCreateRoom(c, u, ask)
      PROVE  RequestStep(c)
  BY <1>1, OnCreateRoomEffect, Zenon DEF RequestStep
<1>2. ASSUME NEW c \in Requests, NEW s \in Rooms, NEW ask \in Asks, OnEvent(c, ask, s)
      PROVE  RequestStep(c)
  BY <1>2, OnEventEffect, Zenon DEF RequestStep
<1>3. ASSUME NEW c \in Requests,
             CheckEvent(c) \/ FindMain(c) \/ FoundMain(c) \/ Creator(c) \/ Persist(c) \/ Refuse(c)
      PROVE  RequestStep(c)
  BY <1>3, CheckEventEffect, FindMainEffect, FoundMainEffect, CreatorEffect, EndEffects, Zenon
     DEF RequestStep
<1>4. ASSUME NEW s \in Rooms, NEW r \in Rooms, AddRoom(s, r) \/ Nest(s, r) PROVE OtherStep
  BY <1>4, AddRoomEffect, NestEffect, Zenon DEF OtherStep
<1>5. ASSUME NEW r \in Rooms, UpdateStats(r) \/ ListDirect(r) \/ JoinRemote(r) PROVE OtherStep
  BY <1>5, JoinRemoteEffect, Zenon DEF OtherStep
<1>6. CASE ReadMeta \/ ReadOrphans \/ (\E r \in Rooms : FillRoom(r)) \/ SetMeta \/ FillFails
  BY <1>6, FillEffect, Zenon DEF OtherStep
<1>7. CASE Restart
  BY <1>7, RestartEffect, Zenon DEF OtherStep
<1>8. CASE UNCHANGED vars
  BY <1>8, Zenon DEF OtherStep
<1>9. ASSUME NEW c \in Requests, NEW u \in Users, NEW r \in Rooms, Upgrade(c, u, r)
      PROVE  RequestStep(c)
  BY <1>9, UpgradeEffect, Zenon DEF RequestStep
<1> QED BY <1>1, <1>2, <1>3, <1>4, <1>5, <1>6, <1>7, <1>8, <1>9, Zenon DEF Next

-----------------------------------------------------------------------------
(* Rooms, spaces and the requests that make them *)

SpaceRooms == {r \in Rooms : kind[r] \in Spaces}
Pending(c) == req[c].pc \in {"creator", "persist"}

(* Only a creation has a user and gets a room, which nothing has used.     *)
ReqAt(c) ==
  /\ Creating(c) <=> req[c].user # {}
  /\ Pending(c) => Creating(c) /\ req[c].room \in Rooms /\ kind[req[c].room] = "none"
  /\ req[c].pc = "creator" => req[c].ask \in Chats
  /\ req[c].root => req[c].ask = "root" /\ req[c].pc \in {"find", "found"}
  /\ req[c].sure => req[c].ask = "leave" /\ req[c].room \in mains
  /\ req[c].space \subseteq SpaceRooms

RoomsDiffer ==
  \A c, d \in Requests : Pending(c) /\ Pending(d) /\ req[c].room = req[d].room => c = d

(* What is added to a space is not a space, nor will it be one.            *)
AddAt(e) ==
  /\ e[1] \in SpaceRooms /\ e[2] \notin SpaceRooms
  /\ \A c \in Requests : Pending(c) /\ req[c].room = e[2] => req[c].ask \in Chats

SpacesKnown ==
  /\ main \subseteq mains /\ mains \subseteq SpaceRooms
  /\ fill.space \subseteq SpaceRooms /\ \A r \in fill.todo : kind[r] \in Chats

KindsInv ==
  /\ \A c \in Requests : ReqAt(c)
  /\ RoomsDiffer
  /\ \A e \in adds : AddAt(e)
  /\ SpacesKnown

USE DEF Spaces, Chats

LEMMA ReqAtKept ==
  ASSUME NEW e \in Requests, ReqAt(e), req'[e] = req[e], mains \subseteq mains',
         SpaceRooms \subseteq SpaceRooms', Pending(e) => kind'[req[e].room] = kind[req[e].room]
  PROVE  ReqAt(e)'
BY DEF ReqAt, Creating, At, Pending

(* Steps that only move request c on, to where it has no room of its own.  *)
LEMMA MovesKinds ==
  ASSUME Types, KindsInv, NEW c \in Requests, \A e \in Requests : e # c => req'[e] = req[e],
         ReqAt(c)', ~Pending(c)', UNCHANGED <<kind, adds>>, mains \subseteq mains', SpacesKnown'
  PROVE  KindsInv'
<1>1. SpaceRooms' = SpaceRooms
  BY DEF SpaceRooms
<1>2. \A e \in Requests : ReqAt(e)'
  BY <1>1, ReqAtKept DEF KindsInv
<1>3. RoomsDiffer'
  BY DEF KindsInv, RoomsDiffer, Pending
<1>4. \A e \in adds' : AddAt(e)'
  BY <1>1 DEF KindsInv, AddAt, Pending
<1> QED BY <1>2, <1>3, <1>4 DEF KindsInv

LEMMA SpacesKept ==
  ASSUME Types, KindsInv, UNCHANGED <<kind, main, mains, fill>> PROVE SpacesKnown'
BY DEF KindsInv, SpacesKnown, SpaceRooms

LEMMA OnCreateRoomKinds ==
  ASSUME Types, KindsInv, NEW c \in Requests, NEW u, NEW ask, OnCreateRoomDoes(c, u, ask)
  PROVE  KindsInv'
<1>1. UNCHANGED <<kind, adds, main, mains, fill>>
  BY DEF OnCreateRoomDoes, db, known
<1>2. SpacesKnown' /\ SpaceRooms' = SpaceRooms
  BY <1>1, SpacesKept DEF SpaceRooms
<1>3. CASE UNCHANGED req
  BY <1>1, <1>2, <1>3 DEF KindsInv, ReqAt, Creating, At, Pending, RoomsDiffer, AddAt
<1>4. CASE ask = "root" /\ Becomes(c, "find", TRUE, ask, {u}, 0, {}, FALSE)
  <2>1. ReqAt(c)' /\ ~Pending(c)'
    BY <1>4 DEF Becomes, ReqAt, Creating, At, Pending
  <2> QED BY <1>1, <1>2, <1>4, <2>1, MovesKinds DEF Becomes
<1>5. CASE ask # "root" /\ Becomes(c, "check", FALSE, ask, {u}, 0, {}, FALSE)
  <2>1. ReqAt(c)' /\ ~Pending(c)'
    BY <1>5 DEF OnCreateRoomDoes, Becomes, ReqAt, Creating, At, Pending
  <2> QED BY <1>1, <1>2, <1>5, <2>1, MovesKinds DEF Becomes
<1> QED BY <1>3, <1>4, <1>5 DEF OnCreateRoomDoes

LEMMA OnEventKinds ==
  ASSUME Types, KindsInv, NEW c \in Requests, OnEventDoes(c) PROVE KindsInv'
<1>1. UNCHANGED <<kind, adds, main, mains, fill>>
  BY DEF OnEventDoes, db, known
<1>2. PICK ask \in {"leave", "other"}, room \in 0..MaxRooms, sure \in BOOLEAN :
         /\ Becomes(c, "check", FALSE, ask, {}, room, {}, sure)
         /\ sure => ask = "leave" /\ room \in mains
  BY Zenon DEF OnEventDoes
<1>3. ReqAt(c)' /\ ~Pending(c)'
  BY <1>1, <1>2 DEF Becomes, ReqAt, Creating, At, Pending
<1> QED BY <1>1, <1>2, <1>3, SpacesKept, MovesKinds DEF Becomes

(* A request ends. *)
LEMMA IdlesKinds ==
  ASSUME Types, KindsInv, NEW c \in Requests, Becomes(c, "idle", FALSE, "other", {}, 0, {}, FALSE),
         UNCHANGED <<kind, adds>>, mains \subseteq mains', SpacesKnown'
  PROVE  KindsInv'
<1>1. ReqAt(c)' /\ ~Pending(c)'
  BY DEF Becomes, ReqAt, Creating, At, Pending
<1> QED BY <1>1, MovesKinds DEF Becomes

LEMMA CheckedKinds ==
  ASSUME Types, KindsInv, NEW c \in Requests, NEW m, m \subseteq SpaceRooms, CheckedDoes(c, m),
         UNCHANGED <<db, adds>>, mains \subseteq mains', SpacesKnown'
  PROVE  KindsInv'
<1>1. CASE ~Creating(c) /\ AllowEventDoes(c, m)
  BY <1>1, IdlesKinds DEF AllowEventDoes, db
<1>2. CASE Creating(c) /\ AllowCreateDoes(c, m)
  <2>1. PICK n \in Rooms, to \in {"creator", "persist"} :
          /\ kind[n] = "none" /\ \A d \in Requests : req[d].room # n
          /\ \A e \in adds \union children : e[2] # n
          /\ Becomes(c, to, FALSE, req[c].ask, req[c].user, n, m, req[c].sure)
          /\ to = "creator" <=> Candidate(c, m)
    BY <1>2 DEF AllowCreateDoes
  <2>2. SpaceRooms' = SpaceRooms /\ UNCHANGED <<kind, adds>>
    BY DEF SpaceRooms, db
  <2>3. req[c].ask \in {"root", "sub", "group", "dm"} /\ req[c].user # {}
    BY <1>2 DEF KindsInv, ReqAt, Creating
  <2>4. ReqAt(c)'
    <3>1. ~req[c].sure
      BY <1>2 DEF KindsInv, ReqAt, Creating
    <3>2. to = "creator" => req[c].ask \in Chats
      BY <2>1 DEF Candidate
    <3> QED BY <2>1, <2>2, <2>3, <3>1, <3>2 DEF Becomes, ReqAt, Creating, At, Pending
  <2>5. ASSUME NEW e \in Requests, e # c PROVE ReqAt(e)'
    BY <2>1, <2>2, <2>5, ReqAtKept DEF Becomes, KindsInv
  <2>6. RoomsDiffer'
    BY <2>1 DEF Becomes, KindsInv, RoomsDiffer, Pending
  <2>7. \A e \in adds' : AddAt(e)'
    BY <2>1, <2>2 DEF Becomes, KindsInv, AddAt, Pending
  <2> QED BY <2>4, <2>5, <2>6, <2>7 DEF KindsInv
<1> QED BY <1>1, <1>2 DEF CheckedDoes

LEMMA CheckEventKinds ==
  ASSUME Types, KindsInv, NEW c \in Requests, CheckEventDoes(c) PROVE KindsInv'
<1>1. UNCHANGED <<db, kind, adds, main, mains, fill>>
  BY DEF CheckEventDoes, db, known
<1>2. SpacesKnown' /\ SpaceRooms' = SpaceRooms
  BY <1>1, SpacesKept DEF SpaceRooms
<1>3. CASE CheckedDoes(c, main)
  BY <1>1, <1>2, <1>3, CheckedKinds DEF KindsInv, SpacesKnown
<1>4. CASE Stays(c, "find")
  <2>1. ReqAt(c)' /\ ~Pending(c)'
    BY <1>1, <1>2, <1>4 DEF CheckEventDoes, Stays, Becomes, KindsInv, ReqAt, Creating, At, Pending
  <2> QED BY <1>1, <1>2, <1>4, <2>1, MovesKinds DEF Stays, Becomes
<1> QED BY <1>3, <1>4 DEF CheckEventDoes

LEMMA FindMainKinds ==
  ASSUME Types, KindsInv, NEW c \in Requests, FindMainDoes(c) PROVE KindsInv'
<1>1. UNCHANGED <<kind, adds, main, mains, fill>>
  BY DEF FindMainDoes, db, known
<1>2. SpacesKnown' /\ SpaceRooms' = SpaceRooms
  BY <1>1, SpacesKept DEF SpaceRooms
<1>3. MainRoot \subseteq SpaceRooms
  BY DEF MainRoot, Oldest, SpaceRooms, Types, DbTypes
<1>4. ReqAt(c)' /\ ~Pending(c)'
  BY <1>1, <1>2, <1>3 DEF FindMainDoes, Becomes, KindsInv, ReqAt, Creating, At, Pending
<1> QED BY <1>1, <1>2, <1>4, MovesKinds DEF FindMainDoes, Becomes

LEMMA FoundMainKinds ==
  ASSUME Types, KindsInv, NEW c \in Requests, FoundMainDoes(c) PROVE KindsInv'
<1> DEFINE m == req[c].space
<1>1. UNCHANGED <<db, kind, adds>> /\ Learns(m) /\ req[c].pc = "found"
  BY DEF FoundMainDoes, db
<1>2. SpaceRooms' = SpaceRooms /\ m \subseteq SpaceRooms
  BY <1>1 DEF SpaceRooms, KindsInv, ReqAt
<1>3. SpacesKnown'
  <2>1. main' \subseteq mains' /\ mains' \subseteq SpaceRooms'
    BY <1>1, <1>2 DEF Learns, KindsInv, SpacesKnown
  <2>2. fill'.space \subseteq SpaceRooms' /\ \A r \in fill'.todo : kind'[r] \in Chats
    BY <1>1, <1>2 DEF Learns, FillBecomes, KindsInv, SpacesKnown
  <2> QED BY <2>1, <2>2 DEF SpacesKnown
<1>4. mains \subseteq mains'
  BY <1>1 DEF Learns
<1>5. CASE Becomes(c, "idle", FALSE, "other", {}, 0, {}, FALSE)
  BY <1>1, <1>3, <1>4, <1>5, IdlesKinds
<1>6. CASE /\ req[c].root
           /\ Becomes(c, "check", FALSE, req[c].ask, req[c].user, req[c].room, {}, req[c].sure)
  <2>1. ReqAt(c)' /\ ~Pending(c)'
    BY <1>1, <1>4, <1>6 DEF Becomes, KindsInv, ReqAt, Creating, At, Pending
  <2> QED BY <1>1, <1>3, <1>4, <1>6, <2>1, MovesKinds DEF Becomes
<1>7. CASE CheckedDoes(c, m)
  BY <1>1, <1>2, <1>3, <1>4, <1>7, CheckedKinds
<1> QED BY <1>5, <1>6, <1>7 DEF FoundMainDoes

LEMMA CreatorKinds ==
  ASSUME Types, KindsInv, NEW c \in Requests, CreatorDoes(c) PROVE KindsInv'
<1>1. UNCHANGED <<kind, main, mains, fill>> /\ Stays(c, "persist") /\ req[c].pc = "creator"
  BY DEF CreatorDoes, db, known
<1>2. SpacesKnown' /\ SpaceRooms' = SpaceRooms
  BY <1>1, SpacesKept DEF SpaceRooms
<1>3. /\ req'[c].room = req[c].room /\ req'[c].ask = req[c].ask /\ Pending(c) /\ Pending(c)'
      /\ \A e \in Requests : e # c => req'[e] = req[e]
  BY <1>1 DEF Stays, Becomes, Pending
<1>4. ReqAt(c)'
  BY <1>1, <1>2 DEF Stays, Becomes, KindsInv, ReqAt, Creating, At, Pending
<1>5. ASSUME NEW e \in Requests, e # c PROVE ReqAt(e)'
  BY <1>1, <1>2, <1>3, <1>5, ReqAtKept DEF KindsInv
<1>6. RoomsDiffer'
  BY <1>3 DEF KindsInv, RoomsDiffer, Pending
<1>7. ASSUME NEW e \in adds' PROVE AddAt(e)'
  <2>1. CASE e \in adds
    BY <1>2, <1>3, <2>1 DEF KindsInv, AddAt, Pending
  <2>2. CASE \E m \in req[c].space : e = <<m, req[c].room>>
    <3>1. PICK m \in req[c].space : e = <<m, req[c].room>>
      BY <2>2
    <3>2. e[1] = m /\ e[2] = req[c].room
      BY <3>1
    <3>3. m \in SpaceRooms /\ kind[req[c].room] = "none" /\ req[c].ask \in Chats
      BY <1>1, <1>3, <3>1 DEF KindsInv, ReqAt
    <3>4. \A d \in Requests : Pending(d)' /\ req'[d].room = e[2] => req'[d].ask \in Chats
      BY <1>3, <3>2, <3>3 DEF KindsInv, RoomsDiffer, Pending
    <3> QED BY <1>2, <3>2, <3>3, <3>4 DEF AddAt, SpaceRooms
  <2> QED BY <2>1, <2>2 DEF CreatorDoes
<1> QED BY <1>2, <1>4, <1>5, <1>6, <1>7 DEF KindsInv

(* Rooms get a kind once. *)
LEMMA PersistKinds ==
  ASSUME Types, KindsInv, NEW c \in Requests, PersistDoes(c) PROVE KindsInv'
<1>1. /\ UNCHANGED <<main, mains, fill, adds>> /\ Pending(c)
      /\ kind' = [kind EXCEPT ![req[c].room] = req[c].ask] /\ Idles(c)
  BY DEF PersistDoes, known, Pending
<1>2. /\ req[c].room \in Rooms /\ kind[req[c].room] = "none" /\ Creating(c)
  BY <1>1 DEF KindsInv, ReqAt
<1>3. /\ kind'[req[c].room] = req[c].ask
      /\ \A r \in Rooms : r # req[c].room => kind'[r] = kind[r]
  BY <1>1, <1>2 DEF Types, DbTypes
<1>4. SpaceRooms \subseteq SpaceRooms'
  BY <1>2, <1>3 DEF SpaceRooms
<1>5. \A e \in Requests : e # c => req'[e] = req[e]
  BY <1>1 DEF Idles, Becomes
<1>6. ReqAt(c)' /\ ~Pending(c)'
  BY <1>1 DEF Idles, Becomes, ReqAt, Creating, At, Pending
<1>7. ASSUME NEW e \in Requests, e # c PROVE ReqAt(e)'
  <2>1. Pending(e) => req[e].room \in Rooms /\ req[e].room # req[c].room
    BY <1>1, <1>7 DEF KindsInv, ReqAt, RoomsDiffer
  <2> QED BY <1>1, <1>3, <1>4, <1>5, <1>7, <2>1, ReqAtKept DEF KindsInv
<1>8. RoomsDiffer'
  BY <1>5, <1>6 DEF KindsInv, RoomsDiffer, Pending
<1>9. ASSUME NEW e \in adds' PROVE AddAt(e)'
  <2>1. e \in adds /\ AddAt(e) /\ e[2] \in Rooms
    BY <1>1 DEF KindsInv, Types, ProcessTypes
  <2>2. e[2] \notin SpaceRooms'
    BY <1>1, <1>3, <2>1 DEF AddAt, SpaceRooms
  <2> QED BY <1>4, <1>5, <1>6, <2>1, <2>2 DEF AddAt, Pending
<1>10. SpacesKnown'
  <2>1. \A r \in fill.todo : r \in Rooms
    BY DEF Types, ProcessTypes, FillType
  <2> QED BY <1>1, <1>2, <1>3, <1>4, <2>1 DEF KindsInv, SpacesKnown
<1> QED BY <1>6, <1>7, <1>8, <1>9, <1>10 DEF KindsInv

LEMMA JoinRemoteKinds ==
  ASSUME Types, KindsInv, NEW r \in Rooms, JoinRemoteDoes(r) PROVE KindsInv'
<1>1. UNCHANGED <<main, mains, fill, adds, req>> /\ kind' = [kind EXCEPT ![r] = "remote"]
  BY DEF JoinRemoteDoes, known
<1>2. /\ kind[r] = "none" /\ \A d \in Requests : req[d].room # r
      /\ \A e \in adds : e[2] # r
  BY DEF JoinRemoteDoes
<1>3. kind'[r] = "remote" /\ \A x \in Rooms : x # r => kind'[x] = kind[x]
  BY <1>1 DEF Types, DbTypes
<1>4. SpaceRooms \subseteq SpaceRooms' /\ SpaceRooms' \subseteq SpaceRooms \union {r}
  BY <1>2, <1>3 DEF SpaceRooms
<1>5. ASSUME NEW e \in Requests PROVE ReqAt(e)'
  <2>1. Pending(e) => req[e].room \in Rooms /\ req[e].room # r
    BY <1>2 DEF KindsInv, ReqAt
  <2> QED BY <1>1, <1>3, <1>4, <2>1, ReqAtKept DEF KindsInv
<1>6. RoomsDiffer'
  BY <1>1 DEF KindsInv, RoomsDiffer, Pending
<1>7. ASSUME NEW e \in adds' PROVE AddAt(e)'
  BY <1>1, <1>2, <1>4 DEF KindsInv, AddAt, Pending
<1>8. SpacesKnown'
  <2>1. \A x \in fill.todo : x \in Rooms
    BY DEF Types, ProcessTypes, FillType
  <2> QED BY <1>1, <1>2, <1>3, <1>4, <2>1 DEF KindsInv, SpacesKnown
<1> QED BY <1>5, <1>6, <1>7, <1>8 DEF KindsInv

LEMMA FillKinds ==
  ASSUME Types, KindsInv, FillDoes PROVE KindsInv'
<1>1. UNCHANGED <<kind, req, adds, main, mains>>
  BY DEF FillDoes, others
<1>2. fill'.space = {} \/ fill'.space = fill.space
  BY DEF FillDoes, FillBecomes
<1>3. fill'.todo \subseteq fill.todo \union Orphans
  BY DEF FillDoes, FillBecomes
<1>4. SpaceRooms' = SpaceRooms
  BY <1>1 DEF SpaceRooms
<1>5. SpacesKnown'
  BY <1>1, <1>2, <1>3, <1>4 DEF KindsInv, SpacesKnown, Orphans
<1>6. (\A c \in Requests : ReqAt(c)') /\ RoomsDiffer' /\ (\A e \in adds' : AddAt(e)')
  BY <1>1, <1>4 DEF KindsInv, ReqAt, Creating, At, Pending, RoomsDiffer, AddAt
<1> QED BY <1>5, <1>6 DEF KindsInv

(* Steps that touch neither kinds nor requests. *)
LEMMA FrameKinds ==
  ASSUME Types, KindsInv, UNCHANGED <<kind, req, main, mains, fill>>, adds' \subseteq adds
  PROVE  KindsInv'
<1>1. SpaceRooms' = SpaceRooms
  BY DEF SpaceRooms
<1>2. (\A c \in Requests : ReqAt(c)') /\ RoomsDiffer' /\ (\A e \in adds' : AddAt(e)')
  BY <1>1 DEF KindsInv, ReqAt, Creating, At, Pending, RoomsDiffer, AddAt
<1> QED BY <1>2, SpacesKept DEF KindsInv

LEMMA RestartKinds ==
  ASSUME Types, KindsInv, RestartDoes PROVE KindsInv'
<1>1. SpaceRooms' = SpaceRooms /\ adds' = {} /\ main' = {} /\ mains' = mains
      /\ fill'.space = {} /\ fill'.todo = {}
  BY DEF RestartDoes, db, SpaceRooms, FillBecomes
<1>2. ASSUME NEW c \in Requests PROVE ReqAt(c)' /\ ~Pending(c)'
  BY DEF RestartDoes, IsIdle, ReqAt, Creating, At, Pending
<1>3. RoomsDiffer'
  BY <1>2 DEF RoomsDiffer
<1>4. SpacesKnown'
  BY <1>1 DEF KindsInv, SpacesKnown
<1> QED BY <1>1, <1>2, <1>3, <1>4 DEF KindsInv

LEMMA RequestKinds ==
  ASSUME Types, KindsInv, NEW c \in Requests, RequestStep(c) PROVE KindsInv'
<1>1. CASE RefuseDoes(c)
  <2>1. UNCHANGED <<kind, adds, main, mains, fill>> /\ Idles(c)
    BY <1>1 DEF RefuseDoes, db, known
  <2> QED BY <2>1, SpacesKept, IdlesKinds DEF Idles
<1> QED BY <1>1, OnCreateRoomKinds, OnEventKinds, CheckEventKinds, FindMainKinds, FoundMainKinds,
           CreatorKinds, PersistKinds, Zenon DEF RequestStep

LEMMA OtherKinds ==
  ASSUME Types, KindsInv, OtherStep PROVE KindsInv'
<1>1. ASSUME NEW s \in Rooms, NEW r \in Rooms, AddRoomDoes(s, r) \/ NestDoes(s, r) PROVE KindsInv'
  BY <1>1, FrameKinds DEF AddRoomDoes, NestDoes, known
<1>2. ASSUME NEW r \in Rooms, UpdateStats(r) \/ ListDirect(r) PROVE KindsInv'
  BY <1>2, FrameKinds DEF UpdateStats, ListDirect, known
<1>3. CASE UNCHANGED vars
  BY <1>3, FrameKinds DEF vars, db, known
<1> QED BY <1>1, <1>2, <1>3, JoinRemoteKinds, FillKinds, RestartKinds, Zenon DEF OtherStep

-----------------------------------------------------------------------------
(* Types *)

(* Rooms get a kind once, and keep it. *)
KindsKept == \A r \in Rooms : kind[r] # "none" => kind'[r] = kind[r]

LEMMA DbTypesKept ==
  ASSUME DbTypes, UNCHANGED <<stats, direct, done>>, kind' \in [Rooms -> Kinds], KindsKept, children' = children
  PROVE  DbTypes'
<1>1. ASSUME NEW e \in children' PROVE e \in {r \in Rooms : kind'[r] \in Spaces} \X Rooms
  BY DEF DbTypes, KindsKept
<1>2. stats' \subseteq {r \in Rooms : kind'[r] # "none"}
  BY DEF DbTypes, KindsKept
<1> QED BY <1>1, <1>2 DEF DbTypes

LEMMA ChildTypes ==
  ASSUME DbTypes, NEW s \in SpaceRooms, NEW r \in Rooms, UNCHANGED <<kind, stats, direct, done>>,
         children' = children \union {<<s, r>>} \/ children' = children
  PROVE  DbTypes'
BY DEF DbTypes, SpaceRooms

(* A new space takes its children from the one it replaces: no other room  *)
(* gets into a space.                                                      *)
LEMMA PersistChildren ==
  ASSUME Types, KindsInv, NEW c \in Requests, PersistDoes(c)
  PROVE  /\ children' \subseteq SpaceRooms' \X Rooms
         /\ \A x : InASpace(x)' <=> InASpace(x)
         /\ \A e \in children' : \E x \in children : x[2] = e[2]
         /\ KindsKept
<1>1. /\ req[c].room \in Rooms /\ kind[req[c].room] = "none"
      /\ kind' = [kind EXCEPT ![req[c].room] = req[c].ask] /\ kind \in [Rooms -> Kinds]
  BY DEF PersistDoes, KindsInv, ReqAt, Pending, Types, DbTypes
<1>2. KindsKept /\ kind'[req[c].room] = req[c].ask
  BY <1>1 DEF KindsKept
<1>3. children \subseteq SpaceRooms' \X Rooms /\ children \subseteq Rooms \X Rooms
  BY <1>2 DEF Types, DbTypes, KindsKept, SpaceRooms
<1>4. ASSUME NEW e \in children'
      PROVE  e \in SpaceRooms' \X Rooms /\ \E x \in children : x[2] = e[2]
  <2>1. CASE e \in children
    BY <1>3, <2>1
  <2>2. CASE req[c].ask \in Spaces /\ \E x \in children : e = <<req[c].room, x[2]>>
    <3>1. PICK x \in children : e = <<req[c].room, x[2]>>
      BY <2>2
    <3>2. x[2] \in Rooms /\ e[2] = x[2]
      BY <1>3, <3>1
    <3>3. req[c].room \in SpaceRooms'
      BY <1>1, <1>2, <2>2 DEF SpaceRooms
    <3> QED BY <3>1, <3>2, <3>3
  <2> QED BY <2>1, <2>2 DEF PersistDoes
<1>5. ASSUME NEW x, InASpace(x)' PROVE InASpace(x)
  <2>1. PICK s \in Rooms : <<s, x>> \in children'
    BY <1>5 DEF InASpace
  <2>2. PICK e \in children : e[2] = <<s, x>>[2]
    BY <1>4, <2>1
  <2>3. e = <<e[1], x>> /\ e[1] \in Rooms
    BY <1>3, <2>2
  <2> QED BY <2>2, <2>3 DEF InASpace
<1>6. \A x : InASpace(x) => InASpace(x)'
  BY DEF PersistDoes, InASpace
<1> QED BY <1>2, <1>4, <1>5, <1>6

LEMMA ProcessTypesKept ==
  ASSUME Types, Typed, UNCHANGED <<main, started, fill, mains>>, adds' = adds, marks' \subseteq Users
  PROVE  ProcessTypes'
BY DEF Types, ProcessTypes, Typed

LEMMA CheckedTypes ==
  ASSUME Types, KindsInv, NEW c \in Requests, NEW m \in AtMostOne(Rooms), CheckedDoes(c, m)
  PROVE  /\ Typed /\ marks' \subseteq Users /\ mixed' \subseteq Users
         /\ gone' \subseteq Rooms /\ owed' \subseteq Rooms /\ apart' \subseteq Rooms
<1>1. CASE ~Creating(c) /\ AllowEventDoes(c, m)
  <2>1. req[c].sure => req[c].room \in Rooms
    BY DEF KindsInv, ReqAt, SpacesKnown, SpaceRooms
  <2> QED BY <1>1, <2>1 DEF AllowEventDoes, Types, ProcessTypes, HistoryTypes
<1>2. CASE AllowCreateDoes(c, m)
  BY <1>2 DEF AllowCreateDoes, Types, ProcessTypes, HistoryTypes
<1> QED BY <1>1, <1>2 DEF CheckedDoes

LEMMA RequestTypes ==
  ASSUME Types, KindsInv, NEW c \in Requests, RequestStep(c) PROVE Types'
<1> USE DEF Types
<1>1. ASSUME NEW u \in Users, NEW ask \in Asks, OnCreateRoomDoes(c, u, ask) PROVE Types'
  <2>1. UNCHANGED <<db, known, adds, older, doubled, gone, owed, apart, missed, early>> /\ Typed
    BY <1>1 DEF OnCreateRoomDoes, ProcessTypes, Typed
  <2>2. marks' \subseteq Users /\ mixed' \subseteq Users
    BY <1>1 DEF OnCreateRoomDoes, MarksDo, ProcessTypes, HistoryTypes
  <2> QED BY <2>1, <2>2, ProcessTypesKept DEF DbTypes, HistoryTypes, db, known
<1>2. CASE OnEventDoes(c)
  <2>1. UNCHANGED <<db, known, marks, adds, older, doubled, checks, missed, early>> /\ Typed
    BY <1>2, Zenon DEF OnEventDoes
  <2> QED BY <2>1 DEF DbTypes, ProcessTypes, HistoryTypes, db, known, checks, Typed
<1>3. CASE CheckEventDoes(c)
  <2>1. UNCHANGED <<db, known, adds, older, doubled, missed, early>>
    BY <1>3 DEF CheckEventDoes
  <2>2. CASE CheckedDoes(c, main)
    <3>1. main \in AtMostOne(Rooms)
      BY DEF ProcessTypes
    <3> QED BY <2>1, <2>2, <3>1, CheckedTypes DEF DbTypes, ProcessTypes, HistoryTypes, db, known, Typed
  <2>3. CASE Stays(c, "find") /\ UNCHANGED <<marks, checks>>
    BY <2>1, <2>3 DEF Stays, DbTypes, ProcessTypes, HistoryTypes, db, known, checks, Typed
  <2> QED BY <1>3, <2>2, <2>3 DEF CheckEventDoes
<1>4. CASE FindMainDoes(c)
  <2>1. UNCHANGED <<db, known, marks, adds, older, checks, missed, early>> /\ Typed /\ doubled' \in BOOLEAN
    BY <1>4 DEF FindMainDoes, HistoryTypes
  <2> QED BY <2>1 DEF DbTypes, ProcessTypes, HistoryTypes, db, known, checks, Typed
<1>5. CASE FoundMainDoes(c)
  <2>1. /\ UNCHANGED <<db, adds, older, doubled, missed, early>> /\ Learns(req[c].space)
        /\ req[c].space \in AtMostOne(Rooms)
    BY <1>5, ReqFields DEF FoundMainDoes
  <2>2. /\ main' \in AtMostOne(Rooms) /\ mains' \subseteq Rooms /\ started' \in BOOLEAN
        /\ fill' \in FillType
    BY <2>1, AtMostOneFacts DEF Learns, FillBecomes, ProcessTypes, HistoryTypes
  <2>3. CASE UNCHANGED <<marks, checks>> /\ Typed
    BY <2>1, <2>2, <2>3 DEF DbTypes, ProcessTypes, HistoryTypes, db, checks, Typed
  <2>4. CASE CheckedDoes(c, req[c].space)
    BY <2>1, <2>2, <2>4, CheckedTypes DEF DbTypes, ProcessTypes, HistoryTypes, db, Typed
  <2> QED BY <1>5, <2>3, <2>4 DEF FoundMainDoes
<1>6. CASE CreatorDoes(c)
  <2>1. UNCHANGED <<db, known, marks, older, doubled, checks, early>> /\ Typed
    BY <1>6 DEF CreatorDoes, Stays
  <2>2. adds' \subseteq Rooms \X Rooms /\ missed' \subseteq Rooms
    <3>1. req[c].space \subseteq Rooms /\ req[c].room \in Rooms
      BY <1>6 DEF CreatorDoes, KindsInv, ReqAt, Pending, SpaceRooms
    <3> QED BY <1>6, <3>1 DEF CreatorDoes, ProcessTypes, HistoryTypes
  <2> QED BY <2>1, <2>2 DEF DbTypes, ProcessTypes, HistoryTypes, db, known, checks, Typed
<1>7. CASE PersistDoes(c)
  <2>1. /\ UNCHANGED <<stats, direct, done, known, marks, adds, older, doubled, checks, missed, early>>
        /\ kind' = [kind EXCEPT ![req[c].room] = req[c].ask] /\ Typed
    BY <1>7 DEF PersistDoes, Idles
  <2>2. kind[req[c].room] = "none" /\ req[c].ask \in {"root", "sub", "group", "dm"}
    BY <1>7 DEF PersistDoes, KindsInv, ReqAt, Pending, Creating
  <2>3. kind' \in [Rooms -> Kinds] /\ KindsKept
    BY <2>1, <2>2 DEF DbTypes, Kinds, KindsKept
  <2>4. children' \subseteq SpaceRooms' \X Rooms
    BY <1>7, PersistChildren
  <2>5. stats' \subseteq {r \in Rooms : kind'[r] # "none"}
    BY <2>1, <2>3 DEF DbTypes, KindsKept
  <2>6. DbTypes'
    BY <2>1, <2>3, <2>4, <2>5 DEF DbTypes, SpaceRooms
  <2> QED BY <2>1, <2>6 DEF ProcessTypes, HistoryTypes, known, checks, Typed
<1>8. CASE RefuseDoes(c)
  <2>1. /\ UNCHANGED <<db, known, marks, adds, older, doubled, gone, missed, early>> /\ Typed
        /\ owed' \subseteq owed /\ apart' \subseteq apart
    BY <1>8 DEF RefuseDoes, Idles
  <2>2. mixed' \subseteq Users
    BY <1>8, ReqFields, AtMostOneFacts DEF RefuseDoes, HistoryTypes
  <2> QED BY <2>1, <2>2 DEF DbTypes, ProcessTypes, HistoryTypes, db, known, Typed
<1> QED BY <1>1, <1>2, <1>3, <1>4, <1>5, <1>6, <1>7, <1>8, Zenon DEF RequestStep

LEMMA OtherTypes ==
  ASSUME Types, KindsInv, OtherStep PROVE Types'
<1> USE DEF Types
<1>1. ASSUME NEW s \in Rooms, NEW r \in Rooms, AddRoomDoes(s, r) PROVE Types'
  <2>1. UNCHANGED <<kind, stats, direct, done, known, marks, req, older, doubled, checks, early>>
        /\ adds' \subseteq adds
    BY <1>1 DEF AddRoomDoes
  <2>2. s \in SpaceRooms
    BY <1>1 DEF AddRoomDoes, KindsInv, AddAt
  <2>3. DbTypes' /\ missed' \subseteq Rooms
    BY <1>1, <2>1, <2>2, ChildTypes DEF AddRoomDoes, AddToDoes, HistoryTypes
  <2> QED BY <2>1, <2>3 DEF ProcessTypes, HistoryTypes, known, checks
<1>2. ASSUME NEW s \in Rooms, NEW r \in Rooms, NestDoes(s, r) PROVE Types'
  <2>1. UNCHANGED <<kind, stats, direct, done, known, marks, req, adds, doubled, checks, missed, early>>
        /\ older' \in BOOLEAN
    BY <1>2 DEF NestDoes, HistoryTypes
  <2>2. DbTypes'
    BY <1>2, <2>1, ChildTypes DEF NestDoes, SpaceRooms
  <2> QED BY <2>1, <2>2 DEF ProcessTypes, HistoryTypes, known, checks
<1>3. ASSUME NEW r \in Rooms, UpdateStats(r) PROVE Types'
  <2>1. UNCHANGED <<kind, children, direct, done, known, marks, req, adds, doubled, checks, missed, early>>
        /\ older' \in BOOLEAN
    BY <1>3 DEF UpdateStats, HistoryTypes
  <2>2. DbTypes'
    BY <1>3, <2>1 DEF UpdateStats, DbTypes
  <2> QED BY <2>1, <2>2 DEF ProcessTypes, HistoryTypes, known, checks
<1>4. ASSUME NEW r \in Rooms, ListDirect(r) PROVE Types'
  <2>1. UNCHANGED <<kind, stats, children, done, known, marks, req, adds, older, doubled, checks, missed, early>>
        /\ direct' \subseteq Rooms
    BY <1>4 DEF ListDirect, DbTypes
  <2> QED BY <2>1 DEF DbTypes, ProcessTypes, HistoryTypes, known, checks
<1>5. ASSUME NEW r \in Rooms, JoinRemoteDoes(r) PROVE Types'
  <2>1. UNCHANGED <<stats, children, direct, done, known, marks, req, adds, older, doubled, checks, missed, early>>
        /\ kind' = [kind EXCEPT ![r] = "remote"] /\ kind[r] = "none"
    BY <1>5 DEF JoinRemoteDoes
  <2>2. kind' \in [Rooms -> Kinds] /\ KindsKept
    BY <2>1 DEF DbTypes, Kinds, KindsKept
  <2> QED BY <2>1, <2>2, DbTypesKept DEF ProcessTypes, HistoryTypes, known, checks
<1>6. CASE FillDoes
  <2>1. UNCHANGED <<others, adds>> /\ fill' \in FillType
    BY <1>6 DEF FillDoes, FillBecomes
  <2>2. missed' \subseteq Rooms /\ early' \subseteq Rooms /\ done' \in BOOLEAN
    <3>1. fill.todo \subseteq Rooms
      BY DEF ProcessTypes, FillType
    <3> QED BY <1>6, <3>1 DEF FillDoes, AddToDoes, HistoryTypes, DbTypes
  <2>3. children' \subseteq SpaceRooms \X Rooms
    <3>1. fill.todo \subseteq Rooms /\ fill.space \subseteq SpaceRooms
      BY DEF ProcessTypes, FillType, KindsInv, SpacesKnown
    <3>2. children \subseteq SpaceRooms \X Rooms
      BY DEF DbTypes, SpaceRooms
    <3>3. children' = children \/ \E s \in fill.space, r \in fill.todo : children' = children \union {<<s, r>>}
      BY <1>6, Zenon DEF FillDoes, AddToDoes
    <3> QED BY <3>1, <3>2, <3>3
  <2> QED BY <2>1, <2>2, <2>3 DEF others, DbTypes, ProcessTypes, HistoryTypes, checks, SpaceRooms
<1>7. CASE RestartDoes
  <2>1. /\ UNCHANGED <<db, mains, older, doubled, gone, early>>
        /\ main' = {} /\ marks' = {} /\ started' = FALSE /\ fill' \in FillType /\ Typed /\ adds' = {}
        /\ owed' \subseteq owed /\ apart' \subseteq apart /\ mixed' = {}
    BY <1>7, Zenon DEF RestartDoes, FillBecomes
  <2>2. missed' \subseteq Rooms
    BY <1>7 DEF RestartDoes, ProcessTypes, HistoryTypes
  <2> QED BY <2>1, <2>2, AtMostOneFacts DEF DbTypes, ProcessTypes, HistoryTypes, db, Typed
<1>8. CASE UNCHANGED vars
  BY <1>8 DEF vars, db, known, checks, DbTypes, ProcessTypes, HistoryTypes
<1> QED BY <1>1, <1>2, <1>3, <1>4, <1>5, <1>6, <1>7, <1>8, Zenon DEF OtherStep

-----------------------------------------------------------------------------
(* The main space *)

(* m is the oldest space in the statistics that is no child. *)
IsMain(m) ==
  /\ m \in stats /\ kind[m] \in Spaces /\ ~InASpace(m)
  /\ \A s \in stats : kind[s] \in Spaces /\ ~InASpace(s) => m <= s

(* As long as no older space turns up, every answer that was given and     *)
(* every answer on its way is still right; and a request that leaves a     *)
(* main space, and has looked for it, has found it.                        *)
MainInv ==
  older \/ /\ \A m \in mains : IsMain(m)
           /\ \A c \in Requests : \A m \in req[c].space : IsMain(m)
           /\ gone = {}
           /\ \A c \in Requests : req[c].pc = "found" /\ req[c].sure => req[c].space = {req[c].room}

LEMMA OneMain ==
  ASSUME Types, NEW m, NEW n, IsMain(m), IsMain(n) PROVE m = n
<1>1. m \in Nat /\ n \in Nat /\ m <= n /\ n <= m
  BY DEF IsMain, Types, DbTypes, Rooms
<1> QED BY <1>1

LEMMA MainRootIsMain ==
  ASSUME Types PROVE /\ \A m \in MainRoot : IsMain(m)
                     /\ \A m : IsMain(m) => MainRoot = {m}
<1>1. \A m : m \in MainRoot <=> IsMain(m)
  BY DEF MainRoot, Oldest, IsMain
<1>2. ASSUME NEW m, IsMain(m) PROVE MainRoot = {m}
  BY <1>1, <1>2, OneMain
<1> QED BY <1>1, <1>2

LEMMA IsMainKept ==
  ASSUME Types, UNCHANGED stats, KindsKept, \A r \in SpaceRooms : InASpace(r)' <=> InASpace(r)
  PROVE  \A m : IsMain(m) => IsMain(m)'
<1>1. \A r \in stats : kind'[r] = kind[r] /\ r \in Rooms
  BY DEF Types, DbTypes, KindsKept
<1> QED BY <1>1 DEF IsMain, SpaceRooms

(* A step keeps the main space, and gives no other answer. *)
LEMMA MainKept ==
  ASSUME Types, MainInv, older => older', gone' = gone, \A m : IsMain(m) => IsMain(m)',
         mains' \subseteq mains \union UNION {req[c].space : c \in Requests},
         \A c \in Requests : req'[c].space \subseteq req[c].space \union mains,
         \A c \in Requests : req'[c].pc = "found" /\ req'[c].sure => req'[c] = req[c]
  PROVE  MainInv'
<1> SUFFICES ASSUME ~older' PROVE MainInv'
  BY DEF MainInv
<1>1. ~older
  OBVIOUS
<1>2. \A m \in mains' : IsMain(m)'
  BY <1>1 DEF MainInv
<1>3. \A c \in Requests : \A m \in req'[c].space : IsMain(m)'
  BY <1>1 DEF MainInv
<1>4. gone' = {}
  BY <1>1 DEF MainInv
<1>5. \A c \in Requests : req'[c].pc = "found" /\ req'[c].sure => req'[c].space = {req'[c].room}
  BY <1>1 DEF MainInv
<1> QED BY <1>2, <1>3, <1>4, <1>5 DEF MainInv

LEMMA CheckedMain ==
  ASSUME Types, KindsInv, MainInv, NEW c \in Requests, NEW m, CheckedDoes(c, m), UNCHANGED <<db, older>>,
         mains' = mains \union m, m \subseteq mains \/ m = req[c].space,
         ~older /\ req[c].sure => req[c].room \in m
  PROVE  MainInv'
<1>1. CASE older
  BY <1>1 DEF MainInv
<1>2. CASE ~older
  <2>1. gone' = gone
    BY <1>2 DEF CheckedDoes, AllowCreateDoes, AllowEventDoes, Protected, KindsInv, ReqAt
  <2>2. /\ \A e \in Requests : e # c => req'[e] = req[e]
        /\ req'[c].pc # "found" /\ req'[c].space \in {{}, m}
    BY DEF CheckedDoes, AllowCreateDoes, AllowEventDoes, Becomes
  <2>3. \A x : IsMain(x) => IsMain(x)'
    BY DEF IsMain, InASpace, db
  <2>4. mains' \subseteq mains \union UNION {req[e].space : e \in Requests}
    OBVIOUS
  <2>5. \A e \in Requests : req'[e].space \subseteq req[e].space \union mains
    BY <2>2
  <2> QED BY <2>1, <2>2, <2>3, <2>4, <2>5, MainKept
<1> QED BY <1>1, <1>2

LEMMA CheckEventMain ==
  ASSUME Types, KindsInv, MainInv, NEW c \in Requests, CheckEventDoes(c) PROVE MainInv'
<1>1. UNCHANGED <<db, mains, older>> /\ main \subseteq mains
  BY DEF CheckEventDoes, known, KindsInv, SpacesKnown
<1>2. CASE main # {} /\ CheckedDoes(c, main)
  <2>1. ~older /\ req[c].sure => req[c].room \in main
    <3> SUFFICES ASSUME ~older, req[c].sure PROVE req[c].room \in main
      OBVIOUS
    <3>1. PICK m \in main : TRUE
      BY <1>2
    <3>2. req[c].room \in mains /\ m \in mains
      BY <1>1, <3>1 DEF KindsInv, ReqAt
    <3> QED BY <3>1, <3>2, OneMain DEF MainInv
  <2> QED BY <1>1, <1>2, <2>1, CheckedMain
<1>3. CASE Stays(c, "find") /\ UNCHANGED <<marks, checks>>
  <2>1. /\ \A e \in Requests : e # c => req'[e] = req[e]
        /\ req'[c].pc # "found" /\ req'[c].space = req[c].space /\ gone' = gone
    BY <1>3 DEF Stays, Becomes, checks
  <2>2. \A x : IsMain(x) => IsMain(x)'
    BY <1>1 DEF IsMain, InASpace, db
  <2> QED BY <1>1, <2>1, <2>2, MainKept
<1> QED BY <1>2, <1>3 DEF CheckEventDoes

LEMMA FindMainMain ==
  ASSUME Types, KindsInv, MainInv, NEW c \in Requests, FindMainDoes(c) PROVE MainInv'
<1> SUFFICES ASSUME ~older PROVE MainInv'
  BY DEF MainInv, FindMainDoes
<1>1. UNCHANGED <<db, mains, gone, older>>
  BY DEF FindMainDoes, known, checks
<1>2. /\ \A e \in Requests : e # c => req'[e] = req[e]
      /\ req'[c].space = MainRoot /\ req'[c].sure = req[c].sure /\ req'[c].room = req[c].room
  BY DEF FindMainDoes, Becomes
<1>3. \A x : IsMain(x)' <=> IsMain(x)
  BY <1>1 DEF IsMain, InASpace, db
<1>4. req[c].sure => MainRoot = {req[c].room}
  BY MainRootIsMain DEF MainInv, KindsInv, ReqAt
<1>5. \A m \in MainRoot : IsMain(m)
  BY MainRootIsMain
<1> QED BY <1>1, <1>2, <1>3, <1>4, <1>5 DEF MainInv

LEMMA FoundMainMain ==
  ASSUME Types, KindsInv, MainInv, NEW c \in Requests, FoundMainDoes(c) PROVE MainInv'
<1>1. UNCHANGED <<db, older>> /\ mains' = mains \union req[c].space
  BY DEF FoundMainDoes, Learns
<1>2. CASE CheckedDoes(c, req[c].space)
  <2>1. ~older /\ req[c].sure => req[c].room \in req[c].space
    BY DEF FoundMainDoes, MainInv
  <2> QED BY <1>1, <1>2, <2>1, CheckedMain
<1>3. CASE /\ UNCHANGED <<marks, checks>>
           /\ \/ Becomes(c, "idle", FALSE, "other", {}, 0, {}, FALSE)
              \/ Becomes(c, "check", FALSE, req[c].ask, req[c].user, req[c].room, {}, req[c].sure)
  <2>1. /\ \A e \in Requests : e # c => req'[e] = req[e]
        /\ req'[c].pc # "found" /\ req'[c].space = {} /\ gone' = gone
    BY <1>3 DEF Becomes, checks
  <2>2. \A x : IsMain(x) => IsMain(x)'
    BY <1>1 DEF IsMain, InASpace, db
  <2>3. mains' \subseteq mains \union UNION {req[e].space : e \in Requests}
    BY <1>1
  <2> QED BY <1>1, <2>1, <2>2, <2>3, MainKept
<1> QED BY <1>2, <1>3 DEF FoundMainDoes

(* A room that is added to a space is no space itself. *)
LEMMA AddToChildren ==
  ASSUME NEW s \in Rooms, NEW r \in Rooms, AddToDoes(s, r)
  PROVE  /\ \A x : x # r => (InASpace(x)' <=> InASpace(x))
         /\ \A x : InASpace(x) => InASpace(x)'
         /\ InASpace(r)' \/ r \in missed'
         /\ missed \subseteq missed'
BY DEF AddToDoes, InASpace

LEMMA AddRoomChildren ==
  ASSUME Types, KindsInv, NEW s \in Rooms, NEW r \in Rooms, AddRoomDoes(s, r)
  PROVE  \A x \in SpaceRooms : InASpace(x)' <=> InASpace(x)
<1>1. AddToDoes(s, r) /\ r \notin SpaceRooms
  BY DEF AddRoomDoes, KindsInv, AddAt
<1> QED BY <1>1, AddToChildren

(* What the backfill does to the spaces. *)
LEMMA FillChildren ==
  ASSUME Types, KindsInv, FillDoes
  PROVE  \/ UNCHANGED <<children, missed>>
         \/ \E s \in Rooms, r \in Rooms :
              /\ s \in fill.space /\ r \in fill.todo /\ fill.pc = "add" /\ fill'.pc = "add"
              /\ fill'.todo = fill.todo \ {r}
              /\ kind[r] \in Chats /\ AddToDoes(s, r) /\ UNCHANGED <<done, early>>
<1>1. fill.space \subseteq Rooms /\ fill.todo \subseteq Rooms /\ \A r \in fill.todo : kind[r] \in Chats
  BY DEF KindsInv, SpacesKnown, SpaceRooms, Types, ProcessTypes, FillType
<1>2. CASE \E r \in fill.todo : /\ fill.pc = "add" /\ FillBecomes(fill.pc, fill.space, fill.todo \ {r})
                                /\ \E s \in fill.space : AddToDoes(s, r) /\ UNCHANGED <<done, early>>
  BY <1>1, <1>2, Zenon DEF FillBecomes
<1>3. CASE UNCHANGED <<children, missed>>
  BY <1>3
<1> QED BY <1>2, <1>3 DEF FillDoes

LEMMA RequestMain ==
  ASSUME Types, KindsInv, MainInv, NEW c \in Requests, RequestStep(c) PROVE MainInv'
<1>1. ASSUME UNCHANGED <<stats, mains, older, gone>>, KindsKept, \A x : InASpace(x)' <=> InASpace(x),
             \A e \in Requests : e # c => req'[e] = req[e],
             req'[c] = req[c] \/ (req'[c].pc # "found" /\ req'[c].space \subseteq req[c].space)
      PROVE  MainInv'
  <2>1. \A x : IsMain(x) => IsMain(x)'
    BY <1>1, IsMainKept
  <2> QED BY <1>1, <2>1, MainKept
<1>2. ASSUME NEW u \in Users, NEW ask \in Asks, OnCreateRoomDoes(c, u, ask) PROVE MainInv'
  BY <1>1, <1>2 DEF OnCreateRoomDoes, Becomes, KindsKept, InASpace, db, known
<1>3. CASE OnEventDoes(c)
  <2>1. /\ UNCHANGED <<db, known, checks, older>> /\ \A e \in Requests : e # c => req'[e] = req[e]
        /\ req'[c].pc = "check" /\ req'[c].space = {}
    BY <1>3, Zenon DEF OnEventDoes, Becomes
  <2> QED BY <1>1, <2>1 DEF db, known, checks, KindsKept, InASpace
<1>4. CASE CreatorDoes(c)
  BY <1>1, <1>4 DEF CreatorDoes, Stays, Becomes, db, known, checks, KindsKept, InASpace
<1>5. CASE PersistDoes(c)
  <2>1. KindsKept /\ \A x : InASpace(x)' <=> InASpace(x)
    BY <1>5, PersistChildren
  <2> QED BY <1>1, <1>5, <2>1 DEF PersistDoes, Idles, Becomes, known, checks
<1>6. CASE RefuseDoes(c)
  BY <1>1, <1>6 DEF RefuseDoes, Idles, Becomes, db, known, KindsKept, InASpace
<1> QED BY <1>2, <1>3, <1>4, <1>5, <1>6, CheckEventMain, FindMainMain, FoundMainMain, Zenon DEF RequestStep

LEMMA OtherMain ==
  ASSUME Types, KindsInv, MainInv, OtherStep PROVE MainInv'
<1>1. ASSUME UNCHANGED <<stats, mains, req, older, gone>>, KindsKept,
             \A x \in SpaceRooms : InASpace(x)' <=> InASpace(x)
      PROVE  MainInv'
  BY <1>1, IsMainKept, MainKept
<1>2. ASSUME NEW s \in Rooms, NEW r \in Rooms, AddRoomDoes(s, r) PROVE MainInv'
  <2>1. UNCHANGED <<kind, stats, mains, req, older, gone>>
    BY <1>2 DEF AddRoomDoes, known, checks
  <2> QED BY <1>1, <1>2, <2>1, AddRoomChildren DEF KindsKept
<1>3. ASSUME NEW s \in Rooms, NEW r \in Rooms, NestDoes(s, r) PROVE MainInv'
  <2> SUFFICES ASSUME ~older' PROVE MainInv'
    BY DEF MainInv
  <2>1. /\ UNCHANGED <<kind, stats, mains, req, gone>> /\ ~older
        /\ r \notin mains /\ \A c \in Requests : r \notin req[c].space
    BY <1>3 DEF NestDoes, known, checks, Considered
  <2>2. \A x : x # r => (InASpace(x)' <=> InASpace(x))
    BY <1>3 DEF NestDoes, InASpace
  <2>3. InASpace(r)'
    BY <1>3 DEF NestDoes, InASpace
  <2>4. \A m : m # r /\ IsMain(m) => IsMain(m)'
    BY <2>1, <2>2, <2>3 DEF IsMain
  <2> QED BY <2>1, <2>4 DEF MainInv
<1>4. ASSUME NEW r \in Rooms, UpdateStats(r) PROVE MainInv'
  <2> SUFFICES ASSUME ~older' PROVE MainInv'
    BY DEF MainInv
  <2>1. /\ UNCHANGED <<kind, children, mains, req, gone>> /\ ~older /\ stats' = stats \union {r}
        /\ kind[r] \in Spaces => /\ \A m \in mains : ~(r < m)
                                 /\ \A c \in Requests : \A m \in req[c].space : ~(r < m)
    BY <1>4 DEF UpdateStats, known, checks, Considered
  <2>2. ASSUME NEW m, IsMain(m), kind[r] \in Spaces => ~(r < m) PROVE IsMain(m)'
    <3>1. m \in Nat /\ r \in Nat
      BY <2>2 DEF IsMain, Types, DbTypes, Rooms
    <3>2. kind[r] \in Spaces => m <= r
      BY <2>2, <3>1
    <3>3. \A x : InASpace(x)' <=> InASpace(x)
      BY <2>1 DEF InASpace
    <3> QED BY <2>1, <2>2, <3>2, <3>3 DEF IsMain
  <2> QED BY <2>1, <2>2 DEF MainInv
<1>5. ASSUME NEW r \in Rooms, ListDirect(r) PROVE MainInv'
  BY <1>1, <1>5 DEF ListDirect, known, checks, KindsKept, InASpace
<1>6. ASSUME NEW r \in Rooms, JoinRemoteDoes(r) PROVE MainInv'
  <2>1. KindsKept
    BY <1>6 DEF JoinRemoteDoes, KindsKept, Types, DbTypes
  <2> QED BY <1>1, <1>6, <2>1 DEF JoinRemoteDoes, known, checks, InASpace
<1>7. CASE FillDoes
  <2>1. UNCHANGED others
    BY <1>7 DEF FillDoes
  <2>2. \A x \in SpaceRooms : InASpace(x)' <=> InASpace(x)
    <3>1. CASE UNCHANGED <<children, missed>>
      BY <3>1 DEF InASpace
    <3>2. CASE \E s \in Rooms, r \in Rooms : kind[r] \in Chats /\ AddToDoes(s, r)
      BY <3>2, AddToChildren DEF SpaceRooms
    <3> QED BY <1>7, <3>1, <3>2, FillChildren
  <2> QED BY <1>1, <2>1, <2>2 DEF others, checks, KindsKept
<1>8. CASE RestartDoes
  <2>1. /\ UNCHANGED <<db, mains, older, gone>>
        /\ \A c \in Requests : req'[c].space = {} /\ req'[c].pc = "idle"
    BY <1>8 DEF RestartDoes, IsIdle
  <2>2. \A x : IsMain(x) => IsMain(x)'
    BY <2>1 DEF IsMain, InASpace, db
  <2> QED BY <2>1, <2>2, MainKept
<1>9. CASE UNCHANGED vars
  BY <1>1, <1>9 DEF vars, db, known, checks, KindsKept, InASpace
<1> QED BY <1>2, <1>3, <1>4, <1>5, <1>6, <1>7, <1>8, <1>9, Zenon DEF OtherStep

-----------------------------------------------------------------------------
(* Root spaces *)

(* Request c may make a root space: the lookup has found no main space. *)
Allowed(c) == req[c].ask = "root" /\ (~req[c].root \/ (req[c].pc = "found" /\ req[c].space = {}))

(* A root-space that was admitted and is no child. *)
Admitted(r) == kind[r] = "root" /\ ~InASpace(r)

RootInv ==
  doubled \/
    /\ \A r, s \in Rooms : Admitted(r) /\ Admitted(s) => r = s
    /\ \A c \in Requests : Allowed(c) => \A r \in Rooms : ~Admitted(r)
    /\ \A c, d \in Requests : Allowed(c) /\ Allowed(d) => c = d

(* A set of numbers has a least one. *)
LEMMA Least ==
  ASSUME NEW T, T \subseteq Nat, T # {} PROVE \E x \in T : \A y \in T : x <= y
<1> DEFINE R == OpToRel(<, Nat)
<1>1. IsWellFoundedOn(R, Nat)
  BY NatLessThanWellFounded
<1>2. \A x, y \in Nat : x < y => <<x, y>> \in R
  BY DEF OpToRel
<1> HIDE DEF R
<1>3. PICK x \in T : \A y \in T : ~ (<<y, x>> \in R)
  BY <1>1, WFMin
<1>4. \A y \in T : x <= y
  <2> TAKE y \in T
  <2>1. x \in Nat /\ y \in Nat
    OBVIOUS
  <2>2. ~(y < x)
    BY <1>2, <1>3, <2>1
  <2> QED BY <2>1, <2>2
<1> QED BY <1>4

(* The lookup misses no root space in the statistics. *)
LEMMA LookupFindsRoots ==
  ASSUME Types, MainRoot = {} PROVE \A r \in stats : ~Admitted(r)
<1> SUFFICES ASSUME NEW r \in stats, Admitted(r) PROVE FALSE
  OBVIOUS
<1> DEFINE T == {s \in stats : kind[s] \in Spaces /\ ~InASpace(s)}
<1>1. r \in T
  BY DEF Admitted
<1>2. T \subseteq Nat
  <2>1. T \subseteq Rooms
    BY DEF Types, DbTypes
  <2>2. Rooms \subseteq Nat
    BY ConstantsAssumption DEF Rooms
  <2> QED BY <2>1, <2>2
<1>3. MainRoot = {s \in T : \A t \in T : s <= t}
  BY DEF MainRoot, Oldest
<1> HIDE DEF T
<1>4. PICK s \in T : \A t \in T : s <= t
  BY <1>1, <1>2, Least
<1> QED BY <1>3, <1>4

(* A step that makes no root, and allows none. *)
LEMMA RootKept ==
  ASSUME RootInv, doubled => doubled', \A r \in Rooms : Admitted(r)' => Admitted(r),
         \A c \in Requests : Allowed(c)' => Allowed(c)
  PROVE  RootInv'
BY DEF RootInv

LEMMA CheckedAllowed ==
  ASSUME KindsInv, NEW c \in Requests, NEW m, CheckedDoes(c, m), ~req[c].root
  PROVE  \A d \in Requests : Allowed(d)' => Allowed(d)
<1>1. /\ \A e \in Requests : e # c => req'[e] = req[e]
      /\ req'[c].ask \in {req[c].ask, "other"}
  BY DEF CheckedDoes, AllowCreateDoes, AllowEventDoes, Becomes
<1> QED BY <1>1 DEF Allowed

LEMMA RequestRoot ==
  ASSUME Types, KindsInv, RootInv, NEW c \in Requests, RequestStep(c) PROVE RootInv'
<1>0. ASSUME UNCHANGED <<kind, children>> PROVE \A r : Admitted(r)' <=> Admitted(r)
  BY <1>0 DEF Admitted, InASpace
<1>1. ASSUME NEW u \in Users, NEW ask \in Asks, OnCreateRoomDoes(c, u, ask) PROVE RootInv'
  <2>1. \A d \in Requests : Allowed(d)' => Allowed(d)
    BY <1>1 DEF OnCreateRoomDoes, Becomes, Allowed
  <2> QED BY <1>0, <1>1, <2>1, RootKept DEF OnCreateRoomDoes, db
<1>2. CASE OnEventDoes(c)
  <2>1. /\ UNCHANGED <<kind, children, doubled>> /\ \A e \in Requests : e # c => req'[e] = req[e]
        /\ req'[c].ask \in {"leave", "other"}
    BY <1>2, Zenon DEF OnEventDoes, Becomes, db
  <2> QED BY <1>0, <2>1, RootKept DEF Allowed
<1>3. CASE CheckEventDoes(c)
  <2>1. ~req[c].root /\ UNCHANGED <<kind, children, doubled>>
    BY <1>3 DEF CheckEventDoes, KindsInv, ReqAt, db
  <2>2. \A d \in Requests : Allowed(d)' => Allowed(d)
    <3>1. CASE CheckedDoes(c, main)
      BY <2>1, <3>1, CheckedAllowed
    <3>2. CASE Stays(c, "find")
      BY <2>1, <3>2 DEF Stays, Becomes, Allowed
    <3> QED BY <1>3, <3>1, <3>2 DEF CheckEventDoes
  <2> QED BY <1>0, <2>1, <2>2, RootKept
<1>4. CASE FindMainDoes(c)
  <2>1. /\ UNCHANGED <<kind, children>> /\ (doubled => doubled')
        /\ \A e \in Requests : e # c => req'[e] = req[e]
        /\ req'[c].ask = req[c].ask /\ req'[c].root = req[c].root /\ req'[c].space = MainRoot
    BY <1>4 DEF FindMainDoes, Becomes, db
  <2>2. CASE ~req[c].root \/ MainRoot # {}
    BY <1>0, <2>1, <2>2, RootKept DEF Allowed
  <2>3. CASE req[c].root /\ MainRoot = {} /\ ~doubled'
    <3>1. (\A r \in Rooms \ stats : ~Admitted(r)) /\ \A d \in Requests \ {c} : req[d].ask # "root"
      BY <1>4, <2>3 DEF FindMainDoes, Admitted
    <3>2. \A r \in Rooms : ~Admitted(r)
      BY <2>3, <3>1, LookupFindsRoots
    <3>3. \A d \in Requests : d # c => ~Allowed(d)'
      BY <2>1, <3>1 DEF Allowed
    <3> QED BY <1>0, <2>1, <3>2, <3>3 DEF RootInv
  <2>4. CASE doubled'
    BY <2>4 DEF RootInv
  <2> QED BY <2>2, <2>3, <2>4
<1>5. CASE FoundMainDoes(c)
  <2>1. UNCHANGED <<kind, children, doubled>>
    BY <1>5 DEF FoundMainDoes, db
  <2>2. \A d \in Requests : Allowed(d)' => Allowed(d)
    <3>1. CASE ~req[c].root /\ CheckedDoes(c, req[c].space)
      BY <3>1, CheckedAllowed
    <3>2. CASE Becomes(c, "idle", FALSE, "other", {}, 0, {}, FALSE)
      BY <3>2 DEF Becomes, Allowed
    <3>3. CASE /\ req[c].space = {}
               /\ Becomes(c, "check", FALSE, req[c].ask, req[c].user, req[c].room, {}, req[c].sure)
      BY <1>5, <3>3 DEF FoundMainDoes, Becomes, Allowed
    <3> QED BY <1>5, <3>1, <3>2, <3>3 DEF FoundMainDoes
  <2> QED BY <1>0, <2>1, <2>2, RootKept
<1>6. CASE CreatorDoes(c)
  BY <1>0, <1>6, RootKept DEF CreatorDoes, Stays, Becomes, Allowed, db
<1>7. CASE PersistDoes(c)
  <2>1. /\ UNCHANGED doubled /\ kind' = [kind EXCEPT ![req[c].room] = req[c].ask]
        /\ Pending(c) /\ req[c].pc = "persist"
        /\ \A e \in Requests : e # c => req'[e] = req[e]
        /\ req'[c].ask = "other"
    BY <1>7 DEF PersistDoes, Idles, Becomes, Pending
  <2>2. \A d \in Requests : Allowed(d)' => d # c /\ Allowed(d)
    BY <2>1 DEF Allowed
  <2>3. req[c].room \in Rooms /\ ~req[c].root
    BY <2>1 DEF KindsInv, ReqAt
  <2>4. kind'[req[c].room] = req[c].ask /\ \A r \in Rooms : r # req[c].room => kind'[r] = kind[r]
    BY <2>1, <2>3 DEF Types, DbTypes
  <2>5. \A r \in Rooms : Admitted(r)' => Admitted(r) \/ (r = req[c].room /\ req[c].ask = "root")
    BY <1>7, <2>4, PersistChildren DEF Admitted
  <2>6. CASE req[c].ask # "root"
    BY <2>1, <2>2, <2>5, <2>6, RootKept
  <2>7. CASE req[c].ask = "root"
    <3>1. Allowed(c)
      BY <2>3, <2>7 DEF Allowed
    <3> QED BY <2>1, <2>2, <2>5, <3>1 DEF RootInv
  <2> QED BY <2>6, <2>7
<1>8. CASE RefuseDoes(c)
  BY <1>0, <1>8, RootKept DEF RefuseDoes, Idles, Becomes, Allowed, db
<1> QED BY <1>1, <1>2, <1>3, <1>4, <1>5, <1>6, <1>7, <1>8, Zenon DEF RequestStep

(* Once a child, always a child. *)
LEMMA OtherRoot ==
  ASSUME Types, KindsInv, RootInv, OtherStep PROVE RootInv'
<1>0. ASSUME UNCHANGED <<kind, req, doubled>>, \A x : InASpace(x) => InASpace(x)' PROVE RootInv'
  BY <1>0, RootKept DEF Allowed, Admitted
<1>1. ASSUME NEW s \in Rooms, NEW r \in Rooms, AddRoomDoes(s, r) PROVE RootInv'
  BY <1>0, <1>1, AddToChildren DEF AddRoomDoes
<1>2. ASSUME NEW s \in Rooms, NEW r \in Rooms, NestDoes(s, r) PROVE RootInv'
  BY <1>0, <1>2 DEF NestDoes, InASpace
<1>3. ASSUME NEW r \in Rooms, UpdateStats(r) \/ ListDirect(r) PROVE RootInv'
  BY <1>0, <1>3 DEF UpdateStats, ListDirect, InASpace
<1>4. ASSUME NEW r \in Rooms, JoinRemoteDoes(r) PROVE RootInv'
  <2>1. \A x \in Rooms : Admitted(x)' => Admitted(x)
    BY <1>4 DEF JoinRemoteDoes, Types, DbTypes, Admitted, InASpace
  <2> QED BY <1>4, <2>1, RootKept DEF JoinRemoteDoes, Allowed
<1>5. CASE FillDoes
  <2>1. UNCHANGED <<kind, req, doubled>>
    BY <1>5 DEF FillDoes, others
  <2>2. \A x : InASpace(x) => InASpace(x)'
    <3>1. CASE UNCHANGED <<children, missed>>
      BY <3>1 DEF InASpace
    <3>2. CASE \E s \in Rooms, r \in Rooms : AddToDoes(s, r)
      BY <3>2, AddToChildren
    <3> QED BY <1>5, <3>1, <3>2, FillChildren
  <2> QED BY <1>0, <2>1, <2>2
<1>6. CASE RestartDoes
  <2>1. UNCHANGED <<kind, children, doubled>> /\ \A c \in Requests : ~Allowed(c)'
    BY <1>6 DEF RestartDoes, IsIdle, Allowed, db
  <2> QED BY <2>1, RootKept DEF Admitted, InASpace
<1>7. CASE UNCHANGED vars
  BY <1>0, <1>7 DEF vars, db, InASpace
<1> QED BY <1>1, <1>2, <1>3, <1>4, <1>5, <1>6, <1>7, Zenon DEF OtherStep

-----------------------------------------------------------------------------
(* The marks of direct chats *)

Choosing(c) == Creating(c) /\ req[c].pc \in {"check", "find", "found"}

(* As long as the creations of a user do not overlap or fail, the mark is  *)
(* there exactly when the creation at hand makes a direct chat.            *)
MarkInv ==
  /\ \A c, d \in Requests : c # d => req[c].user \intersect req[d].user \subseteq mixed
  /\ \A c \in Requests : Choosing(c) =>
       \A u \in req[c].user \ mixed : u \in marks <=> req[c].ask = "dm"
  /\ \A u \in marks \ mixed : \E c \in Requests : Choosing(c) /\ req[c].ask = "dm" /\ u \in req[c].user

(* A step that moves request c on and leaves the marks. *)
LEMMA MarksKept ==
  ASSUME MarkInv, NEW c \in Requests, \A e \in Requests : e # c => req'[e] = req[e],
         UNCHANGED <<marks, mixed>>, req'[c].user \in {req[c].user, {}},
         Choosing(c)' => req'[c].user = {} \/ (Choosing(c) /\ req'[c].ask = req[c].ask),
         Choosing(c) /\ req[c].ask = "dm" =>
           Choosing(c)' /\ req'[c].ask = "dm" /\ req'[c].user = req[c].user
  PROVE  MarkInv'
<1>1. \A e \in Requests : e # c => (Choosing(e)' <=> Choosing(e))
  BY DEF Choosing, Creating, At
<1>2. \A e, d \in Requests : e # d => req'[e].user \intersect req'[d].user \subseteq mixed
  BY DEF MarkInv
<1>3. \A e \in Requests : Choosing(e)' =>
       \A u \in req'[e].user \ mixed : u \in marks <=> req'[e].ask = "dm"
  BY <1>1 DEF MarkInv
<1>4. ASSUME NEW u \in marks \ mixed
      PROVE  \E e \in Requests : Choosing(e)' /\ req'[e].ask = "dm" /\ u \in req'[e].user
  <2>1. PICK e \in Requests : Choosing(e) /\ req[e].ask = "dm" /\ u \in req[e].user
    BY DEF MarkInv
  <2> QED BY <1>1, <2>1
<1> QED BY <1>2, <1>3, <1>4 DEF MarkInv

LEMMA OnCreateRoomMarks ==
  ASSUME Types, KindsInv, MarkInv, NEW c \in Requests, NEW u \in Users, NEW ask, OnCreateRoomDoes(c, u, ask)
  PROVE  MarkInv'
<1>1. req[c].pc = "idle" /\ req[c].user = {} /\ MarksDo(u, ask)
  BY DEF OnCreateRoomDoes, KindsInv, ReqAt, Creating, At
<1>2. ~Choosing(c)
  BY <1>1 DEF Choosing
<1>3. \A v : v # u => (v \in marks' <=> v \in marks) /\ (v \in mixed' <=> v \in mixed)
  BY <1>1 DEF MarksDo
<1>4. CASE UNCHANGED req /\ ask = "root"
  <2>1. \A e : Choosing(e)' <=> Choosing(e)
    BY <1>4 DEF Choosing, Creating, At
  <2>2. UNCHANGED marks
    BY <1>1, <1>4 DEF MarksDo
  <2>3. \A d \in Requests : u \in req[d].user => u \in mixed'
    BY <1>1 DEF MarksDo
  <2>4. u \in marks => u \in mixed' \/ u \notin mixed
    BY <1>1 DEF MarksDo
  <2>5. \A e, d \in Requests : e # d => req'[e].user \intersect req'[d].user \subseteq mixed'
    BY <1>3, <1>4, <2>3 DEF MarkInv
  <2>6. \A e \in Requests : Choosing(e)' =>
         \A v \in req'[e].user \ mixed' : v \in marks' <=> req'[e].ask = "dm"
    BY <1>3, <1>4, <2>1, <2>2, <2>3 DEF MarkInv
  <2>7. ASSUME NEW v \in marks' \ mixed'
        PROVE  \E e \in Requests : Choosing(e)' /\ req'[e].ask = "dm" /\ v \in req'[e].user
    BY <1>1, <1>3, <1>4, <2>1, <2>2, <2>3, <2>4 DEF MarkInv
  <2> QED BY <2>5, <2>6, <2>7 DEF MarkInv
<1>5. CASE /\ \A e \in Requests : e # c => req'[e] = req[e]
           /\ req'[c].user = {u} /\ req'[c].ask = ask /\ Choosing(c)'
  <2>1. \A e \in Requests : e # c => (Choosing(e)' <=> Choosing(e))
    BY <1>5 DEF Choosing, Creating, At
  <2>2. \A d \in Requests : u \in req[d].user => u \in mixed'
    BY <1>1 DEF MarksDo
  <2>3. u \in mixed' \/ (u \in marks' <=> ask = "dm")
    BY <1>1 DEF MarksDo, MarkInv
  <2>4. \A e, d \in Requests : e # d => req'[e].user \intersect req'[d].user \subseteq mixed'
    <3> SUFFICES ASSUME NEW e \in Requests, NEW d \in Requests, e # d,
                        NEW v \in req'[e].user, v \in req'[d].user
                 PROVE  v \in mixed'
      OBVIOUS
    <3>1. CASE v = u
      BY <1>5, <2>2, <3>1
    <3>2. CASE v # u
      BY <1>3, <1>5, <3>2 DEF MarkInv
    <3> QED BY <3>1, <3>2
  <2>5. ASSUME NEW e \in Requests, Choosing(e)', NEW v \in req'[e].user \ mixed'
        PROVE  v \in marks' <=> req'[e].ask = "dm"
    <3>1. CASE e = c
      BY <1>5, <2>3, <2>5, <3>1
    <3>2. CASE e # c
      BY <1>3, <1>5, <2>1, <2>2, <2>5, <3>2 DEF MarkInv
    <3> QED BY <3>1, <3>2
  <2>6. ASSUME NEW v \in marks' \ mixed'
        PROVE  \E e \in Requests : Choosing(e)' /\ req'[e].ask = "dm" /\ v \in req'[e].user
    <3>1. CASE v = u
      BY <1>5, <2>3, <2>6, <3>1
    <3>2. CASE v # u
      <4>1. PICK e \in Requests : Choosing(e) /\ req[e].ask = "dm" /\ v \in req[e].user
        BY <1>3, <2>6, <3>2 DEF MarkInv
      <4> QED BY <1>2, <1>5, <2>1, <4>1
    <3> QED BY <3>1, <3>2
  <2> QED BY <2>4, <2>5, <2>6 DEF MarkInv
<1>6. \/ UNCHANGED req /\ ask = "root"
      \/ /\ \A e \in Requests : e # c => req'[e] = req[e]
         /\ req'[c].user = {u} /\ req'[c].ask = ask /\ Choosing(c)'
  BY DEF OnCreateRoomDoes, Becomes, Choosing, Creating, At
<1> QED BY <1>4, <1>5, <1>6

(* The mark is taken away as the room is allowed. *)
LEMMA CheckedMarks ==
  ASSUME Types, KindsInv, MarkInv, NEW c \in Requests, NEW m, CheckedDoes(c, m) PROVE MarkInv'
<1>1. CASE ~Creating(c) /\ AllowEventDoes(c, m)
  <2>1. req[c].user = {} /\ ~Choosing(c)
    BY <1>1 DEF KindsInv, ReqAt, Choosing
  <2>2. ~Choosing(c)' /\ req'[c].user = {} /\ UNCHANGED <<marks, mixed>>
        /\ \A e \in Requests : e # c => req'[e] = req[e]
    BY <1>1 DEF AllowEventDoes, Becomes, Choosing
  <2> QED BY <2>1, <2>2, MarksKept
<1>2. CASE AllowCreateDoes(c, m)
  <2>1. /\ \A e \in Requests : e # c => req'[e] = req[e]
        /\ req'[c].user = req[c].user /\ req'[c].pc \in {"creator", "persist"}
        /\ marks' = marks \ req[c].user /\ UNCHANGED mixed
    BY <1>2 DEF AllowCreateDoes, Becomes
  <2>2. ~Choosing(c)' /\ \A e \in Requests : e # c => (Choosing(e)' <=> Choosing(e))
    BY <2>1 DEF Choosing, Creating, At
  <2>3. \A e, d \in Requests : e # d => req'[e].user \intersect req'[d].user \subseteq mixed'
    BY <2>1 DEF MarkInv
  <2>4. ASSUME NEW e \in Requests, Choosing(e)', NEW v \in req'[e].user \ mixed'
        PROVE  v \in marks' <=> req'[e].ask = "dm"
    <3>1. e # c /\ Choosing(e) /\ req'[e] = req[e] /\ v \in req[e].user \ mixed
      BY <2>1, <2>2, <2>4
    <3>2. v \notin req[c].user
      BY <3>1 DEF MarkInv
    <3> QED BY <2>1, <3>1, <3>2 DEF MarkInv
  <2>5. ASSUME NEW v \in marks' \ mixed'
        PROVE  \E e \in Requests : Choosing(e)' /\ req'[e].ask = "dm" /\ v \in req'[e].user
    <3>1. PICK e \in Requests : Choosing(e) /\ req[e].ask = "dm" /\ v \in req[e].user
      BY <2>1, <2>5 DEF MarkInv
    <3> QED BY <2>1, <2>2, <2>5, <3>1
  <2> QED BY <2>3, <2>4, <2>5 DEF MarkInv
<1> QED BY <1>1, <1>2 DEF CheckedDoes

LEMMA RequestMarks ==
  ASSUME Types, KindsInv, MarkInv, NEW c \in Requests, RequestStep(c) PROVE MarkInv'
<1>1. CASE OnEventDoes(c)
  <2>1. /\ UNCHANGED <<marks, mixed>> /\ \A e \in Requests : e # c => req'[e] = req[e]
        /\ req'[c].user = {} /\ req[c].pc = "idle"
    BY <1>1, Zenon DEF OnEventDoes, Becomes, checks
  <2>2. ~Choosing(c)
    BY <2>1 DEF Choosing
  <2> QED BY <2>1, <2>2, MarksKept
<1>2. CASE CheckEventDoes(c)
  <2>1. CASE CheckedDoes(c, main)
    BY <2>1, CheckedMarks
  <2>2. CASE Stays(c, "find") /\ UNCHANGED <<marks, checks>>
    <3>1. /\ UNCHANGED <<marks, mixed>> /\ \A e \in Requests : e # c => req'[e] = req[e]
          /\ req'[c].user = req[c].user /\ req'[c].ask = req[c].ask /\ (Choosing(c)' <=> Choosing(c))
      BY <1>2, <2>2 DEF CheckEventDoes, Stays, Becomes, checks, Choosing, Creating, At
    <3> QED BY <3>1, MarksKept
  <2> QED BY <1>2, <2>1, <2>2 DEF CheckEventDoes
<1>3. CASE FindMainDoes(c)
  <2>1. /\ UNCHANGED <<marks, mixed>> /\ \A e \in Requests : e # c => req'[e] = req[e]
        /\ req'[c].user = req[c].user /\ req'[c].ask = req[c].ask /\ (Choosing(c)' <=> Choosing(c))
    BY <1>3 DEF FindMainDoes, Becomes, checks, Choosing, Creating, At
  <2> QED BY <2>1, MarksKept
<1>4. CASE FoundMainDoes(c)
  <2>1. CASE CheckedDoes(c, req[c].space)
    BY <2>1, CheckedMarks
  <2>2. CASE /\ req[c].root /\ UNCHANGED <<marks, checks>>
             /\ Becomes(c, "idle", FALSE, "other", {}, 0, {}, FALSE)
    <3>1. /\ UNCHANGED <<marks, mixed>> /\ \A e \in Requests : e # c => req'[e] = req[e]
          /\ req'[c].user = {} /\ req[c].ask = "root"
      BY <2>2 DEF Becomes, checks, KindsInv, ReqAt
    <3> QED BY <3>1, MarksKept
  <2>3. CASE /\ UNCHANGED <<marks, checks>>
             /\ Becomes(c, "check", FALSE, req[c].ask, req[c].user, req[c].room, {}, req[c].sure)
    <3>1. /\ UNCHANGED <<marks, mixed>> /\ \A e \in Requests : e # c => req'[e] = req[e]
          /\ req'[c].user = req[c].user /\ req'[c].ask = req[c].ask /\ (Choosing(c)' <=> Choosing(c))
      BY <1>4, <2>3 DEF FoundMainDoes, Becomes, checks, Choosing, Creating, At
    <3> QED BY <3>1, MarksKept
  <2> QED BY <1>4, <2>1, <2>2, <2>3 DEF FoundMainDoes
<1>5. CASE CreatorDoes(c)
  <2>1. /\ UNCHANGED <<marks, mixed>> /\ \A e \in Requests : e # c => req'[e] = req[e]
        /\ req'[c].user = req[c].user /\ ~Choosing(c) /\ ~Choosing(c)'
    BY <1>5 DEF CreatorDoes, Stays, Becomes, checks, Choosing
  <2> QED BY <2>1, MarksKept
<1>6. CASE PersistDoes(c)
  <2>1. /\ UNCHANGED <<marks, mixed>> /\ \A e \in Requests : e # c => req'[e] = req[e]
        /\ req'[c].user = {} /\ ~Choosing(c)
    BY <1>6 DEF PersistDoes, Idles, Becomes, checks, Choosing
  <2> QED BY <2>1, MarksKept
<1>7. CASE RefuseDoes(c)
  <2>1. /\ \A e \in Requests : e # c => req'[e] = req[e]
        /\ req'[c].user = {} /\ UNCHANGED marks
        /\ mixed \subseteq mixed' /\ (Choosing(c) => req[c].user \subseteq mixed')
    BY <1>7 DEF RefuseDoes, Idles, Becomes, Choosing
  <2>2. \A e \in Requests : e # c => (Choosing(e)' <=> Choosing(e))
    BY <2>1 DEF Choosing, Creating, At
  <2>3. \A e, d \in Requests : e # d => req'[e].user \intersect req'[d].user \subseteq mixed'
    BY <2>1 DEF MarkInv
  <2>4. \A e \in Requests : Choosing(e)' =>
         \A v \in req'[e].user \ mixed' : v \in marks' <=> req'[e].ask = "dm"
    BY <2>1, <2>2 DEF MarkInv
  <2>5. ASSUME NEW v \in marks' \ mixed'
        PROVE  \E e \in Requests : Choosing(e)' /\ req'[e].ask = "dm" /\ v \in req'[e].user
    <3>1. PICK e \in Requests : Choosing(e) /\ req[e].ask = "dm" /\ v \in req[e].user
      BY <2>1, <2>5 DEF MarkInv
    <3> QED BY <2>1, <2>2, <2>5, <3>1
  <2> QED BY <2>3, <2>4, <2>5 DEF MarkInv
<1> QED BY <1>1, <1>2, <1>3, <1>4, <1>5, <1>6, <1>7, OnCreateRoomMarks, Zenon DEF RequestStep

LEMMA OtherMarks ==
  ASSUME MarkInv, OtherStep PROVE MarkInv'
<1>1. CASE UNCHANGED <<req, marks, mixed>>
  <2>1. \A e : Choosing(e)' <=> Choosing(e)
    BY <1>1 DEF Choosing, Creating, At
  <2> QED BY <1>1, <2>1 DEF MarkInv
<1>2. CASE RestartDoes
  <2>1. marks' = {} /\ \A c \in Requests : req'[c].user = {}
    BY <1>2 DEF RestartDoes, IsIdle
  <2> QED BY <2>1 DEF MarkInv
<1>3. CASE FillDoes
  BY <1>1, <1>3 DEF FillDoes, others, checks
<1> QED BY <1>1, <1>2, <1>3
        DEF OtherStep, AddRoomDoes, NestDoes, UpdateStats, ListDirect, JoinRemoteDoes, vars, checks

(* Allowed while its user has made nothing else: a direct chat is not      *)
(* added to the main space, a group is.                                    *)
LEMMA ClearCandidate ==
  ASSUME Types, KindsInv, MarkInv, NEW c \in Requests, NEW m, Choosing(c), req[c].user \intersect mixed = {}
  PROVE  /\ req[c].ask = "dm" => ~Candidate(c, m)
         /\ req[c].ask = "group" /\ left.auto /\ m # {} => Candidate(c, m)
<1>1. req[c].user # {}
  BY DEF Choosing, KindsInv, ReqAt
<1>2. \A u \in req[c].user : u \in marks <=> req[c].ask = "dm"
  BY DEF MarkInv
<1> QED BY <1>1, <1>2 DEF Candidate, Direct

-----------------------------------------------------------------------------
(* Direct chats stay out *)

HasDm(r) == \E c \in Requests : Pending(c) /\ req[c].room = r /\ req[c].ask = "dm"

DmInv ==
  /\ DmStaysOut
  /\ \A e \in adds : e[2] \notin apart
  /\ \A c \in Requests : req[c].pc = "creator" => req[c].room \notin apart
  /\ \A r \in apart : kind[r] = "dm" \/ (kind[r] = "none" /\ HasDm(r))
  /\ fill.todo \subseteq early

(* A step of request c that does not touch the rooms and the spaces. *)
LEMMA DmKept ==
  ASSUME Types, DmInv, NEW c \in Requests, UNCHANGED <<kind, children, adds, early>>,
         \A e \in Requests : e # c => req'[e] = req[e], apart' \subseteq apart,
         req'[c].pc # "creator",
         Pending(c) => req[c].room \notin apart' \/ (Pending(c)' /\ req'[c].room = req[c].room
                                                               /\ req'[c].ask = req[c].ask),
         fill'.todo \subseteq fill.todo
  PROVE  DmInv'
<1>1. \A e \in Requests : e # c => (Pending(e)' <=> Pending(e))
  BY DEF Pending
<1>2. ASSUME NEW r \in apart' PROVE kind'[r] = "dm" \/ (kind'[r] = "none" /\ HasDm(r)')
  <2>1. CASE kind[r] = "dm"
    BY <2>1
  <2>2. CASE kind[r] # "dm"
    <3>1. PICK d \in Requests : Pending(d) /\ req[d].room = r /\ req[d].ask = "dm"
      BY <2>2 DEF DmInv, HasDm
    <3>2. Pending(d)' /\ req'[d].room = r /\ req'[d].ask = "dm"
      BY <1>1, <3>1
    <3> QED BY <2>2, <3>2 DEF DmInv, HasDm
  <2> QED BY <2>1, <2>2
<1>3. DmStaysOut'
  BY DEF DmInv, DmStaysOut
<1>4. (\A e \in adds' : e[2] \notin apart') /\ fill'.todo \subseteq early'
      /\ \A e \in Requests : req'[e].pc = "creator" => req'[e].room \notin apart'
  BY DEF DmInv
<1> QED BY <1>2, <1>3, <1>4 DEF DmInv

LEMMA CheckedDms ==
  ASSUME Types, KindsInv, MarkInv, DmInv, NEW c \in Requests, NEW m, CheckedDoes(c, m), ~Pending(c),
         req[c].pc \in {"check", "found"},
         UNCHANGED <<db, adds, early>>, fill'.todo \subseteq fill.todo
  PROVE  DmInv'
<1>0. UNCHANGED <<kind, children>>
  BY DEF db
<1>1. CASE AllowEventDoes(c, m)
  BY <1>0, <1>1, DmKept DEF AllowEventDoes, Becomes
<1>2. CASE Creating(c) /\ AllowCreateDoes(c, m)
  <2>0. PICK n \in Rooms, to \in {"creator", "persist"} :
          /\ kind[n] = "none" /\ \A d \in Requests : req[d].room # n
          /\ \A e \in adds \union children : e[2] # n
          /\ Becomes(c, to, FALSE, req[c].ask, req[c].user, n, m, req[c].sure)
          /\ to = "creator" <=> Candidate(c, m)
          /\ apart' = IF req[c].user \intersect mixed = {} /\ req[c].ask = "dm" THEN apart \union {n} ELSE apart
    BY <1>2 DEF AllowCreateDoes
  <2>1. /\ \A e \in Requests : e # c => req'[e] = req[e]
        /\ req'[c].room = n /\ req'[c].pc = to /\ req'[c].ask = req[c].ask /\ Pending(c)'
    BY <2>0 DEF Becomes, Pending
  <2>2. n \notin apart
    BY <2>0 DEF DmInv, HasDm
  <2>3. to = "creator" => n \notin apart'
    <3>1. Choosing(c)
      BY <1>2 DEF Choosing
    <3> QED BY <2>0, <2>2, <3>1, ClearCandidate
  <2>4. apart' \subseteq apart \union {n} /\ (n \in apart' => req[c].ask = "dm")
    BY <2>0, <2>2
  <2>5. DmStaysOut'
    BY <1>0, <2>0, <2>4 DEF DmInv, DmStaysOut
  <2>6. (\A e \in adds' : e[2] \notin apart') /\ fill'.todo \subseteq early'
    BY <2>0, <2>4 DEF DmInv
  <2>7. \A e \in Requests : req'[e].pc = "creator" => req'[e].room \notin apart'
    BY <2>0, <2>1, <2>3, <2>4 DEF DmInv
  <2>8. ASSUME NEW r \in apart' PROVE kind'[r] = "dm" \/ (kind'[r] = "none" /\ HasDm(r)')
    <3>1. CASE r = n
      BY <1>0, <2>0, <2>1, <2>4, <2>8, <3>1 DEF HasDm
    <3>2. CASE r \in apart /\ HasDm(r)
      <4>1. PICK d \in Requests : Pending(d) /\ req[d].room = r /\ req[d].ask = "dm"
        BY <3>2 DEF HasDm
      <4>2. Pending(d)' /\ req'[d].room = r /\ req'[d].ask = "dm"
        BY <2>1, <4>1 DEF Pending
      <4> QED BY <1>0, <3>2, <4>2 DEF DmInv, HasDm
    <3>3. CASE r \in apart /\ kind[r] = "dm"
      BY <1>0, <3>3
    <3> QED BY <2>4, <2>8, <3>1, <3>2, <3>3 DEF DmInv
  <2> QED BY <2>5, <2>6, <2>7, <2>8 DEF DmInv
<1> QED BY <1>1, <1>2 DEF CheckedDoes

LEMMA RequestDms ==
  ASSUME Types, KindsInv, MarkInv, DmInv, NEW c \in Requests, RequestStep(c) PROVE DmInv'
<1>1. ASSUME NEW u \in Users, NEW ask \in Asks, OnCreateRoomDoes(c, u, ask) PROVE DmInv'
  <2>1. UNCHANGED <<kind, children, adds, early, apart, fill>> /\ ~Pending(c) /\ req[c].pc # "creator"
    BY <1>1 DEF OnCreateRoomDoes, db, known, Pending
  <2> QED BY <1>1, <2>1, DmKept DEF OnCreateRoomDoes, Becomes
<1>2. CASE OnEventDoes(c)
  <2>1. UNCHANGED <<kind, children, adds, early, apart, fill>> /\ ~Pending(c)
        /\ (\A e \in Requests : e # c => req'[e] = req[e]) /\ req'[c].pc = "check"
    <3>1. UNCHANGED <<db, known, adds, checks, early>> /\ req[c].pc = "idle"
          /\ (\A e \in Requests : e # c => req'[e] = req[e]) /\ req'[c].pc = "check"
      BY <1>2, Zenon DEF OnEventDoes, Becomes
    <3> QED BY <3>1 DEF db, known, checks, Pending
  <2> QED BY <2>1, DmKept
<1>3. CASE CheckEventDoes(c)
  <2>1. UNCHANGED <<db, adds, early, fill>> /\ req[c].pc = "check" /\ ~Pending(c)
    BY <1>3 DEF CheckEventDoes, known, Pending
  <2>2. CASE CheckedDoes(c, main)
    BY <2>1, <2>2, CheckedDms
  <2>3. CASE Stays(c, "find") /\ UNCHANGED <<marks, checks>>
    BY <2>1, <2>3, DmKept DEF Stays, Becomes, checks, db
  <2> QED BY <1>3, <2>2, <2>3 DEF CheckEventDoes
<1>4. CASE FindMainDoes(c)
  <2>1. UNCHANGED <<kind, children, adds, early, apart, fill>> /\ ~Pending(c)
    BY <1>4 DEF FindMainDoes, db, known, checks, Pending
  <2> QED BY <1>4, <2>1, DmKept DEF FindMainDoes, Becomes
<1>5. CASE FoundMainDoes(c)
  <2>1. UNCHANGED <<db, adds, early>> /\ req[c].pc = "found" /\ ~Pending(c)
    BY <1>5 DEF FoundMainDoes, Pending
  <2>2. fill'.todo \subseteq fill.todo
    BY <1>5 DEF FoundMainDoes, Learns, FillBecomes
  <2>3. CASE CheckedDoes(c, req[c].space)
    BY <2>1, <2>2, <2>3, CheckedDms
  <2>4. CASE /\ UNCHANGED <<marks, checks>>
             /\ \/ Becomes(c, "idle", FALSE, "other", {}, 0, {}, FALSE)
                \/ Becomes(c, "check", FALSE, req[c].ask, req[c].user, req[c].room, {}, req[c].sure)
    BY <2>1, <2>2, <2>4, DmKept DEF Becomes, checks, db
  <2> QED BY <1>5, <2>3, <2>4 DEF FoundMainDoes
<1>6. CASE CreatorDoes(c)
  <2>1. /\ UNCHANGED <<kind, children, early, apart, fill>>
        /\ \A e \in Requests : e # c => req'[e] = req[e]
        /\ Pending(c)' /\ req'[c].pc = "persist" /\ req'[c].room = req[c].room /\ req'[c].ask = req[c].ask
        /\ adds' \subseteq adds \union {<<m, req[c].room>> : m \in req[c].space}
    BY <1>6 DEF CreatorDoes, Stays, Becomes, db, known, checks, Pending
  <2>2. \A r : HasDm(r)' <=> HasDm(r)
    BY <1>6, <2>1 DEF CreatorDoes, HasDm, Pending
  <2>3. req[c].room \notin apart
    BY <1>6 DEF CreatorDoes, DmInv
  <2>4. \A e \in adds' : e[2] \notin apart'
    BY <2>1, <2>3 DEF DmInv
  <2> QED BY <2>1, <2>2, <2>4 DEF DmInv, DmStaysOut
<1>7. CASE PersistDoes(c)
  <2>1. /\ UNCHANGED <<adds, early, apart, fill>> /\ Pending(c)
        /\ kind' = [kind EXCEPT ![req[c].room] = req[c].ask]
        /\ \A e \in Requests : e # c => req'[e] = req[e]
        /\ ~Pending(c)' /\ req'[c].pc = "idle"
    BY <1>7 DEF PersistDoes, Idles, Becomes, db, known, checks, Pending
  <2>2. req[c].room \in Rooms /\ apart \subseteq Rooms /\ kind[req[c].room] = "none"
    BY <2>1 DEF KindsInv, ReqAt, Types, HistoryTypes
  <2>3. kind'[req[c].room] = req[c].ask /\ \A r \in Rooms : r # req[c].room => kind'[r] = kind[r]
    BY <2>1, <2>2 DEF Types, DbTypes
  <2>4. ASSUME NEW r \in apart' PROVE kind'[r] = "dm" \/ (kind'[r] = "none" /\ HasDm(r)')
    <3>1. CASE kind[r] = "dm"
      BY <2>1, <2>2, <2>3, <3>1
    <3>2. CASE kind[r] # "dm"
      <4>1. kind[r] = "none" /\ HasDm(r)
        BY <2>1, <3>2 DEF DmInv
      <4>2. PICK d \in Requests : Pending(d) /\ req[d].room = r /\ req[d].ask = "dm"
        BY <4>1 DEF HasDm
      <4>3. CASE d = c
        BY <2>3, <4>2, <4>3
      <4>4. CASE d # c
        <5>1. r # req[c].room
          BY <2>1, <4>2, <4>4 DEF KindsInv, RoomsDiffer
        <5>2. Pending(d)' /\ req'[d].room = r /\ req'[d].ask = "dm"
          BY <2>1, <4>2, <4>4 DEF Pending
        <5> QED BY <2>1, <2>2, <2>3, <4>1, <5>1, <5>2 DEF HasDm
      <4> QED BY <4>3, <4>4
    <3> QED BY <3>1, <3>2
  <2>5. \A e \in Requests : req'[e].pc = "creator" => req'[e].room \notin apart'
    BY <2>1 DEF DmInv
  <2>6. DmStaysOut'
    BY <1>7, <2>1, PersistChildren DEF DmInv, DmStaysOut
  <2> QED BY <2>1, <2>4, <2>5, <2>6 DEF DmInv
<1>8. CASE RefuseDoes(c)
  <2>1. UNCHANGED <<kind, children, adds, early, fill>> /\ apart' = apart \ {req[c].room}
    BY <1>8 DEF RefuseDoes, db, known
  <2> QED BY <1>8, <2>1, DmKept DEF RefuseDoes, Idles, Becomes
<1> QED BY <1>1, <1>2, <1>3, <1>4, <1>5, <1>6, <1>7, <1>8, Zenon DEF RequestStep

LEMMA OtherDms ==
  ASSUME Types, KindsInv, DmInv, OtherStep PROVE DmInv'
<1>0. ASSUME UNCHANGED <<req, apart, fill>>, adds' \subseteq adds, early \subseteq early',
             \A r \in apart : kind'[r] = kind[r], DmStaysOut'
      PROVE  DmInv'
  <2>1. \A r : HasDm(r)' <=> HasDm(r)
    BY <1>0 DEF HasDm, Pending
  <2> QED BY <1>0, <2>1 DEF DmInv
<1>1. ASSUME NEW s \in Rooms, NEW r \in Rooms, AddRoomDoes(s, r) PROVE DmInv'
  <2>1. UNCHANGED <<kind, req, apart, fill, early>> /\ adds' \subseteq adds /\ AddToDoes(s, r)
    BY <1>1 DEF AddRoomDoes, known, checks
  <2>2. <<s, r>> \in adds /\ <<s, r>>[2] = r
    BY <1>1 DEF AddRoomDoes
  <2>3. r \notin apart
    BY <2>2 DEF DmInv
  <2>4. DmStaysOut'
    BY <2>1, <2>2, <2>3 DEF AddToDoes, DmInv, DmStaysOut
  <2> QED BY <1>0, <2>1, <2>4
<1>2. ASSUME NEW s \in Rooms, NEW r \in Rooms, NestDoes(s, r) PROVE DmInv'
  <2>1. UNCHANGED <<kind, req, apart, fill, early, adds>> /\ children' = children \union {<<s, r>>}
    BY <1>2 DEF NestDoes, known, checks
  <2>2. r \notin apart /\ <<s, r>>[2] = r
    BY <1>2 DEF NestDoes, DmInv
  <2>3. DmStaysOut'
    BY <2>1, <2>2 DEF DmInv, DmStaysOut
  <2> QED BY <1>0, <2>1, <2>3
<1>3. ASSUME NEW r \in Rooms, UpdateStats(r) \/ ListDirect(r) PROVE DmInv'
  BY <1>0, <1>3 DEF UpdateStats, ListDirect, known, checks, DmInv, DmStaysOut
<1>4. ASSUME NEW r \in Rooms, JoinRemoteDoes(r) PROVE DmInv'
  <2>1. /\ UNCHANGED <<children, req, apart, fill, early, adds>>
        /\ kind[r] = "none" /\ (\A d \in Requests : req[d].room # r) /\ kind' = [kind EXCEPT ![r] = "remote"]
    BY <1>4 DEF JoinRemoteDoes, known, checks
  <2>2. r \notin apart
    BY <2>1 DEF DmInv, HasDm
  <2>3. \A x \in apart : kind'[x] = kind[x]
    BY <2>1, <2>2 DEF Types, DbTypes, HistoryTypes
  <2> QED BY <1>0, <2>1, <2>3 DEF DmInv, DmStaysOut
<1>5. CASE FillDoes
  <2>1. UNCHANGED <<kind, req, apart, adds>>
    BY <1>5 DEF FillDoes, others, checks
  <2>2. early \subseteq early' /\ fill'.todo \subseteq early'
    <3>1. Orphans \subseteq {r \in stats \ direct : kind[r] \in Chats}
      BY DEF Orphans
    <3> QED BY <1>5, <3>1 DEF FillDoes, FillBecomes, DmInv
  <2>3. DmStaysOut'
    <3>1. CASE UNCHANGED <<children, missed>>
      BY <2>1, <2>2, <3>1 DEF DmInv, DmStaysOut
    <3>2. CASE \E s \in Rooms, r \in fill.todo : AddToDoes(s, r)
      <4>1. PICK s \in Rooms, r \in fill.todo : AddToDoes(s, r)
        BY <3>2
      <4>2. r \in early' /\ <<s, r>>[2] = r
        BY <2>2 DEF DmInv
      <4> QED BY <2>1, <2>2, <4>1, <4>2 DEF AddToDoes, DmInv, DmStaysOut
    <3> QED BY <1>5, <3>1, <3>2, FillChildren
  <2>4. \A r : HasDm(r)' <=> HasDm(r)
    BY <2>1 DEF HasDm, Pending
  <2> QED BY <2>1, <2>2, <2>3, <2>4 DEF DmInv
<1>6. CASE RestartDoes
  <2>1. /\ UNCHANGED <<kind, children, early>> /\ adds' = {} /\ fill'.todo = {} /\ apart' \subseteq apart
        /\ \A c \in Requests : req'[c].pc = "idle"
        /\ \A c \in Requests : Creating(c) => req[c].room \notin apart'
    BY <1>6 DEF RestartDoes, db, FillBecomes, IsIdle
  <2>2. \A r \in apart' : kind'[r] = "dm"
    BY <2>1 DEF DmInv, HasDm, KindsInv, ReqAt
  <2> QED BY <2>1, <2>2 DEF DmInv, DmStaysOut
<1>7. CASE UNCHANGED vars
  BY <1>0, <1>7 DEF vars, db, known, checks, DmInv, DmStaysOut
<1> QED BY <1>1, <1>2, <1>3, <1>4, <1>5, <1>6, <1>7, Zenon DEF OtherStep

-----------------------------------------------------------------------------
(* Groups are listed *)

Settled(r) == InASpace(r) \/ r \in missed
Underway(r) ==
  \/ \E e \in adds : e[2] = r
  \/ \E c \in Requests : req[c].pc = "creator" /\ req[c].room = r /\ req[c].space # {}
OwedInv == \A r \in owed : Settled(r) \/ Underway(r)

(* A step of request c that is not yet, or no longer, to add its room. *)
LEMMA OwedKept ==
  ASSUME OwedInv, NEW c \in Requests, UNCHANGED <<missed, adds>>, children \subseteq children',
         owed' \subseteq owed,
         \A e \in Requests : e # c => req'[e] = req[e], req[c].pc # "creator"
  PROVE  OwedInv'
<1>1. ASSUME NEW r \in owed' PROVE Settled(r)' \/ Underway(r)'
  <2>1. CASE Settled(r)
    BY <2>1 DEF Settled, InASpace
  <2>2. CASE Underway(r)
    BY <2>2 DEF Underway
  <2> QED BY <2>1, <2>2 DEF OwedInv
<1> QED BY <1>1 DEF OwedInv

LEMMA CheckedOwed ==
  ASSUME Types, KindsInv, MarkInv, OwedInv, NEW c \in Requests, NEW m, CheckedDoes(c, m),
         req[c].pc \in {"check", "found"}, UNCHANGED <<db, adds, missed>>
  PROVE  OwedInv'
<1>0. UNCHANGED children
  BY DEF db
<1>1. CASE AllowEventDoes(c, m)
  BY <1>0, <1>1, OwedKept DEF AllowEventDoes, Becomes
<1>2. CASE Creating(c) /\ AllowCreateDoes(c, m)
  <2>0. PICK n \in Rooms, to \in {"creator", "persist"} :
          /\ Becomes(c, to, FALSE, req[c].ask, req[c].user, n, m, req[c].sure)
          /\ to = "creator" <=> Candidate(c, m)
          /\ owed' = IF req[c].user \intersect mixed = {} /\ left.auto /\ m # {} /\ req[c].ask = "group"
                       THEN owed \union {n} ELSE owed
    BY <1>2 DEF AllowCreateDoes
  <2>1. /\ \A e \in Requests : e # c => req'[e] = req[e]
        /\ req'[c].pc = to /\ req'[c].room = n /\ req'[c].space = m
    BY <2>0 DEF Becomes
  <2>2. CASE owed' = owed
    BY <1>0, <2>1, <2>2, OwedKept
  <2>3. CASE /\ req[c].user \intersect mixed = {} /\ left.auto /\ m # {} /\ req[c].ask = "group"
             /\ owed' = owed \union {n}
    <3>1. Choosing(c)
      BY <1>2 DEF Choosing
    <3>2. to = "creator"
      BY <2>0, <2>3, <3>1, ClearCandidate
    <3>3. Underway(n)'
      BY <2>1, <2>3, <3>2 DEF Underway
    <3>4. ASSUME NEW r \in owed PROVE Settled(r)' \/ Underway(r)'
      <4>1. CASE Settled(r)
        BY <1>0, <4>1 DEF Settled, InASpace
      <4>2. CASE Underway(r)
        BY <2>1, <4>2 DEF Underway
      <4> QED BY <4>1, <4>2 DEF OwedInv
    <3> QED BY <2>3, <3>3, <3>4 DEF OwedInv
  <2> QED BY <2>0, <2>2, <2>3
<1> QED BY <1>1, <1>2 DEF CheckedDoes

LEMMA RequestOwed ==
  ASSUME Types, KindsInv, MarkInv, OwedInv, NEW c \in Requests, RequestStep(c) PROVE OwedInv'
<1>1. ASSUME NEW u \in Users, NEW ask \in Asks, OnCreateRoomDoes(c, u, ask) PROVE OwedInv'
  BY <1>1, OwedKept DEF OnCreateRoomDoes, Becomes, db
<1>2. CASE OnEventDoes(c)
  <2>1. UNCHANGED <<db, adds, missed, checks>> /\ req[c].pc = "idle"
        /\ (\A e \in Requests : e # c => req'[e] = req[e])
    BY <1>2, Zenon DEF OnEventDoes, Becomes
  <2> QED BY <2>1, OwedKept DEF db, checks
<1>3. CASE CheckEventDoes(c)
  <2>1. UNCHANGED <<db, adds, missed>> /\ req[c].pc = "check"
    BY <1>3 DEF CheckEventDoes
  <2>2. CASE CheckedDoes(c, main)
    BY <2>1, <2>2, CheckedOwed
  <2>3. CASE Stays(c, "find") /\ UNCHANGED <<marks, checks>>
    BY <2>1, <2>3, OwedKept DEF Stays, Becomes, checks, db
  <2> QED BY <1>3, <2>2, <2>3 DEF CheckEventDoes
<1>4. CASE FindMainDoes(c)
  BY <1>4, OwedKept DEF FindMainDoes, Becomes, checks, db
<1>5. CASE FoundMainDoes(c)
  <2>1. UNCHANGED <<db, adds, missed>> /\ req[c].pc = "found"
    BY <1>5 DEF FoundMainDoes
  <2>2. CASE CheckedDoes(c, req[c].space)
    BY <2>1, <2>2, CheckedOwed
  <2>3. CASE /\ UNCHANGED <<marks, checks>>
             /\ \/ Becomes(c, "idle", FALSE, "other", {}, 0, {}, FALSE)
                \/ Becomes(c, "check", FALSE, req[c].ask, req[c].user, req[c].room, {}, req[c].sure)
    BY <2>1, <2>3, OwedKept DEF Becomes, checks, db
  <2> QED BY <1>5, <2>2, <2>3 DEF FoundMainDoes
<1>6. CASE CreatorDoes(c)
  <2>1. /\ UNCHANGED <<children, owed>> /\ adds \subseteq adds' /\ missed \subseteq missed'
        /\ \A e \in Requests : e # c => req'[e] = req[e]
        /\ \/ adds' = adds \union {<<m, req[c].room>> : m \in req[c].space}
           \/ req[c].room \in missed'
    BY <1>6 DEF CreatorDoes, Stays, Becomes, db, checks
  <2>2. ASSUME req[c].space # {} PROVE req[c].room \in missed' \/ \E e \in adds' : e[2] = req[c].room
    <3>1. PICK m \in req[c].space : TRUE
      BY <2>2
    <3>2. req[c].room \in missed' \/ (<<m, req[c].room>> \in adds' /\ <<m, req[c].room>>[2] = req[c].room)
      BY <2>1, <3>1
    <3> QED BY <3>2, Zenon
  <2>3. ASSUME NEW r \in owed PROVE Settled(r)' \/ Underway(r)'
    <3>1. CASE Settled(r)
      BY <2>1, <3>1 DEF Settled, InASpace
    <3>2. CASE Underway(r)
      BY <2>1, <2>2, <3>2 DEF Underway, Settled
    <3> QED BY <3>1, <3>2 DEF OwedInv
  <2> QED BY <2>1, <2>3 DEF OwedInv
<1>7. CASE PersistDoes(c)
  BY <1>7, OwedKept DEF PersistDoes, Idles, Becomes, checks
<1>8. CASE RefuseDoes(c)
  BY <1>8, OwedKept DEF RefuseDoes, Idles, Becomes, db
<1> QED BY <1>1, <1>2, <1>3, <1>4, <1>5, <1>6, <1>7, <1>8, Zenon DEF RequestStep

LEMMA OtherOwed ==
  ASSUME Types, KindsInv, OwedInv, OtherStep PROVE OwedInv'
<1>0. ASSUME UNCHANGED <<req, adds, owed>>, \A x : Settled(x) => Settled(x)' PROVE OwedInv'
  <2>1. \A r : Underway(r)' <=> Underway(r)
    BY <1>0 DEF Underway
  <2> QED BY <1>0, <2>1 DEF OwedInv
<1>1. ASSUME NEW s \in Rooms, NEW r \in Rooms, AddRoomDoes(s, r) PROVE OwedInv'
  <2>1. UNCHANGED <<req, owed>> /\ AddToDoes(s, r) /\ adds' = adds \ {<<s, r>>}
    BY <1>1 DEF AddRoomDoes, checks
  <2>2. Settled(r)' /\ \A x : Settled(x) => Settled(x)'
    BY <2>1, AddToChildren DEF Settled
  <2>3. \A x : x # r /\ Underway(x) => Underway(x)'
    <3> SUFFICES ASSUME NEW x, x # r, Underway(x) PROVE Underway(x)'
      OBVIOUS
    <3>1. CASE \E c \in Requests : req[c].pc = "creator" /\ req[c].room = x /\ req[c].space # {}
      BY <2>1, <3>1 DEF Underway
    <3>2. CASE \E e \in adds : e[2] = x
      <4>1. PICK e \in adds : e[2] = x
        BY <3>2
      <4>2. <<s, r>>[2] = r
        OBVIOUS
      <4>3. e \in adds'
        BY <2>1, <4>1, <4>2
      <4> QED BY <4>1, <4>3, Zenon DEF Underway
    <3> QED BY <3>1, <3>2 DEF Underway
  <2> QED BY <2>1, <2>2, <2>3 DEF OwedInv
<1>2. ASSUME NEW s \in Rooms, NEW r \in Rooms, NestDoes(s, r) PROVE OwedInv'
  BY <1>0, <1>2 DEF NestDoes, checks, Settled, InASpace
<1>3. ASSUME NEW r \in Rooms, UpdateStats(r) \/ ListDirect(r) \/ JoinRemoteDoes(r) PROVE OwedInv'
  BY <1>0, <1>3 DEF UpdateStats, ListDirect, JoinRemoteDoes, checks, Settled, InASpace
<1>4. CASE FillDoes
  <2>1. UNCHANGED <<req, adds, owed>>
    BY <1>4 DEF FillDoes, others, checks
  <2>2. \A x : Settled(x) => Settled(x)'
    <3>1. CASE UNCHANGED <<children, missed>>
      BY <3>1 DEF Settled, InASpace
    <3>2. CASE \E s \in Rooms, r \in Rooms : AddToDoes(s, r)
      BY <3>2, AddToChildren DEF Settled
    <3> QED BY <1>4, <3>1, <3>2, FillChildren
  <2> QED BY <1>0, <2>1, <2>2
<1>5. CASE RestartDoes
  <2>1. /\ UNCHANGED children /\ missed' = missed \union {e[2] : e \in adds} /\ owed' \subseteq owed
        /\ \A c \in Requests : Creating(c) => req[c].room \notin owed'
    BY <1>5 DEF RestartDoes, db
  <2>2. ASSUME NEW r \in owed' PROVE Settled(r)'
    <3>1. CASE Settled(r)
      BY <2>1, <3>1 DEF Settled, InASpace
    <3>2. CASE \E e \in adds : e[2] = r
      BY <2>1, <3>2 DEF Settled
    <3>3. ~\E c \in Requests : req[c].pc = "creator" /\ req[c].room = r
      BY <2>1, <2>2 DEF KindsInv, ReqAt, Pending
    <3> QED BY <2>1, <3>1, <3>2, <3>3 DEF OwedInv, Underway
  <2> QED BY <2>2 DEF OwedInv
<1>6. CASE UNCHANGED vars
  BY <1>0, <1>6 DEF vars, db, checks, Settled, InASpace
<1> QED BY <1>1, <1>2, <1>3, <1>4, <1>5, <1>6, Zenon DEF OtherStep

-----------------------------------------------------------------------------
(* The backfill *)

(* While it runs, every group it has seen is settled or still to be added. *)
FillInv ==
  /\ BackfillCompletes
  /\ early \subseteq stats /\ \A r \in direct : kind[r] = "dm"
  /\ fill.pc \in {"orphans", "add"} => ~done
  /\ fill.pc = "add" => \A r \in early : kind[r] = "group" => Settled(r) \/ r \in fill.todo

LEMMA FillKept ==
  ASSUME Types, FillInv, UNCHANGED <<done, early>>, stats \subseteq stats', KindsKept,
         \A r \in direct' : r \in direct \/ kind'[r] = "dm",
         \A x : Settled(x) => Settled(x)',
         fill' = fill \/ fill'.pc \notin {"orphans", "add"}
  PROVE  FillInv'
<1>1. (\A r \in early : kind'[r] = kind[r]) /\ (\A r \in direct : kind[r] = "dm" /\ kind'[r] = kind[r])
  BY DEF FillInv, Types, DbTypes, KindsKept
<1>2. BackfillCompletes'
  BY <1>1 DEF FillInv, BackfillCompletes, Settled
<1>3. early' \subseteq stats' /\ \A r \in direct' : kind'[r] = "dm"
  BY <1>1 DEF FillInv
<1>4. fill'.pc \in {"orphans", "add"} => ~done'
  BY DEF FillInv
<1>5. fill'.pc = "add" => \A r \in early' : kind'[r] = "group" => Settled(r)' \/ r \in fill'.todo
  BY <1>1 DEF FillInv
<1> QED BY <1>2, <1>3, <1>4, <1>5 DEF FillInv

LEMMA FillFill ==
  ASSUME Types, KindsInv, FillInv, FillDoes PROVE FillInv'
<1>1. UNCHANGED <<kind, stats, direct>>
  BY DEF FillDoes, others
<1>2. CASE /\ fill.pc = "meta" /\ ~done /\ FillBecomes("orphans", fill.space, fill.todo)
           /\ UNCHANGED <<children, done, missed, early>>
  BY <1>1, <1>2 DEF FillBecomes, FillInv, BackfillCompletes, InASpace
<1>3. CASE /\ fill.pc = "orphans" /\ FillBecomes("add", fill.space, Orphans)
           /\ early' = early \union {r \in stats \ direct : kind[r] \in Chats}
           /\ UNCHANGED <<children, done, missed>>
  <2>1. fill'.pc = "add" /\ fill'.todo = Orphans /\ ~done /\ ~done'
    BY <1>3 DEF FillBecomes, FillInv
  <2>2. \A x : Settled(x)' <=> Settled(x)
    BY <1>3 DEF Settled, InASpace
  <2>3. early' \subseteq stats
    BY <1>3 DEF FillInv
  <2>4. ASSUME NEW r \in early', kind[r] = "group" PROVE Settled(r)' \/ r \in Orphans
    <3>1. r \in stats /\ r \notin direct
      BY <2>3, <2>4 DEF FillInv
    <3> QED BY <2>2, <2>4, <3>1 DEF Settled, Orphans
  <2> QED BY <1>1, <2>1, <2>3, <2>4 DEF FillInv, BackfillCompletes
<1>4. CASE \E s \in Rooms, r \in Rooms :
             /\ r \in fill.todo /\ fill.pc = "add" /\ fill'.pc = "add" /\ fill'.todo = fill.todo \ {r}
             /\ AddToDoes(s, r) /\ UNCHANGED <<done, early>>
  <2>1. PICK s \in Rooms, r \in Rooms :
             /\ r \in fill.todo /\ fill.pc = "add" /\ fill'.pc = "add" /\ fill'.todo = fill.todo \ {r}
             /\ AddToDoes(s, r) /\ UNCHANGED <<done, early>>
    BY <1>4
  <2>2. Settled(r)' /\ \A x : Settled(x) => Settled(x)'
    BY <2>1, AddToChildren DEF Settled
  <2>3. ~done /\ \A x \in early : kind[x] = "group" => Settled(x) \/ x \in fill.todo
    BY <2>1 DEF FillInv
  <2> QED BY <1>1, <2>1, <2>2, <2>3 DEF FillInv, BackfillCompletes
<1>5. CASE /\ fill.pc = "add" /\ fill.todo = {} /\ done' = TRUE /\ FillBecomes("idle", {}, {})
           /\ UNCHANGED <<children, missed, early>>
  <2>1. fill'.pc = "idle"
    BY <1>5 DEF FillBecomes
  <2>2. \A x \in early : kind[x] = "group" => Settled(x)
    BY <1>5 DEF FillInv
  <2>3. BackfillCompletes'
    BY <1>1, <1>5, <2>2 DEF BackfillCompletes, Settled, InASpace
  <2> QED BY <1>1, <1>5, <2>1, <2>3 DEF FillInv
<1>6. CASE FillBecomes("idle", {}, {}) /\ UNCHANGED <<children, done, missed, early>>
  BY <1>1, <1>6, FillKept DEF FillBecomes, KindsKept, Settled, InASpace
<1>7. CASE \E r \in fill.todo : /\ fill.pc = "add" /\ FillBecomes(fill.pc, fill.space, fill.todo \ {r})
                                /\ \E s \in fill.space : AddToDoes(s, r) /\ UNCHANGED <<done, early>>
  <2>1. fill.space \subseteq Rooms /\ fill.todo \subseteq Rooms
    BY DEF KindsInv, SpacesKnown, SpaceRooms, Types, ProcessTypes, FillType
  <2> QED BY <1>4, <1>7, <2>1, Zenon DEF FillBecomes
<1> QED BY <1>2, <1>3, <1>5, <1>6, <1>7 DEF FillDoes

LEMMA RequestFill ==
  ASSUME Types, KindsInv, FillInv, NEW c \in Requests, RequestStep(c) PROVE FillInv'
<1>0. ASSUME UNCHANGED <<stats, direct, done, early>>, children \subseteq children', missed \subseteq missed',
             KindsKept, fill' = fill \/ fill'.pc \notin {"orphans", "add"}
      PROVE  FillInv'
  BY <1>0, FillKept DEF Settled, InASpace
<1>1. CASE UNCHANGED <<db, fill, early>> /\ missed \subseteq missed'
  BY <1>0, <1>1 DEF db, KindsKept
<1>2. ASSUME NEW u \in Users, NEW ask \in Asks, OnCreateRoomDoes(c, u, ask) PROVE FillInv'
  BY <1>1, <1>2, Zenon DEF OnCreateRoomDoes, known
<1>3. CASE OnEventDoes(c) \/ CheckEventDoes(c) \/ FindMainDoes(c) \/ CreatorDoes(c) \/ RefuseDoes(c)
  BY <1>1, <1>3, Zenon DEF OnEventDoes, CheckEventDoes, FindMainDoes, CreatorDoes, RefuseDoes, known
<1>4. CASE FoundMainDoes(c)
  <2>1. UNCHANGED <<stats, children, direct, done, missed, early>> /\ KindsKept
    BY <1>4 DEF FoundMainDoes, db, KindsKept
  <2>2. fill' = fill \/ fill'.pc = "meta"
    BY <1>4 DEF FoundMainDoes, Learns, FillBecomes
  <2> QED BY <1>0, <2>1, <2>2
<1>5. CASE PersistDoes(c)
  <2>1. KindsKept
    BY <1>5, PersistChildren
  <2> QED BY <1>0, <1>5, <2>1 DEF PersistDoes, known
<1> QED BY <1>2, <1>3, <1>4, <1>5, Zenon DEF RequestStep

LEMMA OtherFill ==
  ASSUME Types, KindsInv, FillInv, OtherStep PROVE FillInv'
<1>1. ASSUME NEW s \in Rooms, NEW r \in Rooms, AddRoomDoes(s, r) PROVE FillInv'
  <2>1. UNCHANGED <<kind, stats, direct, done, early, fill>> /\ \A x : Settled(x) => Settled(x)'
    BY <1>1, AddToChildren DEF AddRoomDoes, known, Settled
  <2> QED BY <2>1, FillKept DEF KindsKept
<1>2. ASSUME NEW s \in Rooms, NEW r \in Rooms, NestDoes(s, r) PROVE FillInv'
  <2>1. UNCHANGED <<kind, stats, direct, done, early, fill>> /\ \A x : Settled(x) => Settled(x)'
    BY <1>2 DEF NestDoes, known, Settled, InASpace
  <2> QED BY <2>1, FillKept DEF KindsKept
<1>3. ASSUME NEW r \in Rooms, UpdateStats(r) \/ ListDirect(r) PROVE FillInv'
  <2>1. /\ UNCHANGED <<kind, done, early, fill>> /\ \A x : Settled(x) => Settled(x)'
        /\ stats \subseteq stats' /\ \A x \in direct' : x \in direct \/ kind'[x] = "dm"
    BY <1>3 DEF UpdateStats, ListDirect, known, Settled, InASpace
  <2> QED BY <2>1, FillKept DEF KindsKept
<1>4. ASSUME NEW r \in Rooms, JoinRemoteDoes(r) PROVE FillInv'
  <2>1. KindsKept
    BY <1>4 DEF JoinRemoteDoes, KindsKept, Types, DbTypes
  <2>2. UNCHANGED <<stats, direct, done, early, fill>> /\ \A x : Settled(x) => Settled(x)'
    BY <1>4 DEF JoinRemoteDoes, known, Settled, InASpace
  <2> QED BY <2>1, <2>2, FillKept
<1>5. CASE RestartDoes
  <2>1. /\ UNCHANGED <<kind, stats, direct, done, early>> /\ fill'.pc = "idle"
        /\ \A x : Settled(x) => Settled(x)'
    BY <1>5 DEF RestartDoes, db, FillBecomes, Settled, InASpace
  <2> QED BY <2>1, FillKept DEF KindsKept
<1>6. CASE UNCHANGED vars
  <2>1. UNCHANGED <<kind, stats, direct, done, early, fill>> /\ \A x : Settled(x) => Settled(x)'
    BY <1>6 DEF vars, db, known, Settled, InASpace
  <2> QED BY <2>1, FillKept DEF KindsKept
<1> QED BY <1>1, <1>2, <1>3, <1>4, <1>5, <1>6, FillFill, Zenon DEF OtherStep

-----------------------------------------------------------------------------
(* The theorems *)

Inv ==
  /\ Types /\ KindsInv
  /\ MainInv /\ RootInv
  /\ MarkInv /\ DmInv /\ OwedInv /\ FillInv

LEMMA InitInv == Init => Inv
<1> SUFFICES ASSUME Init PROVE Inv
  OBVIOUS
<1>0. /\ left \in Bounds /\ kind = left.at /\ stats = {r \in Rooms : kind[r] # "none"}
      /\ children = {} /\ direct = {r \in Rooms : kind[r] = "dm"} /\ done = FALSE
      /\ main = {} /\ marks = {} /\ started = FALSE /\ adds = {} /\ fill = NoFill
      /\ mains = {} /\ older = FALSE /\ doubled = FALSE /\ gone = {}
      /\ mixed = {} /\ owed = {} /\ apart = direct /\ missed = {} /\ early = {}
  BY DEF Init
<1>1. req \in [Requests -> ReqType] /\ \A c \in Requests : IsIdle(c)
  <2>1. NoReq \in ReqType
    BY AtMostOneFacts, ConstantsAssumption DEF NoReq, ReqType, Pcs, Asks
  <2> QED BY <2>1 DEF Init, IsIdle, NoReq
<1>2. fill \in FillType /\ fill.pc = "idle" /\ fill.space = {} /\ fill.todo = {}
  BY <1>0, AtMostOneFacts DEF NoFill, FillType
<1>3. kind \in [Rooms -> Kinds] /\ \A r, s \in Rooms : kind[r] = "root" /\ kind[s] = "root" => r = s
  BY <1>0, ConstantsAssumption
<1>4. Types
  <2>1. DbTypes
    BY <1>0, <1>3 DEF DbTypes
  <2>2. ProcessTypes
    BY <1>0, <1>1, <1>2, AtMostOneFacts DEF ProcessTypes
  <2>3. HistoryTypes
    BY <1>0 DEF HistoryTypes
  <2> QED BY <2>1, <2>2, <2>3 DEF Types
<1>5. \A c \in Requests : ~Pending(c) /\ ~Choosing(c) /\ ~Allowed(c)
  BY <1>1 DEF IsIdle, Pending, Choosing, Allowed
<1>6. KindsInv
  <2>1. \A c \in Requests : ReqAt(c)
    BY <1>1 DEF IsIdle, ReqAt, Creating, At, Pending
  <2> QED BY <1>0, <1>2, <1>5, <2>1 DEF KindsInv, RoomsDiffer, SpacesKnown
<1>7. MainInv
  BY <1>0, <1>1 DEF MainInv, IsIdle
<1>8. RootInv
  BY <1>0, <1>3, <1>5 DEF RootInv, Admitted
<1>9. MarkInv
  BY <1>0, <1>1, <1>5 DEF MarkInv, IsIdle
<1>10. DmInv
  BY <1>0, <1>1, <1>2 DEF DmInv, DmStaysOut, IsIdle
<1>11. OwedInv /\ FillInv
  BY <1>0, <1>2 DEF OwedInv, FillInv, BackfillCompletes
<1> QED BY <1>4, <1>6, <1>7, <1>8, <1>9, <1>10, <1>11 DEF Inv

LEMMA NextInv == Inv /\ [Next]_vars => Inv'
<1> SUFFICES ASSUME Inv, [Next]_vars PROVE Inv'
  OBVIOUS
<1> USE DEF Inv
<1>1. ASSUME NEW c \in Requests, RequestStep(c) PROVE Inv'
  BY <1>1, RequestTypes, RequestKinds, RequestMain, RequestRoot, RequestMarks, RequestDms,
     RequestOwed, RequestFill, Zenon
<1>2. CASE OtherStep
  BY <1>2, OtherTypes, OtherKinds, OtherMain, OtherRoot, OtherMarks, OtherDms,
     OtherOwed, OtherFill, Zenon
<1> QED BY <1>1, <1>2, StepCases

LEMMA SpecInv == Spec => []Inv
BY InitInv, NextInv, PTL DEF Spec

(* At most one of a kind. *)
LEMMA OneAtMost ==
  ASSUME NEW S, \A x, y \in S : x = y PROVE Cardinality(S) <= 1
<1>1. CASE S = {}
  BY <1>1, FS_EmptySet
<1>2. CASE S # {}
  <2>1. PICK x \in S : TRUE
    BY <1>2
  <2>2. S = {x}
    BY <2>1
  <2> QED BY <2>2, FS_Singleton
<1> QED BY <1>1, <1>2

(* Every variable of the guard keeps its type: in particular a child is    *)
(* always listed in a space, never in a group or in a room that was not    *)
(* made.                                                                   *)
THEOREM TypeCorrect == Spec => []TypeOK
<1>1. Inv => TypeOK
  BY TypesAreTypeOK DEF Inv
<1> QED BY <1>1, SpecInv, PTL

(* get_main_root_space_id: with any number of requests, restarts and       *)
(* spaces of other servers there is one main space at most, and a leave or *)
(* a ban from it is refused from the moment it is known on, until an older *)
(* space appears or it is made a child.                                    *)
THEOREM OneMainSpace == Spec => []MainIsStable
<1>1. Inv => MainIsStable
  <2> SUFFICES ASSUME Inv, ~older PROVE Cardinality(mains) <= 1 /\ gone = {}
    BY DEF MainIsStable
  <2>1. \A m, n \in mains : m = n
    BY OneMain DEF Inv, MainInv
  <2> QED BY <2>1, OneAtMost DEF Inv, MainInv
<1> QED BY <1>1, SpecInv, PTL

(* _on_create_room: a second root-space comes through its check only if   *)
(* the lookup runs while another one is in the making or not in the sta-   *)
(* tistics.  Nesting spaces, the company's included, upgrades, spaces of   *)
(* other servers, restarts and failures never let one through; the spaces  *)
(* that do not pass the check are not counted.                             *)
THEOREM OneRootSpace == Spec => []OneRoot
<1>1. Inv => OneRoot
  <2> SUFFICES ASSUME Inv, ~doubled PROVE Cardinality({r \in RootSpaces : kind[r] = "root"}) <= 1
    BY DEF OneRoot
  <2>1. \A r, s \in {x \in RootSpaces : kind[x] = "root"} : r = s
    BY DEF Inv, RootInv, Admitted, RootSpaces
  <2> QED BY <2>1, OneAtMost
<1> QED BY <1>1, SpecInv, PTL

(* _check_event_allowed and _orphan_rooms_txn: no direct chat is put into  *)
(* a space, neither by the request that makes it nor by the backfill, with *)
(* the exceptions the property names.                                      *)
THEOREM DirectChatsStayOut == Spec => []DmStaysOut
<1>1. Inv => DmStaysOut
  BY DEF Inv, DmInv
<1> QED BY <1>1, SpecInv, PTL

(* _add_room_to_main_space: a group that was checked with a known main     *)
(* space is listed in it, on its way there, or a failure was logged.       *)
THEOREM GroupsGetListed == Spec => []GroupsAreListed
<1>1. Inv => GroupsAreListed
  <2> SUFFICES ASSUME Inv, NEW r \in owed, kind[r] = "group"
               PROVE  InASpace(r) \/ r \in missed \/ \E e \in adds : e[2] = r
    BY DEF GroupsAreListed
  <2>1. ~\E c \in Requests : req[c].pc = "creator" /\ req[c].room = r
    BY DEF Inv, KindsInv, ReqAt, Pending
  <2> QED BY <2>1 DEF Inv, OwedInv, Settled, Underway
<1> QED BY <1>1, SpecInv, PTL

(* _maybe_backfill: backfill_done is written only once every group that    *)
(* was found has been added or has failed, through crashes and repeats.    *)
THEOREM BackfillIsComplete == Spec => []BackfillCompletes
<1>1. Inv => BackfillCompletes
  BY DEF Inv, FillInv
<1> QED BY <1>1, SpecInv, PTL
=============================================================================
