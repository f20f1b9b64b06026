------------------------ MODULE StoriesRooms_proofs ------------------------
(***************************************************************************)
(* Proofs about stories_membership, for any number of users, DMs, jobs,    *)
(* rooms, faults and restarts.                                             *)
(*                                                                         *)
(* First, what each action does to the fields of a job.  Then the parts of *)
(* the inductive invariant:                                                *)
(*   Types       every variable has its type;                              *)
(*   JobsInv     where a job is tells what it holds;                       *)
(*   RoomsInv    rooms are numbered as they are made, nobody is in a room  *)
(*               before, and a tag names a room of its user;               *)
(*   OneRoomInv  one job or client makes the room of a user, and it is the *)
(*               only one;                                                 *)
(*   SilentInv   who is about to be invited has been muted;                *)
(*   PairsInv    one job at a time works on a pair, it has done its work   *)
(*               for the side it has served, and what the last job wanted  *)
(*               lasts until then.                                         *)
(* For the redactions, RoundsInv: a round holds expired stories only.      *)
(***************************************************************************)
EXTENDS StoriesRooms, FiniteSetTheorems, TLAPS

Lists == (Local \X Rooms) \union Stories
JobType == [pc: Pcs, what: {"in", "out"}, event: SUBSET (Users \X DMs), todo: SUBSET Pairs,
            turns: Seq(Users \X Users), room: 0..MaxRooms, list: SUBSET Lists]

RoomTypes ==
  /\ tag \in [Users -> {{}} \union {{r} : r \in Rooms}]
  /\ owner \in [Rooms -> {{}} \union {{u} : u \in Local}]
  /\ audience \in [Rooms -> SUBSET Users]
  /\ client \in [Local -> SUBSET Rooms]

RuleTypes == muted \subseteq Local \X Rooms /\ notifying \subseteq Local \X Rooms /\ loud \subseteq Local \X Rooms

HistoryTypes ==
  wish \in [Pairs -> {"none", "in", "out"}] /\ tangled \subseteq Pairs /\ doubled \subseteq Local

Types ==
  /\ in \in [DMs -> SUBSET Users] /\ direct \in [Users -> SUBSET DMs]
  /\ RoomTypes /\ RuleTypes /\ HistoryTypes
  /\ story \in [Stories -> {"none", "live", "expired", "redacted"}] /\ armed \in BOOLEAN
  /\ job \in [Jobs -> JobType]

LEMMA TypesAreTypeOK == Types => TypeOK
BY DEF TypeOK, Types, RoomTypes, RuleTypes, HistoryTypes, JobType

-----------------------------------------------------------------------------
(* The fields of a job *)

Is(r, pc, what, event, todo, turns, room, list) ==
  /\ r \in JobType
  /\ r.pc = pc /\ r.what = what /\ r.event = event /\ r.todo = todo
  /\ r.turns = turns /\ r.room = room /\ r.list = list

LEMMA IdleFacts == Is(Idle, "idle", "in", {}, {}, << >>, 0, {})
BY ConstantsAssumption DEF Is, Idle, JobType, Pcs

LEMMA JobFields ==
  ASSUME Types, NEW j \in Jobs
  PROVE  /\ job[j] \in JobType
         /\ job[j].pc \in Pcs /\ job[j].what \in {"in", "out"} /\ job[j].event \subseteq Users \X DMs
         /\ job[j].todo \subseteq Pairs /\ job[j].turns \in Seq(Users \X Users)
         /\ job[j].room \in 0..MaxRooms /\ job[j].list \subseteq Lists
BY DEF Types, JobType

LEMMA PcField ==
  ASSUME NEW r \in JobType, NEW pc \in Pcs
  PROVE  Is([r EXCEPT !.pc = pc], pc, r.what, r.event, r.todo, r.turns, r.room, r.list)
BY Zenon DEF Is, JobType

LEMMA TurnFields ==
  ASSUME NEW r \in JobType, NEW pc \in Pcs, NEW turns \in Seq(Users \X Users), NEW room \in 0..MaxRooms
  PROVE  Is([r EXCEPT !.pc = pc, !.turns = turns, !.room = room], pc, r.what, r.event, r.todo, turns, room, r.list)
BY Zenon DEF Is, JobType

LEMMA StartFields ==
  ASSUME NEW r \in JobType, NEW pc \in Pcs, NEW event \in SUBSET (Users \X DMs), NEW todo \in SUBSET Pairs
  PROVE  Is([r EXCEPT !.pc = pc, !.event = event, !.todo = todo], pc, r.what, event, todo, r.turns, r.room, r.list)
BY Zenon DEF Is, JobType

LEMMA GateFields ==
  ASSUME NEW r \in JobType, NEW pc \in Pcs, NEW event \in SUBSET (Users \X DMs)
  PROVE  Is([r EXCEPT !.pc = pc, !.event = event], pc, r.what, event, r.todo, r.turns, r.room, r.list)
BY Zenon DEF Is, JobType

LEMMA TodoField ==
  ASSUME NEW r \in JobType, NEW todo \in SUBSET Pairs
  PROVE  Is([r EXCEPT !.todo = todo], r.pc, r.what, r.event, todo, r.turns, r.room, r.list)
BY Zenon DEF Is, JobType

LEMMA TakeFields ==
  ASSUME NEW r \in JobType, NEW pc \in Pcs, NEW todo \in SUBSET Pairs, NEW turns \in Seq(Users \X Users)
  PROVE  Is([r EXCEPT !.pc = pc, !.todo = todo, !.turns = turns], pc, r.what, r.event, todo, turns, r.room, r.list)
BY Zenon DEF Is, JobType

LEMMA RoomFields ==
  ASSUME NEW r \in JobType, NEW pc \in Pcs, NEW room \in 0..MaxRooms
  PROVE  Is([r EXCEPT !.pc = pc, !.room = room], pc, r.what, r.event, r.todo, r.turns, room, r.list)
BY Zenon DEF Is, JobType

LEMMA ListField ==
  ASSUME NEW r \in JobType, NEW list \in SUBSET Lists
  PROVE  Is([r EXCEPT !.list = list], r.pc, r.what, r.event, r.todo, r.turns, r.room, list)
BY Zenon DEF Is, JobType

LEMMA EventFields ==
  ASSUME NEW r \in JobType, NEW pc \in Pcs, NEW what \in {"in", "out"}, NEW event \in SUBSET (Users \X DMs)
  PROVE  Is([r EXCEPT !.pc = pc, !.what = what, !.event = event], pc, what, event, r.todo, r.turns, r.room, r.list)
BY Zenon DEF Is, JobType

LEMMA BackfillFields ==
  ASSUME NEW r \in JobType, NEW pc \in Pcs, NEW todo \in SUBSET Pairs
  PROVE  Is([r EXCEPT !.pc = pc, !.todo = todo], pc, r.what, r.event, todo, r.turns, r.room, r.list)
BY Zenon DEF Is, JobType

LEMMA SweepFields ==
  ASSUME NEW r \in JobType, NEW pc \in Pcs, NEW list \in SUBSET Lists
  PROVE  Is([r EXCEPT !.pc = pc, !.list = list], pc, r.what, r.event, r.todo, r.turns, r.room, list)
BY Zenon DEF Is, JobType

(* Job j gets these fields, the other jobs stay as they are. *)
Becomes(j, pc, what, event, todo, turns, room, list) ==
  /\ job' \in [Jobs -> JobType]
  /\ \A i \in Jobs : i # j => job'[i] = job[i]
  /\ Is(job'[j], pc, what, event, todo, turns, room, list)

Ends(j) == Becomes(j, "idle", "in", {}, {}, << >>, 0, {})
Moves(j, pc, room) ==
  Becomes(j, pc, job[j].what, job[j].event, job[j].todo, job[j].turns, room, job[j].list)

LEMMA PutIs ==
  ASSUME Types, NEW j \in Jobs, NEW rec, Put(j, rec), NEW pc, NEW what, NEW event, NEW todo, NEW turns,
         NEW room, NEW list, Is(rec, pc, what, event, todo, turns, room, list)
  PROVE  Becomes(j, pc, what, event, todo, turns, room, list)
<1>1. rec \in JobType /\ job' = [job EXCEPT ![j] = rec] /\ job \in [Jobs -> JobType]
  BY DEF Is, Put, Types
<1>2. job'[j] = rec /\ (\A i \in Jobs : i # j => job'[i] = job[i]) /\ job' \in [Jobs -> JobType]
  BY <1>1
<1> QED BY <1>2 DEF Becomes

LEMMA PutIdle ==
  ASSUME Types, NEW j \in Jobs, Put(j, Idle) PROVE Ends(j)
BY IdleFacts, PutIs, Zenon DEF Ends

LEMMA GoesMoves ==
  ASSUME Types, NEW j \in Jobs, NEW to \in Pcs, Goes(j, to) PROVE Moves(j, to, job[j].room)
<1> DEFINE rec == [job[j] EXCEPT !.pc = to]
<1>1. job' = [job EXCEPT ![j] = rec]
  BY Zenon DEF Goes
<1>2. Is(rec, to, job[j].what, job[j].event, job[j].todo, job[j].turns, job[j].room, job[j].list)
  BY JobFields, PcField, Zenon
<1>3. Put(j, rec)
  BY <1>1, Zenon DEF Put
<1> HIDE DEF rec
<1> QED BY <1>2, <1>3, PutIs, Zenon DEF Moves

LEMMA PutRoom ==
  ASSUME Types, NEW j \in Jobs, NEW to \in Pcs, NEW r \in 0..MaxRooms,
         Put(j, [job[j] EXCEPT !.pc = to, !.room = r])
  PROVE  Moves(j, to, r)
<1> DEFINE rec == [job[j] EXCEPT !.pc = to, !.room = r]
<1>1. Is(rec, to, job[j].what, job[j].event, job[j].todo, job[j].turns, r, job[j].list)
  BY JobFields, RoomFields, Zenon
<1>2. Put(j, rec)
  BY Zenon
<1> HIDE DEF rec
<1> QED BY <1>1, <1>2, PutIs, Zenon DEF Moves

(* One owner is served. *)
Turns(j, failed) ==
  /\ \/ Tail(job[j].turns) = << >> /\ Ends(j)
     \/ /\ Tail(job[j].turns) = << >>
        /\ Becomes(j, "next", job[j].what, job[j].event, job[j].todo, << >>, 0, job[j].list)
     \/ /\ Tail(job[j].turns) # << >>
        /\ Becomes(j, IF job[j].what = "in" THEN "ensure" ELSE "find", job[j].what, job[j].event,
                   job[j].todo, Tail(job[j].turns), 0, job[j].list)
  /\ wish' = IF Tail(job[j].turns) = << >> THEN [wish EXCEPT ![PairOf(j)] = job[j].what] ELSE wish
  /\ tangled' = IF failed THEN tangled \union {PairOf(j)} ELSE tangled

LEMMA TurnEffect ==
  ASSUME Types, NEW j \in Jobs, job[j].turns # << >>, NEW failed, Turn(j, failed)
  PROVE  Turns(j, failed)
<1> DEFINE rest == Tail(job[j].turns)
           to   == IF rest = << >> THEN "next" ELSE IF job[j].what = "in" THEN "ensure" ELSE "find"
           rec  == [job[j] EXCEPT !.pc = to, !.turns = rest, !.room = 0]
<1>1. /\ Put(j, IF rest = << >> /\ job[j].todo = {} THEN Idle ELSE rec)
      /\ wish' = IF rest = << >> THEN [wish EXCEPT ![PairOf(j)] = job[j].what] ELSE wish
      /\ tangled' = IF failed THEN tangled \union {PairOf(j)} ELSE tangled
  BY Zenon DEF Turn
<1>2. rest \in Seq(Users \X Users)
  BY JobFields
<1>3. to \in Pcs /\ 0 \in 0..MaxRooms
  BY ConstantsAssumption DEF Pcs
<1>4. Is(rec, to, job[j].what, job[j].event, job[j].todo, rest, 0, job[j].list)
  <2> HIDE DEF rest, to
  <2> QED BY <1>2, <1>3, JobFields, TurnFields, Zenon
<1>5. CASE rest = << >> /\ job[j].todo = {}
  <2>1. Put(j, Idle)
    BY <1>1, <1>5, Zenon
  <2> QED BY <1>1, <1>5, <2>1, PutIdle DEF Turns
<1>6. CASE ~(rest = << >> /\ job[j].todo = {})
  <2>1. Put(j, rec)
    BY <1>1, <1>6, Zenon
  <2> HIDE DEF rec
  <2>2. Becomes(j, to, job[j].what, job[j].event, job[j].todo, rest, 0, job[j].list)
    BY <1>4, <2>1, PutIs, Zenon
  <2>3. CASE rest = << >>
    BY <1>1, <2>2, <2>3 DEF Turns
  <2>4. CASE rest # << >>
    BY <1>1, <2>2, <2>4 DEF Turns
  <2> QED BY <2>3, <2>4
<1> QED BY <1>5, <1>6

(* subscribe_pair has raised. *)
Aborts(j) ==
  /\ \/ Ends(j)
     \/ Becomes(j, "next", job[j].what, job[j].event, job[j].todo, << >>, 0, job[j].list)
  /\ tangled' = tangled \union {PairOf(j)}
  /\ wish' = wish

LEMMA AbortEffect ==
  ASSUME Types, NEW j \in Jobs, Abort(j) PROVE Aborts(j)
<1> DEFINE rec == [job[j] EXCEPT !.pc = "next", !.turns = << >>, !.room = 0]
<1>1. /\ Put(j, Idle) \/ Put(j, rec)
      /\ tangled' = tangled \union {PairOf(j)}
      /\ wish' = wish
  BY Zenon DEF Abort
<1>2. << >> \in Seq(Users \X Users) /\ "next" \in Pcs /\ 0 \in 0..MaxRooms
  BY ConstantsAssumption DEF Pcs
<1>3. Is(rec, "next", job[j].what, job[j].event, job[j].todo, << >>, 0, job[j].list)
  BY <1>2, JobFields, TurnFields, Zenon
<1> HIDE DEF rec
<1>4. CASE Put(j, Idle)
  BY <1>1, <1>4, PutIdle DEF Aborts
<1>5. CASE Put(j, rec)
  <2>1. Becomes(j, "next", job[j].what, job[j].event, job[j].todo, << >>, 0, job[j].list)
    BY <1>3, <1>5, PutIs, Zenon
  <2> QED BY <1>1, <2>1 DEF Aborts
<1> QED BY <1>1, <1>4, <1>5

-----------------------------------------------------------------------------
(* Where a job is tells what it holds *)

Subscribing == {"ensure", "create", "tag", "mute", "rule", "invite"}
Serving     == Subscribing \union {"find", "kick"}
Placed      == {"mute", "rule", "invite", "kick"}

(* A job serves the two sides of a pair one after the other. *)
Sides(a, b)      == a # b /\ {a, b} \in Pairs
LastSide(j)      == \E a, b \in Users : Sides(a, b) /\ job[j].turns = <<<<a, b>>>>
BothSides(j)     == \E a, b \in Users : Sides(a, b) /\ job[j].turns = <<<<a, b>>, <<b, a>>>>

JobAt(j) ==
  /\ job[j].pc \in Serving => LastSide(j) \/ BothSides(j)
  /\ job[j].pc \notin Serving => job[j].turns = << >>
  /\ job[j].pc \in Subscribing => job[j].what = "in"
  /\ job[j].pc \in {"find", "kick"} => job[j].what = "out"
  /\ job[j].pc \in {"create", "tag"} \union Placed => Owner(j) \in Local
  /\ job[j].pc = "rule" => Guest(j) \in Local
  /\ job[j].pc \in {"tag"} \union Placed => job[j].room \in Rooms /\ owner[job[j].room] = {Owner(j)}
  /\ job[j].pc = "sweep" => job[j].list \subseteq Local \X Rooms
  /\ job[j].pc = "redact" => job[j].list \subseteq Stories

JobsInv == \A j \in Jobs : JobAt(j)

LEMMA Sequences1 ==
  ASSUME NEW x PROVE Head(<<x>>) = x /\ Tail(<<x>>) = << >> /\ <<x>> # << >>
OBVIOUS

LEMMA Sequences2 ==
  ASSUME NEW x, NEW y PROVE Head(<<x, y>>) = x /\ Tail(<<x, y>>) = <<y>> /\ <<x, y>> # << >>
OBVIOUS

(* What is to be known of a job in a turn *)
LEMMA TurnFacts ==
  ASSUME NEW j \in Jobs, LastSide(j) \/ BothSides(j)
  PROVE  /\ job[j].turns # << >>
         /\ Owner(j) \in Users /\ Guest(j) \in Users /\ Sides(Owner(j), Guest(j))
         /\ \/ job[j].turns = <<<<Owner(j), Guest(j)>>>> /\ Tail(job[j].turns) = << >>
            \/ /\ job[j].turns = <<<<Owner(j), Guest(j)>>, <<Guest(j), Owner(j)>>>>
               /\ Tail(job[j].turns) = <<<<Guest(j), Owner(j)>>>> /\ Tail(job[j].turns) # << >>
<1>1. CASE LastSide(j)
  <2>1. PICK a, b \in Users : Sides(a, b) /\ job[j].turns = <<<<a, b>>>>
    BY <1>1 DEF LastSide
  <2>2. Head(job[j].turns) = <<a, b>> /\ Tail(job[j].turns) = << >> /\ job[j].turns # << >>
    BY <2>1, Sequences1
  <2> QED BY <2>1, <2>2 DEF Owner, Guest
<1>2. CASE BothSides(j)
  <2>1. PICK a, b \in Users : Sides(a, b) /\ job[j].turns = <<<<a, b>>, <<b, a>>>>
    BY <1>2 DEF BothSides
  <2>2. /\ Head(job[j].turns) = <<a, b>> /\ Tail(job[j].turns) = <<<<b, a>>>>
        /\ job[j].turns # << >> /\ Tail(job[j].turns) # << >>
    BY <2>1, Sequences1, Sequences2
  <2> QED BY <2>1, <2>2 DEF Owner, Guest
<1> QED BY <1>1, <1>2

LEMMA ServingFacts ==
  ASSUME JobsInv, NEW j \in Jobs, job[j].pc \in Serving
  PROVE  /\ job[j].turns # << >>
         /\ Owner(j) \in Users /\ Guest(j) \in Users /\ Sides(Owner(j), Guest(j))
         /\ \/ job[j].turns = <<<<Owner(j), Guest(j)>>>> /\ Tail(job[j].turns) = << >>
            \/ /\ job[j].turns = <<<<Owner(j), Guest(j)>>, <<Guest(j), Owner(j)>>>>
               /\ Tail(job[j].turns) = <<<<Guest(j), Owner(j)>>>> /\ Tail(job[j].turns) # << >>
BY TurnFacts DEF JobsInv, JobAt

LEMMA PairFacts ==
  ASSUME NEW p \in Pairs, NEW a \in p
  PROVE  LET b == CHOOSE x \in p : x # a
         IN a \in Users /\ b \in Users /\ a # b /\ p = {a, b}
<1>1. PICK c, d \in Users : c # d /\ p = {c, d}
  BY ConstantsAssumption DEF Pairs
<1>2. \E x \in p : x # a
  BY <1>1
<1> DEFINE b == CHOOSE x \in p : x # a
<1>3. b \in p /\ b # a
  BY <1>2
<1> HIDE DEF b
<1>4. a \in Users /\ b \in Users /\ a # b /\ p = {a, b}
  BY <1>1, <1>3
<1> QED BY <1>4 DEF b

-----------------------------------------------------------------------------
(* What each action does *)

Still == UNCHANGED <<tag, owner, audience, muted, notifying, loud, wish, tangled, doubled>>

EventDoes(j, u, dm, what) ==
  /\ job[j].pc = "idle"
  /\ Becomes(j, "start", what, {<<u, dm>>}, {}, << >>, 0, {})
  /\ tangled' = IF Busy(SidesOf[dm]) THEN tangled \union {SidesOf[dm]} ELSE tangled
  /\ UNCHANGED <<tag, owner, audience, muted, notifying, loud, wish, doubled>>

LEMMA EventEffect ==
  ASSUME Types, NEW j \in Jobs, NEW u \in Users, NEW dm \in DMs, NEW what \in {"in", "out"}, Event(j, u, dm, what)
  PROVE  EventDoes(j, u, dm, what)
<1> DEFINE rec == [Idle EXCEPT !.pc = "start", !.what = what, !.event = {<<u, dm>>}]
<1>1. /\ job[j].pc = "idle" /\ Put(j, rec)
      /\ tangled' = IF Busy(SidesOf[dm]) THEN tangled \union {SidesOf[dm]} ELSE tangled
      /\ UNCHANGED <<rooms, rules, wish, doubled>>
  BY Zenon DEF Event, At
<1>2. "start" \in Pcs /\ {<<u, dm>>} \in SUBSET (Users \X DMs)
  BY DEF Pcs
<1>3. /\ Idle \in JobType /\ Idle.todo = {} /\ Idle.turns = << >> /\ Idle.room = 0 /\ Idle.list = {}
      /\ {} \in SUBSET Pairs /\ << >> \in Seq(Users \X Users) /\ 0 \in 0..MaxRooms /\ {} \in SUBSET Lists
  BY IdleFacts, ConstantsAssumption DEF Is
<1>4. Is(rec, "start", what, {<<u, dm>>}, Idle.todo, Idle.turns, Idle.room, Idle.list)
  BY <1>2, <1>3, EventFields, Zenon
<1> HIDE DEF rec
<1>5. Is(rec, "start", what, {<<u, dm>>}, {}, << >>, 0, {})
  BY <1>3, <1>4, Zenon
<1>6. Becomes(j, "start", what, {<<u, dm>>}, {}, << >>, 0, {})
  BY <1>1, <1>5, PutIs, Zenon
<1> QED BY <1>1, <1>6 DEF EventDoes, rooms, rules

StartDoes(j) ==
  /\ job[j].pc = "start" /\ Still
  /\ \E e \in job[j].event :
       \/ Ends(j)
       \/ /\ job[j].what = "in"
          /\ Becomes(j, "next", "in", {}, {SidesOf[e[2]]}, job[j].turns, job[j].room, job[j].list)
       \/ /\ job[j].what = "out"
          /\ Becomes(j, "gate", "out", job[j].event, {SidesOf[e[2]]}, job[j].turns, job[j].room, job[j].list)

LEMMA StartEffect ==
  ASSUME Types, NEW j \in Jobs, Start(j) PROVE StartDoes(j)
<1> DEFINE to    == IF job[j].what = "in" THEN "next" ELSE "gate"
           event == IF job[j].what = "in" THEN {} ELSE job[j].event
           rec(e) == [job[j] EXCEPT !.pc = to, !.event = event, !.todo = {SidesOf[e[2]]}]
<1>1. /\ job[j].pc = "start" /\ UNCHANGED <<rooms, rules, history>>
      /\ \E e \in job[j].event : Put(j, Idle) \/ Put(j, rec(e))
  BY Zenon DEF Start, At
<1>2. PICK e \in job[j].event : Put(j, Idle) \/ Put(j, rec(e))
  BY <1>1, Zenon
<1>3. /\ to \in Pcs /\ event \in SUBSET (Users \X DMs) /\ {SidesOf[e[2]]} \in SUBSET Pairs
      /\ job[j].what \in {"in", "out"}
  BY JobFields DEF Pcs, Pairs
<1>4. Is(rec(e), to, job[j].what, event, {SidesOf[e[2]]}, job[j].turns, job[j].room, job[j].list)
  <2> HIDE DEF to, event
  <2> QED BY <1>3, JobFields, StartFields, Zenon
<1> HIDE DEF rec
<1>5. Ends(j) \/ Becomes(j, to, job[j].what, event, {SidesOf[e[2]]}, job[j].turns, job[j].room, job[j].list)
  BY <1>2, <1>4, PutIdle, PutIs, Zenon
<1>6. Still
  BY <1>1 DEF Still, rooms, rules, history
<1>7. \/ Ends(j)
      \/ /\ job[j].what = "in"
         /\ Becomes(j, "next", "in", {}, {SidesOf[e[2]]}, job[j].turns, job[j].room, job[j].list)
      \/ /\ job[j].what = "out"
         /\ Becomes(j, "gate", "out", job[j].event, {SidesOf[e[2]]}, job[j].turns, job[j].room, job[j].list)
  BY <1>3, <1>5
<1> QED BY <1>1, <1>2, <1>6, <1>7, Zenon DEF StartDoes

GateDoes(j) ==
  /\ job[j].pc = "gate" /\ Still
  /\ \/ Ends(j)
     \/ Becomes(j, "next", job[j].what, {}, job[j].todo, job[j].turns, job[j].room, job[j].list)

LEMMA GateEffect ==
  ASSUME Types, NEW j \in Jobs, Gate(j) PROVE GateDoes(j)
<1> DEFINE rec == [job[j] EXCEPT !.pc = "next", !.event = {}]
<1>1. /\ job[j].pc = "gate" /\ UNCHANGED <<rooms, rules, history>>
      /\ Put(j, Idle) \/ Put(j, rec)
  BY Zenon DEF Gate, At
<1>2. "next" \in Pcs /\ {} \in SUBSET (Users \X DMs)
  BY DEF Pcs
<1>3. Is(rec, "next", job[j].what, {}, job[j].todo, job[j].turns, job[j].room, job[j].list)
  BY <1>2, JobFields, GateFields, Zenon
<1> HIDE DEF rec
<1>4. Ends(j) \/ Becomes(j, "next", job[j].what, {}, job[j].todo, job[j].turns, job[j].room, job[j].list)
  BY <1>1, <1>3, PutIdle, PutIs, Zenon
<1> QED BY <1>1, <1>4 DEF GateDoes, Still, rooms, rules, history

(* The pair p is passed over, or its turns begin. *)
TakeDoes(j) ==
  /\ job[j].pc = "next" /\ Still
  /\ \E p \in job[j].todo :
       \/ Ends(j)
       \/ Becomes(j, "next", job[j].what, job[j].event, job[j].todo \ {p}, job[j].turns, job[j].room, job[j].list)
       \/ \E a, b \in Users :
            /\ a # b /\ p = {a, b}
            /\ Becomes(j, IF job[j].what = "in" THEN "ensure" ELSE "find", job[j].what, job[j].event,
                       job[j].todo \ {p}, <<<<a, b>>, <<b, a>>>>, job[j].room, job[j].list)

LEMMA TakeEffect ==
  ASSUME Types, NEW j \in Jobs, NEW p \in Pairs, NEW a \in p, TakePair(j, p, a)
  PROVE  TakeDoes(j)
<1> DEFINE b    == CHOOSE x \in p : x # a
           to   == IF job[j].what = "in" THEN "ensure" ELSE "find"
           skip == [job[j] EXCEPT !.todo = job[j].todo \ {p}]
           rec  == [job[j] EXCEPT !.pc = to, !.todo = job[j].todo \ {p}, !.turns = <<<<a, b>>, <<b, a>>>>]
<1>1. /\ job[j].pc = "next" /\ p \in job[j].todo /\ UNCHANGED <<rooms, rules, history>>
      /\ Put(j, Idle) \/ Put(j, skip) \/ Put(j, rec)
  BY Zenon DEF TakePair, At
<1>2. a \in Users /\ b \in Users /\ a # b /\ p = {a, b}
  BY PairFacts
<1> HIDE DEF b
<1>3. /\ to \in Pcs /\ job[j].todo \ {p} \in SUBSET Pairs
      /\ <<<<a, b>>, <<b, a>>>> \in Seq(Users \X Users)
  BY <1>2, JobFields DEF Pcs
<1>4. Is(skip, job[j].pc, job[j].what, job[j].event, job[j].todo \ {p}, job[j].turns, job[j].room, job[j].list)
  BY <1>3, JobFields, TodoField, Zenon
<1>5. Is(rec, to, job[j].what, job[j].event, job[j].todo \ {p}, <<<<a, b>>, <<b, a>>>>, job[j].room, job[j].list)
  <2> HIDE DEF to
  <2> QED BY <1>3, JobFields, TakeFields, Zenon
<1> HIDE DEF skip, rec
<1>6. Still
  BY <1>1 DEF Still, rooms, rules, history
<1>7. CASE Put(j, Idle)
  BY <1>1, <1>6, <1>7, PutIdle, Zenon DEF TakeDoes
<1>8. CASE Put(j, skip)
  <2>1. Becomes(j, "next", job[j].what, job[j].event, job[j].todo \ {p}, job[j].turns, job[j].room, job[j].list)
    BY <1>1, <1>4, <1>8, PutIs, Zenon
  <2> QED BY <1>1, <1>6, <2>1, Zenon DEF TakeDoes
<1>9. CASE Put(j, rec)
  <2>1. Becomes(j, to, job[j].what, job[j].event, job[j].todo \ {p}, <<<<a, b>>, <<b, a>>>>,
                job[j].room, job[j].list)
    BY <1>5, <1>9, PutIs, Zenon
  <2> QED BY <1>1, <1>2, <1>6, <2>1, Zenon DEF TakeDoes
<1> QED BY <1>1, <1>7, <1>8, <1>9

EnsureDoes(j) ==
  /\ job[j].pc = "ensure"
  /\ UNCHANGED <<tag, owner, audience, muted, notifying, loud>>
  /\ \/ Owner(j) \notin Local /\ Turns(j, FALSE) /\ UNCHANGED doubled
     \/ /\ Owner(j) \in Local
        /\ \E r \in tag[Owner(j)] : Moves(j, "mute", r)
        /\ UNCHANGED <<wish, tangled, doubled>>
     \/ /\ Owner(j) \in Local /\ tag[Owner(j)] = {}
        /\ Moves(j, "create", job[j].room)
        /\ doubled' = IF BeingMade(Owner(j)) THEN doubled \union {Owner(j)} ELSE doubled
        /\ UNCHANGED <<wish, tangled>>
     \/ Aborts(j) /\ UNCHANGED doubled

LEMMA EnsureEffect ==
  ASSUME Types, JobsInv, NEW j \in Jobs, Ensure(j) PROVE EnsureDoes(j)
<1>1. job[j].pc = "ensure" /\ UNCHANGED <<rooms, rules>>
  BY Zenon DEF Ensure, At
<1>2. UNCHANGED <<tag, owner, audience, muted, notifying, loud>>
  BY <1>1 DEF rooms, rules
<1>3. Owner(j) \in Users /\ job[j].turns # << >>
  BY <1>1, ServingFacts DEF Serving, Subscribing
<1>4. CASE Owner(j) \notin Local /\ Turn(j, FALSE) /\ UNCHANGED doubled
  BY <1>1, <1>2, <1>3, <1>4, TurnEffect, Zenon DEF EnsureDoes
<1>5. CASE /\ Owner(j) \in Local /\ tag[Owner(j)] # {}
           /\ \E r \in tag[Owner(j)] : Put(j, [job[j] EXCEPT !.pc = "mute", !.room = r])
           /\ UNCHANGED history
  <2>1. PICK r \in tag[Owner(j)] : Put(j, [job[j] EXCEPT !.pc = "mute", !.room = r])
    BY <1>5, Zenon
  <2>2. "mute" \in Pcs /\ r \in 0..MaxRooms
    BY <1>3 DEF Pcs, Types, RoomTypes, Rooms
  <2>3. Moves(j, "mute", r)
    BY <2>1, <2>2, PutRoom, Zenon
  <2>4. Owner(j) \in Local /\ UNCHANGED <<wish, tangled, doubled>>
    BY <1>5, Zenon DEF history
  <2> QED BY <1>1, <1>2, <2>3, <2>4, Zenon DEF EnsureDoes
<1>6. CASE /\ Owner(j) \in Local /\ tag[Owner(j)] = {}
           /\ Goes(j, "create")
           /\ doubled' = IF BeingMade(Owner(j)) THEN doubled \union {Owner(j)} ELSE doubled
           /\ UNCHANGED <<wish, tangled>>
  <2>1. "create" \in Pcs
    BY DEF Pcs
  <2>2. Moves(j, "create", job[j].room)
    BY <1>6, <2>1, GoesMoves, Zenon
  <2> QED BY <1>1, <1>2, <1>6, <2>2, Zenon DEF EnsureDoes
<1>7. CASE Abort(j) /\ UNCHANGED doubled
  BY <1>1, <1>2, <1>7, AbortEffect, Zenon DEF EnsureDoes
<1> QED BY <1>4, <1>5, <1>6, <1>7, Zenon DEF Ensure

CreateDoes(j) ==
  /\ job[j].pc = "create"
  /\ UNCHANGED <<tag, audience, muted, notifying, loud, doubled>>
  /\ \/ /\ Cardinality(Made) < MaxRooms
        /\ owner' = [owner EXCEPT ![Cardinality(Made) + 1] = {Owner(j)}]
        /\ Moves(j, "tag", Cardinality(Made) + 1)
        /\ UNCHANGED <<wish, tangled>>
     \/ Aborts(j) /\ UNCHANGED owner

(* The next room has a number of its own. *)
RoomsInv ==
  /\ \E n \in 0..MaxRooms : Made = 1..n
  /\ \A r \in Rooms : owner[r] = {} => audience[r] = {}
  /\ \A u \in Users : \A r \in tag[u] : owner[r] = {u}
  /\ \A u \in Local : \A r \in client[u] : owner[r] = {u}

LEMMA NextRoom ==
  ASSUME Types, RoomsInv, Cardinality(Made) < MaxRooms
  PROVE  /\ Cardinality(Made) + 1 \in Rooms /\ owner[Cardinality(Made) + 1] = {}
         /\ Made = 1..Cardinality(Made) /\ Cardinality(Made) \in Nat
<1>1. PICK n \in 0..MaxRooms : Made = 1..n
  BY DEF RoomsInv
<1>2. n \in Nat /\ MaxRooms \in Nat
  BY ConstantsAssumption
<1>3. Cardinality(1..n) = n
  BY <1>2, FS_Interval
<1>4. Cardinality(Made) = n
  BY <1>1, <1>3
<1>5. n + 1 \in Rooms /\ n + 1 \notin 1..n
  BY <1>2, <1>4 DEF Rooms
<1>6. owner[n + 1] = {}
  BY <1>1, <1>5 DEF Made
<1> QED BY <1>1, <1>2, <1>4, <1>5, <1>6

LEMMA CreateEffect ==
  ASSUME Types, RoomsInv, NEW j \in Jobs, Create(j) PROVE CreateDoes(j)
<1>1. job[j].pc = "create" /\ UNCHANGED <<tag, audience, rules, doubled>>
  BY Zenon DEF Create, At
<1>2. UNCHANGED <<tag, audience, muted, notifying, loud, doubled>>
  BY <1>1 DEF rules
<1> DEFINE n == Cardinality(Made) + 1
<1>3. CASE /\ Cardinality(Made) < MaxRooms
           /\ owner' = [owner EXCEPT ![n] = {Owner(j)}]
           /\ Put(j, [job[j] EXCEPT !.pc = "tag", !.room = n])
           /\ UNCHANGED <<wish, tangled, left>>
  <2>1. n \in 0..MaxRooms /\ "tag" \in Pcs
    BY <1>3, NextRoom DEF Rooms, Pcs
  <2> HIDE DEF n
  <2>2. Moves(j, "tag", n)
    BY <1>3, <2>1, PutRoom, Zenon
  <2> QED BY <1>1, <1>2, <1>3, <2>2, Zenon DEF CreateDoes, n
<1>4. CASE Abort(j) /\ UNCHANGED owner
  BY <1>1, <1>2, <1>4, AbortEffect, Zenon DEF CreateDoes
<1> QED BY <1>3, <1>4, Zenon DEF Create

StoreTagDoes(j) ==
  /\ job[j].pc = "tag"
  /\ UNCHANGED <<owner, audience, muted, notifying, loud>>
  /\ \/ /\ tag' = [tag EXCEPT ![Owner(j)] = {job[j].room}]
        /\ Moves(j, "mute", job[j].room)
        /\ UNCHANGED <<wish, tangled, doubled>>
     \/ Aborts(j) /\ doubled' = doubled \union {Owner(j)} /\ UNCHANGED tag

LEMMA StoreTagEffect ==
  ASSUME Types, NEW j \in Jobs, StoreTag(j) PROVE StoreTagDoes(j)
<1>1. job[j].pc = "tag" /\ UNCHANGED <<owner, audience, rules>>
  BY Zenon DEF StoreTag, At
<1>2. UNCHANGED <<owner, audience, muted, notifying, loud>> /\ "mute" \in Pcs
  BY <1>1 DEF rules, Pcs
<1>3. CASE /\ tag' = [tag EXCEPT ![Owner(j)] = {job[j].room}]
           /\ Goes(j, "mute")
           /\ UNCHANGED <<history, left>>
  <2>1. Moves(j, "mute", job[j].room)
    BY <1>2, <1>3, GoesMoves, Zenon
  <2>2. UNCHANGED <<wish, tangled, doubled>>
    BY <1>3, Zenon DEF history
  <2> QED BY <1>1, <1>2, <1>3, <2>1, <2>2, Zenon DEF StoreTagDoes
<1>4. CASE Abort(j) /\ doubled' = doubled \union {Owner(j)} /\ UNCHANGED tag
  BY <1>1, <1>2, <1>4, AbortEffect, Zenon DEF StoreTagDoes
<1> QED BY <1>3, <1>4, Zenon DEF StoreTag

MuteDoes(j) ==
  /\ job[j].pc = "mute"
  /\ UNCHANGED <<tag, owner, audience, notifying, wish, tangled, doubled>>
  /\ \/ Guest(j) \notin Local /\ Moves(j, "invite", job[j].room) /\ UNCHANGED <<muted, loud>>
     \/ /\ Guest(j) \in Local /\ Moves(j, "rule", job[j].room)
        /\ \/ muted' = muted \union {<<Guest(j), job[j].room>>} /\ loud' = loud
           \/ loud' = loud \union {<<Guest(j), job[j].room>>} /\ muted' = muted

LEMMA MuteEffect ==
  ASSUME Types, NEW j \in Jobs, Mute(j) PROVE MuteDoes(j)
<1>1. job[j].pc = "mute" /\ UNCHANGED <<rooms, history>>
  BY Zenon DEF Mute, At
<1>2. UNCHANGED <<tag, owner, audience, wish, tangled, doubled>> /\ "invite" \in Pcs /\ "rule" \in Pcs
  BY <1>1 DEF rooms, history, Pcs
<1>3. CASE Guest(j) \notin Local /\ Goes(j, "invite") /\ UNCHANGED rules
  <2>1. Moves(j, "invite", job[j].room)
    BY <1>2, <1>3, GoesMoves, Zenon
  <2>2. UNCHANGED <<muted, notifying, loud>>
    BY <1>3, Zenon DEF rules
  <2> QED BY <1>1, <1>2, <1>3, <2>1, <2>2, Zenon DEF MuteDoes
<1>4. CASE /\ Guest(j) \in Local /\ Goes(j, "rule") /\ UNCHANGED notifying
           /\ \/ muted' = muted \union {<<Guest(j), job[j].room>>} /\ UNCHANGED loud
              \/ loud' = loud \union {<<Guest(j), job[j].room>>} /\ UNCHANGED muted
  <2>1. Moves(j, "rule", job[j].room)
    BY <1>2, <1>4, GoesMoves, Zenon
  <2> QED BY <1>1, <1>2, <1>4, <2>1, Zenon DEF MuteDoes
<1> QED BY <1>3, <1>4, Zenon DEF Mute

RuleDoes(j) ==
  /\ job[j].pc = "rule"
  /\ UNCHANGED <<tag, owner, audience, muted, loud, wish, tangled, doubled>>
  /\ Moves(j, "invite", job[j].room)
  /\ notifying' = notifying \union {<<Guest(j), job[j].room>>} \/ notifying' = notifying

LEMMA RuleEffect ==
  ASSUME Types, NEW j \in Jobs, NotifyRule(j) PROVE RuleDoes(j)
<1>1. /\ job[j].pc = "rule" /\ UNCHANGED <<rooms, muted, loud, history>> /\ Goes(j, "invite")
      /\ notifying' = notifying \union {<<Guest(j), job[j].room>>} \/ notifying' = notifying
  BY Zenon DEF NotifyRule, At
<1>2. "invite" \in Pcs
  BY DEF Pcs
<1>3. Moves(j, "invite", job[j].room)
  BY <1>1, <1>2, GoesMoves, Zenon
<1> QED BY <1>1, <1>3, Zenon DEF RuleDoes, rooms, history

InviteDoes(j) ==
  /\ job[j].pc = "invite"
  /\ UNCHANGED <<tag, owner, muted, notifying, loud, doubled>>
  /\ \/ audience' = [audience EXCEPT ![job[j].room] = @ \union {Guest(j)}] /\ Turns(j, FALSE)
     \/ audience' = audience /\ Turns(j, TRUE)

LEMMA InviteEffect ==
  ASSUME Types, JobsInv, NEW j \in Jobs, Invite(j) PROVE InviteDoes(j)
<1>1. /\ job[j].pc = "invite" /\ UNCHANGED <<tag, owner, rules, doubled>>
      /\ \/ audience' = [audience EXCEPT ![job[j].room] = @ \union {Guest(j)}] /\ Turn(j, FALSE)
         \/ audience' = audience /\ Turn(j, TRUE)
  BY Zenon DEF Invite, At
<1>2. job[j].turns # << >>
  BY <1>1, ServingFacts DEF Serving, Subscribing
<1>3. /\ Turn(j, FALSE) => Turns(j, FALSE)
      /\ Turn(j, TRUE) => Turns(j, TRUE)
  BY <1>2, TurnEffect, Zenon
<1> QED BY <1>1, <1>3, Zenon DEF InviteDoes, rules

FindDoes(j) ==
  /\ job[j].pc = "find"
  /\ UNCHANGED <<tag, owner, audience, muted, notifying, loud, doubled>>
  /\ \/ (Owner(j) \notin Local \/ tag[Owner(j)] = {}) /\ Turns(j, FALSE)
     \/ /\ Owner(j) \in Local
        /\ \E r \in tag[Owner(j)] : Moves(j, "kick", r)
        /\ UNCHANGED <<wish, tangled>>
     \/ Turns(j, TRUE)

LEMMA FindEffect ==
  ASSUME Types, JobsInv, NEW j \in Jobs, Find(j) PROVE FindDoes(j)
<1>1. job[j].pc = "find" /\ UNCHANGED <<rooms, rules, doubled>>
  BY Zenon DEF Find, At
<1>2. UNCHANGED <<tag, owner, audience, muted, notifying, loud, doubled>>
  BY <1>1 DEF rooms, rules
<1>3. Owner(j) \in Users /\ job[j].turns # << >>
  BY <1>1, ServingFacts DEF Serving, Subscribing
<1>4. CASE (Owner(j) \notin Local \/ tag[Owner(j)] = {}) /\ Turn(j, FALSE)
  BY <1>1, <1>2, <1>3, <1>4, TurnEffect, Zenon DEF FindDoes
<1>5. CASE /\ Owner(j) \in Local
           /\ \E r \in tag[Owner(j)] : Put(j, [job[j] EXCEPT !.pc = "kick", !.room = r])
           /\ UNCHANGED <<wish, tangled>>
  <2>1. PICK r \in tag[Owner(j)] : Put(j, [job[j] EXCEPT !.pc = "kick", !.room = r])
    BY <1>5, Zenon
  <2>2. "kick" \in Pcs /\ r \in 0..MaxRooms
    BY <1>3 DEF Pcs, Types, RoomTypes, Rooms
  <2>3. Moves(j, "kick", r)
    BY <2>1, <2>2, PutRoom, Zenon
  <2> QED BY <1>1, <1>2, <1>5, <2>3, Zenon DEF FindDoes
<1>6. CASE Turn(j, TRUE)
  BY <1>1, <1>2, <1>3, <1>6, TurnEffect, Zenon DEF FindDoes
<1> QED BY <1>4, <1>5, <1>6, Zenon DEF Find

KickDoes(j) ==
  /\ job[j].pc = "kick"
  /\ UNCHANGED <<tag, owner, muted, notifying, loud, doubled>>
  /\ \/ audience' = [audience EXCEPT ![job[j].room] = @ \ {Guest(j)}] /\ Turns(j, FALSE)
     \/ audience' = audience /\ Turns(j, TRUE)

LEMMA KickEffect ==
  ASSUME Types, JobsInv, NEW j \in Jobs, Kick(j) PROVE KickDoes(j)
<1>1. /\ job[j].pc = "kick" /\ UNCHANGED <<tag, owner, rules, doubled>>
      /\ \/ audience' = [audience EXCEPT ![job[j].room] = @ \ {Guest(j)}] /\ Turn(j, FALSE)
         \/ audience' = audience /\ Turn(j, TRUE)
  BY Zenon DEF Kick, At
<1>2. job[j].turns # << >>
  BY <1>1, ServingFacts DEF Serving, Subscribing
<1>3. /\ Turn(j, FALSE) => Turns(j, FALSE)
      /\ Turn(j, TRUE) => Turns(j, TRUE)
  BY <1>2, TurnEffect, Zenon
<1> QED BY <1>1, <1>3, Zenon DEF KickDoes, rules

(* A job shortens the list it works through. *)
Shortens(j) ==
  \/ Ends(j)
  \/ \E list \in SUBSET job[j].list :
       Becomes(j, job[j].pc, job[j].what, job[j].event, job[j].todo, job[j].turns, job[j].room, list)

LEMMA ShortensFacts ==
  ASSUME Types, NEW j \in Jobs, NEW e,
         Put(j, IF job[j].list = {e} THEN Idle ELSE [job[j] EXCEPT !.list = job[j].list \ {e}])
  PROVE  Shortens(j)
<1> DEFINE rec == [job[j] EXCEPT !.list = job[j].list \ {e}]
<1>1. Put(j, Idle) \/ Put(j, rec)
  BY Zenon
<1>2. job[j].list \ {e} \in SUBSET Lists /\ job[j].list \ {e} \in SUBSET job[j].list
  BY JobFields
<1>3. Is(rec, job[j].pc, job[j].what, job[j].event, job[j].todo, job[j].turns, job[j].room, job[j].list \ {e})
  BY <1>2, JobFields, ListField, Zenon
<1> HIDE DEF rec
<1>4. Ends(j) \/ Becomes(j, job[j].pc, job[j].what, job[j].event, job[j].todo, job[j].turns, job[j].room,
                         job[j].list \ {e})
  BY <1>1, <1>3, PutIdle, PutIs, Zenon
<1> QED BY <1>2, <1>4, Zenon DEF Shortens

SweepDoes(j) ==
  /\ job[j].pc = "sweep" /\ Shortens(j)
  /\ UNCHANGED <<tag, owner, audience, wish, tangled, doubled>>
  /\ \/ UNCHANGED <<muted, notifying, loud>>
     \/ \E e \in job[j].list : /\ muted' = muted \union {e} /\ notifying' = notifying \union {e}
                               /\ loud' = loud \ {e}

LEMMA SweepEffect ==
  ASSUME Types, NEW j \in Jobs, NEW e \in Local \X Rooms, Sweep(j, e) PROVE SweepDoes(j)
<1>1. /\ job[j].pc = "sweep" /\ e \in job[j].list
      /\ Put(j, IF job[j].list = {e} THEN Idle ELSE [job[j] EXCEPT !.list = job[j].list \ {e}])
      /\ UNCHANGED <<rooms, history>>
      /\ \/ muted' = muted \union {e} /\ notifying' = notifying \union {e} /\ loud' = loud \ {e}
         \/ UNCHANGED rules
  BY Zenon DEF Sweep, At
<1>2. Shortens(j)
  BY <1>1, ShortensFacts, Zenon
<1>3. UNCHANGED <<tag, owner, audience, wish, tangled, doubled>>
  BY <1>1, Zenon DEF rooms, history
<1>4. UNCHANGED rules => UNCHANGED <<muted, notifying, loud>>
  BY Zenon DEF rules
<1> QED BY <1>1, <1>2, <1>3, <1>4, Zenon DEF SweepDoes

RedactDoes(j) == job[j].pc = "redact" /\ Shortens(j) /\ Still

LEMMA RedactEffect ==
  ASSUME Types, NEW j \in Jobs, NEW s \in Stories, Redact(j, s) PROVE RedactDoes(j)
<1>1. /\ job[j].pc = "redact" /\ UNCHANGED <<rooms, rules, history>>
      /\ Put(j, IF job[j].list = {s} THEN Idle ELSE [job[j] EXCEPT !.list = job[j].list \ {s}])
  BY Zenon DEF Redact, At
<1>2. Shortens(j)
  BY <1>1, ShortensFacts, Zenon
<1>3. Still
  BY <1>1, Zenon DEF Still, rooms, rules, history
<1> QED BY <1>1, <1>2, <1>3 DEF RedactDoes

RoundDoes(j) ==
  /\ job[j].pc = "idle" /\ Still
  /\ Becomes(j, "redact", "in", {}, {}, << >>, 0, Expired)

LEMMA RoundEffect ==
  ASSUME Types, NEW j \in Jobs, Round(j) PROVE RoundDoes(j) \/ (job' = job /\ Still)
<1> DEFINE rec == [Idle EXCEPT !.pc = "redact", !.list = Expired]
<1>1. job[j].pc = "idle" /\ (Put(j, rec) \/ job' = job) /\ UNCHANGED <<rooms, rules, history>>
  BY Zenon DEF Round, At
<1>2. "redact" \in Pcs /\ Expired \in SUBSET Lists /\ Idle \in JobType
  BY IdleFacts DEF Pcs, Expired, Lists, Is
<1>3. Is(rec, "redact", Idle.what, Idle.event, Idle.todo, Idle.turns, Idle.room, Expired)
  BY <1>2, SweepFields, Zenon
<1> HIDE DEF rec
<1>4. Is(rec, "redact", "in", {}, {}, << >>, 0, Expired)
  BY <1>3, IdleFacts, Zenon DEF Is
<1>5. Put(j, rec) => Becomes(j, "redact", "in", {}, {}, << >>, 0, Expired)
  BY <1>4, PutIs, Zenon
<1>6. Still
  BY <1>1, Zenon DEF Still, rooms, rules, history
<1> QED BY <1>1, <1>5, <1>6 DEF RoundDoes

(* After a restart only the backfill, of the pairs found, and the sweep run. *)
RestartDoes(i, j) ==
  \E found \in SUBSET Pairs :
    /\ job' \in [Jobs -> JobType]
    /\ \A k \in Jobs : \/ Is(job'[k], "idle", "in", {}, {}, << >>, 0, {})
                       \/ k = i /\ Is(job'[k], "next", "in", {}, found, << >>, 0, {})
                       \/ k = j /\ Is(job'[k], "sweep", "in", {}, {}, << >>, 0, ToMute)
    /\ tangled' = tangled \union {p \in found : wish[p] = "out"}
                          \union {p \in Pairs : Busy(p) /\ p \notin found}
                          \union {p \in found : \E k \in Jobs : p \in Concerns(k) /\ job[k].what = "out"}
    /\ doubled' = doubled \union {Owner(k) : k \in {x \in Jobs : job[x].pc = "tag"}}
    /\ UNCHANGED <<tag, owner, audience, client, muted, notifying, loud, wish>>

LEMMA RestartEffect ==
  ASSUME Types, NEW i \in Jobs, NEW j \in Jobs, Restart(i, j) PROVE RestartDoes(i, j)
<1> DEFINE fill(S) == [Idle EXCEPT !.pc = "next", !.todo = S]
           mute    == [Idle EXCEPT !.pc = "sweep", !.list = ToMute]
           After(k, S) == CASE k = i /\ S # {} -> fill(S) [] k = j /\ ToMute # {} -> mute [] OTHER -> Idle
<1>1. /\ i # j
      /\ doubled' = doubled \union {Owner(k) : k \in {x \in Jobs : job[x].pc = "tag"}}
      /\ UNCHANGED <<rooms, client, rules, wish>>
      /\ \E S \in {DmPairs, {}} :
           /\ job' = [k \in Jobs |-> After(k, S)]
           /\ tangled' = tangled \union {p \in S : wish[p] = "out"}
                                 \union {p \in Pairs : Busy(p) /\ p \notin S}
                                 \union {p \in S : \E k \in Jobs : p \in Concerns(k) /\ job[k].what = "out"}
  BY Zenon DEF Restart, At
<1>2. PICK found \in {DmPairs, {}} :
           /\ job' = [k \in Jobs |-> After(k, found)]
           /\ tangled' = tangled \union {p \in found : wish[p] = "out"}
                                 \union {p \in Pairs : Busy(p) /\ p \notin found}
                                 \union {p \in found : \E k \in Jobs : p \in Concerns(k) /\ job[k].what = "out"}
  BY <1>1, Zenon
<1>3. /\ found \in SUBSET Pairs /\ ToMute \in SUBSET Lists /\ "next" \in Pcs /\ "sweep" \in Pcs
      /\ Idle \in JobType
  BY IdleFacts DEF DmPairs, ToMute, Lists, Pcs, Is
<1>4. Is(fill(found), "next", Idle.what, Idle.event, found, Idle.turns, Idle.room, Idle.list)
  BY <1>3, BackfillFields, Zenon
<1>5. Is(mute, "sweep", Idle.what, Idle.event, Idle.todo, Idle.turns, Idle.room, ToMute)
  BY <1>3, SweepFields, Zenon
<1> HIDE DEF fill, mute
<1>6. /\ Is(fill(found), "next", "in", {}, found, << >>, 0, {})
      /\ Is(mute, "sweep", "in", {}, {}, << >>, 0, ToMute)
  BY <1>4, <1>5, IdleFacts, Zenon DEF Is
<1>7. ASSUME NEW k \in Jobs
      PROVE  \/ k = i /\ After(k, found) = fill(found)
             \/ k = j /\ After(k, found) = mute
             \/ After(k, found) = Idle
  BY <1>1
<1>8. fill(found) \in JobType /\ mute \in JobType
  BY <1>6 DEF Is
<1> HIDE DEF After
<1>9. job' \in [Jobs -> JobType]
  BY <1>2, <1>3, <1>7, <1>8
<1>10. \A k \in Jobs : job'[k] = After(k, found)
  BY <1>2
<1>11. \A k \in Jobs : \/ Is(job'[k], "idle", "in", {}, {}, << >>, 0, {})
                       \/ k = i /\ Is(job'[k], "next", "in", {}, found, << >>, 0, {})
                       \/ k = j /\ Is(job'[k], "sweep", "in", {}, {}, << >>, 0, ToMute)
  BY <1>6, <1>7, <1>10, IdleFacts, Zenon
<1>12. UNCHANGED <<tag, owner, audience, client, muted, notifying, loud, wish>>
  BY <1>1, Zenon DEF rooms, rules
<1> QED BY <1>1, <1>2, <1>3, <1>9, <1>11, <1>12, Zenon DEF RestartDoes

(* A client of u makes room r, and its id is stored or lost. *)
ClientMakes(u, r) ==
  /\ Cardinality(Made) < MaxRooms /\ r = Cardinality(Made) + 1
  /\ owner' = [owner EXCEPT ![r] = {u}]
  /\ client' = [client EXCEPT ![u] = client[u] \union {r}]
  /\ doubled' = IF tag[u] # {} \/ BeingMade(u) THEN doubled \union {u} ELSE doubled
  /\ UNCHANGED <<tag, muted>>
ClientKeeps(u, r) ==
  /\ r \in client[u] /\ owner' = owner
  /\ client' = [client EXCEPT ![u] = client[u] \ {r}]
  /\ \/ /\ tag' = [tag EXCEPT ![u] = {r}] /\ doubled' = doubled
        /\ muted' = muted \/ muted' = muted \union {<<u, r>>}
     \/ doubled' = doubled \union {u} /\ UNCHANGED <<tag, muted>>
ClientDoes(u, r) ==
  /\ job' = job /\ UNCHANGED <<audience, notifying, loud, wish, tangled>>
  /\ ClientMakes(u, r) \/ ClientKeeps(u, r)

LEMMA ClientEffect ==
  ASSUME Types, RoomsInv, NEW u \in Local, ClientCreates(u) \/ \E r \in Rooms : ClientStores(u, r)
  PROVE  \E r \in Rooms : ClientDoes(u, r)
<1>1. CASE ClientCreates(u)
  <2> DEFINE r == Cardinality(Made) + 1
  <2>1. /\ Cardinality(Made) < MaxRooms
        /\ owner' = [owner EXCEPT ![r] = {u}]
        /\ client' = [client EXCEPT ![u] = client[u] \union {r}]
        /\ doubled' = IF tag[u] # {} \/ BeingMade(u) THEN doubled \union {u} ELSE doubled
        /\ UNCHANGED <<tag, audience, rules, wish, tangled, job>>
    BY <1>1, Zenon DEF ClientCreates
  <2>2. r \in Rooms
    BY <2>1, NextRoom
  <2>3. ClientMakes(u, r)
    BY <2>1, Zenon DEF ClientMakes, rules
  <2>4. ClientDoes(u, r)
    BY <2>1, <2>3, Zenon DEF ClientDoes, rules
  <2> HIDE DEF r
  <2> QED BY <2>2, <2>4
<1>2. ASSUME NEW r \in Rooms, ClientStores(u, r) PROVE ClientDoes(u, r)
  <2>1. /\ r \in client[u] /\ client' = [client EXCEPT ![u] = client[u] \ {r}]
        /\ \/ /\ tag' = [tag EXCEPT ![u] = {r}] /\ doubled' = doubled
              /\ muted' \in {muted, muted \union {<<u, r>>}}
           \/ doubled' = doubled \union {u} /\ UNCHANGED <<tag, muted>>
        /\ UNCHANGED <<owner, audience, notifying, loud, wish, tangled, job>>
    BY <1>2, Zenon DEF ClientStores
  <2>2. muted' \in {muted, muted \union {<<u, r>>}} => muted' = muted \/ muted' = muted \union {<<u, r>>}
    BY Zenon
  <2>3. ClientKeeps(u, r)
    BY <2>1, <2>2, Zenon DEF ClientKeeps
  <2> QED BY <2>1, <2>3, Zenon DEF ClientDoes
<1> QED BY <1>1, <1>2

(* Every step is one of these, or touches neither jobs nor rooms. *)
JobStep(j) ==
  /\ client' = client
  /\ \/ \E u \in Users, dm \in DMs, what \in {"in", "out"} : EventDoes(j, u, dm, what)
     \/ StartDoes(j) \/ GateDoes(j) \/ TakeDoes(j)
     \/ EnsureDoes(j) \/ CreateDoes(j) \/ StoreTagDoes(j) \/ MuteDoes(j) \/ RuleDoes(j) \/ InviteDoes(j)
     \/ FindDoes(j) \/ KickDoes(j)
     \/ SweepDoes(j) \/ RedactDoes(j) \/ RoundDoes(j)

Step ==
  \/ job' = job /\ client' = client /\ Still
  \/ \E j \in Jobs : JobStep(j)
  \/ \E i, j \in Jobs : RestartDoes(i, j)
  \/ \E u \in Local, r \in Rooms : ClientDoes(u, r)

LEMMA StepEffect ==
  ASSUME Types, JobsInv, RoomsInv, [Next]_vars PROVE Step
<1>1. CASE UNCHANGED vars
  BY <1>1, Zenon DEF Step, Still, vars, rooms, rules, history
<1>2. ASSUME NEW j \in Jobs, NEW dm \in DMs, NEW u \in Users, JoinDM(j, u, dm) \/ LeaveDM(j, u, dm)
      PROVE  Step
  <2>1. Event(j, u, dm, "in") \/ Event(j, u, dm, "out")
    BY <1>2, Zenon DEF JoinDM, LeaveDM
  <2>2. "in" \in {"in", "out"} /\ "out" \in {"in", "out"}
    OBVIOUS
  <2>3. EventDoes(j, u, dm, "in") \/ EventDoes(j, u, dm, "out")
    BY <2>1, <2>2, EventEffect, Zenon
  <2>4. client' = client
    BY <2>1, Zenon DEF Event
  <2> QED BY <2>2, <2>3, <2>4, Zenon DEF Step, JobStep
<1>3. ASSUME NEW j \in Jobs, Work(j)
      PROVE  Step
  <2>0. client' = client
    BY <1>3, Zenon DEF Work, Start, Gate, Ensure, Create, StoreTag, Mute, NotifyRule, Invite, Find, Kick,
                       TakePair, Sweep, Redact
  <2>1. CASE \E p \in Pairs : \E a \in p : TakePair(j, p, a)
    BY <2>0, <2>1, TakeEffect, Zenon DEF Step, JobStep
  <2>2. CASE \E e \in Local \X Rooms : Sweep(j, e)
    BY <2>0, <2>2, SweepEffect, Zenon DEF Step, JobStep
  <2>3. CASE \E s \in Stories : Redact(j, s)
    BY <2>0, <2>3, RedactEffect, Zenon DEF Step, JobStep
  <2>4. CASE Start(j) \/ Gate(j) \/ Ensure(j) \/ Create(j) \/ StoreTag(j)
    BY <2>0, <2>4, StartEffect, GateEffect, EnsureEffect, CreateEffect, StoreTagEffect, Zenon DEF Step, JobStep
  <2>5. CASE Mute(j) \/ NotifyRule(j) \/ Invite(j) \/ Find(j) \/ Kick(j)
    BY <2>0, <2>5, MuteEffect, RuleEffect, InviteEffect, FindEffect, KickEffect, Zenon DEF Step, JobStep
  <2> QED BY <1>3, <2>1, <2>2, <2>3, <2>4, <2>5, Zenon DEF Work
<1>4. ASSUME NEW j \in Jobs, Round(j)
      PROVE  Step
  <2>1. client' = client
    BY <1>4, Zenon DEF Round
  <2> QED BY <1>4, <2>1, RoundEffect, Zenon DEF Step, JobStep
<1>5. ASSUME NEW i \in Jobs, NEW j \in Jobs, Restart(i, j)
      PROVE  Step
  BY <1>5, RestartEffect, Zenon DEF Step
<1>6. ASSUME NEW s \in Stories, Post(s) \/ Expire(s)
      PROVE  Step
  BY <1>6, Zenon DEF Post, Expire, Step, Still, rooms, rules, history
<1>7. ASSUME NEW u \in Users, NEW dm \in DMs, List(u, dm)
      PROVE  Step
  BY <1>7, Zenon DEF List, Step, Still, rooms, rules, history
<1>8. ASSUME NEW u \in Local, ClientCreates(u) \/ \E r \in Rooms : ClientStores(u, r)
      PROVE  Step
  BY <1>8, ClientEffect, Zenon DEF Step
<1> QED BY <1>1, <1>2, <1>3, <1>4, <1>5, <1>6, <1>7, <1>8, Zenon DEF Next

-----------------------------------------------------------------------------
(* Types *)

MatrixTypes ==
  /\ in \in [DMs -> SUBSET Users] /\ direct \in [Users -> SUBSET DMs]
  /\ story \in [Stories -> {"none", "live", "expired", "redacted"}] /\ armed \in BOOLEAN

LEMMA MatrixStep ==
  ASSUME Types, [Next]_vars PROVE MatrixTypes'
<1> USE DEF Types, MatrixTypes
<1>1. CASE UNCHANGED <<in, direct, story, armed>>
  BY <1>1
<1>2. ASSUME NEW j \in Jobs, NEW dm \in DMs, NEW u \in Users, JoinDM(j, u, dm) \/ LeaveDM(j, u, dm)
      PROVE  MatrixTypes'
  <2>1. UNCHANGED <<direct, story, armed>> /\ (in' = [in EXCEPT ![dm] = in[dm] \union {u}] \/ in' = [in EXCEPT ![dm] = in[dm] \ {u}])
    BY <1>2, Zenon DEF JoinDM, LeaveDM, Event, expiry
  <2> QED BY <2>1
<1>3. ASSUME NEW j \in Jobs, Work(j)
      PROVE  MatrixTypes'
  <2>1. UNCHANGED <<in, direct, story, armed>> \/ \E s \in Stories : Redact(j, s)
    BY <1>3, Zenon DEF Work, Start, Gate, Ensure, Create, StoreTag, Mute, NotifyRule, Invite, Find, Kick,
                       TakePair, Sweep, matrix, expiry
  <2>2. CASE \E s \in Stories : Redact(j, s)
    <3>1. PICK s \in Stories : UNCHANGED <<in, direct, armed>> /\ (story' = [story EXCEPT ![s] = "redacted"] \/ story' = story)
      BY <2>2, Zenon DEF Redact, matrix
    <3> QED BY <3>1
  <2> QED BY <1>1, <2>1, <2>2
<1>4. ASSUME NEW j \in Jobs, Round(j)
      PROVE  MatrixTypes'
  <2>1. UNCHANGED <<in, direct, story>> /\ armed' = TRUE
    BY <1>4, Zenon DEF Round, matrix
  <2> QED BY <2>1
<1>5. ASSUME NEW i \in Jobs, NEW j \in Jobs, Restart(i, j)
      PROVE  MatrixTypes'
  <2>1. UNCHANGED <<in, direct, story>> /\ armed' = TRUE
    BY <1>5, Zenon DEF Restart, matrix
  <2> QED BY <2>1
<1>6. ASSUME NEW s \in Stories, Post(s) \/ Expire(s)
      PROVE  MatrixTypes'
  <2>1. UNCHANGED <<in, direct, armed>> /\ (story' = [story EXCEPT ![s] = "live"] \/ story' = [story EXCEPT ![s] = "expired"])
    BY <1>6, Zenon DEF Post, Expire, matrix
  <2> QED BY <2>1
<1>7. ASSUME NEW u \in Users, NEW dm \in DMs, List(u, dm)
      PROVE  MatrixTypes'
  <2>1. UNCHANGED <<in, story, armed>> /\ direct' = [direct EXCEPT ![u] = IF dm \in direct[u] THEN direct[u] \ {dm} ELSE direct[u] \union {dm}]
    BY <1>7, Zenon DEF List, expiry
  <2> QED BY <2>1
<1>8. UNCHANGED vars => UNCHANGED <<in, direct, story, armed>>
  BY Zenon DEF vars, matrix, expiry
<1>9. ASSUME NEW u \in Local, ClientCreates(u) \/ \E r \in Rooms : ClientStores(u, r)
      PROVE  MatrixTypes'
  BY <1>1, <1>9, Zenon DEF ClientCreates, ClientStores, matrix, expiry
<1> QED BY <1>1, <1>2, <1>3, <1>4, <1>5, <1>6, <1>7, <1>8, <1>9, Zenon DEF Next

LEMMA JobsTyped ==
  ASSUME Types, Step PROVE job' \in [Jobs -> JobType]
<1>1. ASSUME NEW j \in Jobs, JobStep(j)
      PROVE  job' \in [Jobs -> JobType]
  <2>1. ASSUME NEW failed, Turns(j, failed) PROVE job' \in [Jobs -> JobType]
    BY <2>1, Zenon DEF Turns, Ends, Becomes
  <2>2. ASSUME Aborts(j) \/ Shortens(j) \/ Ends(j) PROVE job' \in [Jobs -> JobType]
    BY <2>2, Zenon DEF Aborts, Shortens, Ends, Becomes
  <2>3. ASSUME NEW pc, NEW room, Moves(j, pc, room) PROVE job' \in [Jobs -> JobType]
    BY <2>3, Zenon DEF Moves, Becomes
  <2>4. CASE \E u \in Users, dm \in DMs, what \in {"in", "out"} : EventDoes(j, u, dm, what)
    BY <2>4, Zenon DEF EventDoes, Becomes
  <2>5. CASE StartDoes(j) \/ GateDoes(j) \/ TakeDoes(j) \/ RoundDoes(j)
    BY <2>2, <2>5, Zenon DEF StartDoes, GateDoes, TakeDoes, RoundDoes, Becomes
  <2>6. CASE EnsureDoes(j) \/ CreateDoes(j) \/ StoreTagDoes(j) \/ MuteDoes(j)
    BY <2>1, <2>2, <2>3, <2>6, Zenon DEF EnsureDoes, CreateDoes, StoreTagDoes, MuteDoes
  <2>7. CASE RuleDoes(j) \/ InviteDoes(j) \/ FindDoes(j) \/ KickDoes(j) \/ SweepDoes(j) \/ RedactDoes(j)
    BY <2>1, <2>2, <2>3, <2>7, Zenon DEF RuleDoes, InviteDoes, FindDoes, KickDoes, SweepDoes, RedactDoes
  <2> QED BY <1>1, <2>4, <2>5, <2>6, <2>7, Zenon DEF JobStep
<1>2. ASSUME NEW i \in Jobs, NEW j \in Jobs, RestartDoes(i, j)
      PROVE  job' \in [Jobs -> JobType]
  BY <1>2, Zenon DEF RestartDoes
<1>3. ASSUME job' = job
      PROVE  job' \in [Jobs -> JobType]
  BY <1>3, Zenon DEF Types
<1> QED BY <1>1, <1>2, <1>3, Zenon DEF Step, ClientDoes

DataTypes == RoomTypes /\ RuleTypes /\ HistoryTypes

LEMMA TurnsTyped ==
  ASSUME Types, JobsInv, NEW j \in Jobs, job[j].pc \in Serving, NEW failed \in BOOLEAN, Turns(j, failed)
  PROVE  wish' \in [Pairs -> {"none", "in", "out"}] /\ tangled' \subseteq Pairs
<1>1. PairOf(j) \in Pairs /\ job[j].what \in {"in", "out"}
  BY ServingFacts, JobFields DEF Sides, PairOf
<1>2. /\ wish' = wish \/ wish' = [wish EXCEPT ![PairOf(j)] = job[j].what]
      /\ tangled' = tangled \/ tangled' = tangled \union {PairOf(j)}
  BY Zenon DEF Turns
<1> QED BY <1>1, <1>2 DEF Types, HistoryTypes

LEMMA AbortsTyped ==
  ASSUME Types, JobsInv, NEW j \in Jobs, job[j].pc \in Serving, Aborts(j)
  PROVE  wish' \in [Pairs -> {"none", "in", "out"}] /\ tangled' \subseteq Pairs
<1>1. PairOf(j) \in Pairs
  BY ServingFacts DEF Sides, PairOf
<1>2. wish' = wish /\ tangled' = tangled \union {PairOf(j)}
  BY Zenon DEF Aborts
<1> QED BY <1>1, <1>2 DEF Types, HistoryTypes

LEMMA DataTyped ==
  ASSUME Types, JobsInv, RoomsInv, NEW j \in Jobs, JobStep(j) PROVE DataTypes'
<1> USE DEF DataTypes, RoomTypes, RuleTypes, HistoryTypes
<1>1. RoomTypes /\ RuleTypes /\ HistoryTypes /\ TRUE \in BOOLEAN /\ FALSE \in BOOLEAN /\ client' = client
  BY DEF Types, JobStep
<1>2. ASSUME Still PROVE DataTypes'
  BY <1>1, <1>2 DEF Still
<1>3. ASSUME NEW u \in Users, NEW dm \in DMs, NEW what \in {"in", "out"}, EventDoes(j, u, dm, what)
      PROVE  DataTypes'
  <2>1. /\ tangled' = tangled \/ tangled' = tangled \union {SidesOf[dm]}
        /\ UNCHANGED <<tag, owner, audience, muted, notifying, loud, wish, doubled>>
    BY <1>3, Zenon DEF EventDoes
  <2> QED BY <1>1, <2>1 DEF Pairs
<1>4. CASE StartDoes(j) \/ GateDoes(j) \/ TakeDoes(j) \/ RedactDoes(j) \/ RoundDoes(j)
  BY <1>2, <1>4, Zenon DEF StartDoes, GateDoes, TakeDoes, RedactDoes, RoundDoes
<1>5. CASE EnsureDoes(j)
  <2>1. job[j].pc \in Serving /\ UNCHANGED <<tag, owner, audience, muted, notifying, loud>>
    BY <1>5 DEF EnsureDoes, Serving, Subscribing
  <2>2. \/ Turns(j, FALSE) /\ UNCHANGED doubled
        \/ Aborts(j) /\ UNCHANGED doubled
        \/ UNCHANGED <<wish, tangled>> /\ (doubled' = doubled \/ (Owner(j) \in Local /\ doubled' = doubled \union {Owner(j)}))
    BY <1>5, Zenon DEF EnsureDoes
  <2>3. wish' \in [Pairs -> {"none", "in", "out"}] /\ tangled' \subseteq Pairs
    BY <1>1, <2>1, <2>2, TurnsTyped, AbortsTyped
  <2>4. doubled' \subseteq Local
    BY <1>1, <2>2
  <2> QED BY <1>1, <2>1, <2>3, <2>4
<1>6. CASE CreateDoes(j)
  <2>1. job[j].pc \in Serving /\ UNCHANGED <<tag, audience, muted, notifying, loud, doubled>> /\ job[j].pc = "create"
    BY <1>6 DEF CreateDoes, Serving, Subscribing
  <2>2. \/ /\ Cardinality(Made) < MaxRooms /\ owner' = [owner EXCEPT ![Cardinality(Made) + 1] = {Owner(j)}]
           /\ UNCHANGED <<wish, tangled>>
        \/ Aborts(j) /\ UNCHANGED owner
    BY <1>6, Zenon DEF CreateDoes
  <2>3. wish' \in [Pairs -> {"none", "in", "out"}] /\ tangled' \subseteq Pairs
    BY <1>1, <2>1, <2>2, AbortsTyped
  <2>4. Owner(j) \in Local
    BY <2>1 DEF JobsInv, JobAt
  <2>5. owner' \in [Rooms -> {{}} \union {{u} : u \in Local}]
    BY <1>1, <2>2, <2>4
  <2> QED BY <1>1, <2>1, <2>3, <2>5
<1>7. CASE StoreTagDoes(j)
  <2>1. job[j].pc \in Serving /\ UNCHANGED <<owner, audience, muted, notifying, loud>> /\ job[j].pc = "tag"
    BY <1>7 DEF StoreTagDoes, Serving, Subscribing
  <2>2. \/ /\ tag' = [tag EXCEPT ![Owner(j)] = {job[j].room}]
           /\ UNCHANGED <<wish, tangled, doubled>>
        \/ Aborts(j) /\ UNCHANGED tag /\ doubled' = doubled \union {Owner(j)}
    BY <1>7, Zenon DEF StoreTagDoes
  <2>3. wish' \in [Pairs -> {"none", "in", "out"}] /\ tangled' \subseteq Pairs
    BY <1>1, <2>1, <2>2, AbortsTyped
  <2>4. Owner(j) \in Local /\ job[j].room \in Rooms
    BY <2>1 DEF JobsInv, JobAt
  <2>5. tag' \in [Users -> {{}} \union {{r} : r \in Rooms}] /\ doubled' \subseteq Local
    BY <1>1, <2>2, <2>4
  <2> QED BY <1>1, <2>1, <2>3, <2>5
<1>8. CASE MuteDoes(j) \/ RuleDoes(j)
  <2>1. /\ UNCHANGED <<tag, owner, audience, wish, tangled, doubled>>
        /\ job[j].pc \in {"mute", "rule"}
        /\ \/ UNCHANGED <<muted, notifying, loud>>
           \/ /\ Guest(j) \in Local \/ job[j].pc = "rule"
              /\ muted' = muted \/ muted' = muted \union {<<Guest(j), job[j].room>>}
              /\ loud' = loud \/ loud' = loud \union {<<Guest(j), job[j].room>>}
              /\ notifying' = notifying \/ notifying' = notifying \union {<<Guest(j), job[j].room>>}
    BY <1>8, Zenon DEF MuteDoes, RuleDoes
  <2>2. job[j].room \in Rooms /\ (job[j].pc = "rule" => Guest(j) \in Local)
    BY <2>1 DEF JobsInv, JobAt, Placed
  <2> QED BY <1>1, <2>1, <2>2
<1>9. CASE InviteDoes(j) \/ KickDoes(j)
  <2>1. /\ job[j].pc \in Serving /\ job[j].pc \in {"invite", "kick"}
        /\ UNCHANGED <<tag, owner, muted, notifying, loud, doubled>>
    BY <1>9 DEF InviteDoes, KickDoes, Serving, Subscribing
  <2>2. /\ Turns(j, FALSE) \/ Turns(j, TRUE)
        /\ \/ audience' = audience
           \/ audience' = [audience EXCEPT ![job[j].room] = audience[job[j].room] \union {Guest(j)}]
           \/ audience' = [audience EXCEPT ![job[j].room] = audience[job[j].room] \ {Guest(j)}]
    BY <1>9, Zenon DEF InviteDoes, KickDoes
  <2>3. wish' \in [Pairs -> {"none", "in", "out"}] /\ tangled' \subseteq Pairs
    BY <1>1, <2>1, <2>2, TurnsTyped
  <2>4. Guest(j) \in Users /\ job[j].room \in Rooms
    BY <2>1, ServingFacts DEF JobsInv, JobAt, Placed
  <2>5. audience' \in [Rooms -> SUBSET Users]
    BY <1>1, <2>2, <2>4
  <2> QED BY <1>1, <2>1, <2>3, <2>5
<1>10. CASE FindDoes(j)
  <2>1. /\ job[j].pc \in Serving
        /\ UNCHANGED <<tag, owner, audience, muted, notifying, loud, doubled>>
    BY <1>10 DEF FindDoes, Serving, Subscribing
  <2>2. Turns(j, FALSE) \/ Turns(j, TRUE) \/ UNCHANGED <<wish, tangled>>
    BY <1>10, Zenon DEF FindDoes
  <2>3. wish' \in [Pairs -> {"none", "in", "out"}] /\ tangled' \subseteq Pairs
    BY <1>1, <2>1, <2>2, TurnsTyped
  <2> QED BY <1>1, <2>1, <2>3
<1>11. CASE SweepDoes(j)
  <2>1. job[j].list \subseteq Local \X Rooms
    BY <1>11 DEF SweepDoes, JobsInv, JobAt
  <2>2. /\ UNCHANGED <<tag, owner, audience, wish, tangled, doubled>>
        /\ \/ UNCHANGED <<muted, notifying, loud>>
           \/ \E e \in job[j].list : /\ muted' = muted \union {e} /\ notifying' = notifying \union {e}
                                     /\ loud' = loud \ {e}
    BY <1>11, Zenon DEF SweepDoes
  <2> QED BY <1>1, <2>1, <2>2
<1> QED BY <1>3, <1>4, <1>5, <1>6, <1>7, <1>8, <1>9, <1>10, <1>11, Zenon DEF JobStep

LEMMA TypesStep ==
  ASSUME Types, JobsInv, RoomsInv, [Next]_vars PROVE Types'
<1>1. Step
  BY StepEffect
<1>2. DataTypes'
  <2>1. CASE \E j \in Jobs : JobStep(j)
    BY <2>1, DataTyped
  <2>2. ASSUME NEW i \in Jobs, NEW j \in Jobs, RestartDoes(i, j) PROVE DataTypes'
    <3>1. /\ tangled' \subseteq tangled \union Pairs
          /\ doubled' = doubled \union {Owner(k) : k \in {x \in Jobs : job[x].pc = "tag"}}
          /\ UNCHANGED <<tag, owner, audience, client, muted, notifying, loud, wish>>
      BY <2>2 DEF RestartDoes
    <3>2. \A k \in Jobs : job[k].pc = "tag" => Owner(k) \in Local
      BY DEF JobsInv, JobAt
    <3> QED BY <3>1, <3>2 DEF Types, DataTypes, RoomTypes, RuleTypes, HistoryTypes
  <2>3. CASE client' = client /\ Still
    BY <2>3 DEF Still, Types, DataTypes, RoomTypes, RuleTypes, HistoryTypes
  <2>4. ASSUME NEW u \in Local, NEW r \in Rooms, ClientDoes(u, r) PROVE DataTypes'
    <3>1. /\ UNCHANGED <<audience, notifying, loud, wish, tangled>>
          /\ tag' = tag \/ tag' = [tag EXCEPT ![u] = {r}]
          /\ owner' = owner \/ owner' = [owner EXCEPT ![r] = {u}]
          /\ client' = [client EXCEPT ![u] = client[u] \union {r}] \/ client' = [client EXCEPT ![u] = client[u] \ {r}]
          /\ muted' = muted \/ muted' = muted \union {<<u, r>>}
          /\ doubled' = doubled \/ doubled' = doubled \union {u}
      BY <2>4, Zenon DEF ClientDoes, ClientMakes, ClientKeeps
    <3>2. RoomTypes'
      BY <3>1 DEF Types, RoomTypes
    <3>3. RuleTypes' /\ HistoryTypes'
      BY <3>1 DEF Types, RuleTypes, HistoryTypes
    <3> QED BY <3>2, <3>3 DEF DataTypes
  <2> QED BY <1>1, <2>1, <2>2, <2>3, <2>4, Zenon DEF Step
<1> QED BY <1>1, <1>2, JobsTyped, MatrixStep DEF Types, DataTypes, MatrixTypes

-----------------------------------------------------------------------------
(* Rooms *)

(* No room changes hands. *)
OwnersKept == \A r \in Rooms : owner[r] # {} => owner'[r] = owner[r]

LEMMA OwnersStep ==
  ASSUME Types, RoomsInv, Step PROVE OwnersKept
<1>1. CASE owner' = owner
  BY <1>1 DEF OwnersKept
<1>2. ASSUME NEW j \in Jobs, CreateDoes(j) PROVE OwnersKept
  <2>1. CASE owner' = owner
    BY <1>1, <2>1
  <2>2. CASE Cardinality(Made) < MaxRooms /\ owner' = [owner EXCEPT ![Cardinality(Made) + 1] = {Owner(j)}]
    BY <2>2, NextRoom DEF OwnersKept, Types, RoomTypes
  <2> QED BY <1>2, <2>1, <2>2, Zenon DEF CreateDoes
<1>3. ASSUME NEW j \in Jobs, JobStep(j), ~CreateDoes(j) PROVE owner' = owner
  BY <1>3, Zenon DEF JobStep, EventDoes, StartDoes, GateDoes, TakeDoes, EnsureDoes, StoreTagDoes, MuteDoes,
       RuleDoes, InviteDoes, FindDoes, KickDoes, SweepDoes, RedactDoes, RoundDoes, Still
<1>4. ASSUME NEW i \in Jobs, NEW j \in Jobs, RestartDoes(i, j) PROVE owner' = owner
  BY <1>4, Zenon DEF RestartDoes
<1>5. Still => owner' = owner
  BY Zenon DEF Still
<1>6. ASSUME NEW u \in Local, NEW r \in Rooms, ClientDoes(u, r) PROVE OwnersKept
  <2>1. CASE ClientMakes(u, r)
    BY <2>1, NextRoom DEF ClientMakes, OwnersKept, Types, RoomTypes
  <2>2. CASE ClientKeeps(u, r)
    BY <1>1, <2>2 DEF ClientKeeps
  <2> QED BY <1>6, <2>1, <2>2 DEF ClientDoes
<1> QED BY <1>1, <1>2, <1>3, <1>4, <1>5, <1>6, Zenon DEF Step

LEMMA PlacedFacts ==
  ASSUME JobsInv, NEW j \in Jobs, job[j].pc \in {"tag"} \union Placed
  PROVE  /\ job[j].room \in Rooms /\ owner[job[j].room] = {Owner(j)} /\ Owner(j) \in Local
         /\ job[j].pc \in Serving
BY DEF JobsInv, JobAt, Placed, Serving, Subscribing

(* A room more, for u, by a job or by a client. *)
LEMMA OneMore ==
  ASSUME Types, RoomsInv, NEW u, NEW n \in Nat, n + 1 \in Rooms, Made = 1..n,
         owner' = [owner EXCEPT ![n + 1] = {u}], UNCHANGED <<tag, audience>>
  PROVE  /\ \E m \in 0..MaxRooms : Made' = 1..m
         /\ \A r \in Rooms : owner'[r] = {} => audience'[r] = {}
         /\ \A v \in Users : \A r \in tag'[v] : owner'[r] = {v}
         /\ \A v \in Local : \A r \in client[v] : owner'[r] = {v}
<1>1. owner[n + 1] = {} /\ n + 1 \in 0..MaxRooms
  BY ConstantsAssumption DEF Made, Rooms
<1>2. owner'[n + 1] = {u} /\ \A r \in Rooms : r # n + 1 => owner'[r] = owner[r]
  BY DEF Types, RoomTypes
<1>3. Made' = 1..(n + 1)
  BY <1>2, ConstantsAssumption DEF Made, Rooms
<1>4. \A v \in Users : \A r \in tag[v] : r \in Rooms /\ r # n + 1 /\ owner[r] = {v}
  <2>1. \A v \in Users : \A r \in tag[v] : r \in Rooms
    BY DEF Types, RoomTypes
  <2>2. \A v \in Users : \A r \in tag[v] : owner[r] = {v}
    BY DEF RoomsInv
  <2> QED BY <1>1, <2>1, <2>2
<1>5. \A v \in Local : \A r \in client[v] : r \in Rooms /\ r # n + 1 /\ owner[r] = {v}
  <2>1. \A v \in Local : \A r \in client[v] : r \in Rooms
    BY DEF Types, RoomTypes
  <2> QED BY <1>1, <2>1 DEF RoomsInv
<1>6. \A r \in Rooms : owner'[r] = {} => audience'[r] = {}
  BY <1>2 DEF RoomsInv
<1> QED BY <1>1, <1>2, <1>3, <1>4, <1>5, <1>6

LEMMA RoomsStep ==
  ASSUME Types, JobsInv, RoomsInv, Step PROVE RoomsInv'
<1>1. ASSUME UNCHANGED <<tag, owner, audience, client>> PROVE RoomsInv'
  BY <1>1 DEF RoomsInv, Made
<1>2. ASSUME NEW j \in Jobs, CreateDoes(j), client' = client PROVE RoomsInv'
  <2>1. UNCHANGED <<tag, audience>>
    BY <1>2, Zenon DEF CreateDoes
  <2>2. CASE owner' = owner
    BY <1>1, <1>2, <2>1, <2>2
  <2>3. CASE Cardinality(Made) < MaxRooms /\ owner' = [owner EXCEPT ![Cardinality(Made) + 1] = {Owner(j)}]
    <3>1. PICK n \in Nat : n + 1 \in Rooms /\ Made = 1..n /\ owner' = [owner EXCEPT ![n + 1] = {Owner(j)}]
      BY <2>3, NextRoom
    <3> QED BY <1>2, <2>1, <3>1, OneMore DEF RoomsInv
  <2> QED BY <1>2, <2>2, <2>3, Zenon DEF CreateDoes
<1>3. ASSUME NEW j \in Jobs, StoreTagDoes(j), client' = client PROVE RoomsInv'
  <2>1. UNCHANGED <<owner, audience>> /\ (tag' = tag \/ tag' = [tag EXCEPT ![Owner(j)] = {job[j].room}])
    BY <1>3, Zenon DEF StoreTagDoes
  <2>2. owner[job[j].room] = {Owner(j)} /\ Owner(j) \in Users
    BY <1>3, PlacedFacts, ServingFacts DEF StoreTagDoes
  <2>3. Made' = Made
    BY <2>1 DEF Made
  <2>4. \A u \in Users : tag'[u] = tag[u] \/ (u = Owner(j) /\ tag'[u] = {job[j].room})
    BY <2>1, <2>2 DEF Types, RoomTypes
  <2> QED BY <1>3, <2>1, <2>2, <2>3, <2>4 DEF RoomsInv
<1>4. ASSUME NEW j \in Jobs, InviteDoes(j) \/ KickDoes(j), client' = client PROVE RoomsInv'
  <2>1. /\ UNCHANGED <<tag, owner>>
        /\ \/ audience' = audience
           \/ audience' = [audience EXCEPT ![job[j].room] = audience[job[j].room] \union {Guest(j)}]
           \/ audience' = [audience EXCEPT ![job[j].room] = audience[job[j].room] \ {Guest(j)}]
    BY <1>4, Zenon DEF InviteDoes, KickDoes
  <2>2. owner[job[j].room] = {Owner(j)}
    BY <1>4, PlacedFacts DEF InviteDoes, KickDoes, Placed
  <2> QED BY <1>4, <2>1, <2>2 DEF RoomsInv, Made, Types, RoomTypes
<1>5. ASSUME NEW j \in Jobs, JobStep(j), ~CreateDoes(j), ~StoreTagDoes(j), ~InviteDoes(j), ~KickDoes(j)
      PROVE  UNCHANGED <<tag, owner, audience, client>>
  BY <1>5, Zenon DEF JobStep, EventDoes, StartDoes, GateDoes, TakeDoes, EnsureDoes, MuteDoes,
       RuleDoes, FindDoes, SweepDoes, RedactDoes, RoundDoes, Still
<1>6. ASSUME NEW i \in Jobs, NEW j \in Jobs, RestartDoes(i, j) PROVE UNCHANGED <<tag, owner, audience, client>>
  BY <1>6, Zenon DEF RestartDoes
<1>7. Still => UNCHANGED <<tag, owner, audience>>
  BY Zenon DEF Still
<1>8. ASSUME NEW u \in Local, NEW r \in Rooms, ClientMakes(u, r), audience' = audience PROVE RoomsInv'
  <2>1. /\ \E n \in 0..MaxRooms : Made' = 1..n
        /\ \A x \in Rooms : owner'[x] = {} => audience'[x] = {}
        /\ \A v \in Users : \A x \in tag'[v] : owner'[x] = {v}
        /\ \A v \in Local : \A x \in client[v] : owner'[x] = {v}
    <3>1. PICK n \in Nat : n + 1 \in Rooms /\ Made = 1..n /\ owner' = [owner EXCEPT ![n + 1] = {u}]
      BY <1>8, NextRoom DEF ClientMakes
    <3>2. UNCHANGED <<tag, audience>>
      BY <1>8 DEF ClientMakes
    <3> QED BY <3>1, <3>2, OneMore
  <2>2. owner'[r] = {u} /\ \A v \in Local : client'[v] = client[v] \/ (v = u /\ client'[v] = client[v] \union {r})
    BY <1>8 DEF ClientMakes, Types, RoomTypes
  <2> QED BY <2>1, <2>2 DEF RoomsInv
<1>9. ASSUME NEW u \in Local, NEW r \in Rooms, ClientKeeps(u, r), audience' = audience PROVE RoomsInv'
  <2>1. owner[r] = {u} /\ u \in Users /\ owner' = owner /\ Made' = Made
    BY <1>9, ConstantsAssumption DEF ClientKeeps, RoomsInv, Made
  <2>2. \A v \in Users : tag'[v] = tag[v] \/ (v = u /\ tag'[v] = {r})
    BY <1>9, <2>1 DEF ClientKeeps, Types, RoomTypes
  <2>3. \A v \in Local : client'[v] \subseteq client[v]
    BY <1>9 DEF ClientKeeps, Types, RoomTypes
  <2> QED BY <1>9, <2>1, <2>2, <2>3 DEF RoomsInv
<1> QED BY <1>1, <1>2, <1>3, <1>4, <1>5, <1>6, <1>7, <1>8, <1>9, Zenon DEF Step, JobStep, ClientDoes

-----------------------------------------------------------------------------
(* Jobs *)

LEMMA JobKept ==
  ASSUME JobsInv, OwnersKept, NEW i \in Jobs, job'[i] = job[i] PROVE JobAt(i)'
<1>1. JobAt(i)
  BY DEF JobsInv
<1>2. LastSide(i)' = LastSide(i) /\ BothSides(i)' = BothSides(i) /\ Owner(i)' = Owner(i) /\ Guest(i)' = Guest(i)
  BY Zenon DEF LastSide, BothSides, Owner, Guest
<1>3. job[i].pc \in {"tag"} \union Placed => owner'[job[i].room] = {Owner(i)}
  BY <1>1 DEF JobAt, OwnersKept
<1> QED BY <1>1, <1>2, <1>3 DEF JobAt

LEMMA ResetJob ==
  ASSUME NEW j \in Jobs, job'[j].pc \in {"idle", "start", "gate", "next"}, job'[j].turns = << >>
  PROVE  JobAt(j)'
BY DEF JobAt, Serving, Subscribing, Placed

LEMMA EndsJob ==
  ASSUME NEW j \in Jobs, Ends(j) PROVE JobAt(j)'
BY ResetJob DEF Ends, Becomes, Is

LEMMA TurnsJob ==
  ASSUME Types, JobsInv, NEW j \in Jobs, job[j].pc \in Serving, NEW failed, Turns(j, failed) PROVE JobAt(j)'
<1>1. CASE Ends(j)
  BY <1>1, EndsJob
<1>2. CASE Becomes(j, "next", job[j].what, job[j].event, job[j].todo, << >>, 0, job[j].list)
  BY <1>2, ResetJob DEF Becomes, Is
<1>3. CASE /\ Tail(job[j].turns) # << >>
           /\ Becomes(j, IF job[j].what = "in" THEN "ensure" ELSE "find", job[j].what, job[j].event,
                      job[j].todo, Tail(job[j].turns), 0, job[j].list)
  <2>1. /\ job'[j].pc = IF job[j].what = "in" THEN "ensure" ELSE "find"
        /\ job'[j].what = job[j].what /\ job'[j].turns = Tail(job[j].turns)
    BY <1>3 DEF Becomes, Is
  <2>2. /\ job'[j].turns = <<<<Guest(j), Owner(j)>>>> /\ Guest(j) \in Users /\ Owner(j) \in Users
        /\ Sides(Guest(j), Owner(j))
    BY <1>3, <2>1, ServingFacts DEF Sides
  <2>3. LastSide(j)'
    BY <2>2, Zenon DEF LastSide, Sides
  <2>4. job[j].what \in {"in", "out"}
    BY JobFields
  <2> QED BY <2>1, <2>3, <2>4 DEF JobAt, Serving, Subscribing, Placed
<1> QED BY <1>1, <1>2, <1>3, Zenon DEF Turns

LEMMA AbortsJob ==
  ASSUME NEW j \in Jobs, Aborts(j) PROVE JobAt(j)'
<1>1. CASE Ends(j)
  BY <1>1, EndsJob
<1>2. CASE Becomes(j, "next", job[j].what, job[j].event, job[j].todo, << >>, 0, job[j].list)
  BY <1>2, ResetJob DEF Becomes, Is
<1> QED BY <1>1, <1>2, Zenon DEF Aborts

LEMMA MovesFacts ==
  ASSUME NEW j \in Jobs, NEW to, NEW room, Moves(j, to, room)
  PROVE  /\ job'[j].pc = to /\ job'[j].what = job[j].what /\ job'[j].turns = job[j].turns /\ job'[j].room = room
         /\ job'[j].todo = job[j].todo /\ job'[j].event = job[j].event /\ job'[j].list = job[j].list
         /\ Owner(j)' = Owner(j) /\ Guest(j)' = Guest(j) /\ PairOf(j)' = PairOf(j)
         /\ LastSide(j)' = LastSide(j) /\ BothSides(j)' = BothSides(j)
         /\ \A i \in Jobs : i # j => job'[i] = job[i]
<1>1. /\ job'[j].pc = to /\ job'[j].what = job[j].what /\ job'[j].turns = job[j].turns /\ job'[j].room = room
      /\ job'[j].todo = job[j].todo /\ job'[j].event = job[j].event /\ job'[j].list = job[j].list
      /\ \A i \in Jobs : i # j => job'[i] = job[i]
  BY Zenon DEF Moves, Becomes, Is
<1> QED BY <1>1, Zenon DEF Owner, Guest, PairOf, LastSide, BothSides

LEMMA MovesJob ==
  ASSUME Types, JobsInv, NEW j \in Jobs, job[j].pc \in Serving, NEW to \in Serving, NEW room, Moves(j, to, room),
         IF to \in Subscribing THEN job[j].pc \in Subscribing ELSE job[j].pc = "find",
         to # "ensure" /\ to # "find" => Owner(j) \in Local,
         to = "rule" => Guest(j) \in Local,
         to \in {"tag"} \union Placed => room \in Rooms /\ owner'[room] = {Owner(j)}
  PROVE  JobAt(j)'
<1>1. LastSide(j) \/ BothSides(j)
  BY DEF JobsInv, JobAt
<1>2. IF to \in Subscribing THEN job[j].what = "in" ELSE job[j].what = "out"
  BY DEF JobsInv, JobAt
<1>3. /\ job'[j].pc = to /\ job'[j].what = job[j].what /\ job'[j].room = room
      /\ Owner(j)' = Owner(j) /\ Guest(j)' = Guest(j)
      /\ LastSide(j)' \/ BothSides(j)'
  BY <1>1, MovesFacts
<1> QED BY <1>2, <1>3 DEF JobAt, Serving, Subscribing, Placed

(* Only job j moves. *)
OnlyJob(j) == \A i \in Jobs : i # j => job'[i] = job[i]

LEMMA OnlyJobStep ==
  ASSUME NEW j \in Jobs, JobStep(j) PROVE OnlyJob(j)
<1>1. ASSUME NEW failed, Turns(j, failed) PROVE OnlyJob(j)
  BY <1>1, Zenon DEF Turns, Ends, Becomes, OnlyJob
<1>2. ASSUME Aborts(j) \/ Shortens(j) \/ Ends(j) PROVE OnlyJob(j)
  BY <1>2, Zenon DEF Aborts, Shortens, Ends, Becomes, OnlyJob
<1>3. ASSUME NEW pc, NEW room, Moves(j, pc, room) PROVE OnlyJob(j)
  BY <1>3, Zenon DEF Moves, Becomes, OnlyJob
<1>4. CASE \E u \in Users, dm \in DMs, what \in {"in", "out"} : EventDoes(j, u, dm, what)
  BY <1>4, Zenon DEF EventDoes, Becomes, OnlyJob
<1>5. CASE StartDoes(j) \/ GateDoes(j) \/ TakeDoes(j) \/ RoundDoes(j)
  BY <1>2, <1>5, Zenon DEF StartDoes, GateDoes, TakeDoes, RoundDoes, Becomes, OnlyJob
<1>6. CASE EnsureDoes(j) \/ CreateDoes(j) \/ StoreTagDoes(j) \/ MuteDoes(j)
  BY <1>1, <1>2, <1>3, <1>6, Zenon DEF EnsureDoes, CreateDoes, StoreTagDoes, MuteDoes
<1>7. CASE RuleDoes(j) \/ InviteDoes(j) \/ FindDoes(j) \/ KickDoes(j) \/ SweepDoes(j) \/ RedactDoes(j)
  BY <1>1, <1>2, <1>3, <1>7, Zenon DEF RuleDoes, InviteDoes, FindDoes, KickDoes, SweepDoes, RedactDoes
<1> QED BY <1>4, <1>5, <1>6, <1>7, Zenon DEF JobStep

LEMMA ShortensJob ==
  ASSUME JobsInv, NEW j \in Jobs, job[j].pc \in {"sweep", "redact"}, Shortens(j) PROVE JobAt(j)'
<1>1. CASE Ends(j)
  BY <1>1, EndsJob
<1>2. CASE \E list \in SUBSET job[j].list :
             Becomes(j, job[j].pc, job[j].what, job[j].event, job[j].todo, job[j].turns, job[j].room, list)
  <2>1. job'[j].pc = job[j].pc /\ job'[j].turns = job[j].turns /\ job'[j].list \subseteq job[j].list
    BY <1>2 DEF Becomes, Is
  <2>2. JobAt(j)
    BY DEF JobsInv
  <2> QED BY <2>1, <2>2 DEF JobAt, Serving, Subscribing, Placed
<1> QED BY <1>1, <1>2 DEF Shortens

LEMMA TakeJob ==
  ASSUME Types, JobsInv, NEW j \in Jobs, TakeDoes(j) PROVE JobAt(j)'
<1>1. PICK p \in job[j].todo :
        \/ Ends(j)
        \/ Becomes(j, "next", job[j].what, job[j].event, job[j].todo \ {p}, job[j].turns, job[j].room, job[j].list)
        \/ \E a, b \in Users :
             /\ a # b /\ p = {a, b}
             /\ Becomes(j, IF job[j].what = "in" THEN "ensure" ELSE "find", job[j].what, job[j].event,
                        job[j].todo \ {p}, <<<<a, b>>, <<b, a>>>>, job[j].room, job[j].list)
  BY Zenon DEF TakeDoes
<1>2. job[j].turns = << >> /\ p \in Pairs /\ job[j].what \in {"in", "out"}
  BY JobFields DEF JobsInv, JobAt, TakeDoes, Serving, Subscribing
<1>3. CASE Ends(j)
  BY <1>3, EndsJob
<1>4. CASE Becomes(j, "next", job[j].what, job[j].event, job[j].todo \ {p}, job[j].turns, job[j].room, job[j].list)
  BY <1>2, <1>4, ResetJob DEF Becomes, Is
<1>5. ASSUME NEW a \in Users, NEW b \in Users, a # b, p = {a, b},
             Becomes(j, IF job[j].what = "in" THEN "ensure" ELSE "find", job[j].what, job[j].event,
                     job[j].todo \ {p}, <<<<a, b>>, <<b, a>>>>, job[j].room, job[j].list)
      PROVE  JobAt(j)'
  <2>1. /\ job'[j].pc = (IF job[j].what = "in" THEN "ensure" ELSE "find") /\ job'[j].what = job[j].what
        /\ job'[j].turns = <<<<a, b>>, <<b, a>>>>
    BY <1>5, Zenon DEF Becomes, Is
  <2>2. Sides(a, b)
    BY <1>2, <1>5 DEF Sides
  <2>3. BothSides(j)'
    BY <2>1, <2>2, Zenon DEF BothSides, Sides
  <2> QED BY <1>2, <2>1, <2>3 DEF JobAt, Serving, Subscribing, Placed
<1> QED BY <1>1, <1>3, <1>4, <1>5, Zenon

LEMMA TagFacts ==
  ASSUME Types, RoomsInv, NEW u \in Users, NEW r \in tag[u] PROVE r \in Rooms /\ owner[r] = {u} /\ tag[u] = {r}
BY DEF Types, RoomTypes, RoomsInv

LEMMA JobMoves ==
  ASSUME Types, JobsInv, RoomsInv, NEW j \in Jobs, JobStep(j) PROVE JobAt(j)'
<1> USE DEF Serving, Subscribing, Placed
<1>1. CASE \E u \in Users, dm \in DMs, what \in {"in", "out"} : EventDoes(j, u, dm, what)
  BY <1>1, ResetJob DEF EventDoes, Becomes, Is
<1>2. CASE StartDoes(j)
  <2>1. job[j].turns = << >>
    BY <1>2 DEF StartDoes, JobsInv, JobAt
  <2>2. Ends(j) \/ (job'[j].pc \in {"next", "gate"} /\ job'[j].turns = job[j].turns)
    BY <1>2, Zenon DEF StartDoes, Becomes, Is
  <2> QED BY <2>1, <2>2, EndsJob, ResetJob
<1>3. CASE GateDoes(j)
  <2>1. job[j].turns = << >>
    BY <1>3 DEF GateDoes, JobsInv, JobAt
  <2>2. Ends(j) \/ (job'[j].pc = "next" /\ job'[j].turns = job[j].turns)
    BY <1>3, Zenon DEF GateDoes, Becomes, Is
  <2> QED BY <2>1, <2>2, EndsJob, ResetJob
<1>4. CASE TakeDoes(j)
  BY <1>4, TakeJob
<1>5. CASE EnsureDoes(j)
  <2>1. job[j].pc = "ensure" /\ owner' = owner
    BY <1>5, Zenon DEF EnsureDoes
  <2>2. CASE Turns(j, FALSE)
    BY <2>1, <2>2, TurnsJob
  <2>3. CASE Owner(j) \in Local /\ \E r \in tag[Owner(j)] : Moves(j, "mute", r)
    <3>1. PICK r \in tag[Owner(j)] : Moves(j, "mute", r)
      BY <2>3, Zenon
    <3>2. r \in Rooms /\ owner'[r] = {Owner(j)} /\ Owner(j) \in Local
      BY <2>1, <2>3, TagFacts, ServingFacts
    <3> QED BY <2>1, <3>1, <3>2, MovesJob
  <2>4. CASE Owner(j) \in Local /\ Moves(j, "create", job[j].room)
    BY <2>1, <2>4, MovesJob
  <2>5. CASE Aborts(j)
    BY <2>5, AbortsJob
  <2> QED BY <1>5, <2>2, <2>3, <2>4, <2>5, Zenon DEF EnsureDoes
<1>6. CASE CreateDoes(j)
  <2>1. job[j].pc = "create" /\ Owner(j) \in Local
    BY <1>6 DEF CreateDoes, JobsInv, JobAt
  <2>2. CASE Aborts(j)
    BY <2>2, AbortsJob
  <2>3. CASE /\ Cardinality(Made) < MaxRooms
             /\ owner' = [owner EXCEPT ![Cardinality(Made) + 1] = {Owner(j)}]
             /\ Moves(j, "tag", Cardinality(Made) + 1)
    <3>1. Cardinality(Made) + 1 \in Rooms /\ owner'[Cardinality(Made) + 1] = {Owner(j)}
      BY <2>3, NextRoom DEF Types, RoomTypes
    <3> QED BY <2>1, <2>3, <3>1, MovesJob
  <2> QED BY <1>6, <2>2, <2>3, Zenon DEF CreateDoes
<1>7. CASE StoreTagDoes(j)
  <2>1. job[j].pc = "tag" /\ owner' = owner
    BY <1>7, Zenon DEF StoreTagDoes
  <2>2. CASE Aborts(j)
    BY <2>2, AbortsJob
  <2>3. CASE Moves(j, "mute", job[j].room)
    BY <2>1, <2>3, PlacedFacts, MovesJob
  <2> QED BY <1>7, <2>2, <2>3, Zenon DEF StoreTagDoes
<1>8. CASE MuteDoes(j) \/ RuleDoes(j)
  <2>1. /\ job[j].pc \in {"mute", "rule"} /\ owner' = owner
        /\ Moves(j, "invite", job[j].room) \/ (Moves(j, "rule", job[j].room) /\ Guest(j) \in Local)
    BY <1>8, Zenon DEF MuteDoes, RuleDoes
  <2>2. job[j].room \in Rooms /\ owner'[job[j].room] = {Owner(j)} /\ Owner(j) \in Local
    BY <2>1, PlacedFacts
  <2>3. CASE Moves(j, "invite", job[j].room)
    BY <2>1, <2>2, <2>3, MovesJob
  <2>4. CASE Moves(j, "rule", job[j].room) /\ Guest(j) \in Local
    BY <2>1, <2>2, <2>4, MovesJob
  <2> QED BY <2>1, <2>3, <2>4
<1>9. CASE InviteDoes(j) \/ KickDoes(j)
  <2>1. job[j].pc \in {"invite", "kick"} /\ (Turns(j, FALSE) \/ Turns(j, TRUE))
    BY <1>9, Zenon DEF InviteDoes, KickDoes
  <2> QED BY <2>1, TurnsJob
<1>10. CASE FindDoes(j)
  <2>1. job[j].pc = "find" /\ owner' = owner
    BY <1>10, Zenon DEF FindDoes
  <2>2. CASE Turns(j, FALSE) \/ Turns(j, TRUE)
    BY <2>1, <2>2, TurnsJob
  <2>3. CASE Owner(j) \in Local /\ \E r \in tag[Owner(j)] : Moves(j, "kick", r)
    <3>1. PICK r \in tag[Owner(j)] : Moves(j, "kick", r)
      BY <2>3, Zenon
    <3>2. r \in Rooms /\ owner'[r] = {Owner(j)} /\ Owner(j) \in Local
      BY <2>1, <2>3, TagFacts, ServingFacts
    <3> QED BY <2>1, <3>1, <3>2, MovesJob
  <2> QED BY <1>10, <2>2, <2>3, Zenon DEF FindDoes
<1>11. CASE SweepDoes(j) \/ RedactDoes(j)
  <2>1. job[j].pc \in {"sweep", "redact"} /\ Shortens(j)
    BY <1>11, Zenon DEF SweepDoes, RedactDoes
  <2> QED BY <2>1, ShortensJob
<1>12. CASE RoundDoes(j)
  <2>1. job'[j].pc = "redact" /\ job'[j].turns = << >> /\ job'[j].list \subseteq Stories
    BY <1>12 DEF RoundDoes, Becomes, Is, Expired
  <2> QED BY <2>1 DEF JobAt
<1> HIDE DEF Serving, Subscribing, Placed
<1> QED BY <1>1, <1>2, <1>3, <1>4, <1>5, <1>6, <1>7, <1>8, <1>9, <1>10, <1>11, <1>12, Zenon DEF JobStep

LEMMA JobsStep ==
  ASSUME Types, JobsInv, RoomsInv, Step PROVE JobsInv'
<1>1. OwnersKept
  BY OwnersStep
<1>2. ASSUME NEW j \in Jobs, JobStep(j), NEW i \in Jobs PROVE JobAt(i)'
  BY <1>1, <1>2, OnlyJobStep, JobMoves, JobKept, Zenon DEF OnlyJob
<1>3. ASSUME NEW k \in Jobs, NEW j \in Jobs, RestartDoes(k, j), NEW i \in Jobs PROVE JobAt(i)'
  <2>1. /\ job'[i].turns = << >>
        /\ job'[i].pc \in {"idle", "next"} \/ (job'[i].pc = "sweep" /\ job'[i].list = ToMute)
    BY <1>3 DEF RestartDoes, Is
  <2>2. CASE job'[i].pc \in {"idle", "next"}
    BY <2>1, <2>2, ResetJob
  <2>3. CASE job'[i].pc = "sweep" /\ job'[i].list = ToMute
    BY <2>1, <2>3 DEF JobAt, Serving, Subscribing, Placed, ToMute
  <2> QED BY <2>1, <2>2, <2>3
<1>4. ASSUME job' = job, NEW i \in Jobs PROVE JobAt(i)'
  BY <1>1, <1>4, JobKept
<1>5. ASSUME NEW i \in Jobs PROVE JobAt(i)'
  BY <1>2, <1>3, <1>4, <1>5, Zenon DEF Step, ClientDoes
<1> QED BY <1>5 DEF JobsInv

Base == Types /\ JobsInv /\ RoomsInv

LEMMA BaseStep ==
  ASSUME Base, [Next]_vars PROVE Base' /\ Step
BY StepEffect, TypesStep, RoomsStep, JobsStep DEF Base

LEMMA BaseInit ==
  ASSUME Init PROVE Base
<1>1. Types
  <2>1. left \in Bounds /\ in = left.in /\ direct = left.direct
    BY Zenon DEF Init
  <2>2. in \in [DMs -> SUBSET Users] /\ direct \in [Users -> SUBSET DMs]
    BY <2>1, ConstantsAssumption
  <2>3. job \in [Jobs -> JobType]
    BY IdleFacts DEF Init, Is
  <2> QED BY <2>2, <2>3 DEF Init, Types, RoomTypes, RuleTypes, HistoryTypes
<1>2. JobsInv
  <2>1. \A j \in Jobs : job[j].pc = "idle" /\ job[j].turns = << >>
    BY IdleFacts DEF Init, Is
  <2> QED BY <2>1 DEF JobsInv, JobAt, Serving, Subscribing, Placed
<1>3. RoomsInv
  <2>1. Made = {} /\ MaxRooms \in Nat
    BY ConstantsAssumption DEF Init, Made
  <2>2. Made = 1..0 /\ 0 \in 0..MaxRooms
    BY <2>1
  <2> QED BY <2>2 DEF Init, RoomsInv
<1> QED BY <1>1, <1>2, <1>3 DEF Base

(* The types of the variables, and of the fields of each job, hold: rooms, *)
(* rules and pairs a job works with are always ones that exist.            *)
THEOREM TypeCorrect == Spec => []TypeOK
<1>1. Init => Base
  BY BaseInit
<1>2. Base /\ [Next]_vars => Base'
  BY BaseStep
<1>3. Base => TypeOK
  BY TypesAreTypeOK DEF Base
<1> QED BY <1>1, <1>2, <1>3, PTL DEF Spec

-----------------------------------------------------------------------------
(* Where the steps lead *)

LEMMA TurnsLands ==
  ASSUME NEW j \in Jobs, NEW failed, Turns(j, failed) PROVE job'[j].pc \in {"idle", "next", "ensure", "find"}
<1>1. \/ job'[j].pc = "idle" \/ job'[j].pc = "next"
      \/ job'[j].pc = IF job[j].what = "in" THEN "ensure" ELSE "find"
  BY Zenon DEF Turns, Ends, Becomes, Is
<1> QED BY <1>1

LEMMA AbortsLands ==
  ASSUME NEW j \in Jobs, Aborts(j) PROVE job'[j].pc \in {"idle", "next"} /\ job'[j].turns = << >>
<1>1. (job'[j].pc = "idle" \/ job'[j].pc = "next") /\ job'[j].turns = << >>
  BY Zenon DEF Aborts, Ends, Becomes, Is
<1> QED BY <1>1

LEMMA ShortensLands ==
  ASSUME NEW j \in Jobs, Shortens(j) PROVE job'[j].pc = "idle" \/ job'[j].pc = job[j].pc
BY Zenon DEF Shortens, Ends, Becomes, Is

(* A job is on its way to an invitation only out of a mute. *)
LEMMA AsideLands ==
  ASSUME NEW j \in Jobs,
         \/ \E u \in Users, dm \in DMs, what \in {"in", "out"} : EventDoes(j, u, dm, what)
         \/ StartDoes(j) \/ GateDoes(j) \/ TakeDoes(j) \/ SweepDoes(j) \/ RedactDoes(j) \/ RoundDoes(j)
  PROVE  /\ job[j].pc \notin Serving
         /\ job'[j].pc \in {"idle", "start", "gate", "next", "ensure", "find", "sweep", "redact"}
         /\ UNCHANGED <<tag, owner, audience, wish, doubled>>
<1>1. CASE \E u \in Users, dm \in DMs, what \in {"in", "out"} : EventDoes(j, u, dm, what)
  BY <1>1 DEF EventDoes, Becomes, Is, Serving, Subscribing
<1>2. CASE StartDoes(j) \/ GateDoes(j) \/ TakeDoes(j) \/ RoundDoes(j)
  <2>1. /\ job[j].pc \in {"start", "gate", "next", "idle"} /\ Still
        /\ \/ job'[j].pc = "idle" \/ job'[j].pc = "next" \/ job'[j].pc = "gate" \/ job'[j].pc = "redact"
           \/ job'[j].pc = IF job[j].what = "in" THEN "ensure" ELSE "find"
    BY <1>2, Zenon DEF StartDoes, GateDoes, TakeDoes, RoundDoes, Ends, Becomes, Is
  <2> QED BY <2>1 DEF Serving, Subscribing, Still
<1>3. CASE SweepDoes(j) \/ RedactDoes(j)
  <2>1. job[j].pc \in {"sweep", "redact"} /\ Shortens(j) /\ UNCHANGED <<tag, owner, audience, wish, doubled>>
    BY <1>3, Zenon DEF SweepDoes, RedactDoes, Still
  <2> QED BY <2>1, ShortensLands DEF Serving, Subscribing
<1> QED BY <1>1, <1>2, <1>3

-----------------------------------------------------------------------------
(* Invitations are silent *)

Muted(g, r) == g \in Local => <<g, r>> \in muted \union loud

SilentInv ==
  /\ InvitesAreSilent
  /\ \A j \in Jobs : job[j].pc \in {"rule", "invite"} => Muted(Guest(j), job[j].room)

LEMMA MutedKept ==
  ASSUME Types, Step PROVE muted \union loud \subseteq muted' \union loud'
<1>1. ASSUME UNCHANGED <<muted, loud>> PROVE muted \union loud \subseteq muted' \union loud'
  BY <1>1
<1>2. ASSUME NEW j \in Jobs, SweepDoes(j) PROVE muted \union loud \subseteq muted' \union loud'
  BY <1>2 DEF SweepDoes
<1>3. ASSUME NEW j \in Jobs, MuteDoes(j) PROVE muted \union loud \subseteq muted' \union loud'
  BY <1>3 DEF MuteDoes
<1>4. ASSUME NEW j \in Jobs, JobStep(j), ~SweepDoes(j), ~MuteDoes(j) PROVE UNCHANGED <<muted, loud>>
  BY <1>4, Zenon DEF JobStep, EventDoes, StartDoes, GateDoes, TakeDoes, EnsureDoes, CreateDoes, StoreTagDoes,
       RuleDoes, InviteDoes, FindDoes, KickDoes, RedactDoes, RoundDoes, Still
<1>5. ASSUME NEW i \in Jobs, NEW j \in Jobs, RestartDoes(i, j) PROVE UNCHANGED <<muted, loud>>
  BY <1>5, Zenon DEF RestartDoes
<1>6. Still => UNCHANGED <<muted, loud>>
  BY Zenon DEF Still
<1>7. ASSUME NEW u \in Local, NEW r \in Rooms, ClientDoes(u, r) PROVE muted \union loud \subseteq muted' \union loud'
  <2>1. loud' = loud /\ (muted' = muted \/ muted' = muted \union {<<u, r>>})
    BY <1>7, Zenon DEF ClientDoes, ClientMakes, ClientKeeps
  <2> QED BY <2>1
<1> QED BY <1>1, <1>2, <1>3, <1>4, <1>5, <1>6, <1>7, Zenon DEF Step

LEMMA SilentAudience ==
  ASSUME Base, SilentInv, Step, NEW r \in Rooms, NEW g \in audience'[r], g \in Local
  PROVE  <<g, r>> \in muted \union loud
<1>1. Types /\ JobsInv
  BY DEF Base
<1>2. CASE g \in audience[r]
  BY <1>2 DEF SilentInv, InvitesAreSilent
<1>3. ASSUME NEW j \in Jobs, InviteDoes(j), g \notin audience[r] PROVE <<g, r>> \in muted \union loud
  <2>1. \/ audience' = [audience EXCEPT ![job[j].room] = audience[job[j].room] \union {Guest(j)}]
        \/ audience' = audience
    BY <1>3, Zenon DEF InviteDoes
  <2>2. r = job[j].room /\ g = Guest(j)
    BY <1>1, <1>3, <2>1 DEF Types, RoomTypes
  <2>3. job[j].pc = "invite"
    BY <1>3, Zenon DEF InviteDoes
  <2> QED BY <2>2, <2>3 DEF SilentInv, Muted
<1>4. ASSUME NEW j \in Jobs, KickDoes(j) PROVE g \in audience[r]
  <2>1. \/ audience' = [audience EXCEPT ![job[j].room] = audience[job[j].room] \ {Guest(j)}]
        \/ audience' = audience
    BY <1>4, Zenon DEF KickDoes
  <2> QED BY <1>1, <2>1 DEF Types, RoomTypes
<1>5. ASSUME NEW j \in Jobs, JobStep(j), ~InviteDoes(j), ~KickDoes(j) PROVE audience' = audience
  BY <1>5, Zenon DEF JobStep, EventDoes, StartDoes, GateDoes, TakeDoes, EnsureDoes, CreateDoes, StoreTagDoes,
       MuteDoes, RuleDoes, FindDoes, SweepDoes, RedactDoes, RoundDoes, Still
<1>6. ASSUME NEW i \in Jobs, NEW j \in Jobs, RestartDoes(i, j) PROVE audience' = audience
  BY <1>6, Zenon DEF RestartDoes
<1>7. Still => audience' = audience
  BY Zenon DEF Still
<1> QED BY <1>2, <1>3, <1>4, <1>5, <1>6, <1>7, Zenon DEF Step, ClientDoes

LEMMA SilentJob ==
  ASSUME Base, SilentInv, Step, NEW j \in Jobs, JobStep(j), job'[j].pc \in {"rule", "invite"}
  PROVE  Muted(Guest(j), job[j].room)'
<1>1. Types /\ JobsInv
  BY DEF Base
<1>2. CASE MuteDoes(j)
  <2>1. \/ /\ Guest(j) \notin Local /\ Moves(j, "invite", job[j].room)
        \/ /\ Moves(j, "rule", job[j].room) /\ <<Guest(j), job[j].room>> \in muted' \union loud'
    BY <1>2 DEF MuteDoes
  <2>2. Guest(j)' = Guest(j) /\ job'[j].room = job[j].room
    BY <2>1, MovesFacts
  <2> QED BY <2>1, <2>2 DEF Muted
<1>3. CASE RuleDoes(j)
  <2>1. Guest(j)' = Guest(j) /\ job'[j].room = job[j].room /\ job[j].pc = "rule"
    BY <1>3, MovesFacts DEF RuleDoes
  <2>2. Muted(Guest(j), job[j].room)
    BY <2>1 DEF SilentInv
  <2> QED BY <1>1, <2>1, <2>2, MutedKept DEF Muted
<1>4. CASE \/ \E u \in Users, dm \in DMs, what \in {"in", "out"} : EventDoes(j, u, dm, what)
           \/ StartDoes(j) \/ GateDoes(j) \/ TakeDoes(j) \/ SweepDoes(j) \/ RedactDoes(j) \/ RoundDoes(j)
  BY <1>4, AsideLands
<1>5. CASE EnsureDoes(j) \/ CreateDoes(j) \/ StoreTagDoes(j) \/ InviteDoes(j) \/ FindDoes(j) \/ KickDoes(j)
  <2>1. \/ Turns(j, FALSE) \/ Turns(j, TRUE) \/ Aborts(j)
        \/ \E room : \E to \in {"create", "tag", "mute", "kick"} : Moves(j, to, room)
    BY <1>5 DEF EnsureDoes, CreateDoes, StoreTagDoes, InviteDoes, FindDoes, KickDoes
  <2> QED BY <2>1, TurnsLands, AbortsLands, MovesFacts
<1> QED BY <1>2, <1>3, <1>4, <1>5, Zenon DEF JobStep

LEMMA SilentStep ==
  ASSUME Base, SilentInv, Step PROVE SilentInv'
<1>1. muted \union loud \subseteq muted' \union loud'
  BY MutedKept DEF Base
<1>2. InvitesAreSilent'
  BY <1>1, SilentAudience DEF InvitesAreSilent
<1>3. ASSUME NEW i \in Jobs, job'[i] = job[i], job'[i].pc \in {"rule", "invite"}
      PROVE  Muted(Guest(i), job[i].room)'
  <2>1. Muted(Guest(i), job[i].room) /\ Guest(i)' = Guest(i) /\ job'[i].room = job[i].room
    BY <1>3 DEF SilentInv, Guest
  <2> QED BY <1>1, <2>1 DEF Muted
<1>4. ASSUME NEW j \in Jobs, JobStep(j), NEW i \in Jobs, job'[i].pc \in {"rule", "invite"}
      PROVE  Muted(Guest(i), job[i].room)'
  BY <1>3, <1>4, SilentJob, OnlyJobStep DEF OnlyJob
<1>5. ASSUME NEW k \in Jobs, NEW j \in Jobs, RestartDoes(k, j), NEW i \in Jobs
      PROVE  job'[i].pc \notin {"rule", "invite"}
  BY <1>5 DEF RestartDoes, Is
<1>6. \A i \in Jobs : job'[i].pc \in {"rule", "invite"} => Muted(Guest(i), job[i].room)'
  <2>1. ASSUME NEW i \in Jobs, job' = job, job'[i].pc \in {"rule", "invite"} PROVE Muted(Guest(i), job[i].room)'
    BY <1>3, <2>1
  <2> QED BY <1>4, <1>5, <2>1, Zenon DEF Step, ClientDoes
<1> QED BY <1>2, <1>6 DEF SilentInv

LEMMA SilentInit ==
  ASSUME Init PROVE SilentInv
<1>1. \A j \in Jobs : job[j].pc = "idle"
  BY IdleFacts DEF Init, Is
<1> QED BY <1>1 DEF Init, SilentInv, InvitesAreSilent

(* No local guest is ever invited to a stories room before his mute was    *)
(* set (or has failed), whichever of the jobs that overlap invites him and *)
(* whenever the process restarts: a job past its mute has written it.      *)
THEOREM SilentInvites == Spec => []InvitesAreSilent
<1>1. Init => Base /\ SilentInv
  BY BaseInit, SilentInit
<1>2. Base /\ SilentInv /\ [Next]_vars => (Base /\ SilentInv)'
  BY BaseStep, SilentStep
<1>3. SilentInv => InvitesAreSilent
  BY DEF SilentInv
<1> QED BY <1>1, <1>2, <1>3, PTL DEF Spec

-----------------------------------------------------------------------------
(* One room per owner *)

Making(j, u) == job[j].pc \in {"create", "tag"} /\ Owner(j) = u
Own(u)       == {r \in Made : owner[r] = {u}}

(* A client makes the room of u alone. *)
ByClient(u) ==
  client[u] # {} => tag[u] = {} /\ \E r \in Rooms : client[u] = {r} /\ audience[r] = {}

(* The room of u, while one job or one client makes it and otherwise. *)
RoomAt(u) ==
  /\ ByClient(u)
  /\ \A i, j \in Jobs : Making(i, u) /\ Making(j, u) => i = j
  /\ \A j \in Jobs : Making(j, u) => tag[u] = {} /\ client[u] = {}
  /\ \A j \in Jobs : Making(j, u) /\ job[j].pc = "create" => Own(u) = {}
  /\ \A j \in Jobs : Making(j, u) /\ job[j].pc = "tag" => Own(u) = {job[j].room} /\ audience[job[j].room] = {}
  /\ (\A j \in Jobs : ~Making(j, u)) => Own(u) = tag[u] \union client[u]
  /\ \A j \in Jobs : job[j].pc \in Placed /\ Owner(j) = u => tag[u] = {job[j].room}

OneRoomInv == \A u \in Local \ doubled : RoomAt(u)

LEMMA HistoryGrows ==
  ASSUME Step PROVE doubled \subseteq doubled' /\ tangled \subseteq tangled'
<1>1. ASSUME NEW j \in Jobs, JobStep(j) PROVE doubled \subseteq doubled' /\ tangled \subseteq tangled'
  <2>1. ASSUME NEW failed, Turns(j, failed) PROVE tangled \subseteq tangled'
    BY <2>1 DEF Turns
  <2>2. ASSUME Aborts(j) PROVE tangled \subseteq tangled'
    BY <2>2 DEF Aborts
  <2>3. CASE \E u \in Users, dm \in DMs, what \in {"in", "out"} : EventDoes(j, u, dm, what)
    BY <2>3 DEF EventDoes
  <2>4. CASE StartDoes(j) \/ GateDoes(j) \/ TakeDoes(j) \/ RoundDoes(j) \/ RedactDoes(j)
    BY <2>4 DEF StartDoes, GateDoes, TakeDoes, RoundDoes, RedactDoes, Still
  <2>5. CASE EnsureDoes(j) \/ CreateDoes(j) \/ StoreTagDoes(j)
    BY <2>1, <2>2, <2>5 DEF EnsureDoes, CreateDoes, StoreTagDoes
  <2>6. CASE InviteDoes(j) \/ FindDoes(j) \/ KickDoes(j)
    BY <2>1, <2>6 DEF InviteDoes, FindDoes, KickDoes
  <2>7. CASE MuteDoes(j) \/ RuleDoes(j) \/ SweepDoes(j)
    BY <2>7 DEF MuteDoes, RuleDoes, SweepDoes
  <2> QED BY <1>1, <2>3, <2>4, <2>5, <2>6, <2>7 DEF JobStep
<1>2. ASSUME NEW i \in Jobs, NEW j \in Jobs, RestartDoes(i, j) PROVE doubled \subseteq doubled' /\ tangled \subseteq tangled'
  BY <1>2 DEF RestartDoes
<1>3. Still => doubled \subseteq doubled' /\ tangled \subseteq tangled'
  BY DEF Still
<1>4. ASSUME NEW u \in Local, NEW r \in Rooms, ClientDoes(u, r) PROVE doubled \subseteq doubled' /\ tangled \subseteq tangled'
  <2>1. tangled' = tangled /\ (doubled' = doubled \/ doubled' = doubled \union {u})
    BY <1>4, Zenon DEF ClientDoes, ClientMakes, ClientKeeps
  <2> QED BY <2>1
<1> QED BY <1>1, <1>2, <1>3, <1>4, Zenon DEF Step

LEMMA OthersKept ==
  ASSUME NEW j \in Jobs, OnlyJob(j), NEW i \in Jobs, i # j
  PROVE  /\ job'[i] = job[i] /\ Owner(i)' = Owner(i) /\ Guest(i)' = Guest(i) /\ PairOf(i)' = PairOf(i)
         /\ \A u : Making(i, u)' = Making(i, u)
BY Zenon DEF OnlyJob, Owner, Guest, PairOf, Making

(* A step of a job that makes no room. *)
LEMMA RoomsAside ==
  ASSUME Base, OneRoomInv, NEW j \in Jobs, OnlyJob(j),
         job[j].pc \notin {"create", "tag"}, job'[j].pc \notin {"create", "tag"},
         UNCHANGED <<tag, owner, client, doubled>>,
         job'[j].pc \in Placed => Owner(j)' \in doubled \/ tag[Owner(j)'] = {job'[j].room},
         \A r \in Rooms : audience'[r] = audience[r] \/ (job[j].pc \in Placed /\ r = job[j].room)
  PROVE  OneRoomInv'
<1> SUFFICES ASSUME NEW u \in Local, u \notin doubled PROVE RoomAt(u)'
  BY DEF OneRoomInv
<1>1. RoomAt(u)
  BY DEF OneRoomInv
<1>2. Own(u)' = Own(u) /\ tag'[u] = tag[u]
  BY DEF Own, Made
<1>3. ~Making(j, u) /\ ~Making(j, u)'
  BY DEF Making
<1>4. \A i \in Jobs : i # j => job'[i] = job[i] /\ Owner(i)' = Owner(i) /\ Making(i, u)' = Making(i, u)
  BY OthersKept
<1>5. \A i \in Jobs : Making(i, u)' = Making(i, u)
  BY <1>3, <1>4 DEF Making
<1>6. ASSUME NEW i \in Jobs, Making(i, u)', job'[i].pc = "tag"
      PROVE  Own(u)' = {job'[i].room} /\ audience'[job'[i].room] = {}
  <2>1. i # j /\ job'[i] = job[i] /\ Making(i, u) /\ job[i].pc = "tag"
    BY <1>3, <1>4, <1>6
  <2>2. Own(u) = {job[i].room} /\ audience[job[i].room] = {} /\ tag[u] = {}
    BY <1>1, <2>1 DEF RoomAt
  <2>3. job[i].room \in Rooms /\ owner[job[i].room] = {u}
    BY <2>1, PlacedFacts DEF Base, Making
  <2>4. ASSUME job[j].pc \in Placed, job[i].room = job[j].room PROVE FALSE
    <3>1. owner[job[j].room] = {Owner(j)}
      BY <2>4, PlacedFacts DEF Base
    <3>2. Owner(j) = u
      BY <2>3, <2>4, <3>1
    <3>3. tag[u] = {job[j].room}
      BY <1>1, <2>4, <3>2 DEF RoomAt
    <3> QED BY <2>2, <3>3
  <2>5. audience'[job[i].room] = audience[job[i].room]
    BY <2>3, <2>4
  <2> QED BY <1>2, <2>1, <2>2, <2>5
<1>7. ASSUME NEW i \in Jobs, job'[i].pc \in Placed, Owner(i)' = u
      PROVE  tag'[u] = {job'[i].room}
  BY <1>1, <1>2, <1>4, <1>7 DEF RoomAt
<1>8. \A i \in Jobs : Making(i, u)' /\ job'[i].pc = "create" => Own(u)' = {}
  BY <1>1, <1>2, <1>3, <1>4 DEF RoomAt
<1>9. /\ \A i, k \in Jobs : Making(i, u)' /\ Making(k, u)' => i = k
      /\ \A i \in Jobs : Making(i, u)' => tag'[u] = {} /\ client'[u] = {}
      /\ (\A i \in Jobs : ~Making(i, u)') => Own(u)' = tag'[u] \union client'[u]
  BY <1>1, <1>2, <1>5 DEF RoomAt
<1>10. ByClient(u)'
  <2> SUFFICES ASSUME client[u] # {} PROVE tag[u] = {} /\ \E r \in Rooms : client[u] = {r} /\ audience'[r] = {}
    BY DEF ByClient
  <2>1. PICK r \in Rooms : client[u] = {r} /\ audience[r] = {} /\ tag[u] = {}
    BY <1>1 DEF RoomAt, ByClient
  <2>2. owner[r] = {u}
    BY <2>1 DEF Base, RoomsInv
  <2>3. ASSUME job[j].pc \in Placed, r = job[j].room PROVE FALSE
    <3>1. Owner(j) = u
      BY <2>2, <2>3, PlacedFacts DEF Base
    <3>2. tag[u] = {job[j].room}
      BY <1>1, <2>3, <3>1 DEF RoomAt
    <3> QED BY <2>1, <3>2
  <2>4. audience'[r] = audience[r]
    BY <2>3
  <2> QED BY <2>1, <2>4
<1> QED BY <1>6, <1>7, <1>8, <1>9, <1>10 DEF RoomAt

(* A step of a job that works on another room. *)
LEMMA RoomOther ==
  ASSUME NEW u \in Local, RoomAt(u), NEW j \in Jobs, OnlyJob(j), ~Making(j, u), ~Making(j, u)',
         Own(u)' = Own(u), tag'[u] = tag[u], client'[u] = client[u], audience' = audience, job'[j].pc \in Placed => Owner(j)' # u
  PROVE  RoomAt(u)'
<1>1. \A i \in Jobs : i # j => job'[i] = job[i] /\ Owner(i)' = Owner(i) /\ Making(i, u)' = Making(i, u)
  BY OthersKept
<1>2. \A i \in Jobs : Making(i, u)' = Making(i, u)
  BY <1>1 DEF Making
<1>3. \A i \in Jobs : Making(i, u)' => i # j /\ job'[i] = job[i] /\ Making(i, u)
  BY <1>1
<1>4. \A i \in Jobs : Making(i, u)' /\ job'[i].pc = "create" => Own(u)' = {}
  BY <1>3 DEF RoomAt
<1>5. \A i \in Jobs : Making(i, u)' /\ job'[i].pc = "tag" => Own(u)' = {job'[i].room} /\ audience'[job'[i].room] = {}
  BY <1>3 DEF RoomAt
<1>6. /\ \A i, k \in Jobs : Making(i, u)' /\ Making(k, u)' => i = k
      /\ \A i \in Jobs : Making(i, u)' => tag'[u] = {} /\ client'[u] = {}
      /\ (\A i \in Jobs : ~Making(i, u)') => Own(u)' = tag'[u] \union client'[u]
  BY <1>2 DEF RoomAt
<1>7. \A i \in Jobs : job'[i].pc \in Placed /\ Owner(i)' = u => tag'[u] = {job'[i].room}
  BY <1>1 DEF RoomAt
<1>8. ByClient(u)'
  BY DEF RoomAt, ByClient
<1> QED BY <1>4, <1>5, <1>6, <1>7, <1>8 DEF RoomAt

(* ensure_stories_room has found no room. *)
LEMMA RoomsEnsure ==
  ASSUME Base, OneRoomInv, Step, NEW j \in Jobs, OnlyJob(j), job[j].pc = "ensure",
         UNCHANGED <<tag, owner, audience, client>>, Owner(j) \in Local, tag[Owner(j)] = {},
         Moves(j, "create", job[j].room),
         doubled' = IF BeingMade(Owner(j)) THEN doubled \union {Owner(j)} ELSE doubled
  PROVE  OneRoomInv'
<1> SUFFICES ASSUME NEW u \in Local, u \notin doubled' PROVE RoomAt(u)'
  BY DEF OneRoomInv
<1>1. RoomAt(u)
  BY HistoryGrows DEF OneRoomInv
<1>2. Own(u)' = Own(u) /\ tag'[u] = tag[u] /\ UNCHANGED audience
  BY DEF Own, Made
<1>3. ~Making(j, u) /\ job'[j].pc = "create" /\ Owner(j)' = Owner(j)
  BY MovesFacts DEF Making
<1>4. \A i \in Jobs : i # j => job'[i] = job[i] /\ Owner(i)' = Owner(i) /\ Making(i, u)' = Making(i, u)
  BY OthersKept
<1>5. \A i \in Jobs : job'[i].pc \in Placed /\ Owner(i)' = u => tag'[u] = {job'[i].room}
  BY <1>1, <1>2, <1>3, <1>4 DEF RoomAt, Placed
<1>6. CASE Owner(j) = u
  <2>1. client[u] = {} /\ \A i \in Jobs : ~Making(i, u)
    BY <1>6 DEF Making, BeingMade
  <2>2. Own(u) = {} /\ tag[u] = {}
    BY <1>1, <1>6, <2>1 DEF RoomAt
  <2>3. Making(j, u)' /\ \A i \in Jobs : Making(i, u)' => i = j
    BY <1>3, <1>4, <1>6, <2>1 DEF Making
  <2> QED BY <1>2, <1>3, <1>5, <2>1, <2>2, <2>3 DEF RoomAt, ByClient
<1>7. CASE Owner(j) # u
  <2>1. ~Making(j, u)' /\ job'[j].pc \notin Placed
    BY <1>3, <1>7 DEF Making, Placed
  <2> QED BY <1>1, <1>2, <1>3, <2>1, RoomOther
<1> QED BY <1>6, <1>7

(* A room has been made, or its creation has failed. *)
LEMMA RoomsCreate ==
  ASSUME Base, OneRoomInv, NEW j \in Jobs, OnlyJob(j), CreateDoes(j), client' = client PROVE OneRoomInv'
<1>1. Types /\ JobsInv /\ RoomsInv /\ job[j].pc = "create" /\ UNCHANGED <<tag, audience, client, doubled>>
  BY Zenon DEF Base, CreateDoes
<1> SUFFICES ASSUME NEW u \in Local, u \notin doubled PROVE RoomAt(u)'
  BY <1>1 DEF OneRoomInv
<1>2. RoomAt(u)
  BY DEF OneRoomInv
<1>3. \A i \in Jobs : i # j => job'[i] = job[i] /\ Owner(i)' = Owner(i) /\ Making(i, u)' = Making(i, u)
  BY OthersKept
<1>4. CASE /\ Cardinality(Made) < MaxRooms
           /\ owner' = [owner EXCEPT ![Cardinality(Made) + 1] = {Owner(j)}]
           /\ Moves(j, "tag", Cardinality(Made) + 1)
  <2> DEFINE n == Cardinality(Made) + 1
  <2>1. n \in Rooms /\ owner[n] = {} /\ audience[n] = {}
    BY <1>1, <1>4, NextRoom DEF RoomsInv
  <2>2. owner'[n] = {Owner(j)} /\ \A r \in Rooms : r # n => owner'[r] = owner[r]
    BY <1>1, <1>4, <2>1 DEF Types, RoomTypes
  <2>3. job'[j].pc = "tag" /\ job'[j].room = n /\ Owner(j)' = Owner(j)
    BY <1>4, MovesFacts
  <2> HIDE DEF n
  <2>4. CASE Owner(j) = u
    <3>1. Making(j, u) /\ Making(j, u)'
      BY <1>1, <2>3, <2>4 DEF Making
    <3>2. \A i \in Jobs : Making(i, u)' => i = j
      BY <1>2, <1>3, <3>1 DEF RoomAt
    <3>3. Own(u) = {} /\ tag[u] = {} /\ client[u] = {}
      BY <1>1, <1>2, <3>1 DEF RoomAt
    <3>4. Own(u)' = {n}
      BY <2>1, <2>2, <2>4, <3>3 DEF Own, Made
    <3>5. \A i \in Jobs : job'[i].pc \in Placed /\ Owner(i)' = u => tag[u] = {job'[i].room}
      BY <1>2, <1>3, <2>3 DEF RoomAt, Placed
    <3> QED BY <1>1, <2>1, <2>3, <3>1, <3>2, <3>3, <3>4, <3>5 DEF RoomAt, ByClient
  <2>5. CASE Owner(j) # u
    <3>1. ~Making(j, u) /\ ~Making(j, u)' /\ job'[j].pc \notin Placed
      BY <2>3, <2>5 DEF Making, Placed
    <3>2. Own(u)' = Own(u)
      BY <2>1, <2>2, <2>5 DEF Own, Made
    <3> QED BY <1>1, <1>2, <3>1, <3>2, RoomOther
  <2> QED BY <2>4, <2>5
<1>5. CASE Aborts(j) /\ UNCHANGED owner
  <2>1. job'[j].pc \in {"idle", "next"}
    BY <1>5, AbortsLands
  <2>2. ~Making(j, u)' /\ job'[j].pc \notin Placed
    BY <2>1 DEF Making, Placed
  <2>3. Own(u)' = Own(u)
    BY <1>5 DEF Own, Made
  <2>4. CASE Owner(j) = u
    <3>1. Making(j, u)
      BY <1>1, <2>4 DEF Making
    <3>2. \A i \in Jobs : ~Making(i, u)'
      BY <1>2, <1>3, <2>2, <3>1 DEF RoomAt
    <3>3. Own(u) = {} /\ tag[u] = {} /\ client[u] = {}
      BY <1>1, <1>2, <3>1 DEF RoomAt
    <3>4. \A i \in Jobs : job'[i].pc \in Placed /\ Owner(i)' = u => tag[u] = {job'[i].room}
      BY <1>2, <1>3, <2>2 DEF RoomAt
    <3> QED BY <1>1, <2>3, <3>2, <3>3, <3>4 DEF RoomAt, ByClient
  <2>5. CASE Owner(j) # u
    <3>1. ~Making(j, u)
      BY <2>5 DEF Making
    <3> QED BY <1>1, <1>2, <2>2, <2>3, <3>1, RoomOther
  <2> QED BY <2>4, <2>5
<1> QED BY <1>4, <1>5, Zenon DEF CreateDoes

(* The id of a new room has been stored, or not. *)
LEMMA RoomsStore ==
  ASSUME Base, OneRoomInv, NEW j \in Jobs, OnlyJob(j), StoreTagDoes(j), client' = client PROVE OneRoomInv'
<1>1. Types /\ JobsInv /\ RoomsInv /\ job[j].pc = "tag" /\ UNCHANGED <<owner, audience, client>>
  BY Zenon DEF Base, StoreTagDoes
<1>2. Owner(j) \in Users
  BY <1>1, ServingFacts DEF Serving, Subscribing
<1>3. CASE /\ tag' = [tag EXCEPT ![Owner(j)] = {job[j].room}]
           /\ Moves(j, "mute", job[j].room)
           /\ UNCHANGED doubled
  <2> SUFFICES ASSUME NEW u \in Local, u \notin doubled PROVE RoomAt(u)'
    BY <1>3 DEF OneRoomInv
  <2>1. RoomAt(u) /\ Own(u)' = Own(u) /\ u \in Users
    BY <1>1, ConstantsAssumption DEF OneRoomInv, Own, Made
  <2>2. job'[j].pc = "mute" /\ job'[j].room = job[j].room /\ Owner(j)' = Owner(j) /\ ~Making(j, u)'
    BY <1>3, MovesFacts DEF Making
  <2>3. \A i \in Jobs : i # j => job'[i] = job[i] /\ Owner(i)' = Owner(i) /\ Making(i, u)' = Making(i, u)
    BY OthersKept
  <2>4. tag'[u] = IF Owner(j) = u THEN {job[j].room} ELSE tag[u]
    BY <1>1, <1>3, <2>1 DEF Types, RoomTypes
  <2>5. CASE Owner(j) = u
    <3>1. Making(j, u)
      BY <1>1, <2>5 DEF Making
    <3>2. Own(u) = {job[j].room} /\ tag[u] = {} /\ client[u] = {}
      BY <1>1, <2>1, <3>1 DEF RoomAt
    <3>3. \A i \in Jobs : ~Making(i, u)'
      BY <2>1, <2>2, <2>3, <3>1 DEF RoomAt
    <3>4. \A i \in Jobs : i # j => ~(job[i].pc \in Placed /\ Owner(i) = u)
      BY <2>1, <3>2 DEF RoomAt
    <3>5. \A i \in Jobs : job'[i].pc \in Placed /\ Owner(i)' = u => tag'[u] = {job'[i].room}
      BY <2>2, <2>3, <2>4, <2>5, <3>4
    <3> QED BY <1>1, <2>1, <2>4, <2>5, <3>2, <3>3, <3>5 DEF RoomAt, ByClient
  <2>6. CASE Owner(j) # u
    <3>1. ~Making(j, u)
      BY <2>6 DEF Making
    <3> QED BY <1>1, <2>1, <2>2, <2>4, <2>6, <3>1, RoomOther
  <2> QED BY <2>5, <2>6
<1>4. CASE Aborts(j) /\ doubled' = doubled \union {Owner(j)} /\ UNCHANGED tag
  <2> SUFFICES ASSUME NEW u \in Local, u \notin doubled, u # Owner(j) PROVE RoomAt(u)'
    BY <1>4 DEF OneRoomInv
  <2>1. RoomAt(u) /\ Own(u)' = Own(u) /\ tag'[u] = tag[u]
    BY <1>1, <1>4 DEF OneRoomInv, Own, Made
  <2>2. job'[j].pc \in {"idle", "next"}
    BY <1>4, AbortsLands
  <2>3. ~Making(j, u) /\ ~Making(j, u)' /\ job'[j].pc \notin Placed
    BY <2>2 DEF Making, Placed
  <2> QED BY <1>1, <2>1, <2>3, RoomOther
<1> QED BY <1>3, <1>4, Zenon DEF StoreTagDoes

(* A job cut off while it created a room has left none; one cut off while  *)
(* it stored the id has doubled its owner.                                 *)
LEMMA RoomsRestart ==
  ASSUME Base, OneRoomInv, NEW i \in Jobs, NEW j \in Jobs, RestartDoes(i, j) PROVE OneRoomInv'
<1>1. /\ doubled' = doubled \union {Owner(k) : k \in {x \in Jobs : job[x].pc = "tag"}}
      /\ UNCHANGED <<tag, owner, audience, client>>
  BY Zenon DEF RestartDoes
<1>2. \A k \in Jobs : job'[k].pc \in {"idle", "next", "sweep"}
  BY DEF RestartDoes, Is
<1> SUFFICES ASSUME NEW u \in Local, u \notin doubled' PROVE RoomAt(u)'
  BY DEF OneRoomInv
<1>3. RoomAt(u) /\ Own(u)' = Own(u)
  BY <1>1 DEF OneRoomInv, Own, Made
<1>4. \A k \in Jobs : ~Making(k, u)' /\ job'[k].pc \notin Placed
  BY <1>2 DEF Making, Placed
<1>5. \A k \in Jobs : Making(k, u) => job[k].pc = "create"
  BY <1>1 DEF Making
<1>6. Own(u) = tag[u] \union client[u]
  BY <1>3, <1>5 DEF RoomAt
<1> QED BY <1>1, <1>3, <1>4, <1>6 DEF RoomAt, ByClient

(* A client has made a room, or its id has been stored or lost. *)
LEMMA RoomsClient ==
  ASSUME Base, OneRoomInv, NEW c \in Local, NEW r \in Rooms, ClientDoes(c, r) PROVE OneRoomInv'
<1>1. Types /\ RoomsInv /\ job' = job /\ audience' = audience /\ doubled \subseteq doubled' /\ c \in Users
  <2>1. doubled' = doubled \/ doubled' = doubled \union {c}
    BY Zenon DEF ClientDoes, ClientMakes, ClientKeeps
  <2> QED BY <2>1, ConstantsAssumption DEF Base, ClientDoes
<1> SUFFICES ASSUME NEW u \in Local, u \notin doubled' PROVE RoomAt(u)'
  BY DEF OneRoomInv
<1>2. RoomAt(u) /\ u \in Users
  BY <1>1, ConstantsAssumption DEF OneRoomInv
<1>3. \A j \in Jobs : job'[j] = job[j] /\ Owner(j)' = Owner(j) /\ Making(j, u)' = Making(j, u)
  BY <1>1, Zenon DEF Owner, Making
<1>4. CASE u # c
  <2>1. tag'[u] = tag[u] /\ client'[u] = client[u] /\ \A x \in Rooms : owner'[x] = {u} <=> owner[x] = {u}
    <3>1. CASE ClientMakes(c, r)
      BY <1>1, <1>2, <1>4, <3>1, NextRoom DEF ClientMakes, Types, RoomTypes
    <3>2. CASE ClientKeeps(c, r)
      BY <1>1, <1>2, <1>4, <3>2 DEF ClientKeeps, Types, RoomTypes
    <3> QED BY <3>1, <3>2 DEF ClientDoes
  <2>2. Own(u)' = Own(u)
    BY <2>1 DEF Own, Made
  <2> QED BY <1>1, <1>2, <1>3, <2>1, <2>2 DEF RoomAt, ByClient
<1>5. CASE u = c /\ ClientMakes(c, r)
  <2>1. tag[u] = {} /\ tag' = tag /\ client[u] = {} /\ \A j \in Jobs : ~Making(j, u)
    BY <1>5 DEF ClientMakes, BeingMade, Making
  <2>2. client'[u] = {r} /\ owner[r] = {} /\ owner'[r] = {u} /\ \A x \in Rooms : x # r => owner'[x] = owner[x]
    BY <1>1, <1>5, <2>1, NextRoom DEF ClientMakes, Types, RoomTypes
  <2>3. Own(u) = {} /\ audience'[r] = {}
    BY <1>1, <1>2, <2>1, <2>2 DEF RoomAt, RoomsInv
  <2>4. Own(u)' = {r}
    BY <2>2, <2>3 DEF Own, Made
  <2> QED BY <1>1, <1>2, <1>3, <2>1, <2>2, <2>3, <2>4 DEF RoomAt, ByClient
<1>6. CASE u = c /\ ClientKeeps(c, r)
  <2>1. tag[u] = {} /\ client[u] = {r}
    BY <1>2, <1>6 DEF ClientKeeps, RoomAt, ByClient
  <2>2. client'[u] = {} /\ tag'[u] = {r} /\ owner' = owner
    BY <1>1, <1>2, <1>6, <2>1 DEF ClientKeeps, Types, RoomTypes
  <2>3. Own(u)' = Own(u)
    BY <2>2 DEF Own, Made
  <2>4. \A j \in Jobs : ~Making(j, u) /\ ~(job[j].pc \in Placed /\ Owner(j) = u)
    BY <1>2, <2>1 DEF RoomAt
  <2>5. Own(u) = {r}
    BY <1>2, <2>1, <2>4 DEF RoomAt
  <2> QED BY <1>3, <2>2, <2>3, <2>4, <2>5 DEF RoomAt, ByClient
<1> QED BY <1>4, <1>5, <1>6 DEF ClientDoes

LEMMA OneRoomStep ==
  ASSUME Base, OneRoomInv, Step PROVE OneRoomInv'
<1>1. Types /\ JobsInv /\ RoomsInv
  BY DEF Base
<1>2. ASSUME NEW j \in Jobs, JobStep(j) PROVE OneRoomInv'
  <2>1. OnlyJob(j) /\ client' = client
    BY <1>2, OnlyJobStep DEF JobStep
  <2>2. CASE \/ \E u \in Users, dm \in DMs, what \in {"in", "out"} : EventDoes(j, u, dm, what)
             \/ StartDoes(j) \/ GateDoes(j) \/ TakeDoes(j) \/ SweepDoes(j) \/ RedactDoes(j) \/ RoundDoes(j)
    <3>1. /\ job[j].pc \notin Serving
          /\ job'[j].pc \in {"idle", "start", "gate", "next", "ensure", "find", "sweep", "redact"}
          /\ UNCHANGED <<tag, owner, audience, doubled>>
      BY <2>2, AsideLands
    <3>2. job[j].pc \notin {"create", "tag"} /\ job'[j].pc \notin {"create", "tag"} /\ job'[j].pc \notin Placed
      BY <3>1 DEF Serving, Subscribing, Placed
    <3> QED BY <2>1, <3>1, <3>2, RoomsAside
  <2>3. CASE EnsureDoes(j) \/ FindDoes(j)
    <3>1. job[j].pc \in {"ensure", "find"} /\ UNCHANGED <<tag, owner, audience>>
      BY <2>3, Zenon DEF EnsureDoes, FindDoes
    <3>2. CASE (Turns(j, FALSE) \/ Turns(j, TRUE) \/ Aborts(j)) /\ UNCHANGED doubled
      <4>1. job'[j].pc \in {"idle", "next", "ensure", "find"}
        BY <3>2, TurnsLands, AbortsLands
      <4> QED BY <2>1, <3>1, <3>2, <4>1, RoomsAside DEF Placed
    <3>3. ASSUME NEW r \in tag[Owner(j)], NEW to \in {"mute", "kick"}, Moves(j, to, r), UNCHANGED doubled
          PROVE  OneRoomInv'
      <4>1. Owner(j) \in Users
        BY <1>1, <3>1, ServingFacts DEF Serving, Subscribing
      <4>2. tag[Owner(j)] = {r}
        BY <1>1, <4>1, TagFacts
      <4>3. job'[j].pc = to /\ job'[j].room = r /\ Owner(j)' = Owner(j)
        BY <3>3, MovesFacts
      <4> QED BY <2>1, <3>1, <3>3, <4>2, <4>3, RoomsAside DEF Placed
    <3>4. CASE /\ job[j].pc = "ensure" /\ Owner(j) \in Local /\ tag[Owner(j)] = {}
               /\ Moves(j, "create", job[j].room)
               /\ doubled' = IF BeingMade(Owner(j)) THEN doubled \union {Owner(j)} ELSE doubled
      BY <2>1, <3>1, <3>4, RoomsEnsure
    <3>5. "mute" \in {"mute", "kick"} /\ "kick" \in {"mute", "kick"}
      OBVIOUS
    <3> QED BY <2>3, <3>2, <3>3, <3>4, <3>5, Zenon DEF EnsureDoes, FindDoes
  <2>4. CASE CreateDoes(j)
    BY <2>1, <2>4, RoomsCreate
  <2>5. CASE StoreTagDoes(j)
    BY <2>1, <2>5, RoomsStore
  <2>6. CASE MuteDoes(j) \/ RuleDoes(j)
    <3>1. /\ job[j].pc \in {"mute", "rule"} /\ UNCHANGED <<tag, owner, audience, doubled>>
          /\ \E to \in {"rule", "invite"} : Moves(j, to, job[j].room)
      BY <2>6 DEF MuteDoes, RuleDoes
    <3>2. job'[j].pc \in {"rule", "invite"} /\ job'[j].room = job[j].room /\ Owner(j)' = Owner(j)
      BY <3>1, MovesFacts
    <3>3. Owner(j) \in Local
      BY <1>1, <3>1, PlacedFacts DEF Placed
    <3>4. Owner(j) \in doubled \/ tag[Owner(j)] = {job[j].room}
      BY <3>1, <3>3 DEF OneRoomInv, RoomAt, Placed
    <3> QED BY <2>1, <3>1, <3>2, <3>4, RoomsAside DEF Placed
  <2>7. CASE InviteDoes(j) \/ KickDoes(j)
    <3>1. /\ job[j].pc \in {"invite", "kick"} /\ UNCHANGED <<tag, owner, doubled>>
          /\ Turns(j, FALSE) \/ Turns(j, TRUE)
          /\ \/ audience' = audience
             \/ audience' = [audience EXCEPT ![job[j].room] = audience[job[j].room] \union {Guest(j)}]
             \/ audience' = [audience EXCEPT ![job[j].room] = audience[job[j].room] \ {Guest(j)}]
      BY <2>7, Zenon DEF InviteDoes, KickDoes
    <3>2. job'[j].pc \in {"idle", "next", "ensure", "find"}
      BY <3>1, TurnsLands
    <3>3. job[j].pc \in Placed /\ job[j].pc \notin {"create", "tag"} /\ job'[j].pc \notin {"create", "tag"} \union Placed
      BY <3>1, <3>2 DEF Placed
    <3>4. \A r \in Rooms : audience'[r] = audience[r] \/ r = job[j].room
      BY <1>1, <3>1 DEF Types, RoomTypes
    <3> QED BY <2>1, <3>1, <3>3, <3>4, RoomsAside
  <2> QED BY <1>2, <2>2, <2>3, <2>4, <2>5, <2>6, <2>7, Zenon DEF JobStep
<1>3. ASSUME NEW i \in Jobs, NEW j \in Jobs, RestartDoes(i, j) PROVE OneRoomInv'
  BY <1>3, RoomsRestart
<1>4. CASE job' = job /\ client' = client /\ Still
  <2>1. job' = job /\ UNCHANGED <<tag, owner, audience, client, doubled>>
    BY <1>4, Zenon DEF Still
  <2>2. /\ \A j \in Jobs : \A u : Making(j, u)' = Making(j, u)
        /\ \A j \in Jobs : Owner(j)' = Owner(j)
        /\ \A u : Own(u)' = Own(u)
    BY <2>1, Zenon DEF Making, Own, Made, Owner
  <2>3. ASSUME NEW u \in Local, RoomAt(u) PROVE RoomAt(u)'
    BY <2>1, <2>2, <2>3 DEF RoomAt, ByClient
  <2> QED BY <2>1, <2>3 DEF OneRoomInv
<1>5. ASSUME NEW u \in Local, NEW r \in Rooms, ClientDoes(u, r) PROVE OneRoomInv'
  BY <1>5, RoomsClient
<1> QED BY <1>2, <1>3, <1>4, <1>5, Zenon DEF Step

LEMMA OneRoomInit ==
  ASSUME Init PROVE OneRoomInv
<1>1. \A j \in Jobs : job[j].pc = "idle"
  BY IdleFacts DEF Init, Is
<1>2. \A u \in Local : Own(u) = {} /\ tag[u] = {} /\ client[u] = {}
  BY ConstantsAssumption DEF Init, Own, Made
<1>3. \A j \in Jobs : job[j].pc \notin {"create", "tag"} \union Placed
  BY <1>1 DEF Placed
<1> QED BY <1>2, <1>3 DEF OneRoomInv, RoomAt, ByClient, Making

LEMMA OneRoom ==
  ASSUME Types, OneRoomInv PROVE OneRoomPerOwner
<1> SUFFICES ASSUME NEW u \in Local, u \notin doubled, NEW r \in Made, owner[r] = {u}
             PROVE  tag[u] = {r} \/ r \in client[u] \/ \E j \in Jobs : At(j, "tag") /\ job[j].room = r
  BY DEF OneRoomPerOwner
<1>1. RoomAt(u) /\ r \in Own(u)
  BY DEF OneRoomInv, Own
<1>2. CASE \E j \in Jobs : Making(j, u)
  BY <1>1, <1>2 DEF RoomAt, Making, At
<1>3. CASE \A j \in Jobs : ~Making(j, u)
  <2>1. Own(u) = tag[u] \union client[u]
    BY <1>1, <1>3 DEF RoomAt
  <2>2. u \in Users
    BY ConstantsAssumption
  <2>3. tag[u] = {} \/ \E x \in Rooms : tag[u] = {x}
    BY <2>2 DEF Types, RoomTypes
  <2> QED BY <1>1, <2>1, <2>3
<1> QED BY <1>2, <1>3

(* A user has at most one stories room, and account data names it or is    *)
(* about to, whatever jobs and clients overlap, fail or restart, except    *)
(* where one of them made a room while another was there or under way that *)
(* it had not seen, or its id was lost: otherwise only one of them is      *)
(* between finding no room and storing one.                                *)
THEOREM OneStoriesRoom == Spec => []OneRoomPerOwner
<1>1. Init => Base /\ OneRoomInv
  BY BaseInit, OneRoomInit
<1>2. Base /\ OneRoomInv /\ [Next]_vars => (Base /\ OneRoomInv)'
  BY BaseStep, OneRoomStep
<1>3. Base /\ OneRoomInv => OneRoomPerOwner
  BY OneRoom DEF Base
<1> QED BY <1>1, <1>2, <1>3, PTL DEF Spec

-----------------------------------------------------------------------------
(* Audiences follow the DMs *)

Has(o, g)        == \E r \in tag[o] : g \in audience[r]
Lacks(o, g)      == \A r \in Made : owner[r] = {o} => g \notin audience[r]
Done(what, o, g) == o \in Local \ doubled => (what = "in" => Has(o, g)) /\ (what = "out" => Lacks(o, g))
Serves(j, p)     == job[j].turns # << >> /\ PairOf(j) = p

Alone(p)   == \A i, j \in Jobs : p \in Concerns(i) /\ p \in Concerns(j) => i = j
(* What the last job has done lasts until a job that wants otherwise has   *)
(* begun to serve the pair.                                                *)
Wished(p)  == (\A j \in Jobs : Serves(j, p) => job[j].what = wish[p]) =>
                 \A o, g \in p : o # g => Done(wish[p], o, g)
HalfWay(p) == \A j \in Jobs : Serves(j, p) /\ Tail(job[j].turns) = << >> => Done(job[j].what, Guest(j), Owner(j))

PairsInv == \A p \in Pairs \ tangled : Alone(p) /\ Wished(p) /\ HalfWay(p)

(* The pairs a job concerns *)
PairsIn(t) == {{x[1], x[2]} : x \in {t[i] : i \in DOMAIN t}}

LEMMA NoPairs == PairsIn(<< >>) = {}
BY DEF PairsIn

LEMMA OnePair ==
  ASSUME NEW a, NEW b PROVE PairsIn(<<<<a, b>>>>) = {{a, b}}
<1>1. DOMAIN <<<<a, b>>>> = {1} /\ <<<<a, b>>>>[1] = <<a, b>>
  OBVIOUS
<1>2. {<<<<a, b>>>>[i] : i \in DOMAIN <<<<a, b>>>>} = {<<a, b>>}
  BY <1>1
<1> QED BY <1>2 DEF PairsIn

LEMMA BothPairs ==
  ASSUME NEW a, NEW b PROVE PairsIn(<<<<a, b>>, <<b, a>>>>) = {{a, b}}
<1> DEFINE t == <<<<a, b>>, <<b, a>>>>
<1>1. DOMAIN t = {1, 2} /\ t[1] = <<a, b>> /\ t[2] = <<b, a>>
  OBVIOUS
<1> HIDE DEF t
<1>2. {t[i] : i \in DOMAIN t} = {<<a, b>>, <<b, a>>}
  BY <1>1
<1>3. {{x[1], x[2]} : x \in {<<a, b>>, <<b, a>>}} = {{a, b}}
  OBVIOUS
<1>4. PairsIn(t) = {{a, b}}
  BY <1>2, <1>3 DEF PairsIn
<1> QED BY <1>4 DEF t

LEMMA ConcernsAre ==
  ASSUME NEW j \in Jobs, JobAt(j), NEW p
  PROVE  p \in Concerns(j) <=> \/ p \in job[j].todo \/ Serves(j, p)
                               \/ \E e \in job[j].event : p = SidesOf[e[2]]
<1>1. p \in Concerns(j) <=> \/ p \in job[j].todo \/ p \in PairsIn(job[j].turns)
                            \/ \E e \in job[j].event : p = SidesOf[e[2]]
  BY DEF Concerns, PairsIn
<1>2. CASE job[j].turns = << >>
  BY <1>1, <1>2, NoPairs DEF Serves
<1>3. CASE LastSide(j)
  <2>1. PICK a, b \in Users : job[j].turns = <<<<a, b>>>>
    BY <1>3 DEF LastSide
  <2>2. PairsIn(job[j].turns) = {{a, b}} /\ job[j].turns # << >> /\ PairOf(j) = {a, b}
    BY <2>1, OnePair, Sequences1 DEF PairOf, Owner, Guest
  <2> QED BY <1>1, <2>2 DEF Serves
<1>4. CASE BothSides(j)
  <2>1. PICK a, b \in Users : job[j].turns = <<<<a, b>>, <<b, a>>>>
    BY <1>4 DEF BothSides
  <2>2. PairsIn(job[j].turns) = {{a, b}} /\ job[j].turns # << >> /\ PairOf(j) = {a, b}
    BY <2>1, BothPairs, Sequences2 DEF PairOf, Owner, Guest
  <2> QED BY <1>1, <2>2 DEF Serves
<1> QED BY <1>2, <1>3, <1>4 DEF JobAt

LEMMA ConcernsThen ==
  ASSUME NEW j \in Jobs, JobAt(j)', NEW p
  PROVE  p \in Concerns(j)' <=> \/ p \in job'[j].todo \/ Serves(j, p)'
                                \/ \E e \in job'[j].event : p = SidesOf[e[2]]
<1>1. p \in Concerns(j)' <=> \/ p \in job'[j].todo \/ p \in PairsIn(job'[j].turns)
                             \/ \E e \in job'[j].event : p = SidesOf[e[2]]
  BY DEF Concerns, PairsIn
<1>2. CASE job'[j].turns = << >>
  BY <1>1, <1>2, NoPairs DEF Serves
<1>3. CASE LastSide(j)'
  <2>1. PICK a, b \in Users : job'[j].turns = <<<<a, b>>>>
    BY <1>3 DEF LastSide
  <2>2. PairsIn(job'[j].turns) = {{a, b}} /\ job'[j].turns # << >> /\ PairOf(j)' = {a, b}
    BY <2>1, OnePair, Sequences1 DEF PairOf, Owner, Guest
  <2> QED BY <1>1, <2>2 DEF Serves
<1>4. CASE BothSides(j)'
  <2>1. PICK a, b \in Users : job'[j].turns = <<<<a, b>>, <<b, a>>>>
    BY <1>4 DEF BothSides
  <2>2. PairsIn(job'[j].turns) = {{a, b}} /\ job'[j].turns # << >> /\ PairOf(j)' = {a, b}
    BY <2>1, BothPairs, Sequences2 DEF PairOf, Owner, Guest
  <2> QED BY <1>1, <2>2 DEF Serves
<1> QED BY <1>2, <1>3, <1>4 DEF JobAt

(* What a turn leaves of a job *)
LEMMA TurnsFacts ==
  ASSUME Types, JobsInv, NEW j \in Jobs, job[j].pc \in Serving, NEW failed, Turns(j, failed)
  PROVE  /\ job'[j].todo \subseteq job[j].todo /\ job'[j].event \subseteq job[j].event
         /\ \/ Tail(job[j].turns) = << >> /\ job'[j].turns = << >>
            \/ /\ Tail(job[j].turns) # << >> /\ job'[j].turns # << >> /\ Tail(job'[j].turns) = << >>
               /\ job'[j].what = job[j].what /\ Owner(j)' = Guest(j) /\ Guest(j)' = Owner(j) /\ PairOf(j)' = PairOf(j)
<1>1. CASE Tail(job[j].turns) = << >>
  <2>1. /\ job'[j].turns = << >>
        /\ job'[j].todo = {} \/ job'[j].todo = job[j].todo
        /\ job'[j].event = {} \/ job'[j].event = job[j].event
    BY <1>1, Zenon DEF Turns, Ends, Becomes, Is
  <2> QED BY <1>1, <2>1
<1>2. CASE Tail(job[j].turns) # << >>
  <2>1. /\ job'[j].turns = Tail(job[j].turns) /\ job'[j].what = job[j].what
        /\ job'[j].todo = job[j].todo /\ job'[j].event = job[j].event
    BY <1>2, Zenon DEF Turns, Becomes, Is
  <2>2. job'[j].turns = <<<<Guest(j), Owner(j)>>>>
    BY <1>2, <2>1, ServingFacts
  <2>3. Head(job'[j].turns) = <<Guest(j), Owner(j)>> /\ Tail(job'[j].turns) = << >> /\ job'[j].turns # << >>
    BY <2>2, Sequences1
  <2>4. Owner(j)' = Guest(j) /\ Guest(j)' = Owner(j)
    BY <2>3 DEF Owner, Guest
  <2>5. PairOf(j)' = PairOf(j)
    BY <2>4 DEF PairOf
  <2> QED BY <1>2, <2>1, <2>3, <2>4, <2>5
<1> QED BY <1>1, <1>2

LEMMA AbortsFacts ==
  ASSUME NEW j \in Jobs, Aborts(j)
  PROVE  job'[j].turns = << >> /\ job'[j].todo \subseteq job[j].todo /\ job'[j].event \subseteq job[j].event
<1>1. /\ job'[j].turns = << >>
      /\ job'[j].todo = {} \/ job'[j].todo = job[j].todo
      /\ job'[j].event = {} \/ job'[j].event = job[j].event
  BY Zenon DEF Aborts, Ends, Becomes, Is
<1> QED BY <1>1

(* A job takes up no pair but by an event or at a restart. *)
LEMMA ConcernsShrink ==
  ASSUME Base, Base', NEW j \in Jobs, JobStep(j),
         ~\E u \in Users, dm \in DMs, what \in {"in", "out"} : EventDoes(j, u, dm, what),
         NEW p, p \in Concerns(j)'
  PROVE  p \in Concerns(j)
<1>1. Types /\ JobsInv /\ JobAt(j) /\ JobAt(j)'
  BY DEF Base, JobsInv
<1>2. ASSUME job'[j].todo \subseteq job[j].todo, job'[j].event \subseteq job[j].event, Serves(j, p)' => Serves(j, p)
      PROVE  p \in Concerns(j)
  BY <1>1, <1>2, ConcernsAre, ConcernsThen
<1>3. ASSUME Ends(j) PROVE p \in Concerns(j)
  <2>1. job'[j].turns = << >> /\ job'[j].todo = {} /\ job'[j].event = {}
    BY <1>3, Zenon DEF Ends, Becomes, Is
  <2> QED BY <1>2, <2>1 DEF Serves
<1>4. ASSUME NEW failed, job[j].pc \in Serving, Turns(j, failed) PROVE p \in Concerns(j)
  <2>1. /\ job'[j].todo \subseteq job[j].todo /\ job'[j].event \subseteq job[j].event
        /\ job'[j].turns = << >> \/ PairOf(j)' = PairOf(j)
    BY <1>1, <1>4, TurnsFacts
  <2>2. Serves(j, p)' => Serves(j, p)
    BY <1>1, <1>4, <2>1, ServingFacts DEF Serves
  <2> QED BY <1>2, <2>1, <2>2
<1>5. ASSUME Aborts(j) PROVE p \in Concerns(j)
  BY <1>2, <1>5, AbortsFacts DEF Serves
<1>6. ASSUME NEW to, NEW room, Moves(j, to, room) PROVE p \in Concerns(j)
  <2>1. job'[j].todo = job[j].todo /\ job'[j].event = job[j].event /\ job'[j].turns = job[j].turns /\ PairOf(j)' = PairOf(j)
    BY <1>6, MovesFacts
  <2> QED BY <1>2, <2>1 DEF Serves
<1>7. CASE StartDoes(j)
  <2>1. PICK e \in job[j].event :
          \/ Ends(j)
          \/ /\ job'[j].todo = {SidesOf[e[2]]} /\ job'[j].turns = job[j].turns
             /\ job'[j].event = {} \/ job'[j].event = job[j].event
    BY <1>7, Zenon DEF StartDoes, Becomes, Is
  <2>2. CASE Ends(j)
    BY <1>3, <2>2
  <2>3. CASE /\ job'[j].todo = {SidesOf[e[2]]} /\ job'[j].turns = job[j].turns
             /\ job'[j].event = {} \/ job'[j].event = job[j].event
    <3>1. job[j].turns = << >>
      BY <1>1, <1>7 DEF StartDoes, JobAt, Serving, Subscribing
    <3>2. \E d \in job[j].event : p = SidesOf[d[2]]
      BY <1>1, <2>3, <3>1, ConcernsThen DEF Serves
    <3> QED BY <1>1, <3>2, ConcernsAre
  <2> QED BY <2>1, <2>2, <2>3
<1>8. CASE GateDoes(j)
  <2>1. \/ Ends(j)
        \/ job'[j].todo = job[j].todo /\ job'[j].turns = job[j].turns /\ job'[j].event = {}
    BY <1>8, Zenon DEF GateDoes, Becomes, Is
  <2>2. CASE job'[j].todo = job[j].todo /\ job'[j].turns = job[j].turns /\ job'[j].event = {}
    BY <1>2, <2>2 DEF Serves, PairOf, Owner, Guest
  <2> QED BY <1>3, <2>1, <2>2
<1>9. CASE TakeDoes(j)
  <2>1. PICK q \in job[j].todo :
          \/ Ends(j)
          \/ /\ job'[j].todo = job[j].todo \ {q} /\ job'[j].event = job[j].event
             /\ \/ job'[j].turns = job[j].turns
                \/ \E a, b \in Users : q = {a, b} /\ job'[j].turns = <<<<a, b>>, <<b, a>>>>
    BY <1>9, Zenon DEF TakeDoes, Becomes, Is
  <2>2. CASE job'[j].todo = job[j].todo \ {q} /\ job'[j].event = job[j].event /\ job'[j].turns = job[j].turns
    BY <1>2, <2>2 DEF Serves, PairOf, Owner, Guest
  <2>3. CASE /\ job'[j].todo = job[j].todo \ {q} /\ job'[j].event = job[j].event
             /\ \E a, b \in Users : q = {a, b} /\ job'[j].turns = <<<<a, b>>, <<b, a>>>>
    <3>1. PICK a, b \in Users : q = {a, b} /\ job'[j].turns = <<<<a, b>>, <<b, a>>>>
      BY <2>3
    <3>2. PairOf(j)' = q
      BY <3>1, Sequences2 DEF PairOf, Owner, Guest
    <3>3. Serves(j, p)' => p = q
      BY <3>2, Zenon DEF Serves
    <3>4. p \in job'[j].todo \/ p = q \/ \E d \in job'[j].event : p = SidesOf[d[2]]
      BY <1>1, <3>3, ConcernsThen, Zenon
    <3>5. p \in job[j].todo \/ \E d \in job[j].event : p = SidesOf[d[2]]
      BY <2>1, <2>3, <3>4
    <3> QED BY <1>1, <3>5, ConcernsAre, Zenon
  <2> QED BY <1>3, <2>1, <2>2, <2>3
<1>10. CASE SweepDoes(j) \/ RedactDoes(j)
  <2>1. \/ Ends(j)
        \/ job'[j].todo = job[j].todo /\ job'[j].turns = job[j].turns /\ job'[j].event = job[j].event
    BY <1>10, Zenon DEF SweepDoes, RedactDoes, Shortens, Becomes, Is
  <2>2. CASE job'[j].todo = job[j].todo /\ job'[j].turns = job[j].turns /\ job'[j].event = job[j].event
    BY <1>2, <2>2 DEF Serves, PairOf, Owner, Guest
  <2> QED BY <1>3, <2>1, <2>2
<1>11. CASE RoundDoes(j)
  <2>1. job'[j].turns = << >> /\ job'[j].todo = {} /\ job'[j].event = {}
    BY <1>11, Zenon DEF RoundDoes, Becomes, Is
  <2> QED BY <1>2, <2>1 DEF Serves
<1>12. CASE EnsureDoes(j) \/ CreateDoes(j) \/ StoreTagDoes(j) \/ MuteDoes(j)
  <2>1. job[j].pc \in Serving
    BY <1>12 DEF EnsureDoes, CreateDoes, StoreTagDoes, MuteDoes, Serving, Subscribing
  <2> QED BY <1>4, <1>5, <1>6, <1>12, <2>1, Zenon DEF EnsureDoes, CreateDoes, StoreTagDoes, MuteDoes
<1>13. CASE RuleDoes(j) \/ InviteDoes(j) \/ FindDoes(j) \/ KickDoes(j)
  <2>1. job[j].pc \in Serving
    BY <1>13 DEF RuleDoes, InviteDoes, FindDoes, KickDoes, Serving, Subscribing
  <2> QED BY <1>4, <1>5, <1>6, <1>13, <2>1, Zenon DEF RuleDoes, InviteDoes, FindDoes, KickDoes
<1> QED BY <1>7, <1>8, <1>9, <1>10, <1>11, <1>12, <1>13, Zenon DEF JobStep

LEMMA AloneStep ==
  ASSUME Base, Base', Step, NEW p \in Pairs, p \notin tangled', Alone(p) PROVE Alone(p)'
<1>1. JobsInv /\ JobsInv'
  BY DEF Base
<1>2. ASSUME NEW j \in Jobs, OnlyJob(j), p \in Concerns(j)' => p \in Concerns(j) PROVE Alone(p)'
  <2>1. \A i \in Jobs : i # j => Concerns(i)' = Concerns(i)
    BY <1>2, Zenon DEF OnlyJob, Concerns
  <2> QED BY <1>2, <2>1 DEF Alone
<1>3. ASSUME NEW j \in Jobs, NEW u \in Users, NEW dm \in DMs, NEW what \in {"in", "out"}, EventDoes(j, u, dm, what)
      PROVE  Alone(p)'
  <2>1. /\ \A i \in Jobs : i # j => job'[i] = job[i]
        /\ job'[j].todo = {} /\ job'[j].turns = << >> /\ job'[j].event = {<<u, dm>>}
        /\ tangled' = IF Busy(SidesOf[dm]) THEN tangled \union {SidesOf[dm]} ELSE tangled
    BY <1>3, Zenon DEF EventDoes, Becomes, Is
  <2>2. \A i \in Jobs : i # j => Concerns(i)' = Concerns(i)
    BY <2>1, Zenon DEF Concerns
  <2>3. p \in Concerns(j)' => p = SidesOf[dm]
    BY <1>1, <2>1, ConcernsThen DEF JobsInv, Serves
  <2>4. CASE p = SidesOf[dm]
    <3>1. \A i \in Jobs : p \notin Concerns(i)
      BY <2>1, <2>4 DEF Busy
    <3> QED BY <2>2, <3>1 DEF Alone
  <2>5. CASE p # SidesOf[dm]
    BY <2>2, <2>3, <2>5 DEF Alone
  <2> QED BY <2>4, <2>5
<1>4. ASSUME NEW j \in Jobs, JobStep(j) PROVE Alone(p)'
  BY <1>2, <1>3, <1>4, OnlyJobStep, ConcernsShrink, Zenon
<1>5. ASSUME NEW i \in Jobs, NEW j \in Jobs, RestartDoes(i, j) PROVE Alone(p)'
  <2>1. \A k \in Jobs : k # i => job'[k].todo = {} /\ job'[k].turns = << >> /\ job'[k].event = {}
    BY <1>5 DEF RestartDoes, Is
  <2>2. \A k \in Jobs : k # i => p \notin Concerns(k)'
    BY <1>1, <2>1, ConcernsThen DEF JobsInv, Serves
  <2> QED BY <2>2 DEF Alone
<1>6. ASSUME job' = job PROVE Alone(p)'
  <2>1. \A i \in Jobs : Concerns(i)' = Concerns(i)
    BY <1>6, Zenon DEF Concerns
  <2> QED BY <2>1 DEF Alone
<1> QED BY <1>4, <1>5, <1>6, Zenon DEF Step, ClientDoes

(* Who comes and who goes, and by which step *)
LEMMA AudienceChange ==
  ASSUME Types, NEW j \in Jobs, JobStep(j), NEW r \in Rooms, NEW g
  PROVE  /\ g \in audience'[r] /\ g \notin audience[r] => job[j].pc = "invite" /\ r = job[j].room /\ g = Guest(j)
         /\ g \notin audience'[r] /\ g \in audience[r] => job[j].pc = "kick" /\ r = job[j].room /\ g = Guest(j)
<1>1. CASE InviteDoes(j)
  <2>1. /\ job[j].pc = "invite"
        /\ \/ audience' = [audience EXCEPT ![job[j].room] = audience[job[j].room] \union {Guest(j)}]
           \/ audience' = audience
    BY <1>1, Zenon DEF InviteDoes
  <2> QED BY <2>1 DEF Types, RoomTypes
<1>2. CASE KickDoes(j)
  <2>1. /\ job[j].pc = "kick"
        /\ \/ audience' = [audience EXCEPT ![job[j].room] = audience[job[j].room] \ {Guest(j)}]
           \/ audience' = audience
    BY <1>2, Zenon DEF KickDoes
  <2> QED BY <2>1 DEF Types, RoomTypes
<1>3. CASE ~InviteDoes(j) /\ ~KickDoes(j)
  <2>1. audience' = audience
    BY <1>3, Zenon DEF JobStep, EventDoes, StartDoes, GateDoes, TakeDoes, EnsureDoes, CreateDoes, StoreTagDoes,
         MuteDoes, RuleDoes, FindDoes, SweepDoes, RedactDoes, RoundDoes, Still
  <2> QED BY <2>1
<1> QED BY <1>1, <1>2, <1>3

LEMMA TagChange ==
  ASSUME Types, NEW j \in Jobs, JobStep(j), NEW u \in Users, tag'[u] # tag[u]
  PROVE  job[j].pc = "tag" /\ Owner(j) = u
<1>1. CASE StoreTagDoes(j)
  <2>1. job[j].pc = "tag" /\ (tag' = tag \/ tag' = [tag EXCEPT ![Owner(j)] = {job[j].room}])
    BY <1>1, Zenon DEF StoreTagDoes
  <2> QED BY <2>1 DEF Types, RoomTypes
<1>2. CASE ~StoreTagDoes(j)
  <2>1. tag' = tag
    BY <1>2, Zenon DEF JobStep, EventDoes, StartDoes, GateDoes, TakeDoes, EnsureDoes, CreateDoes, InviteDoes, KickDoes,
         MuteDoes, RuleDoes, FindDoes, SweepDoes, RedactDoes, RoundDoes, Still
  <2> QED BY <2>1
<1> QED BY <1>1, <1>2

(* What was done for an owner and a guest stays done unless a job in a turn *)
(* for them undoes it.                                                     *)
LEMMA DoneKept ==
  ASSUME Base, OneRoomInv, Step, NEW j \in Jobs, JobStep(j), NEW w, NEW o \in Users, NEW g, Done(w, o, g),
         job[j].pc \in {"invite", "kick"} /\ Owner(j) = o /\ Guest(j) = g => job[j].what = w
  PROVE  Done(w, o, g)'
<1>1. Types /\ JobsInv /\ RoomsInv /\ OwnersKept
  BY OwnersStep DEF Base
<1> SUFFICES ASSUME o \in Local, o \notin doubled'
             PROVE  (w = "in" => Has(o, g)') /\ (w = "out" => Lacks(o, g)')
  BY DEF Done
<1>2. (w = "in" => Has(o, g)) /\ (w = "out" => Lacks(o, g)) /\ RoomAt(o)
  BY HistoryGrows DEF Done, OneRoomInv
<1>3. /\ job[j].pc = "invite" => job[j].what = "in"
      /\ job[j].pc = "kick" => job[j].what = "out"
  BY <1>1 DEF JobsInv, JobAt, Subscribing
<1>4. ASSUME w = "in" PROVE Has(o, g)'
  <2>1. PICK r \in tag[o] : g \in audience[r]
    BY <1>2, <1>4 DEF Has
  <2>2. r \in Rooms /\ owner[r] = {o}
    BY <1>1, TagFacts
  <2>3. tag'[o] = tag[o]
    <3>1. SUFFICES ASSUME job[j].pc = "tag", Owner(j) = o PROVE FALSE
      BY <1>1, TagChange
    <3>2. tag[o] = {}
      BY <1>2, <3>1 DEF RoomAt, Making
    <3> QED BY <2>1, <3>2
  <2>4. g \in audience'[r]
    <3>1. SUFFICES ASSUME job[j].pc = "kick", r = job[j].room, g = Guest(j) PROVE FALSE
      BY <1>1, <2>1, <2>2, AudienceChange
    <3>2. Owner(j) = o
      BY <1>1, <2>2, <3>1, PlacedFacts DEF Placed
    <3> QED BY <1>3, <1>4, <3>1, <3>2
  <2> QED BY <2>1, <2>3, <2>4 DEF Has
<1>5. ASSUME w = "out" PROVE Lacks(o, g)'
  <2> SUFFICES ASSUME NEW r \in Rooms, owner'[r] = {o} PROVE g \notin audience'[r]
    BY DEF Lacks, Made
  <2>1. g \notin audience[r]
    <3>1. owner[r] = {} => audience[r] = {}
      BY <1>1 DEF RoomsInv
    <3>2. owner[r] # {} => owner[r] = {o} /\ r \in Made
      BY <1>1 DEF OwnersKept, Made
    <3> QED BY <1>2, <1>5, <3>1, <3>2 DEF Lacks
  <2>2. SUFFICES ASSUME job[j].pc = "invite", r = job[j].room, g = Guest(j) PROVE FALSE
    BY <1>1, <2>1, AudienceChange
  <2>3. owner[r] = {Owner(j)}
    BY <1>1, <2>2, PlacedFacts DEF Placed
  <2>4. Owner(j) = o
    BY <1>1, <2>3 DEF OwnersKept
  <2> QED BY <1>3, <1>5, <2>2, <2>4
<1> QED BY <1>4, <1>5

(* A room a client makes has no guests yet, and its id replaces no other.  *)
LEMMA DoneClient ==
  ASSUME Base, OneRoomInv, Step, NEW u \in Local, NEW r \in Rooms, ClientDoes(u, r),
         NEW w, NEW o \in Users, NEW g, Done(w, o, g)
  PROVE  Done(w, o, g)'
<1>1. Types /\ RoomsInv /\ OwnersKept /\ audience' = audience
  BY OwnersStep DEF Base, ClientDoes
<1> SUFFICES ASSUME o \in Local, o \notin doubled'
             PROVE  (w = "in" => Has(o, g)') /\ (w = "out" => Lacks(o, g)')
  BY DEF Done
<1>2. (w = "in" => Has(o, g)) /\ (w = "out" => Lacks(o, g)) /\ RoomAt(o)
  BY HistoryGrows DEF Done, OneRoomInv
<1>3. tag[o] = {} \/ tag'[o] = tag[o]
  <2>1. CASE ClientMakes(u, r)
    BY <2>1 DEF ClientMakes
  <2>2. CASE ClientKeeps(u, r)
    <3>1. u = o => tag[o] = {}
      BY <1>2, <2>2 DEF ClientKeeps, RoomAt, ByClient
    <3> QED BY <1>1, <2>2, <3>1 DEF ClientKeeps, Types, RoomTypes
  <2> QED BY <2>1, <2>2 DEF ClientDoes
<1>4. Has(o, g) => Has(o, g)'
  BY <1>1, <1>3 DEF Has
<1>5. ASSUME Lacks(o, g) PROVE Lacks(o, g)'
  <2> SUFFICES ASSUME NEW x \in Rooms, owner'[x] = {o} PROVE g \notin audience[x]
    BY <1>1 DEF Lacks, Made
  <2>1. owner[x] = {} => audience[x] = {}
    BY <1>1 DEF RoomsInv
  <2>2. owner[x] # {} => owner[x] = {o} /\ x \in Made
    BY <1>1 DEF OwnersKept, Made
  <2> QED BY <1>5, <2>1, <2>2 DEF Lacks
<1> QED BY <1>2, <1>4, <1>5

LEMMA DoneStill ==
  ASSUME UNCHANGED <<tag, owner, audience>>, doubled \subseteq doubled', NEW w, NEW o, NEW g, Done(w, o, g)
  PROVE  Done(w, o, g)'
<1>1. Has(o, g)' = Has(o, g) /\ Lacks(o, g)' = Lacks(o, g)
  BY Zenon DEF Has, Lacks, Made
<1> QED BY <1>1 DEF Done

(* What the jobs have done lasts when none comes to a pair, leaves it or   *)
(* changes its mind.                                                       *)
SameServers(p) ==
  /\ wish'[p] = wish[p]
  /\ \A i \in Jobs : Serves(i, p)' = Serves(i, p)
  /\ \A i \in Jobs : Serves(i, p) => job'[i].turns = job[i].turns /\ job'[i].what = job[i].what
DoneLasts(p) ==
  \A w, o, g : o \in p /\ g \in p /\ o # g /\ Done(w, o, g) => Done(w, o, g)'

LEMMA SameStays ==
  ASSUME JobsInv, NEW p \in Pairs, SameServers(p), Wished(p), HalfWay(p), DoneLasts(p)
  PROVE  Wished(p)' /\ HalfWay(p)'
<1>1. Wished(p)'
  <2> SUFFICES ASSUME \A j \in Jobs : Serves(j, p)' => job'[j].what = wish'[p], NEW o \in p, NEW g \in p, o # g
               PROVE  Done(wish[p], o, g)'
    BY DEF Wished
  <2>1. PICK w : w = wish[p]
    OBVIOUS
  <2>2. Done(w, o, g)
    BY <2>1 DEF Wished, SameServers
  <2>3. Done(w, o, g)'
    BY <2>2 DEF DoneLasts
  <2> QED BY <2>1, <2>3 DEF Done, SameServers
<1>2. HalfWay(p)'
  <2> SUFFICES ASSUME NEW j \in Jobs, Serves(j, p)', Tail(job'[j].turns) = << >>
               PROVE  Done(job[j].what, Guest(j), Owner(j))'
    BY DEF HalfWay
  <2>1. PICK w, o, g : w = job[j].what /\ o = Guest(j) /\ g = Owner(j)
    OBVIOUS
  <2>2. Serves(j, p) /\ job'[j].turns = job[j].turns /\ job'[j].what = w
    BY <2>1 DEF SameServers
  <2>3. Guest(j)' = o /\ Owner(j)' = g
    BY <2>1, <2>2, Zenon DEF Guest, Owner
  <2>4. LastSide(j) \/ BothSides(j)
    BY <2>2 DEF JobsInv, JobAt, Serves
  <2>5. o # g /\ o \in p /\ g \in p
    BY <2>1, <2>2, <2>4, TurnFacts DEF Sides, Serves, PairOf
  <2>6. Done(w, o, g)
    BY <2>1, <2>2 DEF HalfWay
  <2>7. Done(w, o, g)'
    BY <2>5, <2>6 DEF DoneLasts
  <2> QED BY <2>2, <2>3, <2>7 DEF Done
<1> QED BY <1>1, <1>2

LEMMA PairSides ==
  ASSUME NEW p \in Pairs, NEW o \in p, NEW g \in p, o # g PROVE p = {o, g} /\ o \in Users /\ g \in Users
<1>1. PICK a, b \in Users : p = {a, b}
  BY ConstantsAssumption DEF Pairs
<1> QED BY <1>1

LEMMA ServedDoneLasts ==
  ASSUME Base, OneRoomInv, Step, NEW p \in Pairs, NEW j \in Jobs, JobStep(j),
         ~(job[j].pc \in {"invite", "kick"} /\ Serves(j, p))
  PROVE  DoneLasts(p)
<1> SUFFICES ASSUME NEW w, NEW o \in p, NEW g \in p, o # g, Done(w, o, g) PROVE Done(w, o, g)'
  BY DEF DoneLasts
<1>1. p = {o, g} /\ o \in Users
  BY PairSides
<1>2. ~(job[j].pc \in {"invite", "kick"} /\ Owner(j) = o /\ Guest(j) = g)
  <2> SUFFICES ASSUME job[j].pc \in {"invite", "kick"}, Owner(j) = o, Guest(j) = g PROVE FALSE
    OBVIOUS
  <2>1. job[j].turns # << >>
    BY ServingFacts DEF Base, Serving, Subscribing
  <2> QED BY <1>1, <2>1 DEF Serves, PairOf
<1> QED BY <1>1, <1>2, DoneKept

LEMMA OthersServe ==
  ASSUME NEW j \in Jobs, OnlyJob(j), NEW p, NEW i \in Jobs, i # j
  PROVE  Serves(i, p)' = Serves(i, p) /\ job'[i] = job[i]
BY Zenon DEF OnlyJob, Serves, PairOf, Owner, Guest

(* A job works on another pair. *)
LEMMA PairOther ==
  ASSUME Base, OneRoomInv, Step, NEW p \in Pairs, Wished(p), HalfWay(p), NEW j \in Jobs, JobStep(j), wish'[p] = wish[p],
         ~Serves(j, p), ~Serves(j, p)'
  PROVE  Wished(p)' /\ HalfWay(p)'
<1>1. DoneLasts(p)
  BY ServedDoneLasts
<1>2. \A i \in Jobs : i # j => Serves(i, p)' = Serves(i, p) /\ job'[i] = job[i]
  BY OnlyJobStep, OthersServe
<1>3. \A i \in Jobs : Serves(i, p)' = Serves(i, p)
  BY <1>2 DEF Serves
<1>4. SameServers(p)
  BY <1>2, <1>3 DEF SameServers
<1> QED BY <1>1, <1>4, SameStays DEF Base

(* A job moves on in a turn of the pair. *)
LEMMA PairMoves ==
  ASSUME Base, OneRoomInv, Step, NEW p \in Pairs, Wished(p), HalfWay(p), NEW j \in Jobs, JobStep(j), wish'[p] = wish[p],
         job[j].pc \notin {"invite", "kick"}, NEW to, NEW room, Moves(j, to, room)
  PROVE  Wished(p)' /\ HalfWay(p)'
<1>1. DoneLasts(p)
  BY ServedDoneLasts
<1>2. \A i \in Jobs : i # j => Serves(i, p)' = Serves(i, p) /\ job'[i] = job[i]
  BY OnlyJobStep, OthersServe
<1>3. job'[j].turns = job[j].turns /\ job'[j].what = job[j].what /\ PairOf(j)' = PairOf(j)
  BY MovesFacts
<1>4. \A i \in Jobs : Serves(i, p)' = Serves(i, p)
  BY <1>2, <1>3 DEF Serves
<1>5. SameServers(p)
  BY <1>2, <1>3, <1>4 DEF SameServers
<1> QED BY <1>1, <1>5, SameStays DEF Base

(* A turn of the pair is over. *)
LEMMA PairTurn ==
  ASSUME Base, OneRoomInv, Step, NEW p \in Pairs, Alone(p), Wished(p), HalfWay(p), NEW j \in Jobs, JobStep(j),
         job[j].pc \in Serving, Serves(j, p), Turns(j, FALSE),
         NEW w, NEW o, NEW g, w = job[j].what, o = Owner(j), g = Guest(j), Done(w, o, g)'
  PROVE  Wished(p)' /\ HalfWay(p)'
<1>1. Types /\ JobsInv
  BY DEF Base
<1>2. p = {o, g} /\ o # g /\ o \in Users /\ g \in Users
  BY <1>1, ServingFacts DEF Serves, PairOf, Sides
<1>3. \A i \in Jobs : i # j => ~Serves(i, p) /\ ~Serves(i, p)'
  <2>1. \A i \in Jobs : Serves(i, p) => p \in Concerns(i)
    BY <1>1, ConcernsAre DEF JobsInv
  <2> QED BY <2>1, OnlyJobStep, OthersServe DEF Alone
<1>4. CASE Tail(job[j].turns) = << >>
  <2>1. job'[j].turns = << >>
    BY <1>1, <1>4, TurnsFacts
  <2>2. wish'[p] = w
    <3>1. wish' = [wish EXCEPT ![PairOf(j)] = job[j].what]
      BY <1>4, Zenon DEF Turns
    <3> QED BY <1>1, <3>1 DEF Serves, Types, HistoryTypes
  <2>3. \A i \in Jobs : ~Serves(i, p)'
    BY <1>3, <2>1 DEF Serves
  <2>4. Done(w, g, o)
    BY <1>4 DEF HalfWay
  <2>5. Done(w, g, o)'
    BY <1>2, <2>4, DoneKept
  <2>6. \A a, b \in p : a # b => Done(w, a, b)'
    BY <1>2, <2>5
  <2> QED BY <2>2, <2>3, <2>6 DEF Wished, HalfWay, Done
<1>5. CASE Tail(job[j].turns) # << >>
  <2>1. job'[j].what = w /\ Guest(j)' = o /\ Owner(j)' = g /\ PairOf(j)' = p /\ job'[j].turns # << >>
    BY <1>1, <1>5, TurnsFacts DEF Serves
  <2>2. wish' = wish /\ Serves(j, p)'
    BY <1>5, <2>1, Zenon DEF Turns, Serves
  <2>3. HalfWay(p)'
    BY <1>3, <2>1 DEF HalfWay, Done
  <2>4. Wished(p)'
    <3> SUFFICES ASSUME \A i \in Jobs : Serves(i, p)' => job'[i].what = wish'[p], NEW a \in p, NEW b \in p, a # b
                 PROVE  Done(wish[p], a, b)'
      BY DEF Wished
    <3>1. w = wish[p]
      BY <2>1, <2>2
    <3>2. Done(w, a, b)
      BY <1>3, <3>1 DEF Wished
    <3>3. a \in Users /\ b \in Users
      BY <1>2
    <3>4. Done(w, a, b)'
      BY <3>2, <3>3, DoneKept
    <3> QED BY <2>2, <3>1, <3>4 DEF Done
  <2> QED BY <2>3, <2>4
<1> QED BY <1>4, <1>5

(* A turn or an exception of another pair. *)
LEMMA PairElse ==
  ASSUME Base, OneRoomInv, Step, NEW p \in Pairs, Wished(p), HalfWay(p), NEW j \in Jobs, JobStep(j),
         job[j].pc \in Serving, Turns(j, FALSE) \/ Turns(j, TRUE) \/ Aborts(j), ~Serves(j, p)
  PROVE  Wished(p)' /\ HalfWay(p)'
<1>1. Types /\ JobsInv
  BY DEF Base
<1>2. PairOf(j) # p
  BY <1>1, ServingFacts DEF Serves
<1>3. ASSUME NEW failed, Turns(j, failed) PROVE wish'[p] = wish[p] /\ ~Serves(j, p)'
  <2>1. wish' = wish \/ wish' = [wish EXCEPT ![PairOf(j)] = job[j].what]
    BY <1>3, Zenon DEF Turns
  <2>2. wish'[p] = wish[p]
    BY <1>1, <1>2, <2>1 DEF Types, HistoryTypes
  <2>3. job'[j].turns = << >> \/ PairOf(j)' = PairOf(j)
    BY <1>1, <1>3, TurnsFacts
  <2> QED BY <1>2, <2>2, <2>3 DEF Serves
<1>4. ASSUME Aborts(j) PROVE wish'[p] = wish[p] /\ ~Serves(j, p)'
  <2>1. wish' = wish /\ job'[j].turns = << >>
    BY <1>4, AbortsFacts, Zenon DEF Aborts
  <2> QED BY <2>1 DEF Serves
<1>5. wish'[p] = wish[p] /\ ~Serves(j, p)'
  BY <1>3, <1>4
<1> QED BY <1>5, PairOther

(* A turn is over, of this pair or of another. *)
LEMMA PairTurns ==
  ASSUME Base, OneRoomInv, Step, NEW p \in Pairs, Alone(p), Wished(p), HalfWay(p), NEW j \in Jobs, JobStep(j),
         job[j].pc \in Serving, Turns(j, FALSE),
         \A w, o, g : w = job[j].what /\ o = Owner(j) /\ g = Guest(j) => Done(w, o, g)'
  PROVE  Wished(p)' /\ HalfWay(p)'
<1>1. CASE Serves(j, p)
  <2>1. PICK w, o, g : w = job[j].what /\ o = Owner(j) /\ g = Guest(j)
    OBVIOUS
  <2> QED BY <1>1, <2>1, PairTurn
<1>2. CASE ~Serves(j, p)
  BY <1>2, PairElse, Zenon
<1> QED BY <1>1, <1>2

(* What a turn has done for its owner and guest when it is over *)
LEMMA SkipDone ==
  ASSUME NEW w, NEW o, NEW g, o \notin Local PROVE Done(w, o, g)'
BY DEF Done

LEMMA InviteDone ==
  ASSUME Base, OneRoomInv, NEW j \in Jobs, InviteDoes(j),
         audience' = [audience EXCEPT ![job[j].room] = audience[job[j].room] \union {Guest(j)}],
         NEW w, NEW o, NEW g, w = job[j].what, o = Owner(j), g = Guest(j)
  PROVE  Done(w, o, g)'
<1>1. Types /\ JobsInv /\ job[j].pc = "invite" /\ UNCHANGED <<tag, owner, doubled>>
  BY Zenon DEF Base, InviteDoes
<1>2. job[j].room \in Rooms /\ o \in Local /\ w = "in"
  BY <1>1, PlacedFacts DEF Placed, JobsInv, JobAt, Subscribing
<1>3. g \in audience'[job[j].room]
  BY <1>1, <1>2 DEF Types, RoomTypes
<1>4. o \notin doubled => tag[o] = {job[j].room}
  BY <1>1, <1>2 DEF OneRoomInv, RoomAt, Placed
<1> QED BY <1>1, <1>2, <1>3, <1>4 DEF Done, Has

LEMMA KickDone ==
  ASSUME Base, OneRoomInv, NEW j \in Jobs, KickDoes(j),
         audience' = [audience EXCEPT ![job[j].room] = audience[job[j].room] \ {Guest(j)}],
         NEW w, NEW o, NEW g, w = job[j].what, o = Owner(j), g = Guest(j)
  PROVE  Done(w, o, g)'
<1>1. Types /\ JobsInv /\ job[j].pc = "kick" /\ UNCHANGED <<tag, owner, doubled>>
  BY Zenon DEF Base, KickDoes
<1>2. job[j].room \in Rooms /\ o \in Local /\ w = "out"
  BY <1>1, PlacedFacts DEF Placed, JobsInv, JobAt
<1>3. g \notin audience'[job[j].room]
  BY <1>1, <1>2 DEF Types, RoomTypes
<1>4. ASSUME o \notin doubled PROVE Own(o) = {job[j].room}
  <2>1. RoomAt(o)
    BY <1>2, <1>4 DEF OneRoomInv
  <2>2. tag[o] = {job[j].room}
    BY <1>1, <2>1 DEF RoomAt, Placed
  <2>3. client[o] = {} /\ \A i \in Jobs : ~Making(i, o)
    BY <2>1, <2>2 DEF RoomAt, ByClient
  <2> QED BY <2>1, <2>2, <2>3 DEF RoomAt
<1>5. ASSUME o \notin doubled PROVE Lacks(o, g)'
  BY <1>1, <1>3, <1>4, <1>5 DEF Lacks, Own, Made
<1> QED BY <1>1, <1>2, <1>5 DEF Done

LEMMA FindDone ==
  ASSUME Base, OneRoomInv, NEW j \in Jobs, FindDoes(j), tag[Owner(j)] = {},
         NEW w, NEW o, NEW g, w = job[j].what, o = Owner(j), g = Guest(j)
  PROVE  Done(w, o, g)'
<1>1. JobsInv /\ job[j].pc = "find" /\ UNCHANGED <<tag, owner, audience, doubled>>
  BY Zenon DEF Base, FindDoes
<1>2. w = "out"
  BY <1>1 DEF JobsInv, JobAt
<1>3. ASSUME o \in Local, o \notin doubled PROVE \A r \in Own(o) : audience[r] = {}
  <2>1. RoomAt(o)
    BY <1>3 DEF OneRoomInv
  <2>2. CASE \E i \in Jobs : Making(i, o)
    BY <2>1, <2>2 DEF RoomAt, Making
  <2>3. CASE \A i \in Jobs : ~Making(i, o)
    BY <2>1, <2>3 DEF RoomAt, ByClient
  <2> QED BY <2>2, <2>3
<1>4. ASSUME o \in Local, o \notin doubled PROVE Lacks(o, g)'
  BY <1>1, <1>3, <1>4 DEF Lacks, Own, Made
<1> QED BY <1>1, <1>2, <1>4 DEF Done

(* A pair is passed over, or its turns begin. *)
LEMMA PairTake ==
  ASSUME Base, Base', OneRoomInv, Step, NEW p \in Pairs, Alone(p), Wished(p), HalfWay(p), NEW j \in Jobs,
         JobStep(j), TakeDoes(j)
  PROVE  Wished(p)' /\ HalfWay(p)'
<1>1. /\ Types /\ JobsInv /\ JobAt(j) /\ JobAt(j)' /\ job[j].pc = "next"
      /\ UNCHANGED <<tag, owner, audience, wish, doubled>>
  BY Zenon DEF Base, JobsInv, TakeDoes, Still
<1>2. job[j].turns = << >> /\ ~Serves(j, p)
  BY <1>1 DEF JobAt, Serving, Subscribing, Serves
<1>3. CASE ~Serves(j, p)'
  BY <1>1, <1>2, <1>3, PairOther
<1>4. CASE Serves(j, p)'
  <2>1. PICK q \in job[j].todo : \/ job'[j].turns = << >>
                                 \/ job'[j].turns = job[j].turns
                                 \/ \E a, b \in Users : q = {a, b} /\ job'[j].turns = <<<<a, b>>, <<b, a>>>>
    BY Zenon DEF TakeDoes, Ends, Becomes, Is
  <2>2. PICK a, b \in Users : q = {a, b} /\ job'[j].turns = <<<<a, b>>, <<b, a>>>>
    BY <1>2, <1>4, <2>1 DEF Serves
  <2>3. Tail(job'[j].turns) # << >> /\ PairOf(j)' = q
    BY <2>2, Sequences1, Sequences2 DEF PairOf, Owner, Guest
  <2>4. p \in Concerns(j)
    BY <1>1, <1>4, <2>3, ConcernsAre DEF Serves
  <2>5. \A i \in Jobs : Serves(i, p) => p \in Concerns(i)
    BY <1>1, ConcernsAre DEF JobsInv
  <2>6. \A i \in Jobs : ~Serves(i, p)
    BY <1>2, <2>4, <2>5 DEF Alone
  <2>7. \A i \in Jobs : i # j => ~Serves(i, p)'
    BY <2>6, OnlyJobStep, OthersServe
  <2>8. \A o, g \in p : o # g => Done(wish[p], o, g)
    BY <2>6 DEF Wished
  <2>9. \A o, g \in p : o # g => Done(wish[p], o, g)'
    <3> SUFFICES ASSUME NEW o \in p, NEW g \in p, o # g PROVE Done(wish[p], o, g)'
      OBVIOUS
    <3>1. PICK w : w = wish[p]
      OBVIOUS
    <3>2. Done(w, o, g)'
      BY <1>1, <2>8, <3>1, DoneStill
    <3> QED BY <1>1, <3>1, <3>2 DEF Done
  <2> QED BY <2>3, <2>7, <2>9 DEF Wished, HalfWay
<1> QED BY <1>3, <1>4

(* The process dies: what the last job wanted and did remains, also where  *)
(* a backfill begins, which wants the same.                                *)
LEMMA PairRestart ==
  ASSUME Base, Step, NEW p \in Pairs, p \notin tangled', Wished(p), NEW i \in Jobs, NEW j \in Jobs, RestartDoes(i, j)
  PROVE  Wished(p)' /\ HalfWay(p)'
<1>1. Types /\ JobsInv /\ UNCHANGED <<tag, owner, audience, wish>>
  BY Zenon DEF Base, RestartDoes
<1>2. \A k \in Jobs : ~Serves(k, p)'
  BY DEF RestartDoes, Is, Serves
<1>3. PICK found \in SUBSET Pairs :
        tangled' = tangled \union {q \in found : wish[q] = "out"}
                           \union {q \in Pairs : Busy(q) /\ q \notin found}
                           \union {q \in found : \E k \in Jobs : q \in Concerns(k) /\ job[k].what = "out"}
  BY Zenon DEF RestartDoes
<1>4. \A k \in Jobs : Serves(k, p) => p \in Concerns(k)
  BY <1>1, ConcernsAre DEF JobsInv
<1>5. \A o, g \in p : o # g => Done(wish[p], o, g)
  <2>1. CASE \A k \in Jobs : Serves(k, p) => job[k].what = wish[p]
    BY <2>1 DEF Wished
  <2>2. CASE \E k \in Jobs : Serves(k, p) /\ job[k].what # wish[p]
    <3>1. PICK k \in Jobs : Serves(k, p) /\ job[k].what # wish[p]
      BY <2>2
    <3>2. p \in Concerns(k) /\ job[k].what \in {"in", "out"} /\ wish[p] \in {"none", "in", "out"}
      BY <1>1, <1>4, <3>1, JobFields DEF Types, HistoryTypes
    <3>3. p \in found
      BY <1>3, <3>2 DEF Busy
    <3>4. wish[p] # "out" /\ job[k].what # "out"
      BY <1>3, <3>2, <3>3
    <3>5. wish[p] = "none"
      BY <3>1, <3>2, <3>4
    <3> QED BY <3>5 DEF Done
  <2> QED BY <2>1, <2>2
<1>6. ASSUME NEW o \in p, NEW g \in p, o # g PROVE Done(wish[p], o, g)'
  <2>1. PICK w : w = wish[p]
    OBVIOUS
  <2>2. Done(w, o, g)
    BY <1>5, <1>6, <2>1
  <2>3. Done(w, o, g)'
    BY <1>1, <2>2, HistoryGrows, DoneStill
  <2> QED BY <1>1, <2>1, <2>3 DEF Done
<1> QED BY <1>2, <1>6 DEF Wished, HalfWay

LEMMA PairJobStep ==
  ASSUME Base, Base', OneRoomInv, Step, NEW p \in Pairs, p \notin tangled', Alone(p), Wished(p), HalfWay(p),
         NEW j \in Jobs, JobStep(j)
  PROVE  Wished(p)' /\ HalfWay(p)'
<1>1. Types /\ JobsInv /\ JobAt(j) /\ JobAt(j)'
  BY DEF Base, JobsInv
<1>2. ASSUME job[j].pc \in Serving, Turns(j, TRUE) \/ Aborts(j) PROVE Wished(p)' /\ HalfWay(p)'
  <2>1. PairOf(j) \in tangled'
    BY <1>2 DEF Turns, Aborts
  <2>2. ~Serves(j, p)
    BY <2>1 DEF Serves
  <2> QED BY <1>2, <2>2, PairElse
<1>3. CASE \/ \E u \in Users, dm \in DMs, what \in {"in", "out"} : EventDoes(j, u, dm, what)
           \/ StartDoes(j) \/ GateDoes(j) \/ SweepDoes(j) \/ RedactDoes(j) \/ RoundDoes(j)
  <2>1. job[j].pc \notin Serving /\ wish' = wish
    BY <1>3, AsideLands
  <2>2. job'[j].turns = << >> \/ job'[j].turns = job[j].turns
    BY <1>3, Zenon DEF EventDoes, StartDoes, GateDoes, SweepDoes, RedactDoes, RoundDoes, Shortens, Ends, Becomes, Is
  <2>3. job[j].turns = << >>
    BY <1>1, <2>1 DEF JobAt
  <2>4. ~Serves(j, p) /\ ~Serves(j, p)'
    BY <2>2, <2>3 DEF Serves
  <2> QED BY <2>1, <2>4, PairOther
<1>4. CASE TakeDoes(j)
  BY <1>4, PairTake
<1>5. CASE EnsureDoes(j)
  <2>1. job[j].pc = "ensure" /\ job[j].pc \in Serving
    BY <1>5 DEF EnsureDoes, Serving, Subscribing
  <2>2. CASE Owner(j) \notin Local /\ Turns(j, FALSE)
    <3>1. \A w, o, g : w = job[j].what /\ o = Owner(j) /\ g = Guest(j) => Done(w, o, g)'
      BY <2>2, SkipDone
    <3> QED BY <2>1, <2>2, <3>1, PairTurns
  <2>3. ASSUME NEW to, NEW room, Moves(j, to, room), wish' = wish PROVE Wished(p)' /\ HalfWay(p)'
    BY <2>1, <2>3, PairMoves
  <2> QED BY <1>2, <1>5, <2>1, <2>2, <2>3, Zenon DEF EnsureDoes
<1>6. CASE CreateDoes(j) \/ StoreTagDoes(j)
  <2>1. job[j].pc \in {"create", "tag"} /\ job[j].pc \in Serving
    BY <1>6 DEF CreateDoes, StoreTagDoes, Serving, Subscribing
  <2>2. ASSUME NEW to, NEW room, Moves(j, to, room), wish' = wish PROVE Wished(p)' /\ HalfWay(p)'
    BY <2>1, <2>2, PairMoves
  <2> QED BY <1>2, <1>6, <2>1, <2>2, Zenon DEF CreateDoes, StoreTagDoes
<1>7. CASE MuteDoes(j) \/ RuleDoes(j)
  <2>1. job[j].pc \in {"mute", "rule"}
    BY <1>7 DEF MuteDoes, RuleDoes
  <2>2. ASSUME NEW to, NEW room, Moves(j, to, room), wish' = wish PROVE Wished(p)' /\ HalfWay(p)'
    BY <2>1, <2>2, PairMoves
  <2> QED BY <1>7, <2>2, Zenon DEF MuteDoes, RuleDoes
<1>8. CASE InviteDoes(j)
  <2>1. job[j].pc \in Serving
    BY <1>8 DEF InviteDoes, Serving, Subscribing
  <2>2. CASE /\ audience' = [audience EXCEPT ![job[j].room] = audience[job[j].room] \union {Guest(j)}]
             /\ Turns(j, FALSE)
    <3>1. \A w, o, g : w = job[j].what /\ o = Owner(j) /\ g = Guest(j) => Done(w, o, g)'
      BY <1>8, <2>2, InviteDone
    <3> QED BY <2>1, <2>2, <3>1, PairTurns
  <2>3. CASE Turns(j, TRUE)
    BY <1>2, <2>1, <2>3
  <2> QED BY <1>8, <2>2, <2>3, Zenon DEF InviteDoes
<1>9. CASE FindDoes(j)
  <2>1. job[j].pc = "find" /\ job[j].pc \in Serving
    BY <1>9 DEF FindDoes, Serving, Subscribing
  <2>2. CASE (Owner(j) \notin Local \/ tag[Owner(j)] = {}) /\ Turns(j, FALSE)
    <3>1. \A w, o, g : w = job[j].what /\ o = Owner(j) /\ g = Guest(j) => Done(w, o, g)'
      BY <1>9, <2>2, SkipDone, FindDone
    <3> QED BY <2>1, <2>2, <3>1, PairTurns
  <2>3. ASSUME NEW to, NEW room, Moves(j, to, room), wish' = wish PROVE Wished(p)' /\ HalfWay(p)'
    BY <2>1, <2>3, PairMoves
  <2> QED BY <1>2, <1>9, <2>1, <2>2, <2>3, Zenon DEF FindDoes
<1>10. CASE KickDoes(j)
  <2>1. job[j].pc \in Serving
    BY <1>10 DEF KickDoes, Serving, Subscribing
  <2>2. CASE /\ audience' = [audience EXCEPT ![job[j].room] = audience[job[j].room] \ {Guest(j)}]
             /\ Turns(j, FALSE)
    <3>1. \A w, o, g : w = job[j].what /\ o = Owner(j) /\ g = Guest(j) => Done(w, o, g)'
      BY <1>10, <2>2, KickDone
    <3> QED BY <2>1, <2>2, <3>1, PairTurns
  <2>3. CASE Turns(j, TRUE)
    BY <1>2, <2>1, <2>3
  <2> QED BY <1>10, <2>2, <2>3, Zenon DEF KickDoes
<1> QED BY <1>3, <1>4, <1>5, <1>6, <1>7, <1>8, <1>9, <1>10, Zenon DEF JobStep

LEMMA PairsStep ==
  ASSUME Base, Base', OneRoomInv, PairsInv, Step PROVE PairsInv'
<1> SUFFICES ASSUME NEW p \in Pairs, p \notin tangled' PROVE Alone(p)' /\ Wished(p)' /\ HalfWay(p)'
  BY DEF PairsInv
<1>1. Alone(p) /\ Wished(p) /\ HalfWay(p) /\ JobsInv
  BY HistoryGrows DEF PairsInv, Base
<1>2. Alone(p)'
  BY <1>1, AloneStep
<1>3. ASSUME NEW j \in Jobs, JobStep(j) PROVE Wished(p)' /\ HalfWay(p)'
  BY <1>1, <1>3, PairJobStep
<1>4. ASSUME NEW i \in Jobs, NEW j \in Jobs, RestartDoes(i, j) PROVE Wished(p)' /\ HalfWay(p)'
  BY <1>1, <1>4, PairRestart
<1>5. CASE job' = job /\ Still
  <2>1. job' = job /\ UNCHANGED <<tag, owner, audience, wish, doubled>>
    BY <1>5, Zenon DEF Still
  <2>2. SameServers(p)
    BY <2>1, Zenon DEF SameServers, Serves, PairOf, Owner, Guest
  <2>3. DoneLasts(p)
    BY <2>1, DoneStill DEF DoneLasts
  <2> QED BY <1>1, <1>2, <2>2, <2>3, SameStays
<1>6. ASSUME NEW u \in Local, NEW r \in Rooms, ClientDoes(u, r) PROVE Wished(p)' /\ HalfWay(p)'
  <2>1. job' = job /\ wish' = wish
    BY <1>6, Zenon DEF ClientDoes
  <2>2. SameServers(p)
    BY <2>1, Zenon DEF SameServers, Serves, PairOf, Owner, Guest
  <2>3. DoneLasts(p)
    <3> SUFFICES ASSUME NEW w, NEW o \in p, NEW g \in p, o # g, Done(w, o, g) PROVE Done(w, o, g)'
      BY DEF DoneLasts
    <3> QED BY <1>6, PairSides, DoneClient
  <2> QED BY <1>1, <1>2, <2>2, <2>3, SameStays
<1> QED BY <1>2, <1>3, <1>4, <1>5, <1>6, Zenon DEF Step

LEMMA PairsInit ==
  ASSUME Init PROVE PairsInv
<1> SUFFICES ASSUME NEW p \in Pairs PROVE Alone(p) /\ Wished(p) /\ HalfWay(p)
  BY DEF PairsInv
<1>1. \A j \in Jobs : job[j].turns = << >> /\ job[j].todo = {} /\ job[j].event = {}
  BY IdleFacts DEF Init, Is
<1>2. \A j \in Jobs : JobAt(j) /\ ~Serves(j, p)
  BY <1>1, BaseInit DEF Base, JobsInv, Serves
<1>3. \A j \in Jobs : p \notin Concerns(j)
  BY <1>1, <1>2, ConcernsAre
<1>4. wish[p] = "none"
  BY DEF Init
<1> QED BY <1>2, <1>3, <1>4 DEF Alone, Wished, HalfWay, Done

LEMMA Follows ==
  ASSUME Base, PairsInv PROVE AudienceFollowsDms
<1> SUFFICES ASSUME NEW p \in Pairs, p \notin tangled, ~Busy(p), NEW o \in (p \intersect Local) \ doubled, NEW g \in p \ {o}
             PROVE  /\ wish[p] = "in" => \E r \in tag[o] : g \in audience[r]
                    /\ wish[p] = "out" => \A r \in Made : owner[r] = {o} => g \notin audience[r]
  BY DEF AudienceFollowsDms
<1>1. \A j \in Jobs : ~Serves(j, p)
  BY ConcernsAre DEF Base, JobsInv, Busy
<1>2. Done(wish[p], o, g)
  BY <1>1 DEF PairsInv, Wished
<1> QED BY <1>2 DEF Done, Has, Lacks

(* When no job of a pair is left, each side who is local has the other in  *)
(* the audience of his room after a join and in none of his rooms after a  *)
(* leave: other pairs' jobs, failures and restarts do not disturb it.  The *)
(* exceptions are the ones the history variables record.                   *)
THEOREM AudiencesFollow == Spec => []AudienceFollowsDms
<1>1. Init => Base /\ OneRoomInv /\ PairsInv
  BY BaseInit, OneRoomInit, PairsInit
<1>2. Base /\ OneRoomInv /\ PairsInv /\ [Next]_vars => (Base /\ OneRoomInv /\ PairsInv)'
  BY BaseStep, OneRoomStep, PairsStep
<1>3. Base /\ PairsInv => AudienceFollowsDms
  BY Follows
<1> QED BY <1>1, <1>2, <1>3, PTL DEF Spec

-----------------------------------------------------------------------------
(* Stories *)

Over(s) == story[s] \in {"expired", "redacted"}

(* A round holds stories that are over. *)
RoundsInv == \A j \in Jobs : job[j].pc = "redact" => \A s \in job[j].list : Over(s)

(* What a step does to the stories *)
StoryMoves ==
  \E s \in Stories :
    /\ story[s] \in {"none", "live"}
    /\ story' = [story EXCEPT ![s] = IF story[s] = "none" THEN "live" ELSE "expired"]
StoryGoes ==
  \E j \in Jobs, s \in Stories :
    /\ job[j].pc = "redact" /\ s \in job[j].list
    /\ story' = [story EXCEPT ![s] = "redacted"]

LEMMA StoryStep ==
  ASSUME Types, [Next]_vars PROVE story' = story \/ StoryMoves \/ StoryGoes
<1>1. ASSUME NEW j \in Jobs, NEW dm \in DMs, NEW u \in Users, JoinDM(j, u, dm) \/ LeaveDM(j, u, dm) PROVE story' = story
  BY <1>1, Zenon DEF JoinDM, LeaveDM, Event, expiry
<1>2. ASSUME NEW j \in Jobs, Work(j) PROVE story' = story \/ StoryGoes
  <2>1. story' = story \/ \E s \in Stories : Redact(j, s)
    BY <1>2, Zenon DEF Work, Start, Gate, Ensure, Create, StoreTag, Mute, NotifyRule, Invite, Find, Kick,
                       TakePair, Sweep, expiry
  <2>2. ASSUME NEW s \in Stories, Redact(j, s) PROVE story' = story \/ StoryGoes
    BY <2>2, Zenon DEF Redact, At, StoryGoes
  <2> QED BY <2>1, <2>2
<1>3. ASSUME NEW j \in Jobs, Round(j) \/ \E i \in Jobs : Restart(i, j) PROVE story' = story
  BY <1>3, Zenon DEF Round, Restart
<1>4. ASSUME NEW s \in Stories, Post(s) \/ Expire(s) PROVE StoryMoves
  <2>1. \/ story[s] = "none" /\ story' = [story EXCEPT ![s] = "live"]
        \/ story[s] = "live" /\ story' = [story EXCEPT ![s] = "expired"]
    BY <1>4, Zenon DEF Post, Expire
  <2> QED BY <2>1 DEF StoryMoves
<1>5. ASSUME NEW u \in Users, NEW dm \in DMs, List(u, dm) PROVE story' = story
  BY <1>5, Zenon DEF List, expiry
<1>6. UNCHANGED vars => story' = story
  BY Zenon DEF vars, expiry
<1>7. ASSUME NEW u \in Local, ClientCreates(u) \/ \E r \in Rooms : ClientStores(u, r) PROVE story' = story
  BY <1>7, Zenon DEF ClientCreates, ClientStores, expiry
<1> QED BY <1>1, <1>2, <1>3, <1>4, <1>5, <1>6, <1>7, Zenon DEF Next

LEMMA OverStays ==
  ASSUME Types, [Next]_vars, NEW s \in Stories, Over(s) PROVE Over(s)'
<1>1. CASE story' = story
  BY <1>1 DEF Over
<1>2. CASE StoryMoves
  BY <1>2 DEF StoryMoves, Over, Types
<1>3. CASE StoryGoes
  BY <1>3 DEF StoryGoes, Over, Types
<1> QED BY <1>1, <1>2, <1>3, StoryStep

LEMMA RoundsStep ==
  ASSUME Base, RoundsInv, [Next]_vars PROVE RoundsInv'
<1>1. Types /\ JobsInv /\ Step
  BY BaseStep DEF Base
<1>2. ASSUME NEW i \in Jobs, job[i].pc = "redact", job'[i].list \subseteq job[i].list
      PROVE  \A s \in job'[i].list : Over(s)'
  <2>1. job[i].list \subseteq Stories
    BY <1>1, <1>2 DEF JobsInv, JobAt
  <2> QED BY <1>1, <1>2, <2>1, OverStays DEF RoundsInv
<1>3. ASSUME NEW j \in Jobs, JobStep(j), job'[j].pc = "redact"
      PROVE  \A s \in job'[j].list : Over(s)'
  <2>1. CASE RedactDoes(j)
    <3>1. job[j].pc = "redact" /\ (Ends(j) \/ \E list \in SUBSET job[j].list : job'[j].list = list)
      BY <2>1, Zenon DEF RedactDoes, Shortens, Becomes, Is
    <3>2. ~Ends(j)
      BY <1>3 DEF Ends, Becomes, Is
    <3> QED BY <1>2, <3>1, <3>2
  <2>2. CASE RoundDoes(j)
    <3>1. job'[j].list = Expired
      BY <2>2 DEF RoundDoes, Becomes, Is
    <3>2. \A s \in Expired : s \in Stories /\ Over(s)
      BY DEF Expired, Over
    <3> QED BY <1>1, <3>1, <3>2, OverStays
  <2>3. CASE \/ \E u \in Users, dm \in DMs, what \in {"in", "out"} : EventDoes(j, u, dm, what)
             \/ StartDoes(j) \/ GateDoes(j) \/ TakeDoes(j) \/ SweepDoes(j)
    <3>1. \/ job'[j].pc = "idle" \/ job'[j].pc = "start" \/ job'[j].pc = "next" \/ job'[j].pc = "gate"
          \/ job'[j].pc = "sweep" \/ job'[j].pc = IF job[j].what = "in" THEN "ensure" ELSE "find"
      BY <2>3, Zenon DEF EventDoes, StartDoes, GateDoes, TakeDoes, SweepDoes, Shortens, Ends, Becomes, Is
    <3> QED BY <1>3, <3>1
  <2>4. CASE EnsureDoes(j) \/ CreateDoes(j) \/ StoreTagDoes(j) \/ MuteDoes(j) \/ RuleDoes(j) \/ InviteDoes(j)
             \/ FindDoes(j) \/ KickDoes(j)
    <3>1. \/ Turns(j, FALSE) \/ Turns(j, TRUE) \/ Aborts(j)
          \/ \E room : \E to \in {"create", "tag", "mute", "rule", "invite", "kick"} : Moves(j, to, room)
      BY <2>4 DEF EnsureDoes, CreateDoes, StoreTagDoes, MuteDoes, RuleDoes, InviteDoes, FindDoes, KickDoes
    <3> QED BY <1>3, <3>1, TurnsLands, AbortsLands, MovesFacts
  <2> QED BY <1>3, <2>1, <2>2, <2>3, <2>4, Zenon DEF JobStep
<1>4. ASSUME NEW j \in Jobs, JobStep(j), NEW i \in Jobs, job'[i].pc = "redact"
      PROVE  \A s \in job'[i].list : Over(s)'
  <2>1. CASE i = j
    BY <1>3, <1>4, <2>1
  <2>2. CASE i # j
    <3>1. job'[i] = job[i]
      BY <1>4, <2>2, OnlyJobStep DEF OnlyJob
    <3> QED BY <1>2, <1>4, <3>1
  <2> QED BY <2>1, <2>2
<1>5. ASSUME NEW k \in Jobs, NEW j \in Jobs, RestartDoes(k, j), NEW i \in Jobs PROVE job'[i].pc # "redact"
  BY <1>5 DEF RestartDoes, Is
<1>6. ASSUME job' = job, NEW i \in Jobs, job'[i].pc = "redact" PROVE \A s \in job'[i].list : Over(s)'
  BY <1>2, <1>6
<1>7. \A i \in Jobs : job'[i].pc = "redact" => \A s \in job'[i].list : Over(s)'
  BY <1>1, <1>4, <1>5, <1>6, Zenon DEF Step, ClientDoes
<1> QED BY <1>7 DEF RoundsInv

(* A story that has not expired is never redacted, and a redacted one      *)
(* stays so, however rounds of _cleanup_round_with_now overlap, fail or are *)
(* cut off: a round works through a list it read earlier, and a story does *)
(* not come back from its expiry.                                          *)
THEOREM OnlyExpiredAreRedacted ==
  Spec => [][\A s \in Stories : /\ story'[s] = "redacted" => story[s] \in {"expired", "redacted"}
                                /\ story[s] = "redacted" => story'[s] = "redacted"]_vars
<1>1. Init => Base /\ RoundsInv
  <2>1. Init => \A j \in Jobs : job[j].pc = "idle"
    BY IdleFacts DEF Init, Is
  <2> QED BY <2>1, BaseInit DEF RoundsInv
<1>2. Base /\ RoundsInv /\ [Next]_vars => (Base /\ RoundsInv)'
  BY BaseStep, RoundsStep
<1>3. ASSUME Base, RoundsInv, [Next]_vars, NEW s \in Stories
      PROVE  /\ story'[s] = "redacted" => story[s] \in {"expired", "redacted"}
             /\ story[s] = "redacted" => story'[s] = "redacted"
  <2>1. Types
    BY <1>3 DEF Base
  <2>2. CASE story' = story
    BY <2>2
  <2>3. CASE StoryMoves
    BY <2>1, <2>3 DEF StoryMoves, Types
  <2>4. CASE StoryGoes
    BY <1>3, <2>1, <2>4 DEF StoryGoes, RoundsInv, Over, Types
  <2> QED BY <1>3, <2>1, <2>2, <2>3, <2>4, StoryStep
<1>4. Base /\ RoundsInv /\ [Next]_vars =>
        [\A s \in Stories : /\ story'[s] = "redacted" => story[s] \in {"expired", "redacted"}
                            /\ story[s] = "redacted" => story'[s] = "redacted"]_vars
  BY <1>3
<1> QED BY <1>1, <1>2, <1>4, PTL DEF Spec

=============================================================================
