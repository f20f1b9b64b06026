-------------------------- MODULE StreamIds_proofs --------------------------
(***************************************************************************)
(* Proofs about StreamIds and StreamToken: for any number of processes,    *)
(* writers and jobs, the position of a process never reaches an open id,   *)
(* the generators implement the stream of StreamToken, and once all work   *)
(* is done everybody has caught up.                                        *)
(*                                                                         *)
(* The invariant Inv says of every open id that it is beyond what anybody  *)
(* believes of its writer, and, because a position received is also taken  *)
(* for the id of a persisted row, that it is no value anybody keeps.  Only *)
(* NextVal opens ids, and they are larger than everything; all other steps *)
(* move positions, by AddPersisted, or to values known to be closed.       *)
(***************************************************************************)
EXTENDS StreamIds, WellFoundedInduction, TLAPS

(* Minima and maxima *)

Less == {ss \in Nat \X Nat : ss[1] < ss[2]}

LEMMA LeastIsLeast ==
  ASSUME NEW S, S \subseteq Nat, S # {}
  PROVE  Least(S) \in S /\ \A y \in S : Least(S) <= y
<1>1. OpToRel(<, Nat) = Less
  BY Zenon DEF OpToRel, Less
<1>2. IsWellFoundedOn(Less, Nat)
  BY <1>1, NatLessThanWellFounded, Zenon
<1>3. PICK x \in S : \A y \in S : ~(<<y, x>> \in Less)
  BY <1>2, WFMin
<1>4. \A y, z \in Nat : y < z => <<y, z>> \in Less
  BY Zenon DEF Less
<1>5. \A y \in S : ~(y < x)
  BY <1>3, <1>4
<1>6. \A y \in S : x <= y
  BY <1>5
<1> QED
  BY <1>6 DEF Least

LEMMA GreatestIsGreatest ==
  ASSUME NEW n \in Nat, NEW S, S \subseteq 0..n, S # {}
  PROVE  Greatest(S) \in S /\ \A y \in S : y <= Greatest(S)
<1> DEFINE T == {n - y : y \in S}
<1>1. T \subseteq Nat /\ T # {}
  <2>1. \A y \in S : n - y \in Nat
    OBVIOUS
  <2>2. PICK y \in S : TRUE
    OBVIOUS
  <2>3. n - y \in T
    OBVIOUS
  <2> QED
    BY <2>1, <2>3
<1>2. PICK z \in T : \A y \in T : z <= y
  BY <1>1, LeastIsLeast
<1>3. n - z \in S /\ \A y \in S : y <= n - z
  BY <1>2
<1> QED
  BY <1>3 DEF Greatest

LEMMA RunEndIsRun ==
  ASSUME NEW n \in 0..MaxId, NEW b \in 0..n, NEW S, S \subseteq 1..n
  PROVE  /\ RunEnd(b, S) \in b..n
         /\ (b + 1)..RunEnd(b, S) \subseteq S
<1> DEFINE R == {k \in b..MaxId : (b + 1)..k \subseteq S}
<1>0. MaxId \in Nat
  BY ConstantsAssumption
<1>1. R \subseteq 0..MaxId /\ b \in R
  BY <1>0
<1>2. RunEnd(b, S) \in R
  BY <1>0, <1>1, GreatestIsGreatest DEF RunEnd
<1>3. RunEnd(b, S) > b => RunEnd(b, S) \in (b + 1)..RunEnd(b, S)
  BY <1>0, <1>2
<1> QED
  BY <1>0, <1>2, <1>3

-----------------------------------------------------------------------------
(* The invariant *)

OpenPcs == {"got", "added", "held"}
OpenAt(i, x) == \E s \in Slots : job[i][s].pc \in OpenPcs /\ x \in job[i][s].ids

JobsInv ==
  \A i \in Instances : \A s \in Slots :
    /\ job[i][s].pc # "idle" => i \in up /\ i \in Writers
    /\ job[i][s].ids \subseteq 1..seq
    /\ job[i][s].pc = "asked" => job[i][s].ids = {}
    /\ job[i][s].pc \in {"asked", "got", "added"} => job[i][s].max <= seq
    /\ job[i][s].pc \in {"got", "added"} => \A x \in job[i][s].ids : x > job[i][s].max

DisjointInv ==
  \A i, k \in Instances : \A s, t \in Slots :
    i # k \/ s # t => job[i][s].ids \intersect job[k][t].ids = {}

(* The id x, open at process k, is no value that anybody keeps ...         *)
Unkept(k, x) ==
  /\ \A w \in Writers : x \notin rows[w] /\ table[w] # x
  /\ \A p \in sent : p[2] # x
  /\ \A i \in up :
       /\ x \notin known[i] /\ x \notin finished[i]
       /\ maxLocal[i] # x /\ x > upto[i]
       /\ maxSeen[i] = x => i = k
       /\ \A w \in Writers : cur[i][w] # x

(* ... and is beyond what is believed of k.                                *)
Beyond(k, x) ==
  /\ x > maxLocal[k] /\ x > table[k]
  /\ \A p \in sent : p[1] = k => x > p[2]
  /\ \A i \in up : x > cur[i][k]

OpenInv == \A k \in Writers : \A x \in Nat : OpenAt(k, x) => Unkept(k, x) /\ Beyond(k, x)

RunningInv ==
  \A i \in Instances : IF i \in up THEN upto[i] >= 1 ELSE upto[i] = 0 /\ finished[i] = {}

Inv == TypeOK /\ JobsInv /\ DisjointInv /\ OpenInv /\ RunningInv

LEMMA OpenIsOpen ==
  ASSUME TypeOK
  PROVE  /\ \A i \in Instances : \A x : x \in Open(i) <=> OpenAt(i, x)
         /\ \A x : x \in AllOpen <=> \E i \in Instances : OpenAt(i, x)
<1>1. \A i \in Instances : \A x : x \in Open(i) <=> OpenAt(i, x)
  BY DEF Open, OpenAt, OpenPcs
<1> QED
  BY <1>1 DEF AllOpen

LEMMA InvInit == Init => Inv
<1> SUFFICES ASSUME Init PROVE Inv
  OBVIOUS
<1>1. TypeOK
  BY ConstantsAssumption DEF Init, TypeOK, Idle, Job, Pcs
<1>2. \A i \in Instances : \A s \in Slots : job[i][s].pc = "idle" /\ job[i][s].ids = {}
  BY DEF Init, Idle
<1>3. JobsInv /\ DisjointInv
  BY <1>2 DEF JobsInv, DisjointInv
<1>4. OpenInv
  BY <1>2, ConstantsAssumption DEF OpenInv, OpenAt, OpenPcs
<1>5. RunningInv
  BY DEF Init, RunningInv
<1> QED
  BY <1>1, <1>3, <1>4, <1>5 DEF Inv

-----------------------------------------------------------------------------
(* A step of a job *)

(* The job s of process i becomes r.                                       *)
JobIs(i, s, r) ==
  /\ job' \in [Instances -> [Slots -> Job]]
  /\ \A k \in Instances : \A t \in Slots :
       job'[k][t] = IF k = i /\ t = s THEN r ELSE job[k][t]

LEMMA JobUpdate ==
  ASSUME TypeOK, NEW i \in Instances, NEW s \in Slots, NEW r \in Job,
         job' = [job EXCEPT ![i][s] = r]
  PROVE  JobIs(i, s, r)
  BY DEF TypeOK, JobIs

LEMMA JobGoes ==
  ASSUME TypeOK, NEW i \in Instances, NEW s \in Slots, NEW pc \in Pcs, Goes(i, s, pc)
  PROVE  JobIs(i, s, [pc |-> pc, max |-> job[i][s].max, ids |-> job[i][s].ids])
<1>1. job[i][s] \in Job
  BY DEF TypeOK
<1>2. [job[i][s] EXCEPT !.pc = pc] = [pc |-> pc, max |-> job[i][s].max, ids |-> job[i][s].ids]
  BY <1>1 DEF Job
<1>3. job' = [job EXCEPT ![i][s] = [job[i][s] EXCEPT !.pc = pc]]
  BY DEF Goes
<1>4. [pc |-> pc, max |-> job[i][s].max, ids |-> job[i][s].ids] \in Job
  BY <1>1 DEF Job
<1> QED
  BY <1>2, <1>3, <1>4, JobUpdate
-----------------------------------------------------------------------------
(* What AddPersisted does to process i, when o[k] are the ids open at k    *)
(* after the step: from what is admissible, to something as good.          *)

Admissible(i, ids, c, m, seen, busy, o) ==
  /\ i \in Instances /\ (Writers \ {i} # {} \/ i \in Writers)
  /\ ids \subseteq 1..seq /\ c \in [Writers -> 0..seq]
  /\ m \in 0..seq /\ seen \in 0..seq /\ busy \in BOOLEAN
  /\ \A k \in Writers : \A x \in o[k] :
       /\ x \in Nat
       /\ x \notin ids /\ x \notin known[i] /\ x > upto[i] /\ x > c[k]
       /\ x # m /\ (k = i => busy /\ x > m)
       /\ k # i => x # seen

Moved(i, ids, o, e, K, l) ==
  /\ upto' = [upto EXCEPT ![i] = e] /\ e \in upto[i]..seq
  /\ known' = [known EXCEPT ![i] = K] /\ K \subseteq known[i] \union ids
  /\ maxLocal' = [maxLocal EXCEPT ![i] = l] /\ l \in 0..seq
  /\ stale' \subseteq stale
  /\ \A k \in Writers : \A x \in o[k] :
       /\ x > e /\ x # l
       /\ k = i => x > l

(* The position of i, and no other, has moved, and not back.               *)
Forward(i) == upto' = [upto EXCEPT ![i] = upto'[i]] /\ upto'[i] >= upto[i]

LEMMA AddPersistedIsSafe ==
  ASSUME TypeOK, NEW i, NEW ids, NEW c, NEW m, NEW seen, NEW busy, NEW o,
         AddPersisted(i, ids, c, m, seen, busy),
         Admissible(i, ids, c, m, seen, busy, o)
  PROVE  \E e, K, l : Moved(i, ids, o, e, K, l)
<1> USE DEF Admissible
<1> DEFINE low  == MinCurr(i, c, busy)
           base == Base(i, c, busy)
           S    == known[i] \union ids
           end  == RunEnd(base, S)
           top  == LocalMax(m, base, seen, busy)
<1>0. seq \in Nat /\ seq <= MaxId /\ MaxId \in Nat /\ upto[i] \in 0..seq /\ S \subseteq 1..seq
  <2>1. MaxId \in Nat /\ seq \in 1..MaxId
    BY ConstantsAssumption DEF TypeOK
  <2>2. upto[i] \in 0..seq /\ known[i] \subseteq 1..seq
    BY DEF TypeOK
  <2>3. S \subseteq 1..seq
    BY <2>2
  <2> QED
    BY <2>1, <2>2, <2>3
<1>1. low \in 0..seq /\ \A k \in Writers : \A x \in o[k] : x > low
  <2>1. CASE Writers \ {i} = {}
    BY <2>1 DEF MinCurr
  <2>2. CASE Writers \ {i} # {}
    <3> DEFINE W == IF busy THEN Writers ELSE Writers \ {i}
               L == {c[w] : w \in W}
    <3>1. L \subseteq Nat /\ L # {}
      BY <2>2, <1>0
    <3>2. low \in L /\ \A y \in L : low <= y
      BY <3>1, <2>2, LeastIsLeast DEF MinCurr
    <3>3. \A k \in Writers : \A x \in o[k] : k \in W
      OBVIOUS
    <3>4. \A k \in Writers : \A x \in o[k] : low <= c[k] /\ x > c[k] /\ c[k] \in 0..seq /\ x \in Nat
      BY <3>2, <3>3
    <3>5. low \in 0..seq
      BY <3>2
    <3> QED
      BY <3>4, <3>5, <1>0
  <2> QED
    BY <2>1, <2>2
<1>2. base \in {low, upto[i]} /\ base >= upto[i]
  BY <1>0, <1>1, GreatestIsGreatest DEF Base
<1>3. base \in 0..seq /\ \A k \in Writers : \A x \in o[k] : x > base
  BY <1>0, <1>1, <1>2
<1>4. end \in base..seq /\ (base + 1)..end \subseteq S
  BY <1>0, <1>3, RunEndIsRun
<1>5. \A k \in Writers : \A x \in o[k] : x > end
  <2> SUFFICES ASSUME NEW k \in Writers, NEW x \in o[k], ~(x > end)
               PROVE  FALSE
    OBVIOUS
  <2>1. x \in Nat /\ x > base /\ x \notin S
    BY <1>3
  <2>2. x \in (base + 1)..end
    BY <2>1, <1>0, <1>3, <1>4
  <2> QED
    BY <2>1, <2>2, <1>4
<1>6. /\ upto' = [upto EXCEPT ![i] = end]
      /\ known' = [known EXCEPT ![i] = {x \in S : x > end}]
      /\ maxLocal' = [maxLocal EXCEPT ![i] = top]
      /\ stale' \subseteq stale
  BY DEF AddPersisted
<1>7. top \in {m, base} \union IF busy THEN {} ELSE {seen}
  <2> DEFINE M == {m, base} \union IF busy THEN {} ELSE {seen}
  <2>1. M \subseteq 0..seq /\ M # {}
    BY <1>3
  <2> QED
    BY <2>1, <1>0, GreatestIsGreatest DEF LocalMax
<1>8. top \in 0..seq
  BY <1>7, <1>3
<1>9. \A k \in Writers : \A x \in o[k] : x # top /\ (k = i => x > top)
  BY <1>7, <1>3, <1>0
<1>10. end \in upto[i]..seq
  BY <1>0, <1>2, <1>3, <1>4
<1>11. Moved(i, ids, o, end, {x \in S : x > end}, top)
  <2> HIDE DEF end, top
  <2> QED
    BY <1>5, <1>6, <1>8, <1>9, <1>10 DEF Moved
<1> QED
  BY <1>11

-----------------------------------------------------------------------------
(* Steps of a job that open no id *)

LEMMA OpenShrinks ==
  ASSUME NEW i \in Instances, NEW s \in Slots, NEW r, JobIs(i, s, r),
         r.pc \in OpenPcs => job[i][s].pc \in OpenPcs /\ r.ids \subseteq job[i][s].ids
  PROVE  \A k \in Instances : \A x : OpenAt(k, x)' => OpenAt(k, x)
<1> SUFFICES ASSUME NEW k \in Instances, NEW x, NEW t \in Slots,
                    job'[k][t].pc \in OpenPcs /\ x \in job'[k][t].ids
             PROVE  job[k][t].pc \in OpenPcs /\ x \in job[k][t].ids
  BY DEF OpenAt, OpenPcs
<1> QED
  BY DEF JobIs

LEMMA JobsKept ==
  ASSUME JobsInv, DisjointInv, seq' = seq, up' = up,
         NEW i \in Instances, NEW s \in Slots, NEW r, JobIs(i, s, r),
         r.ids \subseteq job[i][s].ids,
         r.pc # "idle" => i \in up /\ i \in Writers,
         r.pc = "asked" => r.ids = {},
         r.pc \in {"asked", "got", "added"} => r.max <= seq,
         r.pc \in {"got", "added"} => \A x \in r.ids : x > r.max
  PROVE  JobsInv' /\ DisjointInv'
<1>1. JobsInv'
  BY DEF JobsInv, JobIs
<1>2. DisjointInv'
  BY DEF DisjointInv, JobIs
<1> QED
  BY <1>1, <1>2

(* OpenInv only has to be looked at where something it speaks of changes.  *)
LEMMA OpenInvKept ==
  ASSUME OpenInv, \A k \in Instances : \A x : OpenAt(k, x)' => OpenAt(k, x),
         UNCHANGED <<rows, table, sent, up, cur, finished, known, upto, maxSeen, maxLocal>>
  PROVE  OpenInv'
<1> SUFFICES ASSUME NEW k \in Writers, NEW x \in Nat, OpenAt(k, x)'
             PROVE  Unkept(k, x)' /\ Beyond(k, x)'
  BY DEF OpenInv
<1>1. Unkept(k, x) /\ Beyond(k, x)
  BY ConstantsAssumption DEF OpenInv
<1> QED
  BY <1>1 DEF Unkept, Beyond

LEMMA IdleIsJob == Idle \in Job /\ Idle.pc = "idle" /\ Idle.ids = {} /\ Idle.max = 0
  BY DEF Idle, Job, Pcs

LEMMA BeginFetchKeeps ==
  ASSUME Inv, NEW i \in Instances, NEW s \in Slots, BeginFetch(i, s)
  PROVE  Inv'
<1> DEFINE r == [pc |-> "asked", max |-> maxSeen[i], ids |-> {}]
<1>1. /\ job' = [job EXCEPT ![i][s] = r] /\ i \in up /\ i \in Writers
      /\ UNCHANGED <<seq, rows, table, sent, up, stale>>
      /\ UNCHANGED <<cur, finished, known, upto, maxSeen, maxLocal>>
  BY DEF BeginFetch, At, db, memory
<1>2. seq \in Nat /\ maxSeen[i] \in 0..seq
  BY ConstantsAssumption DEF Inv, TypeOK
<1>3. r \in Job
  BY <1>2 DEF Job, Pcs
<1>4. JobIs(i, s, r)
  BY <1>1, <1>3, JobUpdate DEF Inv
<1>6. TypeOK'
  BY <1>1, <1>4 DEF Inv, TypeOK, JobIs
<1>7. JobsInv' /\ DisjointInv'
  BY <1>1, <1>2, <1>4, JobsKept DEF Inv
<1>8. OpenInv'
  BY <1>1, <1>4, OpenShrinks, OpenInvKept DEF Inv, OpenPcs
<1> QED
  BY <1>1, <1>6, <1>7, <1>8 DEF Inv, RunningInv

LEMMA FetchFailsKeeps ==
  ASSUME Inv, NEW i \in Instances, NEW s \in Slots, FetchFails(i, s)
  PROVE  Inv'
<1>1. /\ job' = [job EXCEPT ![i][s] = Idle]
      /\ UNCHANGED <<seq, rows, table, sent, up>>
      /\ UNCHANGED <<cur, finished, known, upto, maxSeen, maxLocal>>
      /\ stale' = stale \union {i}
  BY DEF FetchFails, db, memory
<1>2. JobIs(i, s, Idle)
  BY <1>1, IdleIsJob, JobUpdate DEF Inv
<1>4. TypeOK'
  BY <1>1, <1>2 DEF Inv, TypeOK, JobIs
<1>5. JobsInv' /\ DisjointInv'
  BY <1>1, <1>2, IdleIsJob, JobsKept DEF Inv
<1>6. OpenInv'
  BY <1>1, <1>2, IdleIsJob, OpenShrinks, OpenInvKept DEF Inv, OpenPcs
<1> QED
  BY <1>1, <1>4, <1>5, <1>6 DEF Inv, RunningInv
LEMMA AddUnfinishedKeeps ==
  ASSUME Inv, NEW i \in Instances, NEW s \in Slots, AddUnfinished(i, s)
  PROVE  Inv'
<1> DEFINE r == [pc |-> "added", max |-> job[i][s].max, ids |-> job[i][s].ids]
           M == {maxSeen[i]} \union Unfinished(i) \union job[i][s].ids
<1>1. /\ Goes(i, s, "added") /\ i \in up /\ job[i][s].pc = "got"
      /\ UNCHANGED <<seq, rows, table, sent, up, stale>>
      /\ UNCHANGED <<cur, finished, known, upto, maxLocal>>
      /\ maxSeen' = [maxSeen EXCEPT ![i] = Greatest(M)]
  BY DEF AddUnfinished, At, db
<1>2. JobIs(i, s, r)
  BY <1>1, JobGoes DEF Inv, Pcs
<1>3. seq \in Nat /\ maxSeen[i] \in 0..seq /\ i \in Writers /\ seq >= 1
  BY <1>1, ConstantsAssumption DEF Inv, TypeOK, JobsInv
<1>4. M \subseteq 0..seq
  BY <1>3 DEF Inv, JobsInv, Unfinished, UnfinishedIn
<1>5. Greatest(M) \in M /\ Greatest(M) \in 0..seq
  BY <1>3, <1>4, GreatestIsGreatest
<1>6. TypeOK'
  BY <1>1, <1>2, <1>5 DEF Inv, TypeOK, JobIs
<1>7. JobsInv' /\ DisjointInv'
  BY <1>1, <1>2, JobsKept DEF Inv, JobsInv
<1>8. OpenInv'
  <2> SUFFICES ASSUME NEW k \in Writers, NEW x \in Nat, OpenAt(k, x)'
               PROVE  Unkept(k, x)' /\ Beyond(k, x)'
    BY DEF OpenInv
  <2>1. OpenAt(k, x)
    BY <1>1, <1>2, OpenShrinks, ConstantsAssumption DEF OpenPcs
  <2>2. Unkept(k, x) /\ Beyond(k, x)
    BY <2>1 DEF Inv, OpenInv
  <2>3. x = Greatest(M) => k = i
    <3> SUFFICES ASSUME x \in Unfinished(i) \union job[i][s].ids PROVE k = i
      BY <1>5, <1>1, <2>2 DEF Unkept
    <3>1. PICK t \in Slots : x \in job[i][t].ids
      BY DEF Unfinished, UnfinishedIn
    <3>2. PICK u \in Slots : x \in job[k][u].ids
      BY <2>1 DEF OpenAt
    <3> QED
      BY <3>1, <3>2, ConstantsAssumption DEF Inv, DisjointInv
  <2>4. \A j \in Instances : maxSeen'[j] = x => j = k \/ maxSeen[j] = x
    BY <1>1, <2>3 DEF Inv, TypeOK
  <2>5. Unkept(k, x)'
    <3>1. \A j \in up : maxSeen'[j] = x => j = k
      BY <2>2, <2>4 DEF Unkept, Inv, TypeOK
    <3> QED
      BY <1>1, <2>2, <3>1 DEF Unkept
  <2>6. Beyond(k, x)'
    BY <1>1, <2>2 DEF Beyond
  <2> QED
    BY <2>5, <2>6
<1> QED
  BY <1>1, <1>6, <1>7, <1>8 DEF Inv, RunningInv

LEMMA EndFetchKeeps ==
  ASSUME Inv, NEW i \in Instances, NEW s \in Slots, EndFetch(i, s) \/ RollBack(i, s)
  PROVE  Inv'
<1>1. PICK pc \in {"held", "rolled"} : Goes(i, s, pc)
  BY DEF EndFetch, RollBack
<1> DEFINE r == [pc |-> pc, max |-> job[i][s].max, ids |-> job[i][s].ids]
<1>2. /\ i \in up /\ job[i][s].pc \in {"added", "held"}
      /\ UNCHANGED <<seq, rows, table, sent, up, stale>>
      /\ UNCHANGED <<cur, finished, known, upto, maxSeen, maxLocal>>
  BY DEF EndFetch, RollBack, At, db, memory
<1>3. JobIs(i, s, r)
  BY <1>1, JobGoes DEF Inv, Pcs
<1>4. TypeOK'
  BY <1>2, <1>3 DEF Inv, TypeOK, JobIs
<1>5. JobsInv' /\ DisjointInv'
  BY <1>2, <1>3, JobsKept DEF Inv, JobsInv
<1>6. OpenInv'
  BY <1>2, <1>3, OpenShrinks, OpenInvKept DEF Inv, OpenPcs
<1> QED
  BY <1>2, <1>4, <1>5, <1>6 DEF Inv, RunningInv

LEMMA CommitKeeps ==
  ASSUME Inv, NEW i \in Instances, NEW s \in Slots, Commit(i, s)
  PROVE  Inv'
<1> DEFINE r == [pc |-> "written", max |-> job[i][s].max, ids |-> job[i][s].ids]
<1>1. /\ Goes(i, s, "written") /\ i \in up /\ job[i][s].pc = "held"
      /\ UNCHANGED <<seq, table, sent, up, stale>>
      /\ UNCHANGED <<cur, finished, known, upto, maxSeen, maxLocal>>
      /\ rows' = [rows EXCEPT ![i] = @ \union job[i][s].ids]
  BY DEF Commit, At, memory
<1>2. JobIs(i, s, r)
  BY <1>1, JobGoes DEF Inv, Pcs
<1>3. i \in Writers /\ job[i][s].ids \subseteq 1..seq
  BY <1>1 DEF Inv, JobsInv
<1>4. TypeOK'
  <2>1. rows' \in [Writers -> SUBSET (1..seq)]
    BY <1>1, <1>3 DEF Inv, TypeOK
  <2> QED
    BY <1>1, <1>2, <2>1 DEF Inv, TypeOK, JobIs
<1>5. JobsInv' /\ DisjointInv'
  BY <1>1, <1>2, JobsKept DEF Inv, JobsInv
<1>6. OpenInv'
  <2> SUFFICES ASSUME NEW k \in Writers, NEW x \in Nat, OpenAt(k, x)'
               PROVE  Unkept(k, x)' /\ Beyond(k, x)'
    BY DEF OpenInv
  <2>1. OpenAt(k, x)
    BY <1>1, <1>2, OpenShrinks, ConstantsAssumption DEF OpenPcs
  <2>2. Unkept(k, x) /\ Beyond(k, x)
    BY <2>1 DEF Inv, OpenInv
  <2>3. x \notin job[i][s].ids
    <3>1. PICK t \in Slots : job'[k][t].pc \in OpenPcs /\ x \in job'[k][t].ids
      BY DEF OpenAt, OpenPcs
    <3>2. k # i \/ t # s
      BY <1>2, <3>1, ConstantsAssumption DEF JobIs, OpenPcs
    <3>3. x \in job[k][t].ids
      BY <1>2, <3>1, <3>2, ConstantsAssumption DEF JobIs
    <3> QED
      BY <3>2, <3>3, ConstantsAssumption DEF Inv, DisjointInv
  <2>4. \A w \in Writers : x \notin rows'[w]
    BY <1>1, <1>3, <2>2, <2>3 DEF Unkept, Inv, TypeOK
  <2> QED
    BY <1>1, <2>2, <2>4 DEF Unkept, Beyond
<1> QED
  BY <1>1, <1>4, <1>5, <1>6 DEF Inv, RunningInv
LEMMA SavePositionKeeps ==
  ASSUME Inv, NEW i \in Instances, NEW s \in Slots, SavePosition(i, s)
  PROVE  Inv'
<1> DEFINE g == Greatest({table[i], maxLocal[i]})
<1>1. /\ job' = [job EXCEPT ![i][s] = Idle] /\ i \in up /\ job[i][s].pc = "save"
      /\ UNCHANGED <<seq, rows, sent, up, stale>>
      /\ UNCHANGED <<cur, finished, known, upto, maxSeen, maxLocal>>
      /\ table' = table \/ table' = [table EXCEPT ![i] = g]
  BY DEF SavePosition, At, memory
<1>2. JobIs(i, s, Idle)
  BY <1>1, IdleIsJob, JobUpdate DEF Inv
<1>3. i \in Writers /\ seq \in Nat /\ table[i] \in 0..seq /\ maxLocal[i] \in 0..seq
  BY <1>1, ConstantsAssumption DEF Inv, TypeOK, JobsInv
<1>4. g \in {table[i], maxLocal[i]}
  BY <1>3, GreatestIsGreatest
<1>5. TypeOK'
  <2>1. table' \in [Writers -> 0..seq]
    BY <1>1, <1>3, <1>4 DEF Inv, TypeOK
  <2> QED
    BY <1>1, <1>2, <2>1 DEF Inv, TypeOK, JobIs
<1>6. JobsInv' /\ DisjointInv'
  BY <1>1, <1>2, IdleIsJob, JobsKept DEF Inv
<1>7. OpenInv'
  <2> SUFFICES ASSUME NEW k \in Writers, NEW x \in Nat, OpenAt(k, x)'
               PROVE  Unkept(k, x)' /\ Beyond(k, x)'
    BY DEF OpenInv
  <2>1. OpenAt(k, x)
    BY <1>2, IdleIsJob, OpenShrinks, ConstantsAssumption DEF OpenPcs
  <2>2. Unkept(k, x) /\ Beyond(k, x)
    BY <2>1 DEF Inv, OpenInv
  <2>3. \A w \in Writers : table'[w] # x
    BY <1>1, <1>3, <1>4, <2>2 DEF Unkept, Inv, TypeOK
  <2>4. x > table'[k]
    BY <1>1, <1>3, <1>4, <2>2 DEF Beyond, Inv, TypeOK
  <2> QED
    BY <1>1, <2>2, <2>3, <2>4 DEF Unkept, Beyond
<1> QED
  BY <1>1, <1>5, <1>6, <1>7 DEF Inv, RunningInv

(* The only step that opens ids: they are larger than every value kept.    *)
LEMMA NextValKeeps ==
  ASSUME Inv, NEW i \in Instances, NEW s \in Slots, NEW n \in Nat \ {0}, NextVal(i, s, n)
  PROVE  Inv'
<1> DEFINE r == [pc |-> "got", max |-> job[i][s].max, ids |-> (seq + 1)..(seq + n)]
<1>1. /\ job' = [job EXCEPT ![i][s] = r]
      /\ i \in up /\ job[i][s].pc = "asked"
      /\ seq' = seq + n /\ seq + n <= MaxId
      /\ UNCHANGED <<rows, table, sent, up, stale>>
      /\ UNCHANGED <<cur, finished, known, upto, maxSeen, maxLocal>>
  BY DEF NextVal, At, memory
<1>2. /\ seq \in Nat /\ seq >= 1 /\ MaxId \in Nat /\ seq' \in 1..MaxId /\ seq' > seq
      /\ i \in Writers /\ job[i][s].max \in Nat /\ job[i][s].max <= seq /\ job[i][s] \in Job
  <2>1. MaxId \in Nat /\ seq \in 1..MaxId /\ job[i][s] \in Job
    BY ConstantsAssumption DEF Inv, TypeOK
  <2>2. i \in Writers /\ job[i][s].max <= seq
    BY <1>1 DEF Inv, JobsInv
  <2> QED
    BY <1>1, <2>1, <2>2 DEF Job
<1>3. JobIs(i, s, r)
  <2>1. r \in Job
    BY <1>2 DEF Job, Pcs
  <2> QED
    BY <1>1, <2>1, JobUpdate DEF Inv
<1>4. TypeOK'
  <2>1. 0..seq \subseteq 0..seq' /\ 1..seq \subseteq 1..seq'
    BY <1>2
  <2>2. rows' \in [Writers -> SUBSET (1..seq')] /\ table' \in [Writers -> 0..seq']
    BY <1>1, <2>1 DEF Inv, TypeOK
  <2>3. cur' \in [Instances -> [Writers -> 0..seq']]
    BY <1>1, <2>1 DEF Inv, TypeOK
  <2>4. finished' \in [Instances -> SUBSET (1..seq')] /\ known' \in [Instances -> SUBSET (1..seq')]
    BY <1>1, <2>1 DEF Inv, TypeOK
  <2>5. /\ upto' \in [Instances -> 0..seq'] /\ maxSeen' \in [Instances -> 0..seq']
        /\ maxLocal' \in [Instances -> 0..seq']
    BY <1>1, <2>1 DEF Inv, TypeOK
  <2>6. sent' \subseteq Writers \X (0..seq')
    BY <1>1, <2>1 DEF Inv, TypeOK
  <2> QED
    BY <1>1, <1>2, <1>3, <2>2, <2>3, <2>4, <2>5, <2>6 DEF Inv, TypeOK, JobIs
<1>5. JobsInv'
  <2> SUFFICES ASSUME NEW k \in Instances, NEW t \in Slots
               PROVE  /\ job'[k][t].pc # "idle" => k \in up /\ k \in Writers
                      /\ job'[k][t].ids \subseteq 1..seq'
                      /\ job'[k][t].pc = "asked" => job'[k][t].ids = {}
                      /\ job'[k][t].pc \in {"asked", "got", "added"} => job'[k][t].max <= seq'
                      /\ job'[k][t].pc \in {"got", "added"} =>
                           \A x \in job'[k][t].ids : x > job'[k][t].max
    BY <1>1 DEF JobsInv
  <2>1. CASE k = i /\ t = s
    <3>1. job'[k][t] = r
      BY <2>1, <1>3 DEF JobIs
    <3>2. (seq + 1)..(seq + n) \subseteq 1..seq'
      BY <1>1, <1>2
    <3>3. \A x \in (seq + 1)..(seq + n) : x > job[i][s].max
      BY <1>2
    <3>4. job[i][s].max <= seq'
      BY <1>2
    <3> QED
      BY <2>1, <3>1, <3>2, <3>3, <3>4, <1>1, <1>2
  <2>2. CASE ~(k = i /\ t = s)
    <3>1. job'[k][t] = job[k][t] /\ job[k][t].max \in Nat
      BY <2>2, <1>3 DEF JobIs, Inv, TypeOK, Job
    <3>2. 1..seq \subseteq 1..seq' /\ (job[k][t].max <= seq => job[k][t].max <= seq')
      BY <1>2, <3>1
    <3> QED
      BY <3>1, <3>2 DEF Inv, JobsInv
  <2> QED
    BY <2>1, <2>2
<1>6. DisjointInv'
  <2>1. \A k \in Instances : \A t \in Slots : job[k][t].ids \intersect r.ids = {}
    <3>1. 1..seq \intersect (seq + 1)..(seq + n) = {}
      BY <1>2
    <3> QED
      BY <3>1 DEF Inv, JobsInv
  <2> SUFFICES ASSUME NEW j \in Instances, NEW k \in Instances, NEW u \in Slots, NEW t \in Slots,
                      j # k \/ u # t
               PROVE  job'[j][u].ids \intersect job'[k][t].ids = {}
    BY DEF DisjointInv
  <2>2. CASE j = i /\ u = s
    <3>1. job'[j][u] = r /\ job'[k][t] = job[k][t]
      BY <1>3, <2>2 DEF JobIs
    <3> QED
      BY <2>1, <3>1
  <2>3. CASE k = i /\ t = s
    <3>1. job'[k][t] = r /\ job'[j][u] = job[j][u]
      BY <1>3, <2>3 DEF JobIs
    <3> QED
      BY <2>1, <3>1
  <2>4. CASE ~(j = i /\ u = s) /\ ~(k = i /\ t = s)
    <3>1. job'[j][u] = job[j][u] /\ job'[k][t] = job[k][t]
      BY <1>3, <2>4 DEF JobIs
    <3> QED
      BY <3>1 DEF Inv, DisjointInv
  <2> QED
    BY <2>2, <2>3, <2>4
<1>7. OpenInv'
  <2> SUFFICES ASSUME NEW k \in Writers, NEW x \in Nat, OpenAt(k, x)'
               PROVE  Unkept(k, x)' /\ Beyond(k, x)'
    BY DEF OpenInv
  <2>1. PICK t \in Slots : job'[k][t].pc \in OpenPcs /\ x \in job'[k][t].ids
    BY DEF OpenAt, OpenPcs
  <2>2. CASE k = i /\ t = s
    <3>1. x > seq
      BY <1>2, <1>3, <2>1, <2>2 DEF JobIs
    <3>2. k \in Instances /\ up \subseteq Instances
      BY ConstantsAssumption DEF Inv, TypeOK
    <3>3. \A w \in Writers : x \notin rows[w] /\ table[w] < x
      BY <1>2, <3>1 DEF Inv, TypeOK
    <3>4. \A j \in Instances :
            /\ x \notin known[j] /\ x \notin finished[j] /\ maxLocal[j] < x /\ upto[j] < x
            /\ maxSeen[j] < x
      BY <1>2, <3>1 DEF Inv, TypeOK
    <3>5. \A j \in Instances : \A w \in Writers : cur[j][w] < x
      BY <1>2, <3>1 DEF Inv, TypeOK
    <3>6. \A p \in sent : p[2] < x
      BY <1>2, <3>1 DEF Inv, TypeOK
    <3>7. \A j \in Instances : maxLocal[j] \in Nat /\ maxSeen[j] \in Nat /\ \A w \in Writers : cur[j][w] \in Nat
      BY <1>2 DEF Inv, TypeOK
    <3>8. (\A w \in Writers : table[w] \in Nat) /\ (\A p \in sent : p[2] \in Nat)
      BY <1>2 DEF Inv, TypeOK
    <3>9. Unkept(k, x)'
      BY <1>1, <3>2, <3>3, <3>4, <3>5, <3>6, <3>7, <3>8 DEF Unkept
    <3>10. Beyond(k, x)'
      BY <1>1, <3>2, <3>3, <3>4, <3>5, <3>6 DEF Beyond
    <3> QED
      BY <3>9, <3>10
  <2>3. CASE ~(k = i /\ t = s)
    <3>1. OpenAt(k, x)
      BY <1>3, <2>1, <2>3, ConstantsAssumption DEF JobIs, OpenAt
    <3>2. Unkept(k, x) /\ Beyond(k, x)
      BY <3>1 DEF Inv, OpenInv
    <3> QED
      BY <1>1, <3>2 DEF Unkept, Beyond
  <2> QED
    BY <2>2, <2>3
<1> QED
  BY <1>1, <1>4, <1>5, <1>6, <1>7 DEF Inv, RunningInv

LEMMA SendPositionKeeps ==
  ASSUME Inv, NEW w \in Writers, SendPosition(w)
  PROVE  Inv'
<1>1. /\ w \in up /\ w \in Instances
      /\ UNCHANGED <<seq, rows, table, up, job, stale>>
      /\ UNCHANGED <<cur, finished, known, upto, maxSeen, maxLocal>>
  BY ConstantsAssumption DEF SendPosition, db, memory
<1> DEFINE T == {maxLocal[w]} \union {x \in rows[w] : x <= maxLocal[w]}
<1>2. \A p \in sent' : p \in sent \/ \E t : p = <<w, t>> /\ (t = maxLocal[w] \/ (t \in rows[w] /\ t <= maxLocal[w]))
  <2>1. sent' = sent \union {<<w, t>> : t \in T}
    BY DEF SendPosition
  <2>2. \A t \in T : t = maxLocal[w] \/ (t \in rows[w] /\ t <= maxLocal[w])
    OBVIOUS
  <2> HIDE DEF T
  <2>3. \A p \in sent' : p \in sent \/ \E t \in T : p = <<w, t>>
    BY <2>1
  <2> QED
    BY <2>2, <2>3
<1>3. seq \in Nat /\ maxLocal[w] \in 0..seq /\ rows[w] \subseteq 1..seq
  BY <1>1, ConstantsAssumption DEF Inv, TypeOK
<1>4. sent' \subseteq Writers \X (0..seq)
  BY <1>2, <1>3 DEF Inv, TypeOK
<1>5. TypeOK'
  BY <1>1, <1>4 DEF Inv, TypeOK
<1>6. JobsInv' /\ DisjointInv' /\ RunningInv'
  BY <1>1 DEF Inv, JobsInv, DisjointInv, RunningInv
<1>7. OpenInv'
  <2> SUFFICES ASSUME NEW k \in Writers, NEW x \in Nat, OpenAt(k, x)'
               PROVE  Unkept(k, x)' /\ Beyond(k, x)'
    BY DEF OpenInv
  <2>1. Unkept(k, x) /\ Beyond(k, x)
    BY <1>1 DEF Inv, OpenInv, OpenAt
  <2>2. \A p \in sent' : p[2] # x
    BY <1>1, <1>2, <2>1 DEF Unkept
  <2>3. \A p \in sent' : p[1] = k => x > p[2]
    <3> SUFFICES ASSUME NEW t, t = maxLocal[w] \/ (t \in rows[w] /\ t <= maxLocal[w]), w = k
                 PROVE  x > t
      BY <1>2, <2>1 DEF Beyond
    <3> QED
      BY <1>3, <2>1 DEF Beyond
  <2> QED
    BY <1>1, <2>1, <2>2, <2>3 DEF Unkept, Beyond
<1> QED
  BY <1>5, <1>6, <1>7 DEF Inv

-----------------------------------------------------------------------------
(* Steps that move positions *)

LEMMA AdvanceKeeps ==
  ASSUME Inv, NEW i \in Instances, NEW w \in Writers, NEW t \in 1..MaxId, Advance(i, w, t)
  PROVE  Inv' /\ Forward(i)
<1> DEFINE c    == [cur[i] EXCEPT ![w] = Greatest({@, t})]
           busy == Unfinished(i) # {} \/ InFlight(i) # {}
           seen == Greatest({maxSeen[i], t})
           o    == [k \in Writers |-> {x \in Nat : OpenAt(k, x)}]
<1>1. /\ i \in up /\ i # w /\ <<w, t>> \in sent
      /\ cur' = [cur EXCEPT ![i] = c] /\ maxSeen' = [maxSeen EXCEPT ![i] = seen]
      /\ AddPersisted(i, {t}, c, maxLocal[i], seen, busy)
      /\ UNCHANGED <<seq, rows, table, sent, up, job, finished>>
  BY DEF Advance, db
<1>2. /\ seq \in Nat /\ t \in 1..seq /\ cur[i] \in [Writers -> 0..seq]
      /\ maxSeen[i] \in 0..seq /\ maxLocal[i] \in 0..seq
  <2>1. seq \in Nat
    BY ConstantsAssumption DEF Inv, TypeOK
  <2>2. t \in 0..seq /\ t \in Nat /\ t >= 1
    BY <1>1, <2>1, ConstantsAssumption DEF Inv, TypeOK
  <2> QED
    BY <2>1, <2>2 DEF Inv, TypeOK
<1>3. Greatest({cur[i][w], t}) \in {cur[i][w], t} /\ seen \in {maxSeen[i], t}
  BY <1>2, GreatestIsGreatest
<1>4. c \in [Writers -> 0..seq] /\ seen \in 0..seq
  BY <1>2, <1>3
<1>5. \A k \in Writers : \A x \in Nat : OpenAt(k, x) =>
        /\ Unkept(k, x) /\ Beyond(k, x)
        /\ x # t /\ x > c[k] /\ (\A v \in Writers : c[v] # x)
        /\ (k = i => busy) /\ (k # i => x # seen)
  <2> SUFFICES ASSUME NEW k \in Writers, NEW x \in Nat, OpenAt(k, x)
               PROVE  /\ Unkept(k, x) /\ Beyond(k, x)
                      /\ x # t /\ x > c[k] /\ (\A v \in Writers : c[v] # x)
                      /\ (k = i => busy) /\ (k # i => x # seen)
    OBVIOUS
  <2>1. Unkept(k, x) /\ Beyond(k, x)
    BY DEF Inv, OpenInv
  <2>2. x # t /\ (k = w => x > t)
    BY <1>1, <2>1 DEF Unkept, Beyond
  <2>3. x > cur[i][k] /\ \A v \in Writers : cur[i][v] # x
    BY <1>1, <2>1 DEF Unkept, Beyond
  <2>4. x > c[k] /\ \A v \in Writers : c[v] # x
    BY <1>2, <1>3, <2>2, <2>3
  <2>5. k = i => busy
    <3> SUFFICES ASSUME k = i PROVE busy
      OBVIOUS
    <3>1. PICK u \in Slots : job[i][u].pc \in OpenPcs /\ x \in job[i][u].ids
      BY DEF OpenAt
    <3>2. CASE job[i][u].pc = "got"
      <4>1. job[i][u].max \in InFlight(i)
        BY <3>2 DEF InFlight
      <4> QED
        BY <4>1
    <3>3. CASE job[i][u].pc \in {"added", "held"}
      <4>1. x \in Unfinished(i)
        BY <3>1, <3>3 DEF Unfinished, UnfinishedIn
      <4> QED
        BY <4>1
    <3> QED
      BY <3>1, <3>2, <3>3 DEF OpenPcs
  <2>6. k # i => x # seen
    BY <1>1, <1>3, <2>1, <2>2 DEF Unkept
  <2> QED
    BY <2>1, <2>2, <2>4, <2>5, <2>6
<1>6. \A k \in Writers : \A x : x \in o[k] <=> x \in Nat /\ OpenAt(k, x)
  OBVIOUS
<1> HIDE DEF c, busy, seen, o
<1>7. Admissible(i, {t}, c, maxLocal[i], seen, busy, o)
  <2>1. {t} \subseteq 1..seq /\ Writers \ {i} # {}
    BY <1>1, <1>2
  <2>2. busy \in BOOLEAN
    BY DEF busy
  <2> QED
    BY <1>1, <1>2, <1>4, <1>5, <1>6, <2>1, <2>2 DEF Unkept, Beyond, Admissible
<1>8. PICK e, K, l : Moved(i, {t}, o, e, K, l)
  BY <1>1, <1>7, AddPersistedIsSafe DEF Inv
<1>9. TypeOK'
  <2>1. cur' \in [Instances -> [Writers -> 0..seq]] /\ maxSeen' \in [Instances -> 0..seq]
    BY <1>1, <1>4 DEF Inv, TypeOK
  <2>2. upto[i] \in 0..seq /\ known[i] \subseteq 1..seq
    BY DEF Inv, TypeOK
  <2>3. e \in 0..seq /\ K \subseteq 1..seq /\ l \in 0..seq
    BY <1>2, <1>8, <2>2 DEF Moved
  <2>4. /\ upto' \in [Instances -> 0..seq] /\ maxLocal' \in [Instances -> 0..seq]
        /\ known' \in [Instances -> SUBSET (1..seq)] /\ stale' \subseteq stale
    BY <1>8, <2>3 DEF Inv, TypeOK, Moved
  <2> QED
    BY <1>1, <2>1, <2>4 DEF Inv, TypeOK
<1>10. JobsInv' /\ DisjointInv'
  BY <1>1 DEF Inv, JobsInv, DisjointInv
<1>11. RunningInv'
  <2>1. upto[i] \in 0..seq /\ upto[i] >= 1
    BY <1>1 DEF Inv, TypeOK, RunningInv
  <2>2. e >= 1
    BY <1>2, <1>8, <2>1 DEF Moved
  <2> QED
    BY <1>1, <1>8, <2>2 DEF Inv, RunningInv, TypeOK, Moved
<1>12. OpenInv'
  <2> SUFFICES ASSUME NEW k \in Writers, NEW x \in Nat, OpenAt(k, x)'
               PROVE  Unkept(k, x)' /\ Beyond(k, x)'
    BY DEF OpenInv
  <2>1. OpenAt(k, x) /\ x \in o[k]
    BY <1>1, <1>6 DEF OpenAt
  <2>2. Unkept(k, x) /\ Beyond(k, x)
    BY <1>5, <2>1
  <2>3. \A j \in up :
          /\ x \notin known'[j] /\ maxLocal'[j] # x /\ x > upto'[j]
          /\ maxSeen'[j] = x => j = k
          /\ \A v \in Writers : cur'[j][v] # x
          /\ x > cur'[j][k]
    <3> SUFFICES ASSUME NEW j \in up
                 PROVE  /\ x \notin known'[j] /\ maxLocal'[j] # x /\ x > upto'[j]
                        /\ maxSeen'[j] = x => j = k
                        /\ \A v \in Writers : cur'[j][v] # x
                        /\ x > cur'[j][k]
      OBVIOUS
    <3>1. j \in Instances
      BY DEF Inv, TypeOK
    <3>2. CASE j = i
      <4>1. /\ cur'[j] = c /\ maxSeen'[j] = seen
            /\ known'[j] = K /\ maxLocal'[j] = l /\ upto'[j] = e
        BY <1>1, <1>8, <3>2 DEF Inv, TypeOK, Moved
      <4>2. x \notin K /\ x # l /\ x > e
        BY <1>5, <1>1, <1>8, <2>1, <2>2 DEF Unkept, Moved
      <4> QED
        BY <1>5, <2>1, <3>2, <4>1, <4>2
    <3>3. CASE j # i
      <4>1. /\ cur'[j] = cur[j] /\ maxSeen'[j] = maxSeen[j]
            /\ known'[j] = known[j] /\ maxLocal'[j] = maxLocal[j] /\ upto'[j] = upto[j]
        BY <1>1, <1>8, <3>1, <3>3 DEF Inv, TypeOK, Moved
      <4> QED
        BY <2>2, <4>1 DEF Unkept, Beyond
    <3> QED
      BY <3>2, <3>3
  <2>4. x > maxLocal'[k]
    BY <1>8, <2>1, <2>2, ConstantsAssumption DEF Beyond, Inv, TypeOK, Moved
  <2> QED
    BY <1>1, <2>2, <2>3, <2>4 DEF Unkept, Beyond
<1>13. Forward(i)
  <2>1. upto[i] \in Nat
    BY DEF Inv, TypeOK
  <2> QED
    BY <1>2, <1>8, <2>1 DEF Moved, Forward, Inv, TypeOK
<1> QED
  BY <1>9, <1>10, <1>11, <1>12, <1>13 DEF Inv

LEMMA MarkFinishedKeeps ==
  ASSUME Inv, NEW i \in Instances, NEW s \in Slots, MarkFinished(i, s)
  PROVE  Inv' /\ Forward(i)
<1> DEFINE ids  == job[i][s].ids
           rest == UnfinishedIn([job[i] EXCEPT ![s] = Idle])
           busy == rest # {} \/ InFlight(i) # {}
           all  == finished[i] \union ids
           low  == MinUnfinished(i, rest)
           done == {x \in all : x < low}
           top  == Greatest({cur[i][i]} \union done)
           c    == [cur[i] EXCEPT ![i] = top]
           m    == IF done = {} THEN maxLocal[i] ELSE Greatest({c[i], maxLocal[i]})
           o    == [k \in Writers |-> {x \in Nat : OpenAt(k, x)'}]
<1>1. /\ AfterFinish(i, s)
      /\ finished' = [finished EXCEPT ![i] = all \ done]
      /\ cur' = [cur EXCEPT ![i] = c]
      /\ AddPersisted(i, ids, c, m, maxSeen[i], busy)
      /\ UNCHANGED <<seq, rows, table, sent, up, maxSeen>>
  BY DEF MarkFinished, db
<1>2. PICK r \in Job : /\ JobIs(i, s, r) /\ r.pc \in {"save", "idle"}
                       /\ r.ids \subseteq ids
                       /\ i \in up /\ job[i][s].pc \in {"written", "rolled"}
  <2>1. CASE At(i, s, "written") /\ Goes(i, s, "save")
    <3> DEFINE r == [pc |-> "save", max |-> job[i][s].max, ids |-> ids]
    <3>1. r \in Job
      BY DEF Inv, TypeOK, Job, Pcs
    <3>2. JobIs(i, s, r)
      BY <2>1, JobGoes DEF Inv, Pcs
    <3> QED
      BY <2>1, <3>1, <3>2 DEF At
  <2>2. CASE (At(i, s, "written") \/ At(i, s, "rolled")) /\ job' = [job EXCEPT ![i][s] = Idle]
    BY <2>2, IdleIsJob, JobUpdate DEF At, Inv
  <2> QED
    BY <1>1, <2>1, <2>2 DEF AfterFinish
<1>3. /\ seq \in Nat /\ seq <= MaxId /\ MaxId \in Nat /\ i \in Writers
      /\ ids \subseteq 1..seq /\ finished[i] \subseteq 1..seq
      /\ cur[i] \in [Writers -> 0..seq] /\ cur[i][i] \in 0..seq
      /\ maxSeen[i] \in 0..seq /\ maxLocal[i] \in 0..seq
  <2>1. MaxId \in Nat /\ seq \in 1..MaxId
    BY ConstantsAssumption DEF Inv, TypeOK
  <2>2. i \in Writers /\ ids \subseteq 1..seq
    BY <1>2 DEF Inv, JobsInv
  <2>3. /\ finished[i] \subseteq 1..seq /\ cur[i] \in [Writers -> 0..seq]
        /\ maxSeen[i] \in 0..seq /\ maxLocal[i] \in 0..seq
    BY DEF Inv, TypeOK
  <2> QED
    BY <2>1, <2>2, <2>3
<1>4. top \in {cur[i][i]} \union done /\ top \in 0..seq
  <2>1. {cur[i][i]} \union done \subseteq 0..seq
    BY <1>3
  <2> QED
    BY <1>3, <2>1, GreatestIsGreatest
<1>5. c \in [Writers -> 0..seq] /\ c[i] = top
  BY <1>3, <1>4
<1>6. m \in {top, maxLocal[i]} /\ m \in 0..seq
  <2>1. Greatest({top, maxLocal[i]}) \in {top, maxLocal[i]}
    BY <1>3, <1>4, GreatestIsGreatest
  <2>2. m \in {top, maxLocal[i]}
    BY <1>5, <2>1
  <2> HIDE DEF m, top
  <2> QED
    BY <1>3, <1>4, <2>2
<1>a. low \in Nat /\ \A y \in rest \union {z + 1 : z \in InFlight(i)} : y \in Nat /\ low <= y
  <2> DEFINE L == rest \union {z + 1 : z \in InFlight(i)} \union {MaxId + 1}
  <2>1. \A z \in InFlight(i) : z \in Nat
    BY DEF InFlight, Inv, TypeOK, Job
  <2>2. \A u \in Slots : [job[i] EXCEPT ![s] = Idle][u].ids \subseteq Nat
    BY <1>3, IdleIsJob DEF Inv, TypeOK, Job
  <2>3. rest \subseteq Nat
    BY <2>2 DEF UnfinishedIn
  <2>4. L \subseteq Nat /\ L # {}
    BY <1>3, <2>1, <2>3
  <2> QED
    BY <2>4, LeastIsLeast DEF MinUnfinished
(* What is open at i after the step is in rest, or will come from a fetch  *)
(* in flight; either way it is at least low.                               *)
<1>7. \A x \in Nat : OpenAt(i, x)' => busy /\ x >= low
  <2> SUFFICES ASSUME NEW x \in Nat, NEW t \in Slots,
                      job'[i][t].pc \in OpenPcs, x \in job'[i][t].ids
               PROVE  busy /\ x >= low
    BY DEF OpenAt, OpenPcs
  <2>1. t # s /\ job[i][t].pc \in OpenPcs /\ x \in job[i][t].ids
    BY <1>2 DEF JobIs, OpenPcs
  <2>7. CASE job[i][t].pc \in {"added", "held"}
    <3>1. [job[i] EXCEPT ![s] = Idle][t] = job[i][t]
      BY <2>1 DEF Inv, TypeOK
    <3>2. x \in rest
      BY <2>1, <2>7, <3>1 DEF UnfinishedIn
    <3> QED
      BY <3>2, <1>a
  <2>8. CASE job[i][t].pc = "got"
    <3>1. job[i][t].max \in InFlight(i)
      BY <2>8 DEF InFlight
    <3>2. x > job[i][t].max /\ job[i][t].max \in Nat
      BY <2>1, <2>8 DEF Inv, JobsInv, TypeOK, Job
    <3>3. low <= job[i][t].max + 1
      BY <1>a, <3>1
    <3> QED
      BY <3>1, <3>2, <3>3, <1>a
  <2> QED
    BY <2>1, <2>7, <2>8 DEF OpenPcs
<1>8. \A k \in Writers : \A x \in Nat : OpenAt(k, x)' =>
        /\ Unkept(k, x) /\ Beyond(k, x)
        /\ x \notin ids /\ x > c[k] /\ (\A v \in Writers : c[v] # x)
        /\ x # m /\ (k = i => busy /\ x > m) /\ (k # i => x # maxSeen[i])
  <2> SUFFICES ASSUME NEW k \in Writers, NEW x \in Nat, OpenAt(k, x)'
               PROVE  /\ Unkept(k, x) /\ Beyond(k, x)
                      /\ x \notin ids /\ x > c[k] /\ (\A v \in Writers : c[v] # x)
                      /\ x # m /\ (k = i => busy /\ x > m) /\ (k # i => x # maxSeen[i])
    OBVIOUS
  <2>1. k \in Instances
    BY ConstantsAssumption
  <2>2. OpenAt(k, x)
    BY <1>2, <2>1, OpenShrinks DEF OpenPcs
  <2>3. Unkept(k, x) /\ Beyond(k, x)
    BY <2>2 DEF Inv, OpenInv
  <2>4. x \notin ids
    <3>1. PICK t \in Slots : job'[k][t].pc \in OpenPcs /\ x \in job'[k][t].ids
      BY DEF OpenAt, OpenPcs
    <3>2. (k # i \/ t # s) /\ x \in job[k][t].ids
      BY <1>2, <2>1, <3>1 DEF JobIs, OpenPcs
    <3> QED
      BY <2>1, <3>2 DEF Inv, DisjointInv
  <2>5. x \notin all
    BY <1>2, <2>3, <2>4 DEF Unkept
  <2>6. x # top
    BY <1>2, <1>3, <1>4, <2>3, <2>5 DEF Unkept
  <2>7. k = i => x > top
    <3> SUFFICES ASSUME k = i PROVE x > top
      OBVIOUS
    <3>1. x >= low
      BY <1>7
    <3>2. x > cur[i][i]
      BY <1>2, <2>3 DEF Beyond
    <3>3. \A z \in done : z < low /\ z \in Nat
      BY <1>3
    <3>4. \A z \in done : x > z
      <4> HIDE DEF done
      <4> HIDE DEF low
      <4> QED
        BY <3>1, <3>3, <1>a
    <3> QED
      BY <1>4, <3>2, <3>4
  <2>8. x > c[k] /\ \A v \in Writers : c[v] # x
    BY <1>2, <1>3, <1>5, <2>3, <2>6, <2>7 DEF Unkept, Beyond
  <2>9. x # maxLocal[i] /\ (k = i => x > maxLocal[i]) /\ (k # i => x # maxSeen[i])
    BY <1>2, <2>3 DEF Unkept, Beyond
  <2> QED
    BY <1>6, <1>7, <2>3, <2>4, <2>6, <2>7, <2>8, <2>9
<1>9. \A k \in Writers : \A x : x \in o[k] <=> x \in Nat /\ OpenAt(k, x)'
  OBVIOUS
<1> HIDE DEF ids, c, m, busy, o
<1>10. Admissible(i, ids, c, m, maxSeen[i], busy, o)
  <2>1. busy \in BOOLEAN
    BY DEF busy
  <2> QED
    BY <1>2, <1>3, <1>5, <1>6, <1>8, <1>9, <2>1 DEF Unkept, Admissible
<1>11. PICK e, K, l : Moved(i, ids, o, e, K, l)
  BY <1>1, <1>10, AddPersistedIsSafe DEF Inv
<1>12. TypeOK'
  <2>1. cur' \in [Instances -> [Writers -> 0..seq]]
    BY <1>1, <1>5 DEF Inv, TypeOK
  <2>2. finished' \in [Instances -> SUBSET (1..seq)]
    BY <1>1, <1>3 DEF Inv, TypeOK
  <2>3. upto[i] \in 0..seq /\ known[i] \subseteq 1..seq
    BY DEF Inv, TypeOK
  <2>4. e \in 0..seq /\ K \subseteq 1..seq /\ l \in 0..seq
    <3>1. e \in upto[i]..seq /\ K \subseteq known[i] \union ids /\ l \in 0..seq /\ seq \in Nat
      BY <1>3, <1>11 DEF Moved
    <3>2. ids \subseteq 1..seq
      BY <1>3 DEF ids
    <3>3. e \in 0..seq
      BY <2>3, <3>1
    <3> QED
      BY <2>3, <3>1, <3>2, <3>3, Zenon
  <2>5. /\ upto' \in [Instances -> 0..seq] /\ maxLocal' \in [Instances -> 0..seq]
        /\ known' \in [Instances -> SUBSET (1..seq)] /\ stale' \subseteq stale
    BY <1>11, <2>4 DEF Inv, TypeOK, Moved
  <2> QED
    BY <1>1, <1>2, <2>1, <2>2, <2>5 DEF Inv, TypeOK, JobIs
<1>13. JobsInv' /\ DisjointInv'
  BY <1>1, <1>2, <1>3, JobsKept DEF Inv, ids
<1>14. RunningInv'
  <2>1. upto[i] \in 0..seq /\ upto[i] >= 1
    BY <1>2 DEF Inv, TypeOK, RunningInv
  <2>2. e >= 1
    BY <1>3, <1>11, <2>1 DEF Moved
  <2> QED
    BY <1>1, <1>2, <1>11, <2>2 DEF Inv, RunningInv, TypeOK, Moved
<1>15. OpenInv'
  <2> SUFFICES ASSUME NEW k \in Writers, NEW x \in Nat, OpenAt(k, x)'
               PROVE  Unkept(k, x)' /\ Beyond(k, x)'
    BY DEF OpenInv
  <2>1. x \in o[k]
    BY <1>9
  <2>2. Unkept(k, x) /\ Beyond(k, x)
    BY <1>8
  <2>3. \A j \in up :
          /\ x \notin known'[j] /\ x \notin finished'[j] /\ maxLocal'[j] # x /\ x > upto'[j]
          /\ \A v \in Writers : cur'[j][v] # x
          /\ x > cur'[j][k]
    <3> SUFFICES ASSUME NEW j \in up
                 PROVE  /\ x \notin known'[j] /\ x \notin finished'[j]
                        /\ maxLocal'[j] # x /\ x > upto'[j]
                        /\ \A v \in Writers : cur'[j][v] # x
                        /\ x > cur'[j][k]
      OBVIOUS
    <3>1. j \in Instances
      BY DEF Inv, TypeOK
    <3>2. CASE j = i
      <4>1. /\ cur'[j] = c /\ finished'[j] = all \ done
            /\ known'[j] = K /\ maxLocal'[j] = l /\ upto'[j] = e
        BY <1>1, <1>11, <3>2 DEF Inv, TypeOK, Moved
      <4>2. x \notin all
        BY <1>8, <2>2, <3>2 DEF Unkept
      <4>3. x \notin K /\ x # l /\ x > e
        BY <1>2, <1>8, <1>11, <2>1, <2>2 DEF Unkept, Moved
      <4>4. x \notin all \ done
        BY <4>2
      <4> HIDE DEF all, done
      <4> QED
        BY <1>8, <3>2, <4>1, <4>3, <4>4
    <3>3. CASE j # i
      <4>1. /\ cur'[j] = cur[j] /\ finished'[j] = finished[j]
            /\ known'[j] = known[j] /\ maxLocal'[j] = maxLocal[j] /\ upto'[j] = upto[j]
        BY <1>1, <1>11, <3>1, <3>3 DEF Inv, TypeOK, Moved
      <4> QED
        BY <2>2, <4>1 DEF Unkept, Beyond
    <3> QED
      BY <3>2, <3>3
  <2>4. x > maxLocal'[k]
    BY <1>11, <2>1, <2>2, ConstantsAssumption DEF Beyond, Inv, TypeOK, Moved
  <2> QED
    BY <1>1, <2>2, <2>3, <2>4 DEF Unkept, Beyond
<1>16. Forward(i)
  <2>1. upto[i] \in Nat
    BY DEF Inv, TypeOK
  <2> QED
    BY <1>3, <1>11, <2>1 DEF Moved, Forward, Inv, TypeOK
<1> QED
  BY <1>12, <1>13, <1>14, <1>15, <1>16 DEF Inv

-----------------------------------------------------------------------------
(* Processes die and start *)

LEMMA CrashKeeps ==
  ASSUME Inv, NEW i \in Instances, Crash(i)
  PROVE  Inv'
<1>1. /\ up' = up \ {i}
      /\ job' = [job EXCEPT ![i] = [s \in Slots |-> Idle]]
      /\ cur' = [cur EXCEPT ![i] = [w \in Writers |-> 0]]
      /\ finished' = [finished EXCEPT ![i] = {}] /\ known' = [known EXCEPT ![i] = {}]
      /\ upto' = [upto EXCEPT ![i] = 0]
      /\ maxSeen' = [maxSeen EXCEPT ![i] = 0] /\ maxLocal' = [maxLocal EXCEPT ![i] = 0]
      /\ UNCHANGED <<seq, rows, table, sent>> /\ stale' = stale \ {i}
  BY DEF Crash, db
<1>2. seq \in Nat /\ 0 \in 0..seq
  BY ConstantsAssumption DEF Inv, TypeOK
<1>3. \A k \in Instances : \A t \in Slots : job'[k][t] = IF k = i THEN Idle ELSE job[k][t]
  BY <1>1 DEF Inv, TypeOK
<1>4. TypeOK'
  <2>1. job' \in [Instances -> [Slots -> Job]]
    BY <1>1, IdleIsJob DEF Inv, TypeOK
  <2>2. cur' \in [Instances -> [Writers -> 0..seq]]
    BY <1>1, <1>2 DEF Inv, TypeOK
  <2> QED
    BY <1>1, <1>2, <2>1, <2>2 DEF Inv, TypeOK
<1>5. JobsInv'
  BY <1>1, <1>3, IdleIsJob DEF Inv, JobsInv
<1>6. DisjointInv'
  BY <1>3, IdleIsJob DEF Inv, DisjointInv
<1>7. RunningInv'
  BY <1>1 DEF Inv, RunningInv, TypeOK
<1>8. OpenInv'
  <2> SUFFICES ASSUME NEW k \in Writers, NEW x \in Nat, OpenAt(k, x)'
               PROVE  Unkept(k, x)' /\ Beyond(k, x)'
    BY DEF OpenInv
  <2>1. k \in Instances /\ k # i /\ OpenAt(k, x)
    BY <1>3, IdleIsJob, ConstantsAssumption DEF OpenAt, OpenPcs
  <2>2. Unkept(k, x) /\ Beyond(k, x)
    BY <2>1 DEF Inv, OpenInv
  <2>3. \A j \in up' : /\ j \in up /\ j \in Instances /\ j # i
                       /\ known'[j] = known[j] /\ finished'[j] = finished[j] /\ cur'[j] = cur[j]
                       /\ upto'[j] = upto[j] /\ maxSeen'[j] = maxSeen[j] /\ maxLocal'[j] = maxLocal[j]
    BY <1>1 DEF Inv, TypeOK
  <2>4. maxLocal'[k] = maxLocal[k]
    BY <1>1, <2>1 DEF Inv, TypeOK
  <2> QED
    BY <1>1, <2>2, <2>3, <2>4 DEF Unkept, Beyond
<1> QED
  BY <1>4, <1>5, <1>6, <1>7, <1>8 DEF Inv

(* What a process loads is below every open id, or at least none of them.  *)
LEMMA LoadIsSafe ==
  ASSUME Inv, NEW i \in Instances, i \notin up, NewWritersRest(i), LastIdSettled
  PROVE  /\ LoadedUpto(i) \in 1..seq
         /\ LoadedKnown(i) \subseteq 1..seq
         /\ \A w \in Writers : LoadedCur(i, w) \in 0..seq
         /\ \A k \in Writers : \A x \in Nat : OpenAt(k, x) =>
              /\ k # i /\ x > LoadedUpto(i) /\ x \notin LoadedKnown(i)
              /\ x > LoadedCur(i, k) /\ \A w \in Writers : LoadedCur(i, w) # x
<1> DEFINE P   == {Loaded(i, w) : w \in Listed(i)}
           low == Least(P)
           R   == {x \in AllRows : x >= low}
<1>1. seq \in Nat /\ seq >= 1 /\ MaxId \in Nat /\ seq <= MaxId /\ AllRows \subseteq 1..seq
  <2>1. MaxId \in Nat /\ seq \in 1..MaxId
    BY ConstantsAssumption DEF Inv, TypeOK
  <2>2. \A w \in Writers : rows[w] \subseteq 1..seq
    BY DEF Inv, TypeOK
  <2> QED
    BY <2>1, <2>2 DEF AllRows
<1>2. \A w \in Listed(i) : Loaded(i, w) \in 1..seq
  BY <1>1 DEF Listed, Loaded, Inv, TypeOK
<1>3. ASSUME Listed(i) # {} PROVE low \in P /\ low \in 1..seq /\ \A y \in P : low <= y
  <2>1. P \subseteq Nat /\ P # {}
    BY <1>2, <1>3
  <2>2. low \in P /\ \A y \in P : low <= y
    BY <2>1, LeastIsLeast
  <2> QED
    BY <1>2, <2>2
<1>4. ASSUME Listed(i) # {}
      PROVE  /\ LoadedUpto(i) = RunEnd(low, R) /\ LoadedUpto(i) \in low..seq
             /\ (low + 1)..LoadedUpto(i) \subseteq R
  <2>1. LoadedUpto(i) = RunEnd(low, R)
    BY <1>4 DEF LoadedUpto
  <2>2. low \in 0..seq /\ R \subseteq 1..seq /\ seq \in 0..MaxId
    <3>1. low \in 1..seq
      BY <1>3, <1>4
    <3>2. R \subseteq AllRows
      BY Zenon
    <3> HIDE DEF low, R
    <3> QED
      BY <1>1, <3>1, <3>2
  <2> HIDE DEF low, R
  <2>3. RunEnd(low, R) \in low..seq /\ (low + 1)..RunEnd(low, R) \subseteq R
    BY <2>2, RunEndIsRun
  <2> QED
    BY <2>1, <2>3
<1>5. ASSUME Listed(i) = {} PROVE LoadedUpto(i) \in 1..seq
  <2>1. {1} \union AllRows \subseteq 1..seq /\ {1} \union AllRows \subseteq 0..seq
    BY <1>1
  <2>2. Greatest({1} \union AllRows) \in {1} \union AllRows
    BY <1>1, <2>1, GreatestIsGreatest
  <2> QED
    BY <1>5, <2>1, <2>2 DEF LoadedUpto
<1>6. LoadedUpto(i) \in 1..seq
  BY <1>1, <1>3, <1>4, <1>5
<1>7. LoadedKnown(i) \subseteq AllRows
  BY DEF LoadedKnown
<1>8. \A w \in Writers : LoadedCur(i, w) \in 0..seq /\ LoadedCur(i, w) \in {LoadedUpto(i), Loaded(i, w)} \union rows[w]
  <2> SUFFICES ASSUME NEW w \in Writers
               PROVE  LoadedCur(i, w) \in 0..seq /\ LoadedCur(i, w) \in {LoadedUpto(i), Loaded(i, w)} \union rows[w]
    OBVIOUS
  <2> DEFINE own == {x \in rows[w] : x >= low}
  <2>1. own \subseteq 0..seq /\ own \subseteq rows[w]
    BY <1>1 DEF Inv, TypeOK
  <2>2. own # {} => Greatest(own) \in own
    BY <1>1, <2>1, GreatestIsGreatest
  <2>3. Loaded(i, w) \in 0..seq
    BY <1>1 DEF Loaded, Inv, TypeOK
  <2> QED
    BY <1>6, <1>1, <2>1, <2>2, <2>3 DEF LoadedCur
<1>9. ASSUME NEW k \in Writers, NEW x \in Nat, OpenAt(k, x)
      PROVE  /\ k # i /\ x > LoadedUpto(i) /\ x \notin LoadedKnown(i)
             /\ x > LoadedCur(i, k) /\ \A w \in Writers : LoadedCur(i, w) # x
  <2>1. Unkept(k, x) /\ Beyond(k, x) /\ k \in Instances
    BY <1>9, ConstantsAssumption DEF Inv, OpenInv
  <2>2. k # i
    BY <1>9 DEF OpenAt, OpenPcs, Inv, JobsInv
  <2>3. x \in Open(k) /\ x \in AllOpen
    BY <1>9, <2>1, OpenIsOpen DEF Inv
  <2>4. table[k] # 0 /\ k \in Listed(i) /\ Loaded(i, k) = table[k]
    BY <2>2, <2>3 DEF NewWritersRest, Listed, Loaded
  <2>5. x # seq
    BY <2>3 DEF LastIdSettled
  <2>6. x \notin AllRows
    BY <2>1 DEF Unkept, AllRows
  <2>7. x > table[k] /\ table[k] \in Nat /\ low <= table[k]
    BY <1>1, <1>3, <2>1, <2>4 DEF Beyond, Inv, TypeOK
  <2>8. x > LoadedUpto(i)
    <3>1. low \in 1..seq /\ LoadedUpto(i) \in low..seq /\ (low + 1)..LoadedUpto(i) \subseteq R
      BY <1>3, <1>4, <2>4
    <3>2. x \notin (low + 1)..LoadedUpto(i)
      BY <2>6, <3>1
    <3> QED
      BY <1>1, <2>7, <3>1, <3>2
  <2>9. x > LoadedCur(i, k)
    BY <2>2, <2>4, <2>7 DEF LoadedCur
  <2>10. \A w \in Writers : Loaded(i, w) # x
    BY <2>1, <2>5 DEF Loaded, Unkept
  <2>11. \A w \in Writers : LoadedCur(i, w) # x
    BY <1>1, <1>6, <1>8, <2>1, <2>8, <2>10 DEF Unkept
  <2> QED
    BY <1>7, <2>2, <2>6, <2>8, <2>9, <2>11
<1> QED
  BY <1>1, <1>6, <1>7, <1>8, <1>9

LEMMA StartKeeps ==
  ASSUME Inv, AnyStart = FALSE, NEW i \in Instances, Start(i)
  PROVE  Inv'
<1> DEFINE C   == [w \in Writers |-> LoadedCur(i, w)]
           T   == {LoadedCur(i, w) : w \in Writers} \union {LoadedUpto(i)}
           top == Greatest(T)
<1>1. /\ i \notin up /\ NewWritersRest(i) /\ LastIdSettled
      /\ up' = up \union {i}
      /\ cur' = [cur EXCEPT ![i] = C]
      /\ upto' = [upto EXCEPT ![i] = LoadedUpto(i)]
      /\ known' = [known EXCEPT ![i] = LoadedKnown(i)]
      /\ maxSeen' = [maxSeen EXCEPT ![i] = top] /\ maxLocal' = [maxLocal EXCEPT ![i] = top]
      /\ UNCHANGED <<seq, rows, table, sent, job, finished, stale>>
  BY DEF Start, db
<1>2. /\ LoadedUpto(i) \in 1..seq /\ LoadedKnown(i) \subseteq 1..seq
      /\ \A w \in Writers : LoadedCur(i, w) \in 0..seq
      /\ \A k \in Writers : \A x \in Nat : OpenAt(k, x) =>
           /\ k # i /\ x > LoadedUpto(i) /\ x \notin LoadedKnown(i)
           /\ x > LoadedCur(i, k) /\ \A w \in Writers : LoadedCur(i, w) # x
  BY <1>1, LoadIsSafe
<1>3. seq \in Nat
  BY ConstantsAssumption DEF Inv, TypeOK
<1>4. top \in T /\ top \in 0..seq
  <2>1. T \subseteq 0..seq /\ T # {}
    BY <1>2, <1>3
  <2> QED
    BY <2>1, <1>3, GreatestIsGreatest
<1>5. TypeOK'
  <2>1. cur' \in [Instances -> [Writers -> 0..seq]]
    BY <1>1, <1>2 DEF Inv, TypeOK
  <2>2. upto' \in [Instances -> 0..seq] /\ known' \in [Instances -> SUBSET (1..seq)]
    BY <1>1, <1>2, <1>3 DEF Inv, TypeOK
  <2>3. maxSeen' \in [Instances -> 0..seq] /\ maxLocal' \in [Instances -> 0..seq]
    BY <1>1, <1>4 DEF Inv, TypeOK
  <2> QED
    BY <1>1, <2>1, <2>2, <2>3 DEF Inv, TypeOK
<1>6. JobsInv' /\ DisjointInv'
  BY <1>1 DEF Inv, JobsInv, DisjointInv
<1>7. RunningInv'
  BY <1>1, <1>2, <1>3 DEF Inv, RunningInv, TypeOK
<1>8. OpenInv'
  <2> SUFFICES ASSUME NEW k \in Writers, NEW x \in Nat, OpenAt(k, x)'
               PROVE  Unkept(k, x)' /\ Beyond(k, x)'
    BY DEF OpenInv
  <2>1. OpenAt(k, x) /\ k \in Instances
    BY <1>1, ConstantsAssumption DEF OpenAt
  <2>2. Unkept(k, x) /\ Beyond(k, x) /\ k # i
    BY <1>2, <2>1 DEF Inv, OpenInv
  <2>3. x # top
    BY <1>2, <1>3, <1>4, <2>1
  <2>4. \A j \in up' :
          /\ x \notin known'[j] /\ x \notin finished'[j] /\ maxLocal'[j] # x /\ x > upto'[j]
          /\ maxSeen'[j] = x => j = k
          /\ \A v \in Writers : cur'[j][v] # x
          /\ x > cur'[j][k]
    <3> SUFFICES ASSUME NEW j \in up'
                 PROVE  /\ x \notin known'[j] /\ x \notin finished'[j]
                        /\ maxLocal'[j] # x /\ x > upto'[j]
                        /\ maxSeen'[j] = x => j = k
                        /\ \A v \in Writers : cur'[j][v] # x
                        /\ x > cur'[j][k]
      OBVIOUS
    <3>1. j \in Instances
      BY <1>1 DEF Inv, TypeOK
    <3>2. CASE j = i
      <4>1. /\ cur'[j] = C /\ known'[j] = LoadedKnown(i) /\ upto'[j] = LoadedUpto(i)
            /\ maxSeen'[j] = top /\ maxLocal'[j] = top
        BY <1>1, <3>2 DEF Inv, TypeOK
      <4>2. x \notin finished[i]
        BY <1>1 DEF Inv, RunningInv
      <4> QED
        BY <1>1, <1>2, <2>1, <2>3, <3>2, <4>1, <4>2
    <3>3. CASE j # i
      BY <1>1, <2>2, <3>1, <3>3 DEF Unkept, Beyond, Inv, TypeOK
    <3> QED
      BY <3>2, <3>3
  <2>5. maxLocal'[k] = maxLocal[k]
    BY <1>1, <2>1, <2>2 DEF Inv, TypeOK
  <2> QED
    BY <1>1, <2>2, <2>4, <2>5 DEF Unkept, Beyond
<1> QED
  BY <1>5, <1>6, <1>7, <1>8 DEF Inv

-----------------------------------------------------------------------------
(* The theorems, about streams whose processes do not start while the last *)
(* id is open: what a start then does is what RestartKeepsUpto shows.      *)

LEMMA InvStep ==
  ASSUME AnyStart = FALSE, Inv, [Next]_vars
  PROVE  Inv'
<1>1. ASSUME NEW i \in Instances, NEW s \in Slots, BeginFetch(i, s) PROVE Inv'
  BY <1>1, BeginFetchKeeps
<1>2. ASSUME NEW i \in Instances, NEW s \in Slots, Proceed(i, s) PROVE Inv'
  <2>1. CASE FetchFails(i, s)
    BY <2>1, FetchFailsKeeps
  <2>2. ASSUME NEW n \in 1..left.batch, NextVal(i, s, n) PROVE Inv'
    <3>1. n \in Nat \ {0}
      OBVIOUS
    <3> QED
      BY <2>2, <3>1, NextValKeeps
  <2>3. CASE AddUnfinished(i, s)
    BY <2>3, AddUnfinishedKeeps
  <2>4. CASE EndFetch(i, s) \/ RollBack(i, s)
    BY <2>4, EndFetchKeeps
  <2>5. CASE Commit(i, s)
    BY <2>5, CommitKeeps
  <2>6. CASE MarkFinished(i, s)
    BY <2>6, MarkFinishedKeeps
  <2>7. CASE SavePosition(i, s)
    BY <2>7, SavePositionKeeps
  <2> QED
    BY <1>2, <2>1, <2>2, <2>3, <2>4, <2>5, <2>6, <2>7 DEF Proceed
<1>3. ASSUME NEW w \in Writers, SendPosition(w) PROVE Inv'
  BY <1>3, SendPositionKeeps
<1>4. CASE Receive
  BY <1>4, AdvanceKeeps DEF Receive
<1>5. ASSUME NEW i \in Instances, Crash(i) PROVE Inv'
  BY <1>5, CrashKeeps
<1>6. ASSUME NEW i \in Instances, Start(i) PROVE Inv'
  BY <1>6, StartKeeps
<1>7. CASE UNCHANGED vars
  <2>1. /\ UNCHANGED <<seq, rows, table, sent, up, job, stale>>
        /\ UNCHANGED <<cur, finished, known, upto, maxSeen, maxLocal>>
    BY <1>7 DEF vars, db, memory
  <2>2. TypeOK' /\ JobsInv' /\ DisjointInv' /\ RunningInv'
    BY <2>1 DEF Inv, TypeOK, JobsInv, DisjointInv, RunningInv
  <2>3. OpenInv'
    BY <2>1, OpenInvKept DEF Inv, OpenAt
  <2> QED
    BY <2>2, <2>3 DEF Inv
<1> QED
  BY <1>1, <1>2, <1>3, <1>4, <1>5, <1>6, <1>7 DEF Next

LEMMA InvImplies == Inv => UptoIsPersisted /\ PositionsAreSafe
<1> SUFFICES ASSUME Inv PROVE UptoIsPersisted /\ PositionsAreSafe
  OBVIOUS
<1>1. \A k \in Instances : \A x : OpenAt(k, x) =>
        k \in Writers /\ x \in 1..seq /\ Unkept(k, x) /\ Beyond(k, x)
  <2> SUFFICES ASSUME NEW k \in Instances, NEW x, OpenAt(k, x)
               PROVE  k \in Writers /\ x \in 1..seq /\ Unkept(k, x) /\ Beyond(k, x)
    OBVIOUS
  <2>1. k \in Writers /\ x \in 1..seq
    BY DEF OpenAt, OpenPcs, Inv, JobsInv
  <2>2. x \in Nat
    BY <2>1, ConstantsAssumption DEF Inv, TypeOK
  <2> QED
    BY <2>1, <2>2 DEF Inv, OpenInv
<1>2. UptoIsPersisted
  BY <1>1, OpenIsOpen DEF Inv, UptoIsPersisted, Unkept
<1>3. PositionsAreSafe
  BY <1>1, OpenIsOpen, ConstantsAssumption DEF Inv, PositionsAreSafe, Beyond
<1> QED
  BY <1>2, <1>3

(* The invariant, of which every theorem is a consequence.                 *)
LEMMA InvHolds ==
  ASSUME AnyStart = FALSE
  PROVE  Spec => []Inv
<1>1. Inv /\ [Next]_vars => Inv'
  BY InvStep
<1> QED
  BY <1>1, InvInit, PTL DEF Spec

(* Positions, ids and the jobs' notes stay what they are: no position is   *)
(* ever beyond the sequence, whatever dies, fails or arrives late.         *)
THEOREM TypeCorrect ==
  ASSUME AnyStart = FALSE
  PROVE  Spec => []TypeOK
<1>1. Inv => TypeOK
  BY DEF Inv
<1> QED
  BY <1>1, InvHolds, PTL

(* get_persisted_upto_position returns what its docstring says: no id at   *)
(* or below it is still being written, in any process.                     *)
THEOREM UptoTheorem ==
  ASSUME AnyStart = FALSE
  PROVE  Spec => []UptoIsPersisted
  BY InvHolds, InvImplies, PTL

(* A position that a writer has sent, stored or is believed to have        *)
(* reached is below all its unfinished work.                               *)
THEOREM PositionsTheorem ==
  ASSUME AnyStart = FALSE
  PROVE  Spec => []PositionsAreSafe
  BY InvHolds, InvImplies, PTL

-----------------------------------------------------------------------------
(* The generators implement StreamToken *)

OpenOf(j) == IF j.pc \in OpenPcs THEN j.ids ELSE {}

(* When one job changes, so do its ids among the open ones, and no others. *)
LEMMA OpenFollows ==
  ASSUME Inv, NEW i \in Instances, NEW s \in Slots, NEW r, JobIs(i, s, r)
  PROVE  AllOpen' = (AllOpen \ OpenOf(job[i][s])) \union OpenOf(r)
<1>1. \A x : x \in AllOpen <=> \E k \in Instances, t \in Slots : x \in OpenOf(job[k][t])
  BY OpenIsOpen DEF Inv, OpenAt, OpenOf
<1>2. \A x : x \in AllOpen' <=> \E k \in Instances, t \in Slots : x \in OpenOf(job'[k][t])
  BY DEF AllOpen, Open, OpenOf, OpenPcs
<1>3. \A k \in Instances, t \in Slots : ~(k = i /\ t = s) =>
        job'[k][t] = job[k][t] /\ OpenOf(job[k][t]) \intersect OpenOf(job[i][s]) = {}
  BY DEF JobIs, Inv, DisjointInv, OpenOf
<1>4. job'[i][s] = r
  BY DEF JobIs
<1> QED
  BY <1>1, <1>2, <1>3, <1>4

LEMMA SafeIsSafe ==
  ASSUME Inv', NEW i \in up', seq' = seq, AllOpen' = AllOpen
  PROVE  Stream!Safe(upto'[i])
<1>1. UptoIsPersisted'
  BY InvImplies, PTL
<1>2. i \in Instances /\ seq \in Nat /\ upto'[i] \in 1..seq
  BY ConstantsAssumption DEF Inv, TypeOK, RunningInv
<1> QED
  BY <1>1, <1>2 DEF UptoIsPersisted, Stream!Safe

(* A job that moves on with its ids open, or with none, is not seen.       *)
LEMMA JobStepStutters ==
  ASSUME Inv, NEW i \in Instances, NEW s \in Slots, NEW r, JobIs(i, s, r),
         OpenOf(r) = OpenOf(job[i][s])
  PROVE  AllOpen' = AllOpen
<1>1. AllOpen' = (AllOpen \ OpenOf(job[i][s])) \union OpenOf(job[i][s])
  BY OpenFollows
<1>2. OpenOf(job[i][s]) \subseteq AllOpen
  BY OpenIsOpen DEF Inv, OpenAt, OpenOf
<1> QED
  BY <1>1, <1>2

StreamStep == Stream!Next \/ UNCHANGED Stream!vars

LEMMA StutterSteps ==
  ASSUME Inv, NEW i \in Instances, NEW s \in Slots,
         \/ BeginFetch(i, s) \/ AddUnfinished(i, s) \/ EndFetch(i, s) \/ SavePosition(i, s)
  PROVE  StreamStep
<1>0. job[i][s] \in Job
  BY DEF Inv, TypeOK
<1>1. UNCHANGED <<seq, rows, upto>>
  BY DEF BeginFetch, AddUnfinished, EndFetch, SavePosition, db, memory
<1>2. \E r : JobIs(i, s, r) /\ OpenOf(r) = OpenOf(job[i][s])
  <2>1. CASE BeginFetch(i, s)
    <3> DEFINE r == [pc |-> "asked", max |-> maxSeen[i], ids |-> {}]
    <3>1. maxSeen[i] \in Nat
      BY DEF Inv, TypeOK
    <3>2. r \in Job /\ job' = [job EXCEPT ![i][s] = r] /\ job[i][s].pc = "idle"
      BY <2>1, <3>1 DEF BeginFetch, At, Job, Pcs
    <3>3. JobIs(i, s, r)
      BY <3>2, JobUpdate DEF Inv
    <3> QED
      BY <3>2, <3>3 DEF OpenOf, OpenPcs
  <2>2. CASE SavePosition(i, s)
    <3>1. job' = [job EXCEPT ![i][s] = Idle] /\ job[i][s].pc = "save"
      BY <2>2 DEF SavePosition, At
    <3>2. JobIs(i, s, Idle)
      BY <3>1, JobUpdate, IdleIsJob DEF Inv
    <3> QED
      BY <3>1, <3>2, IdleIsJob DEF OpenOf, OpenPcs
  <2>3. CASE AddUnfinished(i, s) \/ EndFetch(i, s)
    <3>1. PICK pc \in {"added", "held"} : Goes(i, s, pc) /\ job[i][s].pc \in OpenPcs
      BY <2>3 DEF AddUnfinished, EndFetch, At, OpenPcs
    <3>2. JobIs(i, s, [pc |-> pc, max |-> job[i][s].max, ids |-> job[i][s].ids])
      BY <3>1, JobGoes DEF Inv, Pcs
    <3> QED
      BY <3>1, <3>2 DEF OpenOf, OpenPcs
  <2> QED
    BY <2>1, <2>2, <2>3
<1>3. AllOpen' = AllOpen
  BY <1>2, JobStepStutters
<1> QED
  BY <1>1, <1>3 DEF StreamStep, Stream!vars, AllRows

LEMMA TakeStep ==
  ASSUME Inv, NEW i \in Instances, NEW s \in Slots, NEW n \in Nat \ {0}, NextVal(i, s, n)
  PROVE  StreamStep
<1> DEFINE r == [pc |-> "got", max |-> job[i][s].max, ids |-> (seq + 1)..(seq + n)]
<1>1. /\ job' = [job EXCEPT ![i][s] = r] /\ job[i][s].pc = "asked"
      /\ seq' = seq + n /\ UNCHANGED <<rows, upto>>
  BY DEF NextVal, At, memory
<1>2. seq \in Nat /\ job[i][s] \in Job
  BY ConstantsAssumption DEF Inv, TypeOK
<1>3. r \in Job
  BY <1>2 DEF Job, Pcs
<1>4. JobIs(i, s, r)
  BY <1>1, <1>3, JobUpdate DEF Inv
<1>5. OpenOf(job[i][s]) = {} /\ OpenOf(r) = (seq + 1)..seq'
  BY <1>1 DEF OpenOf, OpenPcs
<1> HIDE DEF r
<1>6. AllOpen' = AllOpen \union ((seq + 1)..seq')
  BY <1>4, <1>5, OpenFollows
<1>7. Stream!Take
  BY <1>1, <1>2, <1>6 DEF Stream!Take, AllRows
<1> QED
  BY <1>7 DEF StreamStep, Stream!Next

LEMMA SettleStep ==
  ASSUME Inv, NEW i \in Instances, NEW s \in Slots,
         FetchFails(i, s) \/ Commit(i, s) \/ RollBack(i, s)
  PROVE  StreamStep
<1> DEFINE ids == OpenOf(job[i][s])
<1>1. UNCHANGED <<seq, upto>>
  BY DEF FetchFails, Commit, RollBack, db, memory
<1>2. \E r : JobIs(i, s, r) /\ OpenOf(r) = {}
  <2>1. CASE FetchFails(i, s)
    BY <2>1, JobUpdate, IdleIsJob DEF Inv, FetchFails, OpenOf
  <2>2. CASE Commit(i, s) \/ RollBack(i, s)
    <3>1. PICK pc \in {"written", "rolled"} : Goes(i, s, pc)
      BY <2>2 DEF Commit, RollBack
    <3>2. JobIs(i, s, [pc |-> pc, max |-> job[i][s].max, ids |-> job[i][s].ids])
      BY <3>1, JobGoes DEF Inv, Pcs
    <3> QED
      BY <3>1, <3>2 DEF OpenOf, OpenPcs
  <2> QED
    BY <2>1, <2>2
<1>3. AllOpen' = AllOpen \ ids
  BY <1>2, OpenFollows
<1>4. ids \subseteq AllOpen
  BY OpenIsOpen DEF Inv, OpenAt, OpenOf
<1>5. AllRows' = AllRows \/ AllRows' = AllRows \union ids
  <2>1. CASE FetchFails(i, s) \/ RollBack(i, s)
    BY <2>1 DEF FetchFails, RollBack, db, AllRows
  <2>2. CASE Commit(i, s)
    <3>1. rows' = [rows EXCEPT ![i] = rows[i] \union ids] /\ i \in Writers
      BY <2>2 DEF Commit, At, OpenOf, OpenPcs, Inv, JobsInv
    <3>2. \A w \in Writers : rows'[w] = IF w = i THEN rows[w] \union ids ELSE rows[w]
      BY <3>1 DEF Inv, TypeOK
    <3> HIDE DEF ids
    <3> QED
      BY <3>1, <3>2 DEF AllRows
  <2> QED
    BY <2>1, <2>2
<1>6. Stream!Settle(ids)
  BY <1>1, <1>3, <1>4, <1>5 DEF Stream!Settle
<1> QED
  BY <1>4, <1>6 DEF StreamStep, Stream!Next

LEMMA AdvanceStep ==
  ASSUME Inv, Inv', NEW i \in up, Forward(i), AllOpen' = AllOpen, UNCHANGED <<seq, rows, up>>
  PROVE  StreamStep
<1>1. i \in Instances /\ upto[i] # 0
  BY DEF Inv, TypeOK, RunningInv
<1>2. Stream!Safe(upto'[i])
  BY SafeIsSafe
<1>3. Stream!Advance(i)
  BY <1>1, <1>2 DEF Stream!Advance, Stream!Moves, Forward, AllRows
<1> QED
  BY <1>1, <1>3 DEF StreamStep, Stream!Next

LEMMA MarkFinishedStep ==
  ASSUME Inv, NEW i \in Instances, NEW s \in Slots, MarkFinished(i, s)
  PROVE  StreamStep
<1>1. UNCHANGED <<seq, rows, up>> /\ AfterFinish(i, s)
  BY DEF MarkFinished, db
<1>2. \E r : JobIs(i, s, r) /\ OpenOf(r) = {}
  <2>1. CASE Goes(i, s, "save")
    <3>1. JobIs(i, s, [pc |-> "save", max |-> job[i][s].max, ids |-> job[i][s].ids])
      BY <2>1, JobGoes DEF Inv, Pcs
    <3> QED
      BY <3>1 DEF OpenOf, OpenPcs
  <2>2. CASE job' = [job EXCEPT ![i][s] = Idle]
    BY <2>2, JobUpdate, IdleIsJob DEF Inv, OpenOf
  <2> QED
    BY <1>1, <2>1, <2>2 DEF AfterFinish
<1>3. OpenOf(job[i][s]) = {} /\ i \in up
  BY <1>1 DEF AfterFinish, At, OpenOf, OpenPcs
<1>4. AllOpen' = AllOpen
  BY <1>2, <1>3, OpenFollows
<1> QED
  BY <1>1, <1>3, <1>4, MarkFinishedKeeps, AdvanceStep

LEMMA StopStep ==
  ASSUME Inv, NEW i \in Instances, Crash(i)
  PROVE  StreamStep
<1>1. /\ job' = [job EXCEPT ![i] = [s \in Slots |-> Idle]]
      /\ upto' = [upto EXCEPT ![i] = 0] /\ UNCHANGED <<seq, rows>>
  BY DEF Crash, db
<1>2. \A k \in Instances : \A t \in Slots : job'[k][t] = IF k = i THEN Idle ELSE job[k][t]
  BY <1>1 DEF Inv, TypeOK
<1>3. \A x : x \in AllOpen <=> \E k \in Instances, t \in Slots : x \in OpenOf(job[k][t])
  BY OpenIsOpen DEF Inv, OpenAt, OpenOf
<1>4. \A x : x \in AllOpen' <=> \E k \in Instances, t \in Slots : x \in OpenOf(job'[k][t])
  BY DEF AllOpen, Open, OpenOf, OpenPcs
<1>5. AllOpen' \subseteq AllOpen
  BY <1>2, <1>3, <1>4, IdleIsJob DEF OpenOf
<1> DEFINE ids == AllOpen \ AllOpen'
<1>6. Stream!Stop(i, ids)
  BY <1>1, <1>5 DEF Stream!Stop, AllRows
<1> QED
  BY <1>6 DEF StreamStep, Stream!Next

LEMMA ResumeStep ==
  ASSUME AnyStart = FALSE, Inv, NEW i \in Instances, Start(i)
  PROVE  StreamStep
<1>1. /\ i \notin up /\ up' = up \union {i}
      /\ upto' = [upto EXCEPT ![i] = LoadedUpto(i)] /\ UNCHANGED <<seq, rows, job>>
  BY DEF Start, db
<1>2. upto[i] = 0 /\ upto'[i] = LoadedUpto(i) /\ AllOpen' = AllOpen
  BY <1>1 DEF Inv, RunningInv, TypeOK, AllOpen, Open
<1>3. Stream!Safe(upto'[i])
  BY <1>1, <1>2, StartKeeps, SafeIsSafe
<1>4. Stream!Resume(i)
  BY <1>1, <1>2, <1>3 DEF Stream!Resume, Stream!Moves, AllRows
<1> QED
  BY <1>4 DEF StreamStep, Stream!Next

LEMMA StepRefines ==
  ASSUME AnyStart = FALSE, Inv, [Next]_vars
  PROVE  StreamStep
<1>1. ASSUME NEW i \in Instances, NEW s \in Slots, BeginFetch(i, s) PROVE StreamStep
  BY <1>1, StutterSteps
<1>2. ASSUME NEW i \in Instances, NEW s \in Slots, Proceed(i, s) PROVE StreamStep
  <2>1. CASE FetchFails(i, s) \/ Commit(i, s) \/ RollBack(i, s)
    BY <2>1, SettleStep
  <2>2. ASSUME NEW n \in 1..left.batch, NextVal(i, s, n) PROVE StreamStep
    <3>1. n \in Nat \ {0}
      OBVIOUS
    <3> QED
      BY <2>2, <3>1, TakeStep
  <2>3. CASE AddUnfinished(i, s) \/ EndFetch(i, s) \/ SavePosition(i, s)
    BY <2>3, StutterSteps
  <2>4. CASE MarkFinished(i, s)
    BY <2>4, MarkFinishedStep
  <2> QED
    BY <1>2, <2>1, <2>2, <2>3, <2>4 DEF Proceed
<1>3. ASSUME NEW w \in Writers, SendPosition(w) PROVE StreamStep
  BY <1>3 DEF SendPosition, db, memory, StreamStep, Stream!vars, AllOpen, Open, AllRows
<1>4. ASSUME NEW i \in Instances, NEW w \in Writers, NEW t \in 1..MaxId, Advance(i, w, t)
      PROVE  StreamStep
  <2>1. i \in up /\ UNCHANGED <<seq, rows, up, job>>
    BY <1>4 DEF Advance, db
  <2>2. AllOpen' = AllOpen
    BY <2>1 DEF AllOpen, Open
  <2> QED
    BY <1>4, <2>1, <2>2, AdvanceKeeps, AdvanceStep
<1>5. ASSUME NEW i \in Instances, Crash(i) PROVE StreamStep
  BY <1>5, StopStep
<1>6. ASSUME NEW i \in Instances, Start(i) PROVE StreamStep
  BY <1>6, ResumeStep
<1>7. CASE UNCHANGED vars
  BY <1>7 DEF vars, db, memory, StreamStep, Stream!vars, AllOpen, Open, AllRows
<1> QED
  BY <1>1, <1>2, <1>3, <1>4, <1>5, <1>6, <1>7 DEF Next, Receive

(* Whatever the interleaving of jobs, deliveries and deaths, readers of    *)
(* the stream see only what StreamToken allows: the position of a running  *)
(* process moves forward, past ids that are settled.                       *)
THEOREM StreamIdsImplementStreamToken ==
  ASSUME AnyStart = FALSE
  PROVE  Spec => ImplementsStream
<1>1. Init => Stream!Init
  <2> SUFFICES ASSUME Init PROVE Stream!Init
    OBVIOUS
  <2>1. AllOpen = {} /\ AllRows = {}
    BY DEF Init, AllOpen, Open, AllRows, Idle
  <2> QED
    BY <2>1 DEF Init, Stream!Init
<1>2. Inv /\ [Next]_vars => [Stream!Next]_(Stream!vars)
  BY StepRefines DEF StreamStep
<1> QED
  BY <1>1, <1>2, InvHolds, PTL DEF Spec, ImplementsStream, Stream!Spec

(* A reader that asks for the rows up to the persisted position of any     *)
(* process, and does not look there again, misses none.                    *)
THEOREM NothingIsMissedTheorem ==
  ASSUME AnyStart = FALSE
  PROVE  Spec => Stream!NothingIsMissed
<1>1. Inv /\ [Next]_vars => [\A x \in AllRows' \ AllRows : \A i \in Instances : x > upto[i]]_(Stream!vars)
  <2> SUFFICES ASSUME Inv, [Next]_vars, NEW x \in AllRows' \ AllRows, NEW i \in Instances
               PROVE  x > upto[i]
    OBVIOUS
  <2>1. x \in AllOpen
    BY StepRefines DEF StreamStep, Stream!Next, Stream!vars, Stream!Take, Stream!Settle,
                       Stream!Advance, Stream!Resume, Stream!Stop
  <2>2. x \in 1..seq /\ seq \in Nat
    BY <2>1, OpenIsOpen, ConstantsAssumption DEF Inv, TypeOK, OpenAt, OpenPcs, JobsInv
  <2>3. UptoIsPersisted
    BY InvImplies
  <2>4. CASE i \in up
    BY <2>1, <2>3, <2>4 DEF UptoIsPersisted
  <2>5. CASE i \notin up
    BY <2>2, <2>5 DEF Inv, RunningInv
  <2> QED
    BY <2>4, <2>5
<1> QED
  BY <1>1, InvHolds, PTL DEF Spec, Stream!NothingIsMissed

-----------------------------------------------------------------------------
(* Nobody lags for ever *)

WorkPcs  == {"asked", "got", "added", "held", "written", "rolled"}
AtWork(i) == \E s \in Slots : job[i][s].pc \in WorkPcs

(* The position of i has followed the least of what it knows of the other  *)
(* writers, or its own if it writes alone.                                 *)
Follows(i) ==
  IF Writers \ {i} = {} THEN i \in Writers => cur[i][i] <= upto[i]
  ELSE \E w \in Writers \ {i} : cur[i][w] <= upto[i]

(* A row of i is still to be marked finished, or waits for an older id ... *)
Pending(i, x) ==
  x \in finished[i] \/ \E s \in Slots : job[i][s].pc = "written" /\ x \in job[i][s].ids

(* ... or i tells the others that it is past it.                           *)
Reached(i, x) == x <= maxLocal[i] /\ (Writers = {i} => x <= cur[i][i])

(* At rest, a writer tells the others of everything it has seen, and its   *)
(* position has followed; what it knows of the others it has seen.         *)
LagAt(i) ==
  /\ ~AtWork(i) /\ i \notin stale =>
       maxSeen[i] <= maxLocal[i] /\ Follows(i) /\ (Writers = {i} => finished[i] = {})
  /\ \A w \in Writers \ {i} : cur[i][w] <= maxSeen[i]
  /\ \A x \in finished[i] : x <= maxSeen[i]
  /\ \A s \in Slots : job[i][s].pc \in WorkPcs \ {"asked", "got"} => \A x \in job[i][s].ids : x <= maxSeen[i]
  /\ \A s \in Slots : job[i][s].pc \in WorkPcs \ {"asked"} => job[i][s].ids # {}
  /\ i \in Writers => \A x \in rows[i] : Pending(i, x) \/ Reached(i, x)

LagInv == \A i \in up : LagAt(i)

LEMMA LagKept ==
  ASSUME NEW k \in Instances, LagAt(k), \A s \in Slots : job'[k][s] = job[k][s],
         cur'[k] = cur[k], finished'[k] = finished[k], upto'[k] = upto[k],
         maxSeen'[k] = maxSeen[k], maxLocal'[k] = maxLocal[k],
         k \in Writers => rows'[k] = rows[k], k \in stale => k \in stale'
  PROVE  LagAt(k)'
BY DEF LagAt, AtWork, Follows, Pending, Reached

LEMMA LagTypes ==
  ASSUME Inv
  PROVE  /\ seq \in Nat /\ seq >= 1 /\ seq <= MaxId /\ MaxId \in Nat
         /\ \A i \in Instances :
              /\ finished[i] \subseteq 1..seq /\ known[i] \subseteq 1..seq /\ cur[i] \in [Writers -> 0..seq]
              /\ upto[i] \in 0..seq /\ maxSeen[i] \in 0..seq /\ maxLocal[i] \in 0..seq
              /\ \A s \in Slots : job[i][s].ids \subseteq 1..seq
         /\ \A w \in Writers : rows[w] \subseteq 1..seq /\ table[w] \in 0..seq /\ w \in Instances
<1>1. seq \in 1..MaxId /\ MaxId \in Nat
  BY ConstantsAssumption DEF Inv, TypeOK
<1> QED
  BY <1>1, ConstantsAssumption DEF Inv, TypeOK, JobsInv

(* A step of a job other than MarkFinished.                                *)
LEMMA LagJobStep ==
  ASSUME Inv, NEW i \in Instances, NEW s \in Slots, NEW r, JobIs(i, s, r), LagAt(i),
         cur'[i] = cur[i], finished'[i] = finished[i], upto'[i] = upto[i], maxLocal'[i] = maxLocal[i],
         job[i][s].pc # "written", i \in stale => i \in stale',
         maxSeen'[i] \in Nat, maxSeen'[i] >= maxSeen[i],
         maxSeen'[i] = maxSeen[i] \/ r.pc \in WorkPcs,
         r.pc \in WorkPcs \/ i \in stale' \/ job[i][s].pc \notin WorkPcs,
         r.pc \in WorkPcs \ {"asked"} => r.ids # {},
         r.pc \in WorkPcs \ {"asked", "got"} => \A x \in r.ids : x <= maxSeen'[i],
         i \in Writers => \A x \in rows'[i] : x \in rows[i] \/ (r.pc = "written" /\ x \in r.ids)
  PROVE  LagAt(i)'
<1>0. /\ maxSeen[i] \in Nat /\ finished[i] \subseteq Nat /\ \A w \in Writers : cur[i][w] \in Nat
      /\ \A t \in Slots : job[i][t].ids \subseteq Nat
  BY LagTypes
<1>1. job'[i][s] = r /\ \A t \in Slots : t # s => job'[i][t] = job[i][t]
  BY DEF JobIs
<1>2. ~AtWork(i)' /\ i \notin stale' => ~AtWork(i) /\ i \notin stale /\ maxSeen'[i] = maxSeen[i]
  BY <1>1 DEF AtWork
<1>3. Follows(i) => Follows(i)'
  BY DEF Follows
<1>4. ~AtWork(i)' /\ i \notin stale' =>
        maxSeen'[i] <= maxLocal'[i] /\ Follows(i)' /\ (Writers = {i} => finished'[i] = {})
  BY <1>2, <1>3 DEF LagAt
<1>5. (\A w \in Writers \ {i} : cur'[i][w] <= maxSeen'[i]) /\ (\A x \in finished'[i] : x <= maxSeen'[i])
  BY <1>0 DEF LagAt
<1>6. /\ \A t \in Slots : job'[i][t].pc \in WorkPcs \ {"asked", "got"} => \A x \in job'[i][t].ids : x <= maxSeen'[i]
      /\ \A t \in Slots : job'[i][t].pc \in WorkPcs \ {"asked"} => job'[i][t].ids # {}
  BY <1>0, <1>1 DEF LagAt
<1>7. i \in Writers => \A x \in rows'[i] : Pending(i, x)' \/ Reached(i, x)'
  <2> SUFFICES ASSUME i \in Writers, NEW x \in rows'[i] PROVE Pending(i, x)' \/ Reached(i, x)'
    OBVIOUS
  <2>1. CASE x \in rows[i] /\ Pending(i, x)
    BY <1>1, <2>1 DEF Pending
  <2>2. CASE x \in rows[i] /\ Reached(i, x)
    BY <2>2 DEF Reached
  <2>3. CASE r.pc = "written" /\ x \in r.ids
    BY <1>1, <2>3 DEF Pending
  <2> QED
    BY <2>1, <2>2, <2>3 DEF LagAt
<1> QED
  BY <1>4, <1>5, <1>6, <1>7 DEF LagAt

(* What AddPersisted achieves when nothing is in flight or unfinished.     *)
LEMMA AddPersistedFollows ==
  ASSUME Inv, NEW i \in Instances, NEW ids, NEW c, NEW m \in 0..seq, NEW seen \in 0..seq, NEW busy \in BOOLEAN,
         ids \subseteq 1..seq, c \in [Writers -> 0..seq], Writers \ {i} # {} \/ i \in Writers,
         AddPersisted(i, ids, c, m, seen, busy)
  PROVE  /\ maxLocal'[i] >= m /\ (~busy => maxLocal'[i] >= seen) /\ maxLocal'[i] \in 0..seq
         /\ ~busy => IF Writers \ {i} = {} THEN c[i] <= upto'[i]
                     ELSE \E w \in Writers \ {i} : c[w] <= upto'[i]
         /\ i \notin stale'
         /\ \A k \in Instances : k # i =>
              upto'[k] = upto[k] /\ maxLocal'[k] = maxLocal[k] /\ (k \in stale' <=> k \in stale)
<1> DEFINE low  == MinCurr(i, c, busy)
           base == Base(i, c, busy)
           S    == known[i] \union ids
           end  == RunEnd(base, S)
           top  == LocalMax(m, base, seen, busy)
           M    == {m, base} \union IF busy THEN {} ELSE {seen}
<1>0. /\ seq \in Nat /\ seq <= MaxId /\ MaxId \in Nat /\ upto[i] \in 0..seq /\ known[i] \subseteq 1..seq
  BY LagTypes
<1>1. low \in 0..seq /\ (~busy => IF Writers \ {i} = {} THEN c[i] = low
                                  ELSE \E w \in Writers \ {i} : c[w] = low)
  <2>1. CASE Writers \ {i} = {}
    BY <2>1 DEF MinCurr
  <2>2. CASE Writers \ {i} # {}
    <3> DEFINE W == IF busy THEN Writers ELSE Writers \ {i}
               L == {c[w] : w \in W}
    <3>1. L \subseteq 0..seq /\ L \subseteq Nat /\ L # {}
      BY <2>2, <1>0
    <3>2. low \in L
      BY <3>1, <2>2, LeastIsLeast DEF MinCurr
    <3> QED
      BY <2>2, <3>1, <3>2
  <2> QED
    BY <2>1, <2>2
<1>2. base \in 0..seq /\ base >= low
  <2>1. {low, upto[i]} \subseteq 0..seq
    BY <1>0, <1>1
  <2> QED
    BY <1>0, <2>1, GreatestIsGreatest DEF Base
<1>3. S \subseteq 1..seq /\ seq \in 0..MaxId
  <2>1. S \subseteq 1..seq
    BY <1>0, Zenon
  <2>2. seq \in 0..MaxId
    BY <1>0
  <2> QED
    BY <2>1, <2>2
<1>4. end \in base..seq
  <2> HIDE DEF base, S
  <2> QED
    BY <1>0, <1>2, <1>3, RunEndIsRun
<1>5. top \in M /\ \A y \in M : y <= top
  <2>1. M \subseteq 0..seq /\ M # {}
    BY <1>2
  <2> QED
    BY <2>1, <1>0, GreatestIsGreatest DEF LocalMax
<1>6. /\ upto' = [upto EXCEPT ![i] = end] /\ maxLocal' = [maxLocal EXCEPT ![i] = top] /\ stale' = stale \ {i}
  BY DEF AddPersisted
<1>7. upto'[i] = end /\ maxLocal'[i] = top
  BY <1>6 DEF Inv, TypeOK
<1>8. top >= m /\ (~busy => top >= seen) /\ top \in 0..seq
  BY <1>2, <1>5
<1>9. end >= low
  BY <1>0, <1>1, <1>2, <1>4
<1>10. ~busy => IF Writers \ {i} = {} THEN c[i] <= end ELSE \E w \in Writers \ {i} : c[w] <= end
  <2> HIDE DEF low, end
  <2> QED
    BY <1>1, <1>9
<1>11. \A k \in Instances : k # i =>
         upto'[k] = upto[k] /\ maxLocal'[k] = maxLocal[k] /\ (k \in stale' <=> k \in stale)
  BY <1>6 DEF Inv, TypeOK
<1>12. i \notin stale'
  BY <1>6
<1> HIDE DEF end, top
<1> QED
  BY <1>7, <1>8, <1>10, <1>11, <1>12

(* Something is in flight or unfinished just while a job is at work.       *)
LEMMA BusyIsAtWork ==
  ASSUME NEW i \in Instances, LagAt(i)
  PROVE  (Unfinished(i) # {} \/ InFlight(i) # {}) <=> AtWork(i)
<1>1. ASSUME NEW s \in Slots, job[i][s].pc \in WorkPcs PROVE Unfinished(i) # {} \/ InFlight(i) # {}
  <2>1. CASE job[i][s].pc \in {"asked", "got", "added"}
    <3>1. job[i][s].max \in InFlight(i)
      BY <2>1 DEF InFlight
    <3> QED
      BY <3>1
  <2>2. CASE job[i][s].pc \in {"held", "written", "rolled"}
    <3>1. PICK x \in job[i][s].ids : TRUE
      BY <2>2 DEF LagAt, WorkPcs
    <3>2. x \in Unfinished(i)
      BY <2>2, <3>1 DEF Unfinished, UnfinishedIn
    <3> QED
      BY <3>2
  <2> QED
    BY <1>1, <2>1, <2>2 DEF WorkPcs
<1>2. Unfinished(i) # {} \/ InFlight(i) # {} => AtWork(i)
  BY DEF Unfinished, UnfinishedIn, InFlight, AtWork, WorkPcs
<1> QED
  BY <1>1, <1>2 DEF AtWork

LEMMA AdvanceLag ==
  ASSUME Inv, LagInv, NEW i \in Instances, NEW w \in Writers, NEW t \in 1..MaxId, Advance(i, w, t)
  PROVE  LagInv'
<1> DEFINE c    == [cur[i] EXCEPT ![w] = Greatest({@, t})]
           busy == Unfinished(i) # {} \/ InFlight(i) # {}
           seen == Greatest({maxSeen[i], t})
<1>1. /\ i \in up /\ i # w /\ <<w, t>> \in sent
      /\ cur' = [cur EXCEPT ![i] = c] /\ maxSeen' = [maxSeen EXCEPT ![i] = seen]
      /\ AddPersisted(i, {t}, c, maxLocal[i], seen, busy)
      /\ UNCHANGED <<seq, rows, up, job, finished>>
  BY DEF Advance, db
<1>2. /\ seq \in Nat /\ cur[i] \in [Writers -> 0..seq] /\ maxSeen[i] \in 0..seq /\ maxLocal[i] \in 0..seq
      /\ finished[i] \subseteq 1..seq /\ \A s \in Slots : job[i][s].ids \subseteq 1..seq
      /\ i \in Writers => rows[i] \subseteq 1..seq
  BY LagTypes
<1>3. t \in 1..seq
  <2>1. t \in 0..seq /\ t \in Nat /\ t >= 1
    BY <1>1, <1>2, ConstantsAssumption DEF Inv, TypeOK
  <2> QED
    BY <1>2, <2>1
<1>4. /\ Greatest({cur[i][w], t}) \in {cur[i][w], t} /\ seen \in {maxSeen[i], t}
      /\ seen >= maxSeen[i] /\ seen >= t
  BY <1>2, <1>3, GreatestIsGreatest
<1>5. c \in [Writers -> 0..seq] /\ seen \in 0..seq /\ \A v \in Writers : c[v] \in {cur[i][v], t}
  BY <1>2, <1>3, <1>4
<1>6. LagAt(i) /\ (busy <=> AtWork(i))
  BY <1>1, BusyIsAtWork DEF LagInv
<1>7. cur'[i] = c /\ maxSeen'[i] = seen
  BY <1>1 DEF Inv, TypeOK
<1> HIDE DEF c, busy, seen
<1>8. /\ maxLocal'[i] >= maxLocal[i] /\ (~busy => maxLocal'[i] >= seen) /\ maxLocal'[i] \in 0..seq
      /\ ~busy => IF Writers \ {i} = {} THEN c[i] <= upto'[i]
                  ELSE \E v \in Writers \ {i} : c[v] <= upto'[i]
      /\ \A k \in Instances : k # i =>
           upto'[k] = upto[k] /\ maxLocal'[k] = maxLocal[k] /\ (k \in stale' <=> k \in stale)
  <2>1. {t} \subseteq 1..seq /\ Writers \ {i} # {}
    BY <1>1, <1>3
  <2>2. busy \in BOOLEAN
    BY DEF busy
  <2> QED
    BY <1>1, <1>2, <1>5, <2>1, <2>2, AddPersistedFollows
<1>9. LagAt(i)'
  <2>1. Writers # {i} /\ Writers \ {i} # {}
    BY <1>1
  <2>2. ~AtWork(i)' => ~AtWork(i)
    BY <1>1 DEF AtWork
  <2>3. ~AtWork(i)' => maxSeen'[i] <= maxLocal'[i] /\ Follows(i)'
    BY <1>2, <1>5, <1>6, <1>7, <1>8, <2>1, <2>2 DEF Follows
  <2>4. \A v \in Writers \ {i} : cur'[i][v] <= maxSeen'[i]
    BY <1>2, <1>3, <1>4, <1>5, <1>6, <1>7 DEF LagAt
  <2>5. \A x \in Nat : x <= maxSeen[i] => x <= maxSeen'[i]
    BY <1>2, <1>4, <1>5, <1>7
  <2>6. \A x \in finished'[i] : x <= maxSeen'[i]
    BY <1>1, <1>2, <1>6, <2>5 DEF LagAt
  <2>7. /\ \A s \in Slots : job'[i][s].pc \in WorkPcs \ {"asked", "got"} => \A x \in job'[i][s].ids : x <= maxSeen'[i]
        /\ \A s \in Slots : job'[i][s].pc \in WorkPcs \ {"asked"} => job'[i][s].ids # {}
    BY <1>1, <1>2, <1>6, <2>5 DEF LagAt
  <2>8. i \in Writers => \A x \in rows'[i] : Pending(i, x)' \/ Reached(i, x)'
    <3> SUFFICES ASSUME i \in Writers, NEW x \in rows[i] PROVE Pending(i, x)' \/ Reached(i, x)'
      BY <1>1
    <3>1. CASE Pending(i, x)
      BY <1>1, <3>1 DEF Pending
    <3>2. CASE Reached(i, x)
      BY <1>2, <1>8, <2>1, <3>2 DEF Reached
    <3> QED
      BY <1>6, <3>1, <3>2 DEF LagAt
  <2> QED
    BY <2>1, <2>3, <2>4, <2>6, <2>7, <2>8 DEF LagAt
<1>10. ASSUME NEW k \in up, k # i PROVE LagAt(k)'
  <2>1. k \in Instances /\ LagAt(k)
    BY <1>10 DEF Inv, TypeOK, LagInv
  <2>2. cur'[k] = cur[k] /\ maxSeen'[k] = maxSeen[k]
    BY <1>1, <1>10, <2>1 DEF Inv, TypeOK
  <2> QED
    BY <1>1, <1>8, <1>10, <2>1, <2>2, LagKept
<1> QED
  BY <1>1, <1>9, <1>10 DEF LagInv

LEMMA MarkFinishedLag ==
  ASSUME Inv, LagInv, NEW i \in Instances, NEW s \in Slots, MarkFinished(i, s)
  PROVE  LagInv'
<1> DEFINE ids  == job[i][s].ids
           rest == UnfinishedIn([job[i] EXCEPT ![s] = Idle])
           busy == rest # {} \/ InFlight(i) # {}
           all  == finished[i] \union ids
           low  == MinUnfinished(i, rest)
           done == {x \in all : x < low}
           top  == Greatest({cur[i][i]} \union done)
           c    == [cur[i] EXCEPT ![i] = top]
           m    == IF done = {} THEN maxLocal[i] ELSE Greatest({c[i], maxLocal[i]})
<1>1. /\ AfterFinish(i, s)
      /\ finished' = [finished EXCEPT ![i] = all \ done]
      /\ cur' = [cur EXCEPT ![i] = c]
      /\ AddPersisted(i, ids, c, m, maxSeen[i], busy)
      /\ UNCHANGED <<seq, rows, up, maxSeen>>
  BY DEF MarkFinished, db
<1>2. PICK r \in Job : /\ JobIs(i, s, r) /\ r.pc \in {"save", "idle"}
                       /\ i \in up /\ job[i][s].pc \in {"written", "rolled"}
  <2>1. CASE At(i, s, "written") /\ Goes(i, s, "save")
    <3> DEFINE r == [pc |-> "save", max |-> job[i][s].max, ids |-> ids]
    <3>1. r \in Job
      BY DEF Inv, TypeOK, Job, Pcs
    <3>2. JobIs(i, s, r)
      BY <2>1, JobGoes DEF Inv, Pcs
    <3> QED
      BY <2>1, <3>1, <3>2 DEF At
  <2>2. CASE (At(i, s, "written") \/ At(i, s, "rolled")) /\ job' = [job EXCEPT ![i][s] = Idle]
    BY <2>2, IdleIsJob, JobUpdate DEF At, Inv
  <2> QED
    BY <1>1, <2>1, <2>2 DEF AfterFinish
<1>3. /\ seq \in Nat /\ seq <= MaxId /\ MaxId \in Nat /\ i \in Writers
      /\ ids \subseteq 1..seq /\ finished[i] \subseteq 1..seq /\ all \subseteq 1..seq
      /\ cur[i] \in [Writers -> 0..seq] /\ cur[i][i] \in 0..seq
      /\ maxSeen[i] \in 0..seq /\ maxLocal[i] \in 0..seq /\ rows[i] \subseteq 1..seq
  <2>1. i \in Writers
    BY <1>2 DEF Inv, JobsInv
  <2> QED
    BY <2>1, LagTypes
<1>4. LagAt(i)
  BY <1>2 DEF LagInv
<1>5. job'[i][s].pc \in {"save", "idle"} /\ \A t \in Slots : t # s => job'[i][t] = job[i][t]
  BY <1>2 DEF JobIs
<1>6. top \in {cur[i][i]} \union done /\ top \in 0..seq /\ top >= cur[i][i] /\ \A x \in done : x <= top
  <2>1. {cur[i][i]} \union done \subseteq 0..seq
    BY <1>3
  <2> QED
    BY <1>3, <2>1, GreatestIsGreatest
<1>7. c \in [Writers -> 0..seq] /\ c[i] = top /\ \A w \in Writers \ {i} : c[w] = cur[i][w]
  BY <1>3, <1>6
<1>8. m \in 0..seq /\ m >= maxLocal[i] /\ (done # {} => m >= top)
  <2>1. CASE done = {}
    <3>1. m = maxLocal[i]
      BY <2>1
    <3> HIDE DEF m
    <3> QED
      BY <1>3, <2>1, <3>1
  <2>2. CASE done # {}
    <3>1. m = Greatest({top, maxLocal[i]})
      BY <1>7, <2>2
    <3>2. {top, maxLocal[i]} \subseteq 0..seq
      BY <1>3, <1>6
    <3> HIDE DEF m, top
    <3>3. m \in {top, maxLocal[i]} /\ \A y \in {top, maxLocal[i]} : y <= m
      BY <1>3, <3>1, <3>2, GreatestIsGreatest
    <3> QED
      BY <3>2, <3>3
  <2> QED
    BY <2>1, <2>2
(* At rest after the step, nothing was in flight or unfinished elsewhere.  *)
<1>9. ~AtWork(i)' => ~busy /\ done = all
  <2> SUFFICES ASSUME ~AtWork(i)' PROVE ~busy /\ done = all
    OBVIOUS
  <2>1. \A t \in Slots : t # s => job[i][t].pc \notin WorkPcs
    BY <1>5 DEF AtWork
  <2>2. InFlight(i) = {}
    BY <1>2, <2>1 DEF InFlight, WorkPcs
  <2>3. rest = {}
    <3>1. \A t \in Slots : [job[i] EXCEPT ![s] = Idle][t] = IF t = s THEN Idle ELSE job[i][t]
      BY DEF Inv, TypeOK
    <3> QED
      BY <2>1, <3>1, IdleIsJob DEF UnfinishedIn, WorkPcs
  <2>4. low = MaxId + 1
    <3>1. rest \union {z + 1 : z \in InFlight(i)} \union {MaxId + 1} = {MaxId + 1}
      BY <2>2, <2>3
    <3>2. Least({MaxId + 1}) \in {MaxId + 1}
      BY <1>3, LeastIsLeast
    <3> QED
      BY <3>1, <3>2 DEF MinUnfinished
  <2>5. \A x \in all : x < MaxId + 1
    BY <1>3
  <2> HIDE DEF all, low
  <2> QED
    BY <2>2, <2>3, <2>4, <2>5
<1>10. cur'[i] = c /\ finished'[i] = all \ done /\ maxSeen'[i] = maxSeen[i]
  BY <1>1 DEF Inv, TypeOK
<1>11. \A x \in all : x <= maxSeen[i]
  BY <1>2, <1>4 DEF LagAt, WorkPcs
<1>12. /\ maxLocal'[i] >= m /\ (~busy => maxLocal'[i] >= maxSeen[i]) /\ maxLocal'[i] \in 0..seq
       /\ ~busy => IF Writers \ {i} = {} THEN c[i] <= upto'[i]
                   ELSE \E v \in Writers \ {i} : c[v] <= upto'[i]
       /\ \A k \in Instances : k # i =>
            upto'[k] = upto[k] /\ maxLocal'[k] = maxLocal[k] /\ (k \in stale' <=> k \in stale)
  <2>1. busy \in BOOLEAN
    OBVIOUS
  <2> HIDE DEF ids, c, m, busy
  <2> QED
    BY <1>1, <1>3, <1>7, <1>8, <2>1, AddPersistedFollows
<1>13. LagAt(i)'
  <2> HIDE DEF c, m, busy, top
  <2>1. ~AtWork(i)' => maxSeen'[i] <= maxLocal'[i] /\ Follows(i)' /\ finished'[i] = {}
    <3> SUFFICES ASSUME ~AtWork(i)' PROVE maxSeen'[i] <= maxLocal'[i] /\ Follows(i)' /\ finished'[i] = {}
      OBVIOUS
    <3>1. ~busy /\ finished'[i] = {}
      BY <1>9, <1>10
    <3>2. Follows(i)'
      BY <1>10, <1>12, <3>1 DEF Follows
    <3> HIDE DEF all, done
    <3> QED
      BY <1>3, <1>10, <1>12, <3>1, <3>2
  <2>2. \A w \in Writers \ {i} : cur'[i][w] <= maxSeen'[i]
    BY <1>4, <1>7, <1>10 DEF LagAt
  <2>3. \A x \in finished'[i] : x <= maxSeen'[i]
    BY <1>10, <1>11
  <2>4. /\ \A t \in Slots : job'[i][t].pc \in WorkPcs \ {"asked", "got"} => \A x \in job'[i][t].ids : x <= maxSeen'[i]
        /\ \A t \in Slots : job'[i][t].pc \in WorkPcs \ {"asked"} => job'[i][t].ids # {}
    <3> HIDE DEF all, done
    <3> QED
      BY <1>4, <1>5, <1>10 DEF LagAt, WorkPcs
  <2>5. \A x \in rows'[i] : Pending(i, x)' \/ Reached(i, x)'
    <3> SUFFICES ASSUME NEW x \in rows[i] PROVE Pending(i, x)' \/ Reached(i, x)'
      BY <1>1
    <3>0. x \in Nat
      BY <1>3
    <3>1. CASE x \in done
      <4>1. x <= top /\ top <= m
        BY <1>3, <1>6, <1>8, <3>1
      <4>2. x <= maxLocal'[i] /\ x <= cur'[i][i]
        <5>1. maxLocal'[i] >= m /\ maxLocal'[i] \in Nat /\ m \in Nat /\ top \in Nat /\ cur'[i][i] = top
          BY <1>3, <1>6, <1>7, <1>8, <1>10, <1>12
        <5> QED
          BY <3>0, <4>1, <5>1
      <4> QED
        BY <4>2 DEF Reached
    <3>2. CASE x \in all \ done
      BY <1>10, <3>2 DEF Pending
    <3>3. CASE \E t \in Slots : t # s /\ job[i][t].pc = "written" /\ x \in job[i][t].ids
      BY <1>5, <3>3 DEF Pending
    <3>4. CASE Reached(i, x)
      <4>1. /\ maxLocal'[i] >= m /\ m >= maxLocal[i] /\ cur'[i][i] = top /\ top >= cur[i][i]
            /\ maxLocal'[i] \in Nat /\ m \in Nat /\ maxLocal[i] \in Nat /\ top \in Nat /\ cur[i][i] \in Nat
        BY <1>3, <1>6, <1>7, <1>8, <1>10, <1>12
      <4> QED
        BY <3>0, <3>4, <4>1 DEF Reached
    <3> QED
      BY <1>3, <1>4, <3>1, <3>2, <3>3, <3>4 DEF LagAt, Pending
  <2> QED
    BY <2>1, <2>2, <2>3, <2>4, <2>5 DEF LagAt
<1>14. ASSUME NEW k \in up, k # i PROVE LagAt(k)'
  <2>1. k \in Instances /\ LagAt(k)
    BY DEF Inv, TypeOK, LagInv
  <2>2. cur'[k] = cur[k] /\ maxSeen'[k] = maxSeen[k] /\ finished'[k] = finished[k]
    BY <1>1, <1>14, <2>1 DEF Inv, TypeOK
  <2>3. \A t \in Slots : job'[k][t] = job[k][t]
    BY <1>2, <1>14, <2>1 DEF JobIs
  <2> QED
    BY <1>1, <1>12, <1>14, <2>1, <2>2, <2>3, LagKept
<1> QED
  BY <1>1, <1>13, <1>14 DEF LagInv

(* What a process loads has followed what it has loaded of the others, and *)
(* is past its own rows.                                                   *)
LEMMA LoadFollows ==
  ASSUME Inv, NEW i \in Instances, i \notin up, NewWritersRest(i), LastIdSettled
  PROVE  /\ IF Writers \ {i} = {} THEN i \in Writers => LoadedCur(i, i) <= LoadedUpto(i)
            ELSE \E w \in Writers \ {i} : LoadedCur(i, w) <= LoadedUpto(i)
         /\ i \in Writers => \A x \in rows[i] :
              /\ x <= LoadedCur(i, i) \/ x <= LoadedUpto(i)
              /\ Writers = {i} => x <= LoadedCur(i, i)
<1> DEFINE P   == {Loaded(i, w) : w \in Listed(i)}
           low == Least(P)
           R   == {x \in AllRows : x >= low}
<1>1. seq \in Nat /\ seq >= 1 /\ MaxId \in Nat /\ seq <= MaxId /\ AllRows \subseteq 1..seq
  <2>1. seq \in Nat /\ seq >= 1 /\ MaxId \in Nat /\ seq <= MaxId /\ \A w \in Writers : rows[w] \subseteq 1..seq
    BY LagTypes
  <2> QED
    BY <2>1 DEF AllRows
<1>2. \A w \in Listed(i) : Loaded(i, w) \in 1..seq
  BY <1>1 DEF Listed, Loaded, Inv, TypeOK
<1>3. /\ LoadedUpto(i) \in 1..seq /\ \A w \in Writers : LoadedCur(i, w) \in 0..seq
  BY LoadIsSafe
<1>4. ASSUME Listed(i) # {}
      PROVE  /\ low \in 1..seq /\ low <= LoadedUpto(i) /\ \E w \in Listed(i) : low = Loaded(i, w)
  <2>1. P \subseteq Nat /\ P # {}
    BY <1>2, <1>4
  <2>2. low \in P
    BY <2>1, LeastIsLeast
  <2>3. low \in 1..seq
    BY <1>2, <2>2
  <2>4. LoadedUpto(i) = RunEnd(low, R)
    BY <1>4 DEF LoadedUpto
  <2>5. low \in 0..seq /\ R \subseteq 1..seq /\ seq \in 0..MaxId
    <3>1. R \subseteq AllRows
      BY Zenon
    <3> HIDE DEF low, R
    <3> QED
      BY <1>1, <2>3, <3>1
  <2>6. RunEnd(low, R) \in low..seq
    <3> HIDE DEF low, R
    <3> QED
      BY <2>5, RunEndIsRun
  <2>7. \E w \in Listed(i) : low = Loaded(i, w)
    BY <2>2
  <2> HIDE DEF low, R
  <2> QED
    BY <1>1, <2>3, <2>4, <2>6, <2>7
<1>5. CASE Writers \ {i} = {}
  <2> SUFFICES ASSUME i \in Writers
               PROVE  /\ LoadedCur(i, i) <= LoadedUpto(i)
                      /\ \A x \in rows[i] : x <= LoadedCur(i, i)
    BY <1>5
  <2>1. Listed(i) = {i} /\ Loaded(i, i) = seq
    BY <1>5 DEF Listed, Loaded
  <2>2. low = seq /\ seq <= LoadedUpto(i)
    BY <1>4, <2>1
  <2>3. LoadedCur(i, i) = seq
    <3> DEFINE own == {x \in rows[i] : x >= low}
    <3>1. own \subseteq {seq}
      <4> HIDE DEF low
      <4> QED
        BY <1>1, <2>2, LagTypes
    <3>2. own # {} => Greatest(own) \in own
      <4>1. own \subseteq 0..seq
        BY <1>1, <3>1
      <4> QED
        BY <1>1, <4>1, GreatestIsGreatest
    <3>3. LoadedCur(i, i) = IF own # {} THEN Greatest(own) ELSE seq
      BY <2>1 DEF LoadedCur
    <3> HIDE DEF own, low
    <3> QED
      BY <3>1, <3>2, <3>3
  <2>4. \A x \in rows[i] : x <= seq
    BY <1>1, LagTypes
  <2> HIDE DEF low
  <2> QED
    BY <2>2, <2>3, <2>4
<1>6. ASSUME Writers \ {i} # {} PROVE \E w \in Writers \ {i} : LoadedCur(i, w) <= LoadedUpto(i)
  <2>1. CASE Listed(i) \subseteq {i}
    <3>1. PICK w \in Writers \ {i} : w \notin Listed(i)
      BY <1>6, <2>1
    <3>2. LoadedCur(i, w) = LoadedUpto(i)
      BY <3>1 DEF LoadedCur
    <3> QED
      BY <1>3, <3>2
  <2>2. ASSUME NEW v \in Listed(i), v # i PROVE \E w \in Writers \ {i} : LoadedCur(i, w) <= LoadedUpto(i)
    <3>1. \A w \in Listed(i) : w # i => w \in Writers /\ LoadedCur(i, w) = Loaded(i, w) /\ Loaded(i, w) \in 1..seq
      BY <1>2 DEF LoadedCur, Listed
    <3>2. low \in 1..seq /\ low <= LoadedUpto(i) /\ \E w \in Listed(i) : low = Loaded(i, w)
      BY <1>4, <2>2
    <3> HIDE DEF low
    <3>3. PICK w \in Listed(i) : low = Loaded(i, w)
      BY <3>2
    <3>4. CASE w # i
      BY <3>1, <3>2, <3>3, <3>4
    <3>5. CASE w = i
      <4>1. low = seq
        BY <3>3, <3>5 DEF Loaded
      <4>2. v \in Writers \ {i} /\ LoadedCur(i, v) \in 1..seq
        BY <2>2, <3>1
      <4>3. LoadedCur(i, v) <= LoadedUpto(i)
        BY <1>1, <1>3, <3>2, <4>1, <4>2
      <4> QED
        BY <4>2, <4>3
    <3> QED
      BY <3>4, <3>5
  <2> QED
    BY <2>1, <2>2
<1>7. ASSUME Writers \ {i} # {}, i \in Writers, NEW x \in rows[i]
      PROVE  x <= LoadedCur(i, i) \/ x <= LoadedUpto(i)
  <2> DEFINE own == {y \in rows[i] : y >= low}
  <2>1. i \in Listed(i) /\ rows[i] \subseteq 1..seq
    BY <1>7, LagTypes DEF Listed
  <2>2. low \in 1..seq /\ low <= LoadedUpto(i)
    BY <1>4, <2>1
  <2>3. own # {} => LoadedCur(i, i) = Greatest(own)
    BY <2>1 DEF LoadedCur
  <2>4. own \subseteq 0..seq
    BY <1>1, <2>1
  <2>5. x \in own => x <= LoadedCur(i, i)
    <3> SUFFICES ASSUME x \in own PROVE x <= LoadedCur(i, i)
      OBVIOUS
    <3>1. own # {}
      OBVIOUS
    <3> HIDE DEF own
    <3> QED
      BY <1>1, <2>3, <2>4, <3>1, GreatestIsGreatest
  <2>6. x \notin own => x < low
    <3>1. low \in Nat /\ x \in Nat
      BY <1>1, <2>1, <2>2
    <3>2. x \notin own => ~(x >= low)
      OBVIOUS
    <3> HIDE DEF own, low
    <3> QED
      BY <3>1, <3>2
  <2>7. x \in Nat /\ LoadedUpto(i) \in Nat
    BY <1>1, <1>3, <2>1
  <2> HIDE DEF own, low
  <2> QED
    BY <1>1, <2>2, <2>5, <2>6, <2>7
<1> QED
  BY <1>5, <1>6, <1>7

LEMMA StartLag ==
  ASSUME AnyStart = FALSE, Inv, LagInv, NEW i \in Instances, Start(i)
  PROVE  LagInv'
<1> DEFINE C   == [w \in Writers |-> LoadedCur(i, w)]
           T   == {LoadedCur(i, w) : w \in Writers} \union {LoadedUpto(i)}
           top == Greatest(T)
<1>1. /\ i \notin up /\ NewWritersRest(i) /\ LastIdSettled
      /\ up' = up \union {i}
      /\ cur' = [cur EXCEPT ![i] = C]
      /\ upto' = [upto EXCEPT ![i] = LoadedUpto(i)]
      /\ maxSeen' = [maxSeen EXCEPT ![i] = top] /\ maxLocal' = [maxLocal EXCEPT ![i] = top]
      /\ UNCHANGED <<rows, job, finished, stale>>
  BY DEF Start, db
<1>2. LoadedUpto(i) \in 1..seq /\ \A w \in Writers : LoadedCur(i, w) \in 0..seq
  BY <1>1, LoadIsSafe
<1>3. seq \in Nat /\ \A w \in Writers : rows[w] \subseteq 1..seq
  BY LagTypes
<1>4. top \in 0..seq /\ LoadedUpto(i) <= top /\ \A w \in Writers : LoadedCur(i, w) <= top
  <2>1. T \subseteq 0..seq /\ T # {}
    BY <1>2, <1>3
  <2>2. top \in T /\ \A y \in T : y <= top
    BY <2>1, <1>3, GreatestIsGreatest
  <2> HIDE DEF top
  <2> QED
    BY <2>1, <2>2
<1>5. /\ cur'[i] = C /\ upto'[i] = LoadedUpto(i) /\ maxSeen'[i] = top /\ maxLocal'[i] = top
      /\ \A w \in Writers : C[w] = LoadedCur(i, w)
  BY <1>1 DEF Inv, TypeOK
<1>6. finished'[i] = {} /\ \A s \in Slots : job'[i][s].pc = "idle"
  BY <1>1 DEF Inv, RunningInv, JobsInv
<1>7. LagAt(i)'
  <2> HIDE DEF C, top
  <2>1. Follows(i)'
    BY <1>1, <1>5, LoadFollows DEF Follows
  <2>2. maxSeen'[i] <= maxLocal'[i]
    BY <1>3, <1>4, <1>5
  <2>3. \A w \in Writers \ {i} : cur'[i][w] <= maxSeen'[i]
    BY <1>4, <1>5
  <2>4. i \in Writers => \A x \in rows'[i] : Reached(i, x)'
    <3> SUFFICES ASSUME i \in Writers, NEW x \in rows[i] PROVE Reached(i, x)'
      BY <1>1
    <3>1. x \in Nat /\ (x <= LoadedCur(i, i) \/ x <= LoadedUpto(i)) /\ (Writers = {i} => x <= LoadedCur(i, i))
      BY <1>1, <1>3, LoadFollows
    <3>2. x <= top
      BY <1>2, <1>3, <1>4, <3>1
    <3> QED
      BY <1>5, <3>1, <3>2 DEF Reached
  <2> QED
    BY <1>6, <2>1, <2>2, <2>3, <2>4 DEF LagAt, WorkPcs
<1>8. ASSUME NEW k \in up PROVE LagAt(k)'
  <2>1. k \in Instances /\ LagAt(k) /\ k # i
    BY <1>1 DEF Inv, TypeOK, LagInv
  <2>2. cur'[k] = cur[k] /\ maxSeen'[k] = maxSeen[k] /\ maxLocal'[k] = maxLocal[k] /\ upto'[k] = upto[k]
    BY <1>1, <2>1 DEF Inv, TypeOK
  <2> QED
    BY <1>1, <2>1, <2>2, LagKept
<1> QED
  BY <1>1, <1>7, <1>8 DEF LagInv

(* A step of the job s of i touches no other process.                      *)
LEMMA JobStepLag ==
  ASSUME Inv, LagInv, NEW i \in up, NEW s \in Slots, NEW r, JobIs(i, s, r),
         UNCHANGED <<up, cur, finished, upto, maxLocal>>,
         \A k \in Instances : k # i => maxSeen'[k] = maxSeen[k] /\ (k \in stale => k \in stale'),
         \A k \in Writers : k # i => rows'[k] = rows[k], LagAt(i)'
  PROVE  LagInv'
<1>1. ASSUME NEW k \in up, k # i PROVE LagAt(k)'
  <2>1. k \in Instances /\ LagAt(k)
    BY DEF Inv, TypeOK, LagInv
  <2>2. \A t \in Slots : job'[k][t] = job[k][t]
    BY <1>1, <2>1 DEF JobIs
  <2> QED
    BY <1>1, <2>1, <2>2, LagKept
<1> QED
  BY <1>1 DEF LagInv

LEMMA ProceedLag ==
  ASSUME Inv, LagInv, NEW i \in Instances, NEW s \in Slots,
         \/ BeginFetch(i, s) \/ (\E n \in Nat \ {0} : NextVal(i, s, n)) \/ FetchFails(i, s)
         \/ AddUnfinished(i, s) \/ EndFetch(i, s) \/ Commit(i, s) \/ RollBack(i, s) \/ SavePosition(i, s)
  PROVE  LagInv'
<1>0. /\ seq \in Nat /\ maxSeen[i] \in Nat /\ job[i][s].ids \subseteq Nat /\ job[i][s] \in Job
  BY LagTypes DEF Inv, TypeOK
<1>1. i \in up
  BY DEF BeginFetch, NextVal, FetchFails, AddUnfinished, EndFetch, Commit, RollBack, SavePosition, At
<1>2. LagAt(i)
  BY <1>1 DEF LagInv
<1>3. CASE BeginFetch(i, s)
  <2> DEFINE r == [pc |-> "asked", max |-> maxSeen[i], ids |-> {}]
  <2>1. /\ job' = [job EXCEPT ![i][s] = r] /\ job[i][s].pc = "idle"
        /\ UNCHANGED <<rows, up, stale, cur, finished, upto, maxSeen, maxLocal>>
    BY <1>3 DEF BeginFetch, At, db, memory
  <2>2. r \in Job /\ r.pc = "asked" /\ r.ids = {}
    BY <1>0 DEF Job, Pcs
  <2> HIDE DEF r
  <2>3. JobIs(i, s, r)
    BY <2>1, <2>2, JobUpdate DEF Inv
  <2>4. LagAt(i)'
    BY <1>0, <1>2, <2>1, <2>2, <2>3, LagJobStep DEF WorkPcs
  <2> QED
    BY <1>1, <2>1, <2>3, <2>4, JobStepLag
<1>4. ASSUME NEW n \in Nat \ {0}, NextVal(i, s, n) PROVE LagInv'
  <2> DEFINE r == [pc |-> "got", max |-> job[i][s].max, ids |-> (seq + 1)..(seq + n)]
  <2>1. /\ job' = [job EXCEPT ![i][s] = r] /\ job[i][s].pc = "asked"
        /\ UNCHANGED <<rows, up, stale, cur, finished, upto, maxSeen, maxLocal>>
    BY <1>4 DEF NextVal, At, memory
  <2>2. r \in Job /\ r.pc = "got" /\ seq + 1 \in r.ids
    BY <1>0, <1>4 DEF Job, Pcs
  <2> HIDE DEF r
  <2>3. JobIs(i, s, r)
    BY <2>1, <2>2, JobUpdate DEF Inv
  <2>4. LagAt(i)'
    BY <1>0, <1>2, <2>1, <2>2, <2>3, LagJobStep DEF WorkPcs
  <2> QED
    BY <1>1, <2>1, <2>3, <2>4, JobStepLag
<1>5. CASE FetchFails(i, s)
  <2>1. /\ job' = [job EXCEPT ![i][s] = Idle] /\ job[i][s].pc \in {"asked", "got"}
        /\ stale' = stale \union {i}
        /\ UNCHANGED <<rows, up, cur, finished, upto, maxSeen, maxLocal>>
    BY <1>5 DEF FetchFails, At, db, memory
  <2>2. JobIs(i, s, Idle)
    BY <2>1, IdleIsJob, JobUpdate DEF Inv
  <2>3. LagAt(i)'
    BY <1>0, <1>2, <2>1, <2>2, IdleIsJob, LagJobStep DEF WorkPcs
  <2> QED
    BY <1>1, <2>1, <2>2, <2>3, JobStepLag
<1>6. CASE AddUnfinished(i, s)
  <2> DEFINE r == [pc |-> "added", max |-> job[i][s].max, ids |-> job[i][s].ids]
             M == {maxSeen[i]} \union Unfinished(i) \union job[i][s].ids
  <2>1. /\ Goes(i, s, "added") /\ job[i][s].pc = "got"
        /\ UNCHANGED <<rows, up, stale, cur, finished, upto, maxLocal>>
        /\ maxSeen' = [maxSeen EXCEPT ![i] = Greatest(M)]
    BY <1>6 DEF AddUnfinished, At, db
  <2>2. M \subseteq 0..seq
    BY <1>0, LagTypes DEF Unfinished, UnfinishedIn
  <2>3. Greatest(M) \in Nat /\ \A y \in M : y <= Greatest(M)
    <3>1. Greatest(M) \in M /\ \A y \in M : y <= Greatest(M)
      BY <1>0, <2>2, GreatestIsGreatest
    <3> QED
      BY <1>0, <2>2, <3>1
  <2>4. maxSeen'[i] = Greatest(M) /\ \A k \in Instances : k # i => maxSeen'[k] = maxSeen[k]
    BY <2>1 DEF Inv, TypeOK
  <2>5. maxSeen'[i] \in Nat /\ maxSeen'[i] >= maxSeen[i] /\ \A x \in job[i][s].ids : x <= maxSeen'[i]
    BY <1>0, <2>3, <2>4
  <2>6. r.pc = "added" /\ r.ids = job[i][s].ids /\ JobIs(i, s, r)
    BY <2>1, JobGoes DEF Inv, Pcs
  <2>7. job[i][s].ids # {}
    BY <1>2, <2>1 DEF LagAt, WorkPcs
  <2> HIDE DEF r, M
  <2>8. LagAt(i)'
    BY <1>2, <2>1, <2>5, <2>6, <2>7, LagJobStep DEF WorkPcs
  <2> QED
    BY <1>1, <2>1, <2>4, <2>6, <2>8, JobStepLag
<1>7. CASE EndFetch(i, s) \/ RollBack(i, s) \/ Commit(i, s)
  <2>1. PICK pc \in {"held", "rolled", "written"} :
          /\ Goes(i, s, pc) /\ job[i][s].pc \in {"added", "held"}
          /\ UNCHANGED <<up, stale, cur, finished, upto, maxSeen, maxLocal>>
          /\ rows' = rows \/ (pc = "written" /\ rows' = [rows EXCEPT ![i] = @ \union job[i][s].ids])
    BY <1>7 DEF EndFetch, RollBack, Commit, At, db, memory
  <2> DEFINE r == [pc |-> pc, max |-> job[i][s].max, ids |-> job[i][s].ids]
  <2>2. r.pc = pc /\ r.ids = job[i][s].ids /\ JobIs(i, s, r)
    BY <2>1, JobGoes DEF Inv, Pcs
  <2>3. job[i][s].ids # {} /\ \A x \in job[i][s].ids : x <= maxSeen[i]
    BY <1>2, <2>1 DEF LagAt, WorkPcs
  <2>4. /\ \A k \in Writers : k # i => rows'[k] = rows[k]
        /\ i \in Writers => \A x \in rows'[i] : x \in rows[i] \/ (pc = "written" /\ x \in job[i][s].ids)
    BY <2>1 DEF Inv, TypeOK
  <2> HIDE DEF r
  <2>5. LagAt(i)'
    BY <1>0, <1>2, <2>1, <2>2, <2>3, <2>4, LagJobStep DEF WorkPcs
  <2> QED
    BY <1>1, <2>1, <2>2, <2>4, <2>5, JobStepLag
<1>8. CASE SavePosition(i, s)
  <2>1. /\ job' = [job EXCEPT ![i][s] = Idle] /\ job[i][s].pc = "save"
        /\ UNCHANGED <<rows, up, stale, cur, finished, upto, maxSeen, maxLocal>>
    BY <1>8 DEF SavePosition, At, memory
  <2>2. JobIs(i, s, Idle)
    BY <2>1, IdleIsJob, JobUpdate DEF Inv
  <2>3. LagAt(i)'
    BY <1>0, <1>2, <2>1, <2>2, IdleIsJob, LagJobStep DEF WorkPcs
  <2> QED
    BY <1>1, <2>1, <2>2, <2>3, JobStepLag
<1> QED
  BY <1>3, <1>4, <1>5, <1>6, <1>7, <1>8

LEMMA LagStep ==
  ASSUME AnyStart = FALSE, Inv, LagInv, [Next]_vars
  PROVE  LagInv'
<1>1. ASSUME NEW i \in Instances, NEW s \in Slots, BeginFetch(i, s) \/ Proceed(i, s) PROVE LagInv'
  <2>1. \A n \in 1..left.batch : n \in Nat \ {0}
    OBVIOUS
  <2> QED
    BY <1>1, <2>1, ProceedLag, MarkFinishedLag DEF Proceed
<1>2. CASE UNCHANGED <<rows, up, job, stale, cur, finished, upto, maxSeen, maxLocal>>
  <2>1. ASSUME NEW k \in up PROVE LagAt(k)'
    <3>1. k \in Instances /\ LagAt(k)
      BY DEF Inv, TypeOK, LagInv
    <3> QED
      BY <1>2, <3>1, LagKept
  <2> QED
    BY <1>2, <2>1 DEF LagInv
<1>3. ASSUME NEW w \in Writers, SendPosition(w) PROVE LagInv'
  BY <1>2, <1>3 DEF SendPosition, db, memory
<1>4. CASE Receive
  BY <1>4, AdvanceLag DEF Receive
<1>5. ASSUME NEW i \in Instances, Crash(i) PROVE LagInv'
  <2>1. ASSUME NEW k \in up' PROVE LagAt(k)'
    <3>1. k \in up /\ k # i /\ k \in Instances /\ LagAt(k)
      BY <1>5, <2>1 DEF Crash, Inv, TypeOK, LagInv
    <3>2. /\ \A t \in Slots : job'[k][t] = job[k][t]
          /\ cur'[k] = cur[k] /\ finished'[k] = finished[k] /\ upto'[k] = upto[k]
          /\ maxSeen'[k] = maxSeen[k] /\ maxLocal'[k] = maxLocal[k] /\ rows' = rows
      BY <1>5, <3>1 DEF Crash, db, Inv, TypeOK
    <3>3. k \in stale => k \in stale'
      BY <1>5, <3>1 DEF Crash
    <3> QED
      BY <3>1, <3>2, <3>3, LagKept
  <2> QED
    BY <2>1 DEF LagInv
<1>6. ASSUME NEW i \in Instances, Start(i) PROVE LagInv'
  BY <1>6, StartLag
<1>7. CASE UNCHANGED vars
  BY <1>2, <1>7 DEF vars, db, memory
<1> QED
  BY <1>1, <1>3, <1>4, <1>5, <1>6, <1>7 DEF Next

LEMMA LagInit == Init => LagInv
<1> SUFFICES ASSUME Init, NEW i \in up PROVE LagAt(i)
  BY DEF LagInv
<1>1. /\ i \in Instances /\ finished[i] = {} /\ upto[i] = 1 /\ maxSeen[i] = 1 /\ maxLocal[i] = 1
      /\ \A w \in Writers : cur[i][w] = 1 /\ rows[w] = {}
      /\ \A s \in Slots : job[i][s].pc = "idle"
  BY IdleIsJob DEF Init
<1>2. Follows(i)
  BY <1>1 DEF Follows
<1> QED
  BY <1>1, <1>2 DEF LagAt, AtWork, WorkPcs

LEMMA LagImplies == Inv /\ LagInv => SettledMeansCaughtUp
<1> SUFFICES ASSUME Inv, LagInv, Settled, NEW i \in Instances, NEW v \in Writers, NEW x \in rows[v]
             PROVE  x <= upto[i]
  BY DEF SettledMeansCaughtUp, AllRows
<1>1. \A k \in Instances : /\ LagAt(k) /\ ~AtWork(k) /\ k \notin stale
                           /\ \A s \in Slots : job[k][s].pc = "idle"
  BY IdleIsJob DEF LagInv, Settled, AtWork, WorkPcs
<1>2. /\ v \in Instances /\ x \in Nat /\ \A k \in Instances : upto[k] \in Nat /\ maxLocal[k] \in Nat /\ maxSeen[k] \in Nat
      /\ \A k \in Instances : \A w \in Writers : cur[k][w] \in Nat
  BY LagTypes
<1>3. /\ x <= maxLocal[v] /\ (Writers = {v} => x <= cur[v][v])
  <2>1. maxSeen[v] <= maxLocal[v] /\ (Writers = {v} => finished[v] = {}) /\ \A y \in finished[v] : y <= maxSeen[v]
    BY <1>1, <1>2 DEF LagAt
  <2>2. x \in finished[v] \/ Reached(v, x)
    BY <1>1, <1>2 DEF LagAt, Pending
  <2> QED
    BY <1>2, <2>1, <2>2 DEF Reached
<1>4. CASE Writers \ {i} = {}
  <2>1. v = i /\ Writers = {i} /\ cur[i][i] <= upto[i]
    BY <1>1, <1>4 DEF LagAt, Follows
  <2> QED
    BY <1>2, <1>3, <2>1
<1>5. CASE Writers \ {i} # {}
  <2>1. PICK w \in Writers \ {i} : cur[i][w] <= upto[i]
    BY <1>1, <1>5 DEF LagAt, Follows
  <2>2. w \in Instances /\ cur[i][w] >= maxLocal[w]
    BY <2>1, ConstantsAssumption DEF Settled
  <2>3. maxLocal[w] >= maxLocal[v]
    <3>1. CASE w = v
      BY <1>2, <3>1
    <3>2. CASE w # v
      <4>1. maxSeen[w] <= maxLocal[w] /\ cur[w][v] <= maxSeen[w]
        BY <1>1, <2>2, <3>2 DEF LagAt
      <4>2. cur[w][v] >= maxLocal[v]
        BY <2>2, <3>2 DEF Settled
      <4> QED
        BY <1>2, <2>2, <4>1, <4>2
    <3> QED
      BY <3>1, <3>2
  <2> QED
    BY <1>2, <1>3, <2>1, <2>2, <2>3
<1> QED
  BY <1>4, <1>5

(* When all transactions are over and every process has heard from every   *)
(* writer, _persisted_upto_position is past every row, although            *)
(* some writers wrote nothing, ids were rolled back, positions were lost   *)
(* or repeated, and processes died and started again.                      *)
THEOREM NobodyLags ==
  ASSUME AnyStart = FALSE
  PROVE  Spec => []SettledMeansCaughtUp
<1>1. Inv /\ Inv' /\ LagInv /\ [Next]_vars => LagInv'
  BY LagStep
<1>2. Spec => []LagInv
  BY <1>1, LagInit, InvHolds, PTL DEF Spec
<1> QED
  BY <1>2, InvHolds, LagImplies, PTL
=============================================================================
