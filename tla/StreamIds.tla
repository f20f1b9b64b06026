------------------------------ MODULE StreamIds ------------------------------
(***************************************************************************)
(* MultiWriterIdGenerator of Synapse (storage/util/id_generators.py): how  *)
(* the processes that write one stream, and those that only read it, agree *)
(* on the position up to which everything is persisted.                    *)
(*                                                                         *)
(* Each process runs jobs in database threads.  A job notes the largest id *)
(* it knows (_in_flight_fetches), takes ids from the Postgres sequence,    *)
(* enters them in _unfinished_ids, writes its rows, and marks the ids      *)
(* finished; what is in flight or unfinished is read off the jobs.         *)
(* Positions travel over replication, which may delay, repeat, reorder or  *)
(* lose them.  Processes die, and start again from the database.           *)
(*                                                                         *)
(* Streams of negative ids store the negated ids and are the same.         *)
(***************************************************************************)
EXTENDS Naturals, FiniteSets

CONSTANTS
  Instances,   \* the processes
  Writers,     \* self._writers, the configured writers of the stream
  Slots,       \* jobs a process may run at one time
  MaxId,       \* bound: ids of the stream
  Bounds,      \* bounds of an instance: jobs of each writer, ids a job takes,
               \* fetches that fail, processes that die; and the writers that
               \* have their row in stream_positions
  AnyStart     \* whether a process may start at any time, see Start

ASSUME ConstantsAssumption ==
  /\ Writers \subseteq Instances
  /\ MaxId \in Nat \ {0}
  /\ Bounds \subseteq [jobs: [Writers -> Nat], batch: Nat, fails: Nat, crashes: Nat,
                        table: [Writers -> {0, 1}]]
  /\ AnyStart \in BOOLEAN

VARIABLES
  seq,         \* last_value of the Postgres sequence
  rows,        \* ids of the rows each writer has committed
  table,       \* stream_positions: writer -> stream_id, 0 if it has no row
  sent,        \* positions sent over replication
  up,          \* processes that run
  job,         \* what each job of each process is doing
  cur,         \* _current_positions
  finished,    \* _finished_ids
  known,       \* _known_persisted_positions
  upto,        \* _persisted_upto_position
  maxSeen,     \* _max_seen_allocated_stream_id
  maxLocal,    \* _max_position_of_local_instance
  stale,       \* history: processes where a fetch failed and nothing happened since
  left         \* what is left of the bounds

db     == <<seq, rows, table>>
memory == <<cur, finished, known, upto, maxSeen, maxLocal>>
vars   == <<db, sent, up, job, memory, stale, left>>

Pcs  == {"idle", "asked", "got", "added", "held", "written", "rolled", "save"}
Job  == [pc: Pcs, max: Nat, ids: SUBSET Nat]
Idle == [pc |-> "idle", max |-> 0, ids |-> {}]

TypeOK ==
  /\ seq \in 1..MaxId
  /\ rows \in [Writers -> SUBSET (1..seq)]
  /\ table \in [Writers -> 0..seq]
  /\ sent \subseteq Writers \X (0..seq)
  /\ up \subseteq Instances
  /\ job \in [Instances -> [Slots -> Job]]
  /\ cur \in [Instances -> [Writers -> 0..seq]]
  /\ finished \in [Instances -> SUBSET (1..seq)]
  /\ known \in [Instances -> SUBSET (1..seq)]
  /\ upto \in [Instances -> 0..seq]
  /\ maxSeen \in [Instances -> 0..seq]
  /\ maxLocal \in [Instances -> 0..seq]
  /\ stale \subseteq Instances

(* A new stream: every process has just loaded it, and some writers have   *)
(* their row in stream_positions.                                          *)
Init ==
  /\ seq = 1
  /\ rows = [w \in Writers |-> {}]
  /\ left \in Bounds
  /\ table = left.table
  /\ sent = {}
  /\ up = Instances
  /\ job = [i \in Instances |-> [s \in Slots |-> Idle]]
  /\ cur = [i \in Instances |-> [w \in Writers |-> 1]]
  /\ finished = [i \in Instances |-> {}]
  /\ known = [i \in Instances |-> {}]
  /\ upto = [i \in Instances |-> 1]
  /\ maxSeen = [i \in Instances |-> 1]
  /\ maxLocal = [i \in Instances |-> 1]
  /\ stale = {}

-----------------------------------------------------------------------------
Least(S)    == CHOOSE x \in S : \A y \in S : x <= y
Greatest(S) == CHOOSE x \in S : \A y \in S : y <= x

At(i, s, pc) == i \in up /\ job[i][s].pc = pc
Goes(i, s, pc) == job' = [job EXCEPT ![i][s].pc = pc]

(* _in_flight_fetches, _unfinished_ids, and the ids whose transaction is   *)
(* not over, which no process can see as a whole.                          *)
InFlight(i)   == {job[i][s].max : s \in {t \in Slots : job[i][t].pc \in {"asked", "got", "added"}}}
UnfinishedIn(j) == UNION {j[s].ids : s \in {t \in Slots : j[t].pc \in {"added", "held", "written", "rolled"}}}
Unfinished(i) == UnfinishedIn(job[i])
Open(i)       == UNION {job[i][s].ids : s \in {t \in Slots : job[i][t].pc \in {"got", "added", "held"}}}
AllOpen       == UNION {Open(i) : i \in Instances}
AllRows       == UNION {rows[w] : w \in Writers}

-----------------------------------------------------------------------------
(* _add_persisted_position: the minimum over the writers, then on along    *)
(* the positions known to be persisted.  own and others are positions as   *)
(* the caller has just left them, busy says that something is in flight or *)
(* unfinished.                                                             *)

(* The end of the gapless run of S that starts after b.                    *)
RunEnd(b, S) == Greatest({k \in b..MaxId : (b + 1)..k \subseteq S})

\* Fault: our own position does not hold the others' minimum back.
MinCurr_OwnIgnored(i, c, busy) ==
  IF Writers \ {i} = {} THEN c[i] ELSE Least({c[w] : w \in Writers \ {i}})

MinCurr(i, c, busy) ==
  IF Writers \ {i} = {} THEN c[i]
  ELSE Least({c[w] : w \in IF busy THEN Writers ELSE Writers \ {i}})

\* Fault: the position follows the minimum down.
Base_GoesBack(i, c, busy) == MinCurr(i, c, busy)
Base(i, c, busy) == Greatest({MinCurr(i, c, busy), upto[i]})

\* Fault: an idle writer does not take over the largest id it has seen.
LocalMax_NoEcho(m, base, seen, busy) == Greatest({m, base})
LocalMax(m, base, seen, busy) == Greatest({m, base} \union IF busy THEN {} ELSE {seen})

AddPersisted(i, ids, c, m, seen, busy) ==
  LET base == Base(i, c, busy)
      end  == RunEnd(base, known[i] \union ids)
  IN /\ upto' = [upto EXCEPT ![i] = end]
     /\ known' = [known EXCEPT ![i] = {x \in known[i] \union ids : x > end}]
     /\ maxLocal' = [maxLocal EXCEPT ![i] = LocalMax(m, base, seen, busy)]
     /\ stale' = stale \ {i}

-----------------------------------------------------------------------------
(* _load_next_mult_id_txn *)

BeginFetch(i, s) ==
  /\ At(i, s, "idle") /\ i \in Writers
  /\ left.jobs[i] > 0 /\ left' = [left EXCEPT !.jobs[i] = @ - 1]
  /\ job' = [job EXCEPT ![i][s] = [pc |-> "asked", max |-> maxSeen[i], ids |-> {}]]
  /\ UNCHANGED <<db, sent, up, memory, stale>>

NextVal(i, s, n) ==
  /\ At(i, s, "asked")
  /\ seq + n <= MaxId
  /\ seq' = seq + n
  /\ job' = [job EXCEPT ![i][s] = [pc |-> "got", max |-> @.max, ids |-> (seq + 1)..(seq + n)]]
  /\ UNCHANGED <<rows, table, sent, up, memory, stale, left>>

(* The call raises, with ids taken or not: finally forgets the fetch.      *)
FetchFails(i, s) ==
  /\ At(i, s, "asked") \/ At(i, s, "got")
  /\ left.fails > 0 /\ left' = [left EXCEPT !.fails = @ - 1]
  /\ job' = [job EXCEPT ![i][s] = Idle]
  /\ stale' = stale \union {i}
  /\ UNCHANGED <<db, sent, up, memory>>

AddUnfinished(i, s) ==
  /\ At(i, s, "got")
  /\ Goes(i, s, "added")
  /\ maxSeen' = [maxSeen EXCEPT ![i] = Greatest({@} \union Unfinished(i) \union job[i][s].ids)]
  /\ UNCHANGED <<db, sent, up, cur, finished, known, upto, maxLocal, stale, left>>

EndFetch(i, s) ==
  /\ At(i, s, "added")
  /\ Goes(i, s, "held")
  /\ UNCHANGED <<db, sent, up, memory, stale, left>>

-----------------------------------------------------------------------------
(* The caller's transaction commits, or is rolled back and leaves a gap.   *)

Commit(i, s) ==
  /\ At(i, s, "held")
  /\ Goes(i, s, "written")
  /\ rows' = [rows EXCEPT ![i] = @ \union job[i][s].ids]
  /\ UNCHANGED <<seq, table, sent, up, memory, stale, left>>

RollBack(i, s) ==
  /\ At(i, s, "held")
  /\ Goes(i, s, "rolled")
  /\ UNCHANGED <<db, sent, up, memory, stale, left>>

(* _mark_ids_as_finished, with the jobs as they are once this one's ids    *)
(* are out of _unfinished_ids.                                             *)

MinUnfinished(i, rest) == Least(rest \union {m + 1 : m \in InFlight(i)} \union {MaxId + 1})

(* __aexit__ goes on to the positions table only if the body succeeded.    *)
AfterFinish(i, s) ==
  \/ /\ At(i, s, "written") /\ Goes(i, s, "save")
  \/ /\ At(i, s, "written") \/ At(i, s, "rolled")
     /\ job' = [job EXCEPT ![i][s] = Idle]

MarkFinished(i, s) ==
  LET rest == UnfinishedIn([job[i] EXCEPT ![s] = Idle])
      busy == rest # {} \/ InFlight(i) # {}
      all  == finished[i] \union job[i][s].ids
      low  == MinUnfinished(i, rest)
      done == {x \in all : x < low}
      c    == [cur[i] EXCEPT ![i] = Greatest({@} \union done)]
  IN /\ AfterFinish(i, s)
     /\ finished' = [finished EXCEPT ![i] = all \ done]
     /\ cur' = [cur EXCEPT ![i] = c]
     /\ AddPersisted(i, job[i][s].ids, c,
          IF done = {} THEN maxLocal[i] ELSE Greatest({c[i], maxLocal[i]}), maxSeen[i], busy)
     /\ UNCHANGED <<db, sent, up, maxSeen, left>>

(* _update_stream_positions_table_txn: the row only moves up; the          *)
(* background process may fail.                                            *)
SavePosition(i, s) ==
  /\ At(i, s, "save")
  /\ job' = [job EXCEPT ![i][s] = Idle]
  /\ table' \in {table, [table EXCEPT ![i] = Greatest({@, maxLocal[i]})]}
  /\ UNCHANGED <<seq, rows, sent, up, memory, stale, left>>

-----------------------------------------------------------------------------
(* Replication.  A writer sends POSITION with its current token, and RDATA *)
(* with the ids of its rows up to it; echoes are ignored.                  *)
SendPosition(w) ==
  /\ w \in up
  /\ sent' = sent \union {<<w, t>> : t \in {maxLocal[w]} \union {x \in rows[w] : x <= maxLocal[w]}}
  /\ UNCHANGED <<db, up, job, memory, stale, left>>

Advance(i, w, t) ==
  LET c    == [cur[i] EXCEPT ![w] = Greatest({@, t})]
      busy == Unfinished(i) # {} \/ InFlight(i) # {}
      seen == Greatest({maxSeen[i], t})
  IN /\ i \in up /\ i # w /\ <<w, t>> \in sent
     /\ cur' = [cur EXCEPT ![i] = c]
     /\ maxSeen' = [maxSeen EXCEPT ![i] = seen]
     /\ AddPersisted(i, {t}, c, maxLocal[i], seen, busy)
     /\ UNCHANGED <<db, sent, up, job, finished, left>>

-----------------------------------------------------------------------------
(* A process dies: its memory is gone and the database rolls back its      *)
(* transactions.                                                           *)
Crash(i) ==
  /\ i \in up
  /\ left.crashes > 0 /\ left' = [left EXCEPT !.crashes = @ - 1]
  /\ up' = up \ {i}
  /\ job' = [job EXCEPT ![i] = [s \in Slots |-> Idle]]
  /\ cur' = [cur EXCEPT ![i] = [w \in Writers |-> 0]]
  /\ finished' = [finished EXCEPT ![i] = {}]
  /\ known' = [known EXCEPT ![i] = {}]
  /\ upto' = [upto EXCEPT ![i] = 0]
  /\ maxSeen' = [maxSeen EXCEPT ![i] = 0]
  /\ maxLocal' = [maxLocal EXCEPT ![i] = 0]
  /\ stale' = stale \ {i}
  /\ UNCHANGED <<db, sent>>

(* __init__ and _load_current_ids: the writers of stream_positions, with   *)
(* last_value for the process itself; then the rows from the least of      *)
(* these positions on.  With no position at all, the largest row.          *)
Listed(i) == {w \in Writers : table[w] # 0 \/ w = i}
Loaded(i, w) == IF w = i THEN seq ELSE table[w]

LoadedUpto(i) ==
  IF Listed(i) = {} THEN Greatest({1} \union AllRows)
  ELSE LET low == Least({Loaded(i, w) : w \in Listed(i)})
       IN RunEnd(low, {x \in AllRows : x >= low})

LoadedKnown(i) == IF Listed(i) = {} THEN {} ELSE {x \in AllRows : x > LoadedUpto(i)}

LoadedCur(i, w) ==
  LET low == Least({Loaded(i, v) : v \in Listed(i)})
      own == {x \in rows[w] : x >= low}
  IN IF w \notin Listed(i) THEN LoadedUpto(i)
     ELSE IF w = i /\ own # {} THEN Greatest(own)
     ELSE Loaded(i, w)

(* Restricted starts, an assumption of the model and not in the code: a    *)
(* writer that is new to stream_positions has nothing open while another   *)
(* process starts, and nobody has the last id open.                        *)
NewWritersRest(i) == \A w \in Writers \ {i} : table[w] = 0 => Open(w) = {}
LastIdSettled == seq \notin AllOpen

Start(i) ==
  /\ i \notin up
  /\ AnyStart \/ (NewWritersRest(i) /\ LastIdSettled)
  /\ up' = up \union {i}
  /\ cur' = [cur EXCEPT ![i] = [w \in Writers |-> LoadedCur(i, w)]]
  /\ upto' = [upto EXCEPT ![i] = LoadedUpto(i)]
  /\ known' = [known EXCEPT ![i] = LoadedKnown(i)]
  /\ LET top == Greatest({LoadedCur(i, w) : w \in Writers} \union {LoadedUpto(i)})
     IN /\ maxSeen' = [maxSeen EXCEPT ![i] = top]
        /\ maxLocal' = [maxLocal EXCEPT ![i] = top]
  /\ UNCHANGED <<db, sent, job, finished, stale, left>>

-----------------------------------------------------------------------------
(* What a job does until it is over.                                       *)
Proceed(i, s) ==
  \/ FetchFails(i, s) \/ \E n \in 1..left.batch : NextVal(i, s, n)
  \/ AddUnfinished(i, s) \/ EndFetch(i, s)
  \/ Commit(i, s) \/ RollBack(i, s)
  \/ MarkFinished(i, s) \/ SavePosition(i, s)

Receive == \E i \in Instances, w \in Writers, t \in 1..MaxId : Advance(i, w, t)

Next ==
  \/ \E i \in Instances, s \in Slots : BeginFetch(i, s) \/ Proceed(i, s)
  \/ \E w \in Writers : SendPosition(w)
  \/ Receive
  \/ \E i \in Instances : Crash(i) \/ Start(i)

Spec == Init /\ [][Next]_vars

-----------------------------------------------------------------------------
(* get_persisted_upto_position: no id at or below the position of a        *)
(* running process can still get its row.                                  *)
UptoIsPersisted == \A i \in up : \A x \in AllOpen : x > upto[i]

(* get_current_token_for_writer, and every position on its way: what a     *)
(* process believes of a writer, and what a writer has sent or stored of   *)
(* itself, is below every id that writer still has open.                   *)
PositionsAreSafe ==
  \A w \in Writers : \A x \in Open(w) :
    /\ \A i \in up : x > cur[i][w]
    /\ x > maxLocal[w] /\ x > table[w]
    /\ \A p \in sent : p[1] = w => x > p[2]

(* The generators implement the stream of StreamToken, with the position   *)
(* up to which everything is persisted as the token: rows are never missed *)
(* and the token of a running process never goes back.                     *)
Stream == INSTANCE StreamToken
  WITH Processes <- Instances, last <- seq, open <- AllOpen, rows <- AllRows, token <- upto
ImplementsStream == Stream!Spec

(* Nobody lags for ever, also when some writers write nothing and some ids *)
(* are never used: once all jobs are over and every process has the        *)
(* position each writer would send, every process is at the end of the     *)
(* stream.  The exception: what finished or arrived while a fetch was in   *)
(* flight is not looked at again when that fetch fails, until the process  *)
(* writes or hears of a position.                                          *)
Settled ==
  /\ up = Instances /\ stale = {}
  /\ \A i \in Instances : \A s \in Slots : job[i][s] = Idle
  /\ \A w \in Writers : \A i \in Instances \ {w} : cur[i][w] >= maxLocal[w]
SettledMeansCaughtUp == Settled => \A i \in Instances : \A x \in AllRows : x <= upto[i]
=============================================================================
