----------------------------- MODULE StreamToken -----------------------------
(***************************************************************************)
(* What a stream of Synapse promises to those who read it.  Writers take   *)
(* ids in increasing order, and for a while an id is open: its row may yet *)
(* appear, or never.  Every process keeps a token, and whoever has read    *)
(* the rows up to the token need not look there again: no id at or below   *)
(* a token is open.  While a process runs its token does not go back.      *)
(*                                                                         *)
(* Nothing is said of how processes agree on this; StreamIds models that   *)
(* and implements this specification.                                      *)
(***************************************************************************)
EXTENDS Naturals

CONSTANT Processes

VARIABLES
  last,      \* the largest id taken
  open,      \* ids whose row may still appear
  rows,      \* ids whose row can be read
  token      \* the token of each process, 0 while it does not run

vars == <<last, open, rows, token>>

Safe(t) == t \in 1..last /\ \A x \in open : x > t

Init ==
  /\ last = 1
  /\ open = {} /\ rows = {}
  /\ token = [i \in Processes |-> 1]

Take ==
  /\ last' \in Nat /\ last' > last
  /\ open' = open \union ((last + 1)..last')
  /\ UNCHANGED <<rows, token>>

(* Some open ids are settled at once, with their rows or without.          *)
Settle(ids) ==
  /\ ids \subseteq open
  /\ open' = open \ ids
  /\ rows' \in {rows, rows \union ids}
  /\ UNCHANGED <<last, token>>

(* Only the token of i moves, to where it is safe.                         *)
Moves(i) == Safe(token'[i]) /\ token' = [token EXCEPT ![i] = token'[i]]

Advance(i) ==
  /\ token[i] # 0
  /\ Moves(i) /\ token'[i] >= token[i]
  /\ UNCHANGED <<last, open, rows>>

(* A process dies, and what it had open is given up.                       *)
Stop(i, ids) ==
  /\ ids \subseteq open
  /\ open' = open \ ids
  /\ token' = [token EXCEPT ![i] = 0]
  /\ UNCHANGED <<last, rows>>

Resume(i) ==
  /\ token[i] = 0
  /\ Moves(i)
  /\ UNCHANGED <<last, open, rows>>

Next ==
  \/ Take
  \/ \E ids \in SUBSET open : Settle(ids)
  \/ \E i \in Processes : Advance(i) \/ Resume(i) \/ \E ids \in SUBSET open : Stop(i, ids)

Spec == Init /\ [][Next]_vars

-----------------------------------------------------------------------------
(* A reader that has read everything up to a process's token misses        *)
(* nothing: a row never appears at or below it.                            *)
NothingIsMissed ==
  [][\A x \in rows' \ rows : \A i \in Processes : x > token[i]]_vars
=============================================================================
