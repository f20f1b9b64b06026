---------------------------- MODULE MCStreamIds ----------------------------
(* Multi-writer streams on small instances.  Jobs are interchangeable. *)
EXTENDS StreamIds, TLC

CONSTANTS w1, w2

New == [w \in Writers |-> 0]
Old == [w \in Writers |-> 1]

(* Two jobs of one writer and one of the other; jobs that take two ids, a  *)
(* fetch that fails among them; and a process that dies and starts again   *)
(* while the writers write, whether they are in stream_positions or not.   *)
RestartBounds ==
  {[jobs |-> w1 :> 1 @@ w2 :> 1, batch |-> 1, fails |-> 0, crashes |-> 1, table |-> t] :
     t \in [Writers -> {0, 1}]}

(* The same where both writers are in stream_positions. *)
KnownWriters == {b \in RestartBounds : b.table = Old}

MCBounds ==
  {[jobs |-> w1 :> 2 @@ w2 :> 1, batch |-> 1, fails |-> 0, crashes |-> 0, table |-> Old],
   [jobs |-> w1 :> 2 @@ w2 :> 0, batch |-> 2, fails |-> 1, crashes |-> 0, table |-> New]}
  \union RestartBounds

SlotSymmetry == Permutations(Slots)
=============================================================================
