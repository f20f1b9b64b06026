------------------------ MODULE MCChatTopologyGate ------------------------
(* The gate of hidden rooms on small instances. *)
EXTENDS ChatTopologyGate, TLC

CONSTANTS ann, bob, a1, a2, b1, story, club

MCUserOf == a1 :> ann @@ a2 :> ann @@ b1 :> bob

(* One device reports builds while thresholds come, go and fail.           *)
Gate ==
  {[devices |-> {a1}, since |-> S, joined |-> {story}, published |-> m, topologies |-> 0,
    memberships |-> 0, puts |-> 2, syncs |-> 2, thresholds |-> 1, faults |-> 1] :
      S \in {{}, {a1}}, m \in {{}, {1}, {2}}}

(* Two devices of a user share the list while a room changes: one reports  *)
(* its build, or the user joins or leaves a room.                          *)
Lists ==
  {[devices |-> {a1, a2}, since |-> {a1, a2}, joined |-> {story}, published |-> {1},
    topologies |-> 1, memberships |-> 0, puts |-> 1, syncs |-> 3, thresholds |-> 0, faults |-> 0],
   [devices |-> {a1, a2}, since |-> {a1}, joined |-> {story}, published |-> {},
    topologies |-> 1, memberships |-> 1, puts |-> 0, syncs |-> 3, thresholds |-> 0, faults |-> 0]}

(* Devices of two users in one room.                                       *)
Members ==
  {[devices |-> {a1, b1}, since |-> {a1}, joined |-> {club}, published |-> {}, topologies |-> 2,
    memberships |-> 0, puts |-> 0, syncs |-> 3, thresholds |-> 0, faults |-> 0]}

(* A user is invited, joins and leaves again between /syncs whose          *)
(* responses may be lost.                                                  *)
Invites ==
  {[devices |-> {a1}, since |-> S, joined |-> {}, published |-> {1}, topologies |-> 0,
    memberships |-> 3, puts |-> 1, syncs |-> 2, thresholds |-> 0, faults |-> 1] :
      S \in {{}, {a1}}}

MCBounds == Gate \union Lists \union Members \union Invites
=============================================================================
