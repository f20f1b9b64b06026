-------------------------- MODULE MCMiniAppTickets --------------------------
(***************************************************************************)
(* Instances of MiniAppTickets for TLC.                                    *)
(***************************************************************************)
EXTENDS MiniAppTickets
=============================================================================
