------------------------- MODULE MCMiniAppRegistry -------------------------
(***************************************************************************)
(* Instances of MiniAppRegistry for TLC.                                   *)
(***************************************************************************)
EXTENDS MiniAppRegistry, TLC

CONSTANTS store, quiz

(* store is a first-party app of the configuration, quiz is not. *)
MCStatic == (store :> "listed") @@ (quiz :> "absent")
=============================================================================
