-------------------------- MODULE MCChannelMirror --------------------------
(***************************************************************************)
(* Instances of ChannelMirror for TLC.                                     *)
(***************************************************************************)
EXTENDS ChannelMirror
=============================================================================
