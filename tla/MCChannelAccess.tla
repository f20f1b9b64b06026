-------------------------- MODULE MCChannelAccess --------------------------
(***************************************************************************)
(* Instances of ChannelAccess for TLC.                                     *)
(***************************************************************************)
EXTENDS ChannelAccess

CONSTANTS ann, bot

AtMost(us, m, t, l, f, c) ==
  [users |-> us, moves |-> m, toggles |-> t, links |-> l, faults |-> f, crashes |-> c]

(* A user comes and goes while comments are switched and Synapse restarts, *)
(* or a call fails; the join rule changes twice around a restart in an     *)
(* empty channel, or once around a restart or with a failure beside a      *)
(* user; an AI user joins beside a user, around a restart, or while roles  *)
(* cannot be read.                                                         *)
Disturbed == {AtMost({ann}, 3, 0, 1, 0, 1), AtMost({ann}, 2, 0, 0, 1, 0),
              AtMost({}, 0, 2, 0, 0, 1), AtMost({ann}, 0, 1, 0, 0, 1), AtMost({ann, bot}, 1, 0, 0, 0, 0),
              AtMost({ann}, 0, 1, 0, 1, 0), AtMost({bot}, 1, 0, 0, 1, 0),
              AtMost({bot}, 2, 1, 0, 0, 1)}

TwoMoves == {AtMost({ann}, 2, 0, 0, 0, 0)}
=============================================================================
