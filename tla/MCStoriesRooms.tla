--------------------------- MODULE MCStoriesRooms ---------------------------
(* Stories rooms on small instances. *)
EXTENDS StoriesRooms, TLC

CONSTANTS ann, bob, far, off, bot, ab, af, ao, ax

MCSidesOf == ab :> {ann, bob} @@ af :> {ann, far} @@ ao :> {ann, off} @@ ax :> {ann, bot}

(* In each DM only the other side of ann is; all DMs are listed.           *)
OneSide == [dm \in DMs |-> {CHOOSE u \in SidesOf[dm] : u # ann}]
Listed  == [u \in Users |-> {dm \in DMs : u \in SidesOf[dm]}]
Quiet   == [in |-> OneSide, direct |-> Listed, dms |-> {}, events |-> 0, lists |-> 0,
            clients |-> 0, stories |-> 0, faults |-> 0, restarts |-> 0]

(* A DM of two local users is joined and left, with a failure.             *)
Pair ==
  {[Quiet EXCEPT !.dms = {ab}, !.events = 3, !.faults = 1],
   [Quiet EXCEPT !.dms = {ab}, !.direct = [u \in Users |-> {}], !.events = 2, !.lists = 1, !.restarts = 1]}

(* DMs of one user with a local and with a remote user, also one that is   *)
(* out of reach; with a bot.                                               *)
Several ==
  {[Quiet EXCEPT !.dms = {ab, af}, !.events = 2],
   [Quiet EXCEPT !.dms = {ab, af}, !.in[ao] = {ann, off}, !.events = 1, !.restarts = 1],
   [Quiet EXCEPT !.dms = {ax}, !.events = 1, !.faults = 1]}

(* Clients make the room of their user as well: beside callbacks, with a   *)
(* failure, and beside the backfill.                                       *)
Clients ==
  {[Quiet EXCEPT !.dms = {ab}, !.events = 1, !.clients = 2],
   [Quiet EXCEPT !.dms = {ab}, !.events = 2, !.clients = 1],
   [Quiet EXCEPT !.dms = {ab}, !.events = 1, !.clients = 1, !.faults = 1],
   [Quiet EXCEPT !.in[ax] = {}, !.clients = 1, !.restarts = 1]}

(* Stories expire, sends and queries fail and the process dies.            *)
Expiry == {[Quiet EXCEPT !.direct = [u \in Users |-> {}], !.stories = 2, !.faults = 2, !.restarts = 1]}

MCBounds == Pair \union Several \union Clients \union Expiry
=============================================================================
