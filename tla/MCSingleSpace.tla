---- MODULE MCSingleSpace ----
EXTENDS SingleSpace

(* Bounds of the scenarios.                                                *)
Nothing == [asks |-> {}, auto |-> TRUE, backfill |-> FALSE, at |-> [r \in Rooms |-> "none"],
            requests |-> 3, upgrades |-> 0, nests |-> 0, remotes |-> 0, faults |-> 0, restarts |-> 0]
Empty    == Nothing.at
Company  == [Empty EXCEPT ![1] = "root"]
OldChats == [Empty EXCEPT ![1] = "root", ![2] = "group", ![3] = "dm"]

(* No company yet: roots and sub-spaces are made and nested, and a restart *)
(* forgets the main space.                                                 *)
Founding == {[Nothing EXCEPT !.asks = {"root", "sub"}, !.nests = 1, !.restarts = 1]}

(* A company, and a space of another server; members want to leave.        *)
Leaving  == {[Nothing EXCEPT !.asks = {"root", "leave"}, !.at = Company, !.nests = 1, !.remotes = 1,
                             !.restarts = 1],
             [Nothing EXCEPT !.asks = {"root", "leave"}, !.remotes = 1, !.restarts = 1]}

(* Chats are made, with and without a company, while others fail.          *)
Chatting == {[Nothing EXCEPT !.asks = {"group", "dm"}, !.at = a, !.auto = b, !.faults = 1, !.restarts = 1] :
               a \in {Empty, Company}, b \in BOOLEAN}
Opening  == {[Nothing EXCEPT !.asks = {"root", "group", "dm"}]}

(* Chats from before are added, while new ones are made.                   *)
Filling  == {[Nothing EXCEPT !.asks = {"dm", "group", "other"}, !.at = OldChats, !.backfill = TRUE,
                             !.requests = 2, !.faults = 1, !.restarts = 1]}

(* Spaces and chats are upgraded, while others are made.                   *)
Upgrading == {[Nothing EXCEPT !.asks = {"root", "sub"}, !.at = a, !.upgrades = 1, !.nests = 1, !.restarts = 1,
                              !.requests = 2] : a \in {Empty, Company}}
             \union {[Nothing EXCEPT !.asks = {"dm", "group"}, !.at = OldChats, !.upgrades = 1, !.faults = 1,
                                     !.requests = 1]}

(* Groups are made where only a space of another server is found.          *)
Foreign  == {[Nothing EXCEPT !.asks = {"group"}, !.remotes = 1, !.requests = 2]}

MCBounds == Founding \union Leaving \union Chatting \union Opening \union Filling \union Foreign
            \union Upgrading
====
