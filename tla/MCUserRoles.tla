---------------------------- MODULE MCUserRoles ----------------------------
(* The user_roles module on small instances.  Requests are interchangeable. *)
EXTENDS UserRoles, TLC

CONSTANTS user, dev, admin, old, new

(* Requests that overlap, two at a time, and grant and take away roles.    *)
Grants ==
  [kinds |-> {"set", "remove", "register", "create"}, codes |-> Codes, labels |-> {old},
   overlap |-> TRUE, requests |-> 3, writes |-> 0, faults |-> 1, restarts |-> 0]

(* Requests of every kind one after the other, with direct writes.         *)
Catalog ==
  [kinds |-> {"set", "create", "update", "remove", "reload"},
   codes |-> {user, admin}, labels |-> {old, new},
   overlap |-> FALSE, requests |-> 4, writes |-> 1, faults |-> 1, restarts |-> 1]

(* Direct writes that other requests' loads hide from the reload handler.  *)
Direct ==
  [kinds |-> {"set", "update", "reload"}, codes |-> {user, admin}, labels |-> {old, new},
   overlap |-> FALSE, requests |-> 3, writes |-> 3, faults |-> 0, restarts |-> 1]

MCBounds == {Grants, Catalog, Direct}

SlotSymmetry == Permutations(Slots)
=============================================================================
