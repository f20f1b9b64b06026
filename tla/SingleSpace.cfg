\* The main root space: who may make it, leave it, and what becomes its child.
CONSTANTS
  Users = {u1, u2}
  Requests = {c1, c2}
  MaxRooms = 4
  Bounds <- MCBounds
SPECIFICATION Spec
CHECK_DEADLOCK FALSE
INVARIANTS
  TypeOK
  OneRoot
  MainIsStable
  DmStaysOut
  GroupsAreListed
  BackfillCompletes
