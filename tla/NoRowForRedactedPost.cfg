SPECIFICATION Spec
CONSTANTS
  Posts = {p1}
  Rooms = {r1}
  NoRoom = NoRoom
  MaxEdits = 0
  MaxLinks = 1
  MaxFaults = 0
  MaxCrashes = 0
INVARIANT NoRowForRedactedPost
CHECK_DEADLOCK FALSE
