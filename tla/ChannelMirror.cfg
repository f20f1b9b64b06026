SPECIFICATION Spec
CONSTANTS
  Posts = {p1}
  Rooms = {r1, r2}
  NoRoom = NoRoom
  MaxEdits = 1
  MaxLinks = 3
  MaxFaults = 1
  MaxCrashes = 1
INVARIANTS
  MappingPointsAtCopy
  ErasedPostStaysErased
PROPERTIES
  ThreadsOutliveUnlinking
  EveryPostIsMirrored
CHECK_DEADLOCK FALSE
