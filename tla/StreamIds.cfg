SPECIFICATION Spec
CONSTANTS
  w1 = w1
  w2 = w2
  Instances = {w1, w2}
  Writers = {w1, w2}
  Slots = {a, b}
  MaxId = 4
  Bounds <- MCBounds
  AnyStart = FALSE
INVARIANTS
  UptoIsPersisted
  SettledMeansCaughtUp
PROPERTY
  ImplementsStream
SYMMETRY SlotSymmetry
CHECK_DEADLOCK FALSE
