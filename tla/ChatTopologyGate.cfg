SPECIFICATION Spec
CONSTANTS
  ann = ann
  bob = bob
  a1 = a1
  a2 = a2
  b1 = b1
  story = story
  club = club
  Users = {ann, bob}
  Devices = {a1, a2, b1}
  UserOf <- MCUserOf
  Rooms = {story, club}
  Stories = {story}
  Builds = {1, 2}
  Bounds <- MCBounds
INVARIANTS
  TypeOK
  ListIsTrue
  HiddenOnlyBeside
  OpenOnlyWithProof
  FirstSyncIsWhole
CHECK_DEADLOCK FALSE
