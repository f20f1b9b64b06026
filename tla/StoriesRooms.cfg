SPECIFICATION Spec
CONSTANTS
  ann = ann
  bob = bob
  far = far
  off = off
  bot = bot
  ab = ab
  af = af
  ao = ao
  ax = ax
  Users = {ann, bob, far, off, bot}
  Local = {ann, bob, bot}
  Reachable = {ann, bob, bot, far}
  AiNames = {}
  AiRoles = {bot}
  DMs = {ab, af, ao, ax}
  SidesOf <- MCSidesOf
  Jobs = {j1, j2}
  MaxRooms = 4
  Stories = {s1, s2, s3}
  Foreign = {s3}
  Bounds <- MCBounds
INVARIANTS
  TypeOK
  OneRoomPerOwner
  InvitesAreSilent
  
PROPERTY
  ExpiredAreRedacted
CHECK_DEADLOCK FALSE
