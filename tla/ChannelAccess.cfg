SPECIFICATION Spec
CONSTANTS
  ann = ann
  bot = bot
  Users = {ann, bot}
  Ai = {bot}
  Local = {ann}
  Bounds <- Disturbed
INVARIANTS
  TypeOK
  ClosedChannelStaysClosed
  SerialChangesConverge
  MigrationSettles
  AccessFollowsSubscription
PROPERTIES
  NobodyInvitedTwice
CHECK_DEADLOCK FALSE
