SPECIFICATION Spec
CONSTANTS
  ann = ann
  bot = bot
  Users = {ann, bot}
  Ai = {bot}
  Local = {ann}
  Bounds <- TwoMoves
INVARIANT LeaverLosesAccess
CHECK_DEADLOCK FALSE
