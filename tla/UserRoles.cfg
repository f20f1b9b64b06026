SPECIFICATION Spec
CONSTANTS
  user = user dev = dev admin = admin old = old new = new
  Codes = {user, dev, admin} Labels = {old, new} Users = {u1} Slots = {s1, s2}
  Admin = admin Default = user Seeds = {user, dev, admin} SeedLabel = old
  Nobody = Nobody NoRow = NoRow NoRole = NoRole NoView = NoView Unsent = Unsent
  Bounds <- MCBounds
INVARIANTS ExtrasWereGranted SerialRolesExist SerialCacheIsTable SerialViewsAreCurrent
SYMMETRY SlotSymmetry
CHECK_DEADLOCK FALSE
