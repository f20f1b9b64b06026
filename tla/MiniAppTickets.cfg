SPECIFICATION Spec
CONSTANTS
  Users = {ann}
  AppIds = {quiz, store}
  Rooms = {room}
  NoRoom = NoRoom
  Unstated = Unstated
  NoEntry = NoEntry
  Slots = {s1}
  Nonces = {n1, n2}
  Hits = {h1, h2, h3}
  NonceTTL = 1
  MaxHits = 2
  Window = 2
  Verify = TRUE
INVARIANTS
  NonceUsedOnce
  NonceWorksUntilItExpires
  RoomTicketsForMembers
  RateIsLimited
PROPERTIES
  UnusedNoncesAreForgotten
