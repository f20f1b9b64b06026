SPECIFICATION RegistrySpec
CONSTANTS
  store = store
  quiz = quiz
  Apps = {store, quiz}
  Requests = {r1, r2}
  Static <- MCStatic
  RegistryTTL = 1
  MaxChanges = 2
  MaxFaults = 1
PROPERTIES
  SnapshotNeverGoesBack
  PublishedAppIsServed
