SPECIFICATION Spec
CONSTANTS
  NoArg = NoArg
  k1 = k1
  k2 = k2
  Contacts <- K2
  Held <- K2
  Channels = {}
  Commands <- ListCommands
  Retention = 1
  MaxVersions = 3
  MaxReads = 1
  MaxTime = 3
  MaxMaintenance = 2
  MaxLosses = 1
  MaxTimeouts = 0
  MaxRefusals = 0
CHECK_DEADLOCK FALSE
INVARIANTS
  SyncedMeansSeen
PROPERTIES
  PurgeSparesHeld
