SPECIFICATION FairSpec
CONSTANTS
  NoArg = NoArg
  k1 = k1
  k2 = k2
  Contacts <- K1
  Held <- K1
  Channels = {0}
  Commands <- AllCommands
  Retention = 1
  MaxVersions = 3
  MaxReads = 1
  MaxTime = 0
  MaxMaintenance = 0
  MaxLosses = 1
  MaxTimeouts = 1
  MaxRefusals = 1
CHECK_DEADLOCK FALSE
INVARIANTS
  TypeOK
  
  
PROPERTIES
  CacheCatchesUp
