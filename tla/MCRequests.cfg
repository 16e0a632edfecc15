SPECIFICATION Spec
CONSTANTS
  Clients = {c1, c2}
  Internal = Internal
  NoArg = NoArg
  k1 = k1
  i0 = i0
  Args <- MCArgs
  Keys <- MCKeys
  SyncChannels <- MCSyncChannels
  Stored <- MCNothing
  Commands <- MuxCommands
  Pushes <- MCNothing
  DeviceReplies <- MCDeviceInfo
  MaxCommands = 2
  MaxPushes = 0
  MaxContacts = 1
  MaxUpkeeps = 0
  MaxDrops = 0
  MaxLinks = 1
  MaxRequests = 10
CHECK_DEADLOCK FALSE
SYMMETRY ClientSymmetry
INVARIANTS
  TypeOK
  WorkConserving
  RadioSerialized
  AckToSender
  HonestOutcome
PROPERTY
  SettledOnce
