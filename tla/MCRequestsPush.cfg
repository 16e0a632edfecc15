SPECIFICATION Spec
CONSTANTS
  Clients = {c1}
  Internal = Internal
  NoArg = NoArg
  k1 = k1
  i0 = i0
  Args <- MCArgs
  Keys <- MCKeys
  SyncChannels <- MCSyncChannels
  Stored <- MCNothing
  Commands <- PushCommands
  Pushes <- PushEvents
  DeviceReplies <- MCDeviceInfo
  MaxCommands = 1
  MaxPushes = 1
  MaxContacts = 0
  MaxUpkeeps = 1
  MaxDrops = 0
  MaxLinks = 1
  MaxRequests = 10
CHECK_DEADLOCK FALSE
INVARIANTS
  DispatchInOrder
  RightAnswer
PROPERTY
  InTurn
