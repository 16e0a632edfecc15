SPECIFICATION FairSpec
CONSTANTS
  Clients = {c1}
  Internal = Internal
  NoArg = NoArg
  k1 = k1
  i0 = i0
  Args <- MCArgs
  Keys <- MCKeys
  SyncChannels <- MCSyncChannels
  Stored <- MCNothing
  Commands <- LinkCommands
  Pushes <- MCNothing
  DeviceReplies <- MCDeviceInfo
  MaxCommands = 1
  MaxPushes = 0
  MaxContacts = 0
  MaxUpkeeps = 0
  MaxDrops = 1
  MaxLinks = 2
  MaxRequests = 6
CHECK_DEADLOCK FALSE
INVARIANTS
  Accounted
  NoSilentDrop
PROPERTY
  Settles
