SPECIFICATION Spec
CONSTANTS
  Clients = {c1, c2}
  Internal = Internal
  NoArg = NoArg
  k1 = k1
  i0 = i0
  Args <- MCArgs
  Keys <- MCKeys
  SyncChannels <- MCSyncChannels
  Stored <- MCNothing
  Commands <- SendCommands
  Pushes <- MCNothing
  DeviceReplies <- MCDeviceInfo
  MaxCommands = 2
  MaxPushes = 0
  MaxContacts = 0
  MaxUpkeeps = 0
  MaxDrops = 0
  MaxLinks = 1
  MaxRequests = 4
CHECK_DEADLOCK FALSE
INVARIANT
  NoStaleAnswer
