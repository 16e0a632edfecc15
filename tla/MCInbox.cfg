SPECIFICATION Spec
CONSTANTS
  Clients = {c1, c2, c3, c4}
  Identities = {a}
  NoOne = NoOne
  Backlogs <- One
  MaxCommands = 2
  MaxMessages = 2
  MaxPurges = 1
  MaxFaults = 1
CHECK_DEADLOCK FALSE
SYMMETRY Symmetry
INVARIANTS
  TypeOK
  
  
PROPERTIES
  
  CursorForward
