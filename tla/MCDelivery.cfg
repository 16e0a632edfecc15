SPECIFICATION Spec
CONSTANTS
  Clients = {c1, c2}
  Versions = {1, 3}
  Capacity = 1
  MaxCommands = 2
  MaxPushes = 2
  MaxLosses = 1
SYMMETRY Symmetry
CHECK_DEADLOCK FALSE
INVARIANTS
  TypeOK
  NegotiatedLayout
  
  PushesInOrder
