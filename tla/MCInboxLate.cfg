SPECIFICATION Spec
CONSTANTS
  Clients = {c1, c2}
  Identities = {a, b}
  NoOne = NoOne
  Backlogs <- Off
  MaxCommands = 3
  MaxMessages = 2
  MaxPurges = 0
  MaxFaults = 0
CHECK_DEADLOCK FALSE
SYMMETRY Symmetry
INVARIANT
  GotItLiveOrSentIt
