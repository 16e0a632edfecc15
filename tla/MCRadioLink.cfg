SPECIFICATION Spec
CONSTANTS
  Clients = {c1}
  SharedLine = FALSE
  Noise = {"other", "empty"}
  MaxNoise = 1
  MaxFailures = 3
CHECK_DEADLOCK FALSE
INVARIANTS
  TypeOK
  UpWhileServing
PROPERTIES
  ShutdownStops
  ClientsClosed
  RadioBack
  FrontendOpens
