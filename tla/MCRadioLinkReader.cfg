SPECIFICATION Spec
CONSTANTS
  Clients = {c1}
  SharedLine = TRUE
  Noise = {"other"}
  MaxNoise = 1
  MaxFailures = 1
CHECK_DEADLOCK FALSE
PROPERTIES
  RadioBack
