SPECIFICATION Spec
CONSTANTS
  FLAP_THRESHOLD = 2
  SIMULATION_MODE = FALSE
  Requests = {r1}
  Kinds = {"ack"}
  MaxFailures = 3
  MaxLost = 0
PROPERTIES
  AckClearedOnRecovery
