SPECIFICATION Spec
CONSTANTS
  FLAP_THRESHOLD = 2
  SIMULATION_MODE = FALSE
  Requests = {r1, r2}
  Kinds = {"ack", "enable", "disable", "delete"}
  MaxFailures = 3
  MaxLost = 1
INVARIANTS
  StatusMatchesFailures
  FailuresCountHistory
  LogAgreesWithStatus
PROPERTIES
  ImplementsPromise
  WarningBeforeAlarm
  DeletedStaysDeleted
