SPECIFICATION FairSpec
CONSTANTS
  core = core
  edge = edge
  NoParent = NoParent
  Devices <- TwoDevices
  Parent <- Chain
  Critical <- TwoDevices
  ALERT_CRITICAL_ONLY = FALSE
  Ops <- ChainOps
  MaxFaults = 1
INVARIANTS
  RepeatsBounded
PROPERTIES
  SuppressionRespected
  AlarmReported
  RecoveryAnnounced
