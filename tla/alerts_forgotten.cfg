SPECIFICATION FairSpec
CONSTANTS
  core = core
  edge = edge
  NoParent = NoParent
  Devices <- TwoDevices
  Parent <- Chain
  Critical <- TwoDevices
  ALERT_CRITICAL_ONLY = FALSE
  Ops <- OutageOps
  MaxFaults = 1
PROPERTIES
  OncePerOutage
