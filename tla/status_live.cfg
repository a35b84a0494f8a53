SPECIFICATION FairSpec
CONSTANTS
  FLAP_THRESHOLD = 2
  SIMULATION_MODE = FALSE
  Requests = {r1}
  Kinds = {"simulate_online", "simulate_offline", "ack", "watch", "unwatch"}
  MaxFailures = 2
  MaxLost = 0
PROPERTIES
  OutageDetected
  RecoveryDetected
  NoOrphanServiceAlarm
