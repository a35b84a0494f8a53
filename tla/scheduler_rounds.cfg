SPECIFICATION Spec
CONSTANTS
  Devices = {d1, d2}
  Slots = 1
  INTERVAL = 6
  FAST = 2
  WINDOW = 7
  MaxCheck = 1
  MaxFailures = 3
  MaxRestarts = 1
SYMMETRY DeviceSymmetry
INVARIANTS
  HeartbeatFresh
  HeartbeatHonest
  UnsettledIsChecked
