SPECIFICATION FairSpec
CONSTANTS
  core = core
  edge = edge
  NoParent = NoParent
  Devices <- TwoDevices
  Parent <- Chain
  Procs = {p1, p2}
  Ops = {"create", "write", "silent", "delete", "read"}
  MaxVersion = 3
  MaxFaults = 2
INVARIANTS
  ExactUnlessDisturbed
PROPERTIES
  SnapshotComesBack
