SPECIFICATION FairSpec
CONSTANTS
  Devices = {d1, d2, d3}
  NoParent = NoParent
  Requests = {r1, r2}
PROPERTIES
  CyclesNeedOverlap
  RefusalsJustified
  WalkEnds
CHECK_DEADLOCK FALSE
