SPECIFICATION Spec
CONSTANTS
  Devices = {d1, d2}
  NoParent = NoParent
  Requests = {r1, r2}
SYMMETRY Symmetry
INVARIANTS
  Acyclic
CHECK_DEADLOCK FALSE
