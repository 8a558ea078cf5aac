SPECIFICATION Spec
CONSTANTS
  Viewers = {v1}
  Reqs = {r1}
  Parts = 2
  MaxEpoch = 1
  MaxConnects = 2
SYMMETRY Symmetry
CHECK_DEADLOCK FALSE
INVARIANTS TypeOK 
