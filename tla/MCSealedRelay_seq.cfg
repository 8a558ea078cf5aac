SPECIFICATION Spec
CONSTANTS
  Viewers = {v1}
  Reqs = {r1}
  Parts = 3
  MaxEpoch = 0
  MaxConnects = 2
CHECK_DEADLOCK FALSE
INVARIANTS SeqRises
