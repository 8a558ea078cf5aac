SPECIFICATION Spec
CONSTANTS
  Conns = {s1, s2}
  Tabs = {t1}
  None = None
  RingCap = 2
  ChanCap = 1
  MaxBytes = 3
  MaxChunk = 2
  Ends = {}
SYMMETRY Symmetry
CHECK_DEADLOCK FALSE
INVARIANTS TypeOK OffsetAccount NoHole OneLateFrame
