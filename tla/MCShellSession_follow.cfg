SPECIFICATION FairSpec
CONSTANTS
  Conns = {s1, s2}
  Tabs = {t1}
  None = None
  RingCap = 2
  ChanCap = 1
  MaxBytes = 2
  MaxChunk = 1
  Ends = {}
CHECK_DEADLOCK FALSE
PROPERTIES StreamRefined TabCatchesUp
