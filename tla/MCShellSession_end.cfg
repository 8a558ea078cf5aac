SPECIFICATION FairSpec
CONSTANTS
  Conns = {s1, s2}
  Tabs = {t1}
  None = None
  RingCap = 1
  ChanCap = 3
  MaxBytes = 0
  MaxChunk = 1
  Ends = {"exit", "kill", "reap"}
CHECK_DEADLOCK FALSE
PROPERTIES NobodyLingers
