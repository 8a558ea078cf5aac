SPECIFICATION Spec
CONSTANTS
  Ids = {i, j}
  Conns = {c1, c2}
  Kills = {k1}
  Persister = Persister
  Reaper = Reaper
  None = None
  MaxSessions = 1
  MaxObjs = 2
  MaxRestarts = 1
  Refusals = TRUE
SYMMETRY Symmetry
CHECK_DEADLOCK FALSE
INVARIANTS TypeOK NoOrphan HistoryKept
