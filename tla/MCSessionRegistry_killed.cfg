SPECIFICATION Spec
CONSTANTS
  Ids = {i}
  Conns = {c1}
  Kills = {k1}
  Persister = Persister
  Reaper = Reaper
  None = None
  MaxSessions = 1
  MaxObjs = 1
  MaxRestarts = 0
  Refusals = FALSE
CHECK_DEADLOCK FALSE
INVARIANTS Forgotten
