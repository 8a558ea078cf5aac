SPECIFICATION Spec
CONSTANTS
  Threads = {t1, t2}
  Owner = owner
  Names = {u, v}
  Known = {u}
  None = None
  Torn = Torn
  Roles = {"admin"}
  MaxPass = 2
  MaxFails = 2
  MaxReqs = 3
  MaxKeys = 0
  MaxRestarts = 1
  Ops <- Changes
SYMMETRY Symmetry
CHECK_DEADLOCK FALSE
INVARIANTS TypeOK SessionsCurrent FileSettled
