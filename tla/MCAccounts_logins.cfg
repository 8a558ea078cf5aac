SPECIFICATION Spec
CONSTANTS
  Threads = {t1, t2}
  Owner = owner
  Names = {u}
  Known = {u}
  None = None
  Torn = Torn
  Roles = {"admin"}
  MaxPass = 2
  MaxFails = 2
  MaxReqs = 4
  MaxKeys = 1
  MaxRestarts = 1
  Ops <- Logins
SYMMETRY Symmetry
CHECK_DEADLOCK FALSE
INVARIANTS GuessBudget RecoveryOnce
