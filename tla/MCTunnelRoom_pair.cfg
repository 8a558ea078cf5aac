SPECIFICATION Spec
CONSTANTS
  Agents = {a1, a2}
  Clients = {c1, c2}
  None = None
  Chunks = 2
  RespMax = 1
  MaxMsg = 3
  MaxWakes = 1
  Gates = TRUE
  StorageFails = FALSE
SYMMETRY Symmetry
CHECK_DEADLOCK FALSE
INVARIANTS TypeOK PresenceTold FreshCaps UiCurrent
