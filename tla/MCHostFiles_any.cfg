SPECIFICATION Spec
CONSTANTS
  Tabs = {p, q}
  Names = {a, b}
  Stored = {a}
  None = None
  Ops <- Everything
  MaxCalls = 2
  MaxTexts = 2
SYMMETRY Symmetry
CHECK_DEADLOCK FALSE
INVARIANTS TypeOK OwnText CleanMeansStored Spared
