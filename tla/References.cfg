SPECIFICATION FairSpec
CONSTANTS
  Callers = {c1, c2}
  SourceCount = 2
  MaxCalls = 2
  MaxPauses = 1
  MaxEdits = 1
  MaxRefreshes = 1
INVARIANT NoLostFill
INVARIANT BudgetIsShared
PROPERTY CallsEnd
CHECK_DEADLOCK FALSE
