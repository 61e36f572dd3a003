SPECIFICATION FairSpec
CONSTANTS
  Ranges = {r24h, r7d}
  FirstRange = r24h
  NoRange = NoRange
  MaxFailures = 1
  MaxLogins = 2
  MaxBatches = 0
  MaxClicks = 0
  MaxSleeping = 2
  MaxRestarts = 1
INVARIANT KeepsRefreshing
INVARIANT ExportIsOfRange
PROPERTY RangeArrives
CHECK_DEADLOCK FALSE
