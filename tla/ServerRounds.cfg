SPECIFICATION Spec
CONSTANTS
  Addresses = {a1, a2}
  Configs <- SomeConfigs
  MinDelay = 1
  Recheck = 2
  Stagger = 1
  DomainCount = 2
  MaxTime = 4
  MaxEdits = 1
  MaxManual = 1
  MaxRestarts = 1
  MaxLost = 1
SYMMETRY Symmetry
INVARIANT RemovalTakesEffect
INVARIANT BackoffOnRecord
 
CHECK_DEADLOCK FALSE
