SPECIFICATION FairSpec
CONSTANTS
  Servers = {s1, s2}
  Handlers = {h1}
  MaxConcurrency = 1
  MaxQueued = 2
  DoneCapacity = 1
  MaxCalls = 1
  MaxStoreErrors = 0
PROPERTY DueServed
 
PROPERTY RunStops
CHECK_DEADLOCK FALSE
