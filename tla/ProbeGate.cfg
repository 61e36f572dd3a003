SPECIFICATION FairSpec
CONSTANTS
  Threads <- GateThreads
  Servers <- GateServers
  NoServer = NoServer
  MaxConcurrency = 2
  MaxLookups = 2
  MaxEdits = 2
INVARIANT NoLostSignal
PROPERTY LookupsEnd
PROPERTY ImplementsPool
CHECK_DEADLOCK FALSE
