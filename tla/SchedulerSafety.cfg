SPECIFICATION Spec
CONSTANTS
  Servers = {s1, s2}
  Handlers = {h1, h2}
  MaxConcurrency = 2
  MaxQueued = 1
  DoneCapacity = 2
  MaxCalls = 2
  MaxStoreErrors = 1
SYMMETRY Symmetry
INVARIANT BatchAccounting
 
INVARIANT NoOverlap
INVARIANT NoLostWake
PROPERTY MemberNeedsNewRound
CHECK_DEADLOCK FALSE
