SPECIFICATION Spec
CONSTANTS
  Sources = {s1}
  Addresses = {a1, a2}
  Threads = {t1, t2}
  MaxEdits = 2
  MaxRefreshes = 1
SYMMETRY Symmetry
INVARIANT PoolIsCurrent
INVARIANT CacheIsAfterRefresh
CHECK_DEADLOCK FALSE
