SPECIFICATION FairSpec
CONSTANTS
  None = None
  t1 = t1
  t2 = t2
  c1 = c1
  c2 = c2
  k1 = k1
  k2 = k2
  Tabs = {t1}
  Conns = {c1, c2}
  Pollers = {k1, k2}
  Outside = {0, 1}
  Server <- Refusals
  Buffer = 1
  MaxRequests = 1
  MaxOutside = 1
  MaxConnects = 2
CHECK_DEADLOCK FALSE
INVARIANTS OnePollerWhileWatched
PROPERTIES SelectionIsKept ChangesArrive ShutdownReturns
