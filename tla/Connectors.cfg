SPECIFICATION PartsSpec
CONSTANTS
  c1 = c1
  c2 = c2
  p0 = p0
  p1 = p1
  p2 = p2
  Clients = {c1, c2}
  Servers = {p0, p1, p2}
  Old = p0
  None = None
  IdleShutdown = TRUE
  MaxTrouble = 2
  d = d
  e = e
  f = f
  g = g
  k = k
  w1 = w1
  w2 = w2
  Top = Top
  Paths = {d, e, f, g, k}
  FilePaths = {d, f, g, k}
  ParentOf <- Tree
  Workers = {w1, w2}
  Contents = {1, 2}
  Chunkless = {2}
  Gone = 0
  MaxOps = 3
  MaxDeaths = 1
SYMMETRY ConnectorSymmetry
INVARIANTS
  OneRuntime
  PidFileStays
  PublishedWhileServing
  TimersMatchUse
  LockHeldByCalls
  OneServerForAll
  
CHECK_DEADLOCK FALSE
