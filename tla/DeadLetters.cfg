SPECIFICATION PartsSpec
CONSTANTS
  f1 = f1
  f2 = f2
  Files = {f1, f2}
  MaxEntries = 1
  MaxRecoveryAttempts = 2
  HashesMayCome = TRUE
  MayExpire = TRUE
  MaxChanges = 2
  MaxIds = 3
  MaxCrashes = 1
  m1 = m1
  m2 = m2
  p1 = p1
  p2 = p2
  Servers = {m1, m2}
  Ports = {p1, p2}
  NoPort = NoPort
  NoServer = NoServer
  Preferred <- PreferredPorts
  MaxStarts = 2
  MaxAggregators = 2
  MaxTimeouts = 1
INVARIANTS
  MemoryMatchesStore
  NoFileForgotten
PROPERTIES
  EntriesSettle
  DiscoverySettles
CHECK_DEADLOCK FALSE
