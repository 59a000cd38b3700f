SPECIFICATION Spec
CONSTANTS
  f1 = f1
  f2 = f2
  h1 = h1
  h2 = h2
  g1 = g1
  g2 = g2
  s1 = s1
  None = None
  Files = {f1, f2}
  Generations = {g1, g2}
  Names = {s1}
  Declares <- OneName
  Handlers = {h1, h2}
  MaxEpoch = 1
  MaxReports = 1
  MaxFailures = 1
  MaxCrashes = 1
SYMMETRY IndexSymmetry
INVARIANTS
  ActiveIsFound
  QuietMatchesDisk
PROPERTIES
  FailedStagingKeepsActive
  CatalogUsedAsSpecified
CHECK_DEADLOCK FALSE
