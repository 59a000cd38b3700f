SPECIFICATION Spec
CONSTANTS
  c1 = c1
  c2 = c2
  f1 = f1
  f2 = f2
  NoCall = NoCall
  Calls = {c1, c2}
  Files = {f1, f2}
  BatchSize = 1
  MaxRows = 1
  MaxStale = 0
  MaxFailures = 1
  MaxRestarts = 2
SYMMETRY StoreSymmetry
INVARIANTS
  CountersMatchRows
  OneCutStaysReadable
PROPERTIES
  KeepsPromises
CHECK_DEADLOCK FALSE
