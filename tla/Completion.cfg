SPECIFICATION CompletionSpec
CONSTANTS
  f1 = f1
  f2 = f2
  Files = {f1, f2}
  MaxEntries = 1
  MaxRecoveryAttempts = 1
  HashesMayCome = TRUE
  MayExpire = FALSE
  MaxChanges = 2
  MaxIds = 2
  MaxCrashes = 1
  MayStop = TRUE
SYMMETRY FileSymmetry
INVARIANTS
  CompletedAccountsForAll
  ShutdownNeverStuck
PROPERTIES
  SuccessMeansResolved
CHECK_DEADLOCK FALSE
