SPECIFICATION CompletionSpec
CONSTANTS
  f1 = f1
  f2 = f2
  Files = {f1, f2}
  MaxEntries = 2
  MaxRecoveryAttempts = 2
  HashesMayCome = FALSE
  MayExpire = FALSE
  MaxChanges = 1
  MaxIds = 2
  MaxCrashes = 0
  MayStop = FALSE
SYMMETRY FileSymmetry
PROPERTIES
  NoWorkLeftAtSuccess
CHECK_DEADLOCK FALSE
