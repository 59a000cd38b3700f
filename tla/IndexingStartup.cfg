SPECIFICATION RuntimeSpec
CONSTANTS
  f1 = f1
  f2 = f2
  Files = {f1, f2}
  ReportedTypes = {"added", "modified", "deleted"}
  MaxQueueSize = 2
  FullScanThreshold = 2
  Concurrency = 2
  MaxFailures = 1
  StartsIndexed = FALSE
  ScanAttempts = 2
  MaxChanges = 4
  MaxManual = 1
SYMMETRY FileSymmetry
INVARIANTS
  StaleOnlyWhenExcused
  AcceptedNotLost
  DropsOweScan
PROPERTIES
  QueueUsedAsSpecified
