SPECIFICATION FairRuntimeSpec
CONSTANTS
  f1 = f1
  f2 = f2
  Files = {f1, f2}
  ReportedTypes = {"added", "deleted"}
  MaxQueueSize = 2
  FullScanThreshold = 2
  Concurrency = 2
  MaxFailures = 1
  StartsIndexed = TRUE
  ScanAttempts = 2
  MaxChanges = 4
  MaxManual = 1
PROPERTIES
  FullScanEnds
  ComesToRest
  AcceptedSettles
