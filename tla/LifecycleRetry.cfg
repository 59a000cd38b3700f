SPECIFICATION FairLifeSpec
CONSTANTS
  Opening = Opening
  Handler = Handler
  Scan = Scan
  Compaction = Compaction
  NoCall = NoCall
  Calls = {Opening, Handler, Scan, Compaction}
  MaxInits = 2
INVARIANTS
  RetryMeetsOpenStore
CHECK_DEADLOCK FALSE
