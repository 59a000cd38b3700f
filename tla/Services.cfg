SPECIFICATION ServicesSpec
CONSTANTS
  Opening = Opening
  Handler = Handler
  Scan = Scan
  Compaction = Compaction
  NoCall = NoCall
  Calls = {Opening, Handler, Scan, Compaction}
  MaxInits = 2
  s1 = s1
  s2 = s2
  Sessions = {s1, s2}
  MaxInFlight = 2
  q1 = q1
  q2 = q2
  ca = ca
  cb = cb
  la = la
  lb = lb
  lc = lc
  Searches = {q1, q2}
  Chunks = {ca, cb}
  Lines = {la, lb, lc}
  Within <- LineChunk
  FileRank <- Ranks
  PathForms = {TRUE, FALSE}
  Slots = 1
  TopK = 2
  K = 60
  MaxHits <- Hits
  MaxRank = 2
INVARIANTS
  LockCoversWrites
  EndsStopped
  SessionsAccounted
  AnswersAreFused
PROPERTIES
  CloseEnds
  SlotsComeFree
CHECK_DEADLOCK FALSE
