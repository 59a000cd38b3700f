SPECIFICATION SearchSpec
CONSTANTS
  q1 = q1
  q2 = q2
  ca = ca
  cb = cb
  la = la
  lb = lb
  lc = lc
  Searches = {q1, q2}
  Chunks = {ca, cb}
  Lines = {la, lb, lc}
  Within <- LineChunk
  FileRank <- Ranks
  PathForms = {TRUE}
  Slots = 1
  TopK = 2
  K = 60
  MaxHits <- Hits
  MaxRank = 2
INVARIANTS HitsAreFused
CHECK_DEADLOCK FALSE
