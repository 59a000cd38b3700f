SPECIFICATION PartsSpec
CONSTANTS
  f1 = f1
  g1 = g1
  g2 = g2
  s1 = s1
  s2 = s2
  top = top
  below = below
  lib = lib
  ext = ext
  None = None
  Files = {f1}
  Generations = {g1, g2}
  Names = {s1, s2}
  Declares <- Declared
  Spans = {top, below, lib, ext}
  SpansIn <- Texts
  Body <- Bodies
  Imports <- Uses
  Reconciles = TRUE
  MaxEpoch = 1
  v1 = v1
  v2 = v2
  a = a
  b = b
  c = c
  Windows = {v1, v2}
  FilesOf <- WindowFiles
  ChunksOf <- FileChunks
  NoWindow = NoWindow
  Other = Other
  Uncached = 0
  EmbedBatch = 2
  RetryCount = 1
  MaxConcurrency = 2
  CacheSize = 2
  MaxFaults = 2
  MaxOthers = 1
INVARIANTS
  PayloadExact
  RetiredExact
  AnswersExact
  WindowsKeepFiles
  OneAsksOllama
PROPERTIES
  WindowsEnd
CHECK_DEADLOCK FALSE
