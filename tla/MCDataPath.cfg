CONSTANTS
  Handles = {h1, h2}
  Readers = {r1}
  Payloads = {p1, p2}
  SyncEvery = 2
  MaxLSN = 3
  PrimaryKeys = {1, 2, 3}
  StoredIDs = {1}
  NewIDs = {2}
  MapHandles = {1, 2}
  Paths = {1, 2}
  MaxWrites = 2
  DocIDs = {1, 2, 3, 4}
  LaterIDs = {5}
  MaxScore = 2
  Cases <- MCCases
  Workers = 2
  TopK = 2
  NumCandidates = 2
  TopKPerGroup = 2
  RatioPercent = 50
  ScalePercent = 150
  RankConstant = 60
  Traversals <- MCTraversals
  BruteForceThreshold = 2
  MaxBlockHeap = 3
  Generations = 4
SPECIFICATION DataPathSpec
INVARIANTS
  WalInv
  WriterAtEnd
  PromisedRecordsSurvive
  ReaderSnapshotStable
  KeyMapExact
  AnswersExact
  FusionOrdered
  SearchClosed
