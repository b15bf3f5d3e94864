SPECIFICATION FairSpec
CONSTANTS
  Caller <- Callers
  Plan <- PlanOf
  Result <- ResultOf
  Harmless <- ReadOnly
  Retries = 1
  Bound <- Bounds4
  LogMax = 2
  FileMax = 1
  FilesMax = 2
  ListMax = 1
  PageMax = 3
  LimitMax = 3
  ServedMax = 2
  ListedMax = 3
  ChunkMax = 2
CHECK_DEADLOCK FALSE
INVARIANTS TypeOK IInv ReadToolsOnlyRead CutsAreFlagged BodyBounded
PROPERTIES WritesOnce CallEnds
