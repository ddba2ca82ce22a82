CONSTANTS
  Ids <- MCIds
  Strings <- MCStrings
  HashKey <- MCHashKey
  Resolve <- MCResolve
  NilAddr = "nil"
  IndexFor <- MCFindIndex
  ClosestTo <- MCFindClosestElement
  StaleWords <- Stale
  Handlers = {"h1", "h2"}
  Loader = "loader"
  NoProc = "none"
  Scenarios <- RemovingOnly
SPECIFICATION Spec
INVARIANTS MutexReleased
CHECK_DEADLOCK FALSE
