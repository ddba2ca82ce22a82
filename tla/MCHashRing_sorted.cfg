CONSTANTS
  Ids <- MCIds
  Strings <- MCStrings
  HashKey <- MCHashKey
  Resolve <- MCResolve
  NilAddr = "nil"
  IndexFor <- MCFindIndex
  ClosestTo <- MCFindClosestElement
  StaleWords <- Stale
  Handlers = {"h1", "h2"}
  Loader = "loader"
  NoProc = "none"
  Scenarios <- AnnouncingOnly
SPECIFICATION Spec
INVARIANTS IdsSorted
CHECK_DEADLOCK FALSE
