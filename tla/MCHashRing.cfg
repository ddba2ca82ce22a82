CONSTANTS
  Ids <- MCIds
  Strings <- MCStrings
  HashKey <- MCHashKey
  Resolve <- MCResolve
  NilAddr = "nil"
  IndexFor <- MCFindIndex
  ClosestTo <- MCFindClosestElement
  StaleWords <- Stale
  Handlers = {"h1", "h2"}
  Loader = "loader"
  NoProc = "none"
  Scenarios <- AllScenarios
SPECIFICATION FairSpec
INVARIANTS TypeOK LockDiscipline IdsMatchNodes RingShape NoLeakAlone
PROPERTIES  RemovalExact LeakFreezesRing EveryCallReturns
CHECK_DEADLOCK FALSE
