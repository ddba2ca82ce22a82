CONSTANTS
  Addrs <- MCAddrs
  Known <- KnownA
  States <- UpDownHung
  NoNode = none
  WorkerRatio = 1
  MinWorkers = 1
  MaxWorkers = 2
  MaxMade = 2
SPECIFICATION FairSpec
INVARIANTS TypeOK BlockedOnlyByJoin
PROPERTIES RoundComplete RoundsEnd AliveConverges
CHECK_DEADLOCK FALSE
