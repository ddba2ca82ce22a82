CONSTANTS
  Nodes <- MCNodes
  Hashes = {1, 2}
  Keys = {"k", "l"}
  Addrs <- MCAddrs
  NodeAt <- MCNodeAt
  None = none
  Factor = 3
  Uploads <- TwoAndOne
  FirstDest <- Spread
  RingChanges <- Changes
  MaxFaults = 1
  MaxChanges = 1
  MaxRebases = 2
SPECIFICATION FairSpec
INVARIANTS NoChains ReplicasKept Findable
PROPERTIES EveryPairHandled
CHECK_DEADLOCK FALSE
