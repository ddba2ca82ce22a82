CONSTANTS
  Procs <- MCProcs
  Hosts = {"h1"}
  Local = local
  HostOf <- AllOnOneHost
  PortOf <- MCPortOf
  Config <- SeedListed
  Sync <- Chain
  Announce <- Joiners
  None = none
  MaxFaults = 1
  MaxEdits = 1
SPECIFICATION FairSpec
INVARIANTS MeshComplete
PROPERTIES StartsSucceed RejoinNeedsRemoval StartsEnd
CHECK_DEADLOCK FALSE
