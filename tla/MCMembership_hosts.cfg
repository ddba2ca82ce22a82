CONSTANTS
  Procs <- MCProcs
  Hosts = {"h1", "h2"}
  Local = local
  HostOf <- TwoHosts
  PortOf <- MCPortOf
  Config <- SeedListed
  Sync <- Chain
  Announce <- Joiners
  None = none
  MaxFaults = 0
  MaxEdits = 0
SPECIFICATION Spec
INVARIANTS MeshComplete
CHECK_DEADLOCK FALSE
