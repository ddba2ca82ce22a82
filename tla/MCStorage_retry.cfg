CONSTANTS
  Hashes <- MCHashes
  Keys <- MCKeys
  NoKey = "nokey"
  Dirs <- MCDirs
  Prefix <- MCPrefix
  Writers = {w1}
  Remover = remover
  UploadsOf <- NoUploads
  RemovedKeys <- K1
  Stored <- K1Stored
  FaultKinds = {"crash"}
  MaxFaults = 1
SPECIFICATION FairSpec
PROPERTIES RemovalSucceeds
