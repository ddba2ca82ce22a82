CONSTANTS
  Hashes <- MCHashes
  Keys <- MCKeys
  NoKey = "nokey"
  Dirs <- MCDirs
  Prefix <- MCPrefix
  Writers = {"w1", "w2"}
  Remover = remover
  UploadsOf <- RacingUploads
  RemovedKeys <- K1
  Stored <- K1Stored
  FaultKinds = {"crash", "write", "insert", "delete"}
  MaxFaults = 2
SPECIFICATION Spec
INVARIANTS TypeOK RowHasFile AtRestConsistent RowsReadable
PROPERTIES FirstKeyWins ImplementsContentStore RemovalComplete
