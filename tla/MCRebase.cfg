CONSTANTS
  Hashes <- MCHashes
  NoHash = "nohash"
  Keys <- MCKeys
  NoKey = "nokey"
  Peers <- MCPeers
  Alias = "alias"
  Self = "self"
  Nobody = "nobody"
  Callers = {"c1"}
  Uploads <- SomeUploads
  Stored <- TwoStored
  StoredOrder <- TwoOrder
  PeerStored <- PeerHasH3
  FirstDest <- OwnFirst
  Dests <- AnyDest
  Chunk = 1
  MaxFaults = 1
  MaxChanges = 1
SPECIFICATION FairSpec
INVARIANTS TypeOK NothingLost
PROPERTIES RebasesConverge CallsReturn
