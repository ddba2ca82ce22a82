CONSTANTS
  Hashes <- MCHashes
  NoHash = "nohash"
  Keys <- MCKeys
  NoKey = "nokey"
  Peers <- MCPeers
  Alias = "alias"
  Self = "self"
  Nobody = "nobody"
  Callers = {"c1"}
  Uploads <- NoUploads
  Stored <- TwoStored
  StoredOrder <- TwoOrder
  PeerStored <- PeersEmpty
  FirstDest <- AllToP
  Dests <- AnyDest
  Chunk = 1
  MaxFaults = 0
  MaxChanges = 0
SPECIFICATION Spec
PROPERTIES AllChecked
