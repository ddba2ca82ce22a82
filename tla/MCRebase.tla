------------------------------ MODULE MCRebase ------------------------------
(* Pages of one key; another node, and this one under another address.     *)
EXTENDS Rebase

MCHashes == {"h1", "h2", "h3"}
MCKeys == {"k1", "k2"}
MCPeers == {"p", "alias"}

\* Two keys with a content each; h3 may arrive.
TwoStored == [h1 |-> "k1", h2 |-> "k2", h3 |-> "nokey"]
TwoOrder == [h1 |-> {}, h2 |-> {"h1"}, h3 |-> {}]

\* The other node has h3, or nothing.
NoRows == [h \in MCHashes |-> "nokey"]
PeerHasH3 == [p |-> [NoRows EXCEPT !["h3"] = "k2"], alias |-> NoRows]
PeersEmpty == [q \in MCPeers |-> NoRows]

\* A raw upload of a new content for the first key; and a compressed one, as nodes send,
\* of a content that is there, for the other key.
SomeUploads == {[key |-> "k1", hash |-> "h3", compressed |-> FALSE],
                [key |-> "k2", hash |-> "h1", compressed |-> TRUE]}
NoUploads == {}

OwnFirst == [k1 |-> "self", k2 |-> "p"]
AllToP == [k \in MCKeys |-> "p"]
AnyDest == [k1 |-> {"self", "p", "nobody"}, k2 |-> {"p", "alias"}]
=============================================================================
