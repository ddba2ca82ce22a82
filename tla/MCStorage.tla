----------------------------- MODULE MCStorage ------------------------------
(* Contents h1 and h2 share a directory, h3 and h4 another.                *)
EXTENDS Storage

MCHashes == {"h1", "h2", "h3", "h4"}
MCKeys == {"k1", "k2"}
MCDirs == {"d1", "d2"}
MCPrefix == [h1 |-> "d1", h2 |-> "d1", h3 |-> "d2", h4 |-> "d2"]

Raw(k, h) == [key |-> k, hash |-> h, compressed |-> FALSE]
Compressed(k, h) == [key |-> k, hash |-> h, compressed |-> TRUE]

K1Stored == [h1 |-> "k1", h2 |-> "nokey", h3 |-> "k1", h4 |-> "nokey"]

\* While k1 is removed, the writers upload its content again, the same under
\* another key, and beside it one (h2) that no removal is after; and w1 one (h4)
\* that w2 does not meet.
RacingUploads ==
  [w1 |-> {Raw("k1", "h1"), Compressed("k2", "h1"), Compressed("k2", "h2"), Raw("k2", "h4")},
   w2 |-> {Compressed("k2", "h1"), Raw("k2", "h2"), Compressed("k2", "h2")}]

NoUploads == [w \in Writers |-> {}]

K1 == {"k1"}
=============================================================================
