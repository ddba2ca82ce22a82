---------------------------- MODULE ContentStore ----------------------------
(***************************************************************************)
(* What the storage of one node promises its clients: a content becomes    *)
(* readable under one key, whole and at once, and stays readable until its *)
(* key is removed.  Storage is shown to implement it.                      *)
(***************************************************************************)
CONSTANTS Hashes, Keys, NoKey, RemovedKeys

VARIABLE content  \* the key a content can be read under, or NoKey

Init == content \in [Hashes -> Keys \cup {NoKey}]

Put(h, k) ==
  /\ content[h] = NoKey
  /\ content' = [content EXCEPT ![h] = k]

\* A removal may take the contents of its key away one after the other.
Remove(k, gone) ==
  /\ \A h \in gone : content[h] = k
  /\ content' = [h \in Hashes |-> IF h \in gone THEN NoKey ELSE content[h]]

Next ==
  \/ \E h \in Hashes, k \in Keys : Put(h, k)
  \/ \E k \in RemovedKeys, gone \in SUBSET Hashes : Remove(k, gone)

Spec == Init /\ [][Next]_content
=============================================================================
