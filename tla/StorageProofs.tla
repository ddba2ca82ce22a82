--------------------------- MODULE StorageProofs ---------------------------
(***************************************************************************)
(* Proofs about Storage, for any contents, keys, directories, writers and  *)
(* uploads, and any number of faults.                                      *)
(***************************************************************************)
EXTENDS Storage, TLAPS

LEMMA AnyType == AnyUpload \in Uploads /\ AnyHash \in Hashes
<1>1. Uploads # {} /\ Hashes # {}
  <2>1. PICK k \in Keys, h \in Hashes : TRUE
    BY StorageAssumption
  <2>2. [key |-> k, hash |-> h, compressed |-> TRUE] \in Uploads
    BY <2>1 DEF Uploads
  <2> QED BY <2>2, StorageAssumption
<1> QED BY <1>1 DEF AnyUpload, AnyHash

LEMMA TypeOKInit == Init => TypeOK
BY AnyType, StorageAssumption DEF Init, TypeOK, Procs

LEMMA TypeOKStep ==
  ASSUME TypeOK, [Next]_vars
  PROVE  TypeOK'
<1> USE StorageAssumption, AnyType
    DEF TypeOK, Goto, Return, ReturnRemoval, Fault, Procs, FileOf
<1>1. ASSUME NEW w \in Writers, Upload(w) PROVE TypeOK'
  <2>1. CASE Mkdir(w)
    BY <2>1 DEF Mkdir, disk, removal, DirOf, Uploads
  <2>2. CASE Stat(w)
    BY <2>2 DEF Stat, disk, removal, DirOf, Uploads
  <2>3. CASE Compare(w)
    <3>1. up' \in [Writers -> Uploads] /\ pc' \in [Procs -> {"insert", "idle"} \cup
            {"mkdir", "stat", "compare", "create", "write", "next", "readdir", "rmdir"}]
      BY <2>3 DEF Compare
    <3>2. \A v \in Writers : attached[v] => v # w /\ pc'[v] = pc[v] /\ up'[v] = up[v]
      BY <2>3 DEF Compare
    <3> QED BY <2>3, <3>1, <3>2 DEF Compare, disk, removal
  <2>4. CASE Create(w)
    BY <2>4 DEF Create, disk, removal, DirOf, Uploads
  <2>5. CASE CreateFails(w)
    BY <2>5 DEF CreateFails, disk, removal, DirOf, Uploads
  <2>6. CASE Write(w)
    BY <2>6 DEF Write, disk, removal, DirOf, Uploads
  <2>7. CASE WriteFails(w)
    BY <2>7 DEF WriteFails, disk, removal, DirOf, Uploads
  <2>8. CASE Insert(w)
    BY <2>8 DEF Insert, disk, removal, DirOf, Uploads
  <2>9. CASE InsertFails(w)
    BY <2>9 DEF InsertFails, disk, removal, DirOf, Uploads
  <2> QED BY <1>1, <2>1, <2>2, <2>3, <2>4, <2>5, <2>6, <2>7, <2>8, <2>9 DEF Upload
<1>2. ASSUME NEW w \in Writers, NEW u \in UploadsOf[w], Receive(w, u) PROVE TypeOK'
  <2>1. u \in Uploads
    OBVIOUS
  <2> QED BY <1>2, <2>1 DEF Receive, disk, removal
<1>3. CASE Remove
  <2>1. ASSUME NEW h \in Hashes, Unlink(h) PROVE TypeOK'
    <3>1. attached' \in [Writers -> BOOLEAN]
      BY <2>1, Zenon DEF Unlink
    <3>2. \A w \in Writers : attached'[w] => attached[w] /\ up[w].hash # h
      BY <2>1, Zenon DEF Unlink
    <3>3. \A w \in Writers : attached'[w] => pc'[w] = "write" /\ file'[up'[w].hash] # "none"
      BY <2>1, <3>2 DEF Unlink
    <3>4. /\ file' \in [Hashes -> {"none", "partial", "full"}]
          /\ pc' = [pc EXCEPT ![Remover] = "readdir"]
          /\ todo' \subseteq Hashes /\ rhash' \in Hashes
          /\ UNCHANGED <<dirs, rows, up, rkey, faults>>
      BY <2>1 DEF Unlink
    <3> QED BY <3>1, <3>3, <3>4
  <2>2. ASSUME NEW h \in Hashes, UnlinkFails(h) PROVE TypeOK'
    BY <2>2 DEF UnlinkFails, RemoverFails, disk
  <2>3. CASE ReadDir
    BY <2>3 DEF ReadDir, disk, removal
  <2>4. CASE Rmdir
    BY <2>4 DEF Rmdir, removal
  <2>5. CASE RmdirFails
    BY <2>5 DEF RmdirFails, RemoverFails, disk
  <2>6. CASE DeleteRows
    BY <2>6 DEF DeleteRows, disk
  <2>7. CASE DeleteFails
    BY <2>7 DEF DeleteFails, disk
  <2> QED BY <1>3, <2>1, <2>2, <2>3, <2>4, <2>5, <2>6, <2>7 DEF Remove
<1>4. ASSUME NEW key \in RemovedKeys, RemoveByKey(key) PROVE TypeOK'
  BY <1>4 DEF RemoveByKey, disk
<1>5. CASE Crash
  BY <1>5 DEF Crash, disk
<1>6. CASE UNCHANGED vars
  BY <1>6 DEF vars
<1> QED BY <1>1, <1>2, <1>3, <1>4, <1>5, <1>6 DEF Next

\* Types are right, and a writer has a file open only while it writes it.
THEOREM TypeOKHolds == Spec => []TypeOK
BY TypeOKInit, TypeOKStep, PTL DEF Spec

-----------------------------------------------------------------------------

\* A step preserves TornOnlyInWrite: what opens a file truncates it, and what
\* closes it has completed it or met a fault.
LEMMA TornStep ==
  ASSUME TypeOK, TornOnlyInWrite, [Next]_vars
  PROVE  TornOnlyInWrite'
<1> USE DEF TypeOK, Goto, Return, ReturnRemoval, TornOnlyInWrite, Writing
<1>1. ASSUME NEW w \in Writers, Upload(w) PROVE TornOnlyInWrite'
  <2>1. CASE Create(w)
    BY <2>1 DEF Create
  <2>2. CASE Write(w)
    BY <2>2 DEF Write, FileOf
  <2>3. CASE WriteFails(w) \/ InsertFails(w)
    BY <2>3, StorageAssumption DEF WriteFails, InsertFails, Fault
  <2>4. CASE Mkdir(w) \/ Stat(w) \/ Compare(w) \/ CreateFails(w) \/ Insert(w)
    BY <2>4 DEF Mkdir, Stat, Compare, CreateFails, Insert, disk
  <2> QED BY <1>1, <2>1, <2>2, <2>3, <2>4 DEF Upload
<1>2. ASSUME NEW w \in Writers, NEW u \in UploadsOf[w], Receive(w, u)
      PROVE  TornOnlyInWrite'
  BY <1>2 DEF Receive, disk
<1>3. CASE Remove
  <2>1. ASSUME NEW h \in Hashes, Unlink(h) PROVE TornOnlyInWrite'
    BY <2>1 DEF Unlink
  <2>2. CASE (\E h \in Hashes : UnlinkFails(h)) \/ RmdirFails \/ ReadDir \/ Rmdir \/ DeleteRows
    BY <2>2 DEF UnlinkFails, RmdirFails, RemoverFails, ReadDir, Rmdir, DeleteRows, disk
  <2>3. CASE DeleteFails
    BY <2>3, StorageAssumption DEF DeleteFails, Fault
  <2> QED BY <1>3, <2>1, <2>2, <2>3 DEF Remove
<1>4. ASSUME NEW key \in RemovedKeys, RemoveByKey(key) PROVE TornOnlyInWrite'
  BY <1>4 DEF RemoveByKey, disk
<1>5. CASE Crash
  BY <1>5, StorageAssumption DEF Crash, Fault
<1>6. CASE UNCHANGED vars
  BY <1>6 DEF vars
<1> QED BY <1>1, <1>2, <1>3, <1>4, <1>5, <1>6 DEF Next

\* However many uploads and removals of a content overlap, its file is
\* incomplete only while one of the uploads writes it, or after a fault.
THEOREM TornOnlyInWriteHolds == Spec => []TornOnlyInWrite
<1>1. Init => TornOnlyInWrite
  BY DEF Init, TornOnlyInWrite
<1> QED BY <1>1, TypeOKInit, TypeOKStep, TornStep, PTL DEF Spec

-----------------------------------------------------------------------------

\* The remover works on a key that a rebase may move away.
RemoverKey == pc[Remover] # "idle" => rkey \in RemovedKeys

LEMMA RemoverKeyStep ==
  ASSUME TypeOK, RemoverKey, [Next]_vars
  PROVE  RemoverKey'
<1> USE StorageAssumption DEF TypeOK, RemoverKey, Goto, Return, ReturnRemoval, Procs
<1>1. ASSUME NEW w \in Writers, Upload(w) PROVE RemoverKey'
  BY <1>1 DEF Upload, Mkdir, Stat, Compare, Create, CreateFails, Write, WriteFails, Insert,
              InsertFails, removal
<1>2. ASSUME NEW w \in Writers, NEW u \in UploadsOf[w], Receive(w, u) PROVE RemoverKey'
  BY <1>2 DEF Receive, removal
<1>3. CASE Remove
  BY <1>3 DEF Remove, Unlink, UnlinkFails, RmdirFails, RemoverFails, ReadDir, Rmdir,
              DeleteRows, DeleteFails, removal
<1>4. ASSUME NEW key \in RemovedKeys, RemoveByKey(key) PROVE RemoverKey'
  BY <1>4 DEF RemoveByKey
<1>5. CASE Crash
  BY <1>5 DEF Crash
<1>6. CASE UNCHANGED vars
  BY <1>6 DEF vars
<1> QED BY <1>1, <1>2, <1>3, <1>4, <1>5, <1>6 DEF Next

\* A content stays under its first key until a removal of that key.
THEOREM FirstKeyWinsHolds == Spec => FirstKeyWins
<1> DEFINE Kept ==
      \A h \in Hashes :
        rows[h] # NoKey /\ rows'[h] # rows[h] =>
          rows'[h] = NoKey /\ rows[h] = rkey /\ rkey \in RemovedKeys
<1>1. Init => RemoverKey
  BY StorageAssumption DEF Init, RemoverKey, Procs
<1>2. ASSUME TypeOK, RemoverKey, [Next]_vars PROVE Kept
  <2> USE DEF TypeOK, RemoverKey
  <2>1. ASSUME NEW w \in Writers, Upload(w) PROVE Kept
    <3>1. CASE Insert(w)
      BY <3>1 DEF Insert
    <3>2. CASE ~Insert(w)
      <4>1. rows' = rows
        BY <2>1, <3>2 DEF Upload, Mkdir, Stat, Compare, Create, CreateFails, Write, WriteFails,
                          InsertFails
      <4> QED BY <4>1
    <3> QED BY <3>1, <3>2
  <2>2. ASSUME NEW w \in Writers, NEW u \in UploadsOf[w], Receive(w, u) PROVE Kept
    BY <2>2 DEF Receive
  <2>3. CASE Remove
    <3>1. CASE DeleteRows
      <4>1. pc[Remover] = "next"
        BY <3>1 DEF DeleteRows
      <4>2. rkey \in RemovedKeys
        BY <1>2, <4>1
      <4>3. \A h \in Hashes : rows'[h] = IF rows[h] = rkey THEN NoKey ELSE rows[h]
        BY <3>1 DEF DeleteRows
      <4> QED BY <4>2, <4>3
    <3>2. CASE ~DeleteRows
      <4>1. rows' = rows
        BY <2>3, <3>2 DEF Remove, Unlink, UnlinkFails, RmdirFails, RemoverFails, ReadDir, Rmdir,
                          DeleteFails
      <4> QED BY <4>1
    <3> QED BY <3>1, <3>2
  <2>4. ASSUME NEW key \in RemovedKeys, RemoveByKey(key) PROVE Kept
    BY <2>4 DEF RemoveByKey
  <2>5. CASE Crash
    BY <2>5 DEF Crash
  <2>6. CASE UNCHANGED vars
    BY <2>6 DEF vars
  <2> QED BY <1>2, <2>1, <2>2, <2>3, <2>4, <2>5, <2>6 DEF Next
<1>3. TypeOK /\ RemoverKey /\ [Next]_vars => [Kept]_vars
  BY <1>2
<1> QED BY <1>1, <1>3, TypeOKInit, TypeOKStep, RemoverKeyStep, PTL DEF Spec, FirstKeyWins
-----------------------------------------------------------------------------

\* Of a content that no removal is after: a writer about to record it has seen
\* or written its file, and a file without a row, unless a fault has stopped
\* somebody, is one that somebody is about to record. The remover lists none.
SafeUploading ==
  \A h \in Hashes : Safe(h) =>
    /\ rows[h] \notin RemovedKeys
    /\ h \notin todo
    /\ rows[h] # NoKey => file[h] # "none"
    /\ \A w \in Writers : up[w].hash = h =>
         /\ pc[w] \in {"write", "insert"} => file[h] # "none"
         /\ pc[w] = "write" => attached[w]
    /\ faults = 0 /\ file[h] # "none" /\ rows[h] = NoKey =>
         \E w \in Writers : up[w].hash = h /\ pc[w] \in {"write", "insert"}

\* A busy writer handles one of the uploads it may be sent.
Sent == \A w \in Writers : pc[w] # "idle" => up[w] \in UploadsOf[w]

Uploading == RemoverKey /\ Sent /\ SafeUploading

LEMMA UploadingInit == Init => Uploading
BY StorageAssumption
   DEF Init, Uploading, RemoverKey, Sent, SafeUploading, Safe, Procs

LEMMA SentStep ==
  ASSUME TypeOK, Sent, [Next]_vars
  PROVE  Sent'
<1> USE StorageAssumption DEF TypeOK, Sent, Goto, Return, ReturnRemoval, Procs
<1>1. ASSUME NEW w \in Writers, Upload(w) PROVE Sent'
  <2>1. pc[w] # "idle" /\ (pc'[w] # "idle" => up' = up)
    BY <1>1 DEF Upload, Mkdir, Stat, Compare, Create, CreateFails, Write, WriteFails, Insert,
                InsertFails
  <2>2. \A v \in Writers \ {w} : pc'[v] = pc[v] /\ up'[v] = up[v]
    BY <1>1 DEF Upload, Mkdir, Stat, Compare, Create, CreateFails, Write, WriteFails, Insert,
                InsertFails
  <2> QED BY <2>1, <2>2
<1>2. ASSUME NEW w \in Writers, NEW u \in UploadsOf[w], Receive(w, u) PROVE Sent'
  BY <1>2 DEF Receive
<1>3. CASE Remove
  BY <1>3 DEF Remove, Unlink, UnlinkFails, RmdirFails, RemoverFails, ReadDir, Rmdir,
              DeleteRows, DeleteFails
<1>4. ASSUME NEW key \in RemovedKeys, RemoveByKey(key) PROVE Sent'
  BY <1>4 DEF RemoveByKey
<1>5. CASE Crash
  BY <1>5 DEF Crash
<1>6. CASE UNCHANGED vars
  BY <1>6 DEF vars
<1> QED BY <1>1, <1>2, <1>3, <1>4, <1>5, <1>6 DEF Next

\* The upload of a safe content is under a key that is not removed.
LEMMA SafeUpload ==
  ASSUME Sent, NEW w \in Writers, pc[w] # "idle", Safe(up[w].hash)
  PROVE  up[w].key \notin RemovedKeys
BY DEF Sent, Safe

\* Steps that neither change a file or a row nor stop somebody before his row.
LEMMA SafeUploadingQuiet ==
  ASSUME TypeOK, SafeUploading, faults' \in Nat, faults' = 0 => faults = 0,
         todo' = todo \/ \A h \in Hashes : Safe(h) => h \notin todo',
         UNCHANGED <<file, rows, attached>>,
         \A w \in Writers : pc'[w] # "idle" => up'[w] = up[w],
         \A w \in Writers : pc'[w] = "write" => pc[w] = "write",
         \A w \in Writers : pc'[w] = "insert" =>
           pc[w] = "insert" \/ FileOf(w) # "none",
         faults' = 0 =>
           \A w \in Writers : pc[w] \in {"write", "insert"} => pc'[w] = pc[w]
  PROVE  SafeUploading'
<1> SUFFICES ASSUME NEW h \in Hashes, Safe(h)
             PROVE  /\ rows'[h] \notin RemovedKeys
                    /\ h \notin todo'
                    /\ rows'[h] # NoKey => file'[h] # "none"
                    /\ \A w \in Writers : up'[w].hash = h =>
                         /\ pc'[w] \in {"write", "insert"} => file'[h] # "none"
                         /\ pc'[w] = "write" => attached'[w]
                    /\ faults' = 0 /\ file'[h] # "none" /\ rows'[h] = NoKey =>
                         \E w \in Writers : up'[w].hash = h /\ pc'[w] \in {"write", "insert"}
  BY DEF SafeUploading, Safe
<1> QED BY DEF SafeUploading, FileOf

LEMMA SafeUploadingStep ==
  ASSUME TypeOK, Uploading, [Next]_vars
  PROVE  SafeUploading'
<1> USE StorageAssumption DEF TypeOK, Goto, Return, ReturnRemoval, Procs
<1>1. ASSUME NEW w \in Writers, Upload(w) PROVE SafeUploading'
  <2>1. CASE Mkdir(w)
    BY <2>1, SafeUploadingQuiet DEF Mkdir, Uploading, removal
  <2>2. CASE Stat(w)
    BY <2>2, SafeUploadingQuiet DEF Stat, Uploading, disk, removal
  <2>3. CASE Compare(w)
    BY <2>3, SafeUploadingQuiet DEF Compare, Uploading, FileOf, disk, removal
  <2>4. CASE Create(w)
    <3> SUFFICES ASSUME NEW h \in Hashes, Safe(h)
                 PROVE  /\ rows'[h] \notin RemovedKeys
                        /\ h \notin todo'
                        /\ rows'[h] # NoKey => file'[h] # "none"
                        /\ \A v \in Writers : up'[v].hash = h =>
                             /\ pc'[v] \in {"write", "insert"} => file'[h] # "none"
                             /\ pc'[v] = "write" => attached'[v]
                        /\ faults' = 0 /\ file'[h] # "none" /\ rows'[h] = NoKey =>
                             \E v \in Writers :
                               up'[v].hash = h /\ pc'[v] \in {"write", "insert"}
      BY DEF SafeUploading, Safe
    <3>1. rows'[h] \notin RemovedKeys /\ h \notin todo'
      BY <2>4 DEF Create, Uploading, SafeUploading, removal
    <3>2. rows'[h] # NoKey => file'[h] # "none"
      BY <2>4 DEF Create, Uploading, SafeUploading
    <3>3. ASSUME NEW v \in Writers, up'[v].hash = h
          PROVE  /\ pc'[v] \in {"write", "insert"} => file'[h] # "none"
                 /\ pc'[v] = "write" => attached'[v]
      BY <2>4, <3>3 DEF Create, Uploading, SafeUploading
    <3>4. ASSUME faults' = 0, file'[h] # "none", rows'[h] = NoKey
          PROVE  \E v \in Writers : up'[v].hash = h /\ pc'[v] \in {"write", "insert"}
      <4>1. CASE h = up[w].hash
        BY <2>4, <4>1 DEF Create
      <4>2. CASE h # up[w].hash
        <5>1. file[h] # "none" /\ rows[h] = NoKey /\ faults = 0
          BY <2>4, <3>4, <4>2 DEF Create
        <5>2. PICK v \in Writers : up[v].hash = h /\ pc[v] \in {"write", "insert"}
          BY <5>1 DEF Uploading, SafeUploading
        <5>3. v # w
          BY <4>2, <5>2
        <5> QED BY <2>4, <5>2, <5>3 DEF Create
      <4> QED BY <4>1, <4>2
    <3> QED BY <3>1, <3>2, <3>3, <3>4
  <2>5. CASE CreateFails(w)
    BY <2>5, SafeUploadingQuiet DEF CreateFails, Uploading, disk, removal
  <2>6. CASE Write(w)
    <3>1. pc' = [pc EXCEPT ![w] = "insert"] /\ UNCHANGED <<rows, up, removal, faults>>
      BY <2>6 DEF Write
    <3>2. \A h \in Hashes : file'[h] # "none" <=> file[h] # "none"
      BY <2>6 DEF Write, FileOf
    <3>3. \A v \in Writers : pc'[v] = "write" => v # w /\ pc[v] = "write"
      BY <3>1
    <3>4. \A v \in Writers : v # w => attached'[v] = attached[v]
      BY <2>6 DEF Write
    <3>5. \A v \in Writers : pc'[v] \in {"write", "insert"} <=> pc[v] \in {"write", "insert"}
      BY <2>6 DEF Write
    <3> QED BY <3>1, <3>2, <3>3, <3>4, <3>5 DEF Uploading, SafeUploading, Safe, removal
  <2>7. CASE WriteFails(w)
    <3>1. faults' # 0 /\ UNCHANGED <<file, rows, todo>>
      BY <2>7 DEF WriteFails, Fault, disk, removal
    <3>2. \A v \in Writers : pc'[v] # "idle" =>
            pc'[v] = pc[v] /\ up'[v] = up[v] /\ attached'[v] = attached[v]
      BY <2>7 DEF WriteFails
    <3> QED BY <3>1, <3>2 DEF Uploading, SafeUploading, Safe
  <2>8. CASE Insert(w)
    <3> SUFFICES ASSUME NEW h \in Hashes, Safe(h)
                 PROVE  /\ rows'[h] \notin RemovedKeys
                        /\ h \notin todo'
                        /\ rows'[h] # NoKey => file'[h] # "none"
                        /\ \A v \in Writers : up'[v].hash = h =>
                             /\ pc'[v] \in {"write", "insert"} => file'[h] # "none"
                             /\ pc'[v] = "write" => attached'[v]
                        /\ faults' = 0 /\ file'[h] # "none" /\ rows'[h] = NoKey =>
                             \E v \in Writers :
                               up'[v].hash = h /\ pc'[v] \in {"write", "insert"}
      BY DEF SafeUploading, Safe
    <3>0. /\ UNCHANGED <<file, attached, todo, faults>> /\ pc[w] = "insert"
          /\ \A v \in Writers : pc'[v] # "idle" => v # w /\ pc'[v] = pc[v] /\ up'[v] = up[v]
      BY <2>8 DEF Insert, disk, removal
    <3>1. h = up[w].hash => up[w].key \notin RemovedKeys
      BY <3>0, SafeUpload DEF Uploading
    <3>2. rows'[h] \notin RemovedKeys /\ h \notin todo'
      BY <2>8, <3>0, <3>1 DEF Insert, Uploading, SafeUploading
    <3>3. rows'[h] # NoKey => file'[h] # "none"
      BY <2>8, <3>0 DEF Insert, Uploading, SafeUploading
    <3>4. ASSUME NEW v \in Writers, up'[v].hash = h
          PROVE  /\ pc'[v] \in {"write", "insert"} => file'[h] # "none"
                 /\ pc'[v] = "write" => attached'[v]
      BY <2>8, <3>0, <3>4 DEF Insert, Uploading, SafeUploading
    <3>5. ASSUME faults' = 0, file'[h] # "none", rows'[h] = NoKey
          PROVE  \E v \in Writers : up'[v].hash = h /\ pc'[v] \in {"write", "insert"}
      <4>1. h # up[w].hash
        <5>1. up[w].key # NoKey
          BY DEF Uploads
        <5> QED BY <2>8, <3>5, <5>1 DEF Insert
      <4>2. rows[h] = NoKey
        BY <2>8, <3>5, <4>1 DEF Insert
      <4>3. PICK v \in Writers : up[v].hash = h /\ pc[v] \in {"write", "insert"}
        BY <3>0, <3>5, <4>2 DEF Uploading, SafeUploading
      <4>4. v # w
        BY <4>1, <4>3
      <4> QED BY <2>8, <3>0, <4>3, <4>4 DEF Insert
    <3> QED BY <3>2, <3>3, <3>4, <3>5
  <2>9. CASE InsertFails(w)
    BY <2>9, SafeUploadingQuiet DEF InsertFails, Fault, Uploading, disk, removal
  <2> QED BY <1>1, <2>1, <2>2, <2>3, <2>4, <2>5, <2>6, <2>7, <2>8, <2>9 DEF Upload
<1>2. ASSUME NEW w \in Writers, NEW u \in UploadsOf[w], Receive(w, u) PROVE SafeUploading'
  <2>1. pc[w] = "idle" /\ pc'[w] = "mkdir" /\ UNCHANGED <<file, rows, attached, todo, faults>>
    BY <1>2 DEF Receive, disk, removal
  <2>2. \A v \in Writers : v # w => pc'[v] = pc[v] /\ up'[v] = up[v]
    BY <1>2 DEF Receive
  <2> QED BY <2>1, <2>2 DEF Uploading, SafeUploading, Safe
<1>3. CASE Remove
  <2>1. ASSUME NEW h \in Hashes, Unlink(h) PROVE SafeUploading'
    <3>1. ~Safe(h) /\ UNCHANGED <<rows, up, faults>> /\ todo' \subseteq todo
      BY <2>1 DEF Unlink, Uploading, SafeUploading
    <3>2. \A g \in Hashes : g # h => file'[g] = file[g]
      BY <2>1 DEF Unlink
    <3>3. \A w \in Writers : pc'[w] = pc[w]
      BY <2>1 DEF Unlink
    <3>4. \A w \in Writers : up[w].hash # h => attached'[w] = attached[w]
      BY <2>1, Zenon DEF Unlink
    <3> QED BY <3>1, <3>2, <3>3, <3>4 DEF Uploading, SafeUploading, Safe
  <2>2. ASSUME NEW h \in Hashes, UnlinkFails(h) PROVE SafeUploading'
    BY <2>2, SafeUploadingQuiet DEF UnlinkFails, RemoverFails, Uploading, disk
  <2>3. CASE ReadDir
    BY <2>3, SafeUploadingQuiet DEF ReadDir, Uploading, disk, removal
  <2>4. CASE Rmdir
    BY <2>4, SafeUploadingQuiet DEF Rmdir, Uploading, removal
  <2>5. CASE RmdirFails
    BY <2>5, SafeUploadingQuiet DEF RmdirFails, RemoverFails, Uploading, disk
  <2>6. CASE DeleteRows
    <3>1. rkey \in RemovedKeys
      BY <2>6 DEF DeleteRows, Uploading, RemoverKey
    <3>2. \A h \in Hashes : Safe(h) => rows'[h] = rows[h]
      BY <2>6, <3>1 DEF DeleteRows, Uploading, SafeUploading
    <3>3. /\ UNCHANGED <<file, up, attached, faults>> /\ todo' = {}
          /\ \A w \in Writers : pc'[w] = pc[w]
      BY <2>6 DEF DeleteRows, disk
    <3> QED BY <3>2, <3>3 DEF Uploading, SafeUploading, Safe
  <2>7. CASE DeleteFails
    BY <2>7, SafeUploadingQuiet DEF DeleteFails, Fault, Uploading, disk
  <2> QED BY <1>3, <2>1, <2>2, <2>3, <2>4, <2>5, <2>6, <2>7 DEF Remove
<1>4. ASSUME NEW key \in RemovedKeys, RemoveByKey(key) PROVE SafeUploading'
  <2>1. \A h \in Hashes : Safe(h) => h \notin todo'
    BY <1>4 DEF RemoveByKey, Uploading, SafeUploading
  <2> QED BY <1>4, <2>1, SafeUploadingQuiet DEF RemoveByKey, Uploading, disk
<1>5. CASE Crash
  <2>1. faults' # 0 /\ UNCHANGED <<file, rows>> /\ todo' = {}
    BY <1>5 DEF Crash, Fault, disk
  <2>2. \A w \in Writers : pc'[w] = "idle"
    BY <1>5 DEF Crash
  <2> QED BY <2>1, <2>2 DEF Uploading, SafeUploading, Safe
<1>6. CASE UNCHANGED vars
  BY <1>6, SafeUploadingQuiet DEF vars, Uploading
<1> QED BY <1>1, <1>2, <1>3, <1>4, <1>5, <1>6 DEF Next

LEMMA UploadingHolds == Spec => []Uploading
<1>1. TypeOK /\ Uploading /\ [Next]_vars => Uploading'
  BY RemoverKeyStep, SentStep, SafeUploadingStep DEF Uploading
<1> QED BY <1>1, TypeOKInit, TypeOKStep, UploadingInit, PTL DEF Spec

\* Uploads never record a content that has no file, whatever fails, when no
\* removal is after that content.
THEOREM RowHasFileHolds == Spec => []RowHasFile
<1>1. Uploading => RowHasFile
  BY DEF Uploading, SafeUploading, RowHasFile
<1> QED BY <1>1, UploadingHolds, PTL

\* After the uploads and no fault, the disk holds exactly what the rows say of
\* every content that no removal is after.
THEOREM AtRestConsistentHolds == Spec => []AtRestConsistent
<1>1. ASSUME TypeOK, Uploading, TornOnlyInWrite PROVE AtRestConsistent
  <2> SUFFICES ASSUME faults = 0, \A w \in Writers : pc[w] = "idle",
                      NEW h \in Hashes, Safe(h)
               PROVE  file[h] = IF rows[h] = NoKey THEN "none" ELSE "full"
    BY DEF AtRestConsistent
  <2>1. \A w \in Writers : ~attached[w]
    BY <1>1 DEF TypeOK, Procs
  <2>2. file[h] # "partial"
    BY <1>1, <2>1 DEF TornOnlyInWrite, Writing
  <2>3. rows[h] = NoKey => file[h] = "none"
    BY <1>1 DEF Uploading, SafeUploading
  <2>4. rows[h] # NoKey => file[h] # "none"
    BY <1>1 DEF Uploading, SafeUploading
  <2> QED BY <1>1, <2>2, <2>3, <2>4 DEF TypeOK
<1>2. TypeOK /\ Uploading /\ TornOnlyInWrite => AtRestConsistent
  BY <1>1
<1> QED BY <1>2, TypeOKHolds, UploadingHolds, TornOnlyInWriteHolds, PTL

-----------------------------------------------------------------------------

\* A content that only one writer is after, with raw uploads: whoever is about
\* to create its file has seen that there is none, and so no row either, and
\* whoever is about to record it has a whole file.
Wholeness ==
  \A h \in Apart :
    /\ ~Safe(h) => rows[h] \in RemovedKeys \cup {NoKey}
    /\ Safe(h) /\ rows[h] # NoKey => file[h] = "full"
    /\ \A w \in Writers : pc[w] # "idle" /\ up[w].hash = h =>
         /\ pc[w] = "create" => file[h] = "none"
         /\ pc[w] \in {"create", "write"} => rows[h] = NoKey
         /\ pc[w] = "insert" => file[h] = "full"

LEMMA WholenessInit == Init => Wholeness
<1> SUFFICES ASSUME Init, NEW h \in Apart
             PROVE  /\ ~Safe(h) => rows[h] \in RemovedKeys \cup {NoKey}
                    /\ Safe(h) /\ rows[h] # NoKey => file[h] = "full"
  BY DEF Init, Wholeness, Procs
<1>1. h \in Hashes /\ (~Safe(h) => Stored[h] \in RemovedKeys)
  BY DEF Apart, Safe
<1> QED BY <1>1, StorageAssumption DEF Init

\* The one writer that is after such a content.
LEMMA ApartUpload ==
  ASSUME Sent, NEW h \in Apart, NEW w \in Writers, pc[w] # "idle", up[w].hash = h
  PROVE  /\ Safe(h) /\ ~up[w].compressed
         /\ \A v \in Writers \ {w} : pc[v] # "idle" => up[v].hash # h
<1>1. up[w] \in UploadsOf[w]
  BY DEF Sent
<1>2. /\ ~up[w].compressed /\ up[w].key \notin RemovedKeys /\ Stored[h] \in {up[w].key, NoKey}
      /\ \A v \in Writers \ {w} : \A x \in UploadsOf[v] : x.hash # h
  BY <1>1 DEF Apart
<1>3. \A v \in Writers \ {w} : pc[v] # "idle" => up[v].hash # h
  BY <1>2 DEF Sent
<1>4. Stored[h] \notin RemovedKeys
  BY <1>2, StorageAssumption
<1>5. ASSUME NEW v \in Writers, NEW u \in UploadsOf[v], u.hash = h PROVE u.key \notin RemovedKeys
  BY <1>5 DEF Apart
<1> QED BY <1>2, <1>3, <1>4, <1>5 DEF Safe

\* Steps that change neither a file nor a row and let nobody come to a row or a
\* file.
LEMMA WholenessQuiet ==
  ASSUME TypeOK, Wholeness, UNCHANGED <<file, rows>>,
         \A w \in Writers : pc'[w] \in {"create", "write", "insert"} =>
           pc'[w] = pc[w] /\ up'[w] = up[w]
  PROVE  Wholeness'
<1> SUFFICES ASSUME NEW h \in Apart
             PROVE  /\ ~Safe(h) => rows'[h] \in RemovedKeys \cup {NoKey}
                    /\ Safe(h) /\ rows'[h] # NoKey => file'[h] = "full"
                    /\ \A w \in Writers : pc'[w] # "idle" /\ up'[w].hash = h =>
                         /\ pc'[w] = "create" => file'[h] = "none"
                         /\ pc'[w] \in {"create", "write"} => rows'[h] = NoKey
                         /\ pc'[w] = "insert" => file'[h] = "full"
  BY DEF Wholeness, Apart, Safe
<1> QED BY DEF Wholeness

LEMMA WholenessStep ==
  ASSUME TypeOK, Uploading, Wholeness, [Next]_vars
  PROVE  Wholeness'
<1> USE StorageAssumption DEF TypeOK, Goto, Return, ReturnRemoval, Procs
<1> DEFINE Whole(h) ==
      /\ ~Safe(h) => rows[h] \in RemovedKeys \cup {NoKey}
      /\ Safe(h) /\ rows[h] # NoKey => file[h] = "full"
      /\ \A w \in Writers : pc[w] # "idle" /\ up[w].hash = h =>
           /\ pc[w] = "create" => file[h] = "none"
           /\ pc[w] \in {"create", "write"} => rows[h] = NoKey
           /\ pc[w] = "insert" => file[h] = "full"
<1>0. (\A h \in Apart : Whole(h)') => Wholeness'
  BY DEF Wholeness, Apart, Safe
<1>1. ASSUME NEW w \in Writers, Upload(w) PROVE Wholeness'
  <2>1. CASE Mkdir(w)
    <3> SUFFICES ASSUME NEW h \in Apart PROVE Whole(h)'
      BY <1>0
    <3>1. h = up[w].hash => pc'[w] = "stat"
      BY <2>1, ApartUpload DEF Mkdir, Uploading
    <3>2. UNCHANGED <<file, rows, up>> /\ \A v \in Writers : v # w => pc'[v] = pc[v]
      BY <2>1 DEF Mkdir
    <3> QED BY <3>1, <3>2 DEF Wholeness, Safe
  <2>2. CASE Stat(w)
    <3> SUFFICES ASSUME NEW h \in Apart PROVE Whole(h)'
      BY <1>0
    <3>1. UNCHANGED <<file, rows, up>> /\ pc[w] # "idle" /\ \A v \in Writers : v # w => pc'[v] = pc[v]
      BY <2>2 DEF Stat, disk
    <3>2. pc'[w] = IF file[up[w].hash] = "none" THEN "create" ELSE "compare"
      BY <2>2 DEF Stat, FileOf
    <3>3. h = up[w].hash /\ file[h] = "none" => rows[h] = NoKey
      BY <3>1, ApartUpload DEF Wholeness, Uploading
    <3> QED BY <3>1, <3>2, <3>3 DEF Wholeness, Safe
  <2>3. CASE Compare(w)
    <3> SUFFICES ASSUME NEW h \in Apart PROVE Whole(h)'
      BY <1>0
    <3>1. UNCHANGED <<file, rows>> /\ \A v \in Writers : v # w => pc'[v] = pc[v] /\ up'[v] = up[v]
      BY <2>3 DEF Compare, disk
    <3>2. pc'[w] # "idle" => up'[w] = up[w] /\ pc'[w] = "insert" /\ file[up[w].hash] = "full"
      BY <2>3 DEF Compare, FileOf
    <3> QED BY <3>1, <3>2 DEF Wholeness, Safe
  <2>4. CASE Create(w)
    <3> SUFFICES ASSUME NEW h \in Apart PROVE Whole(h)'
      BY <1>0
    <3>1. /\ UNCHANGED <<rows, up>> /\ pc[w] = "create" /\ pc'[w] = "write"
          /\ file' = [file EXCEPT ![up[w].hash] = "partial"]
          /\ \A v \in Writers : v # w => pc'[v] = pc[v]
      BY <2>4 DEF Create
    <3>2. CASE h = up[w].hash
      <4>1. rows[h] = NoKey /\ \A v \in Writers \ {w} : pc[v] # "idle" => up[v].hash # h
        BY <3>1, <3>2, ApartUpload DEF Wholeness, Uploading
      <4> QED BY <3>1, <3>2, <4>1 DEF Wholeness, Safe
    <3>3. CASE h # up[w].hash
      BY <3>1, <3>3 DEF Wholeness, Safe
    <3> QED BY <3>2, <3>3
  <2>5. CASE CreateFails(w)
    BY <2>5, WholenessQuiet DEF CreateFails, disk
  <2>6. CASE Write(w)
    <3> SUFFICES ASSUME NEW h \in Apart PROVE Whole(h)'
      BY <1>0
    <3>1. /\ UNCHANGED <<rows, up>> /\ pc[w] = "write" /\ pc'[w] = "insert"
          /\ file' = [file EXCEPT ![up[w].hash] = IF attached[w] THEN "full" ELSE @]
          /\ \A v \in Writers : v # w => pc'[v] = pc[v]
      BY <2>6 DEF Write
    <3>2. CASE h = up[w].hash
      <4>1. h \in Hashes
        BY DEF Apart
      <4>2. Safe(h) /\ rows[h] = NoKey /\ \A v \in Writers \ {w} : pc[v] # "idle" => up[v].hash # h
        BY <3>1, <3>2, ApartUpload DEF Wholeness, Uploading
      <4>3. attached[w]
        BY <3>1, <3>2, <4>1, <4>2 DEF Uploading, SafeUploading
      <4> QED BY <3>1, <3>2, <4>1, <4>2, <4>3
    <3>3. CASE h # up[w].hash
      BY <3>1, <3>3 DEF Wholeness, Safe
    <3> QED BY <3>2, <3>3
  <2>7. CASE WriteFails(w)
    BY <2>7, WholenessQuiet DEF WriteFails, disk
  <2>8. CASE Insert(w)
    <3> SUFFICES ASSUME NEW h \in Apart PROVE Whole(h)'
      BY <1>0
    <3>1. /\ UNCHANGED file /\ pc[w] = "insert" /\ pc'[w] = "idle"
          /\ rows' = [rows EXCEPT ![up[w].hash] = IF @ = NoKey THEN up[w].key ELSE @]
          /\ \A v \in Writers : v # w => pc'[v] = pc[v] /\ up'[v] = up[v]
      BY <2>8 DEF Insert, disk
    <3>2. CASE h = up[w].hash
      <4>1. /\ Safe(h) /\ file[h] = "full"
            /\ \A v \in Writers \ {w} : pc[v] # "idle" => up[v].hash # h
        BY <3>1, <3>2, ApartUpload DEF Wholeness, Uploading
      <4> QED BY <3>1, <3>2, <4>1
    <3>3. CASE h # up[w].hash
      BY <3>1, <3>3 DEF Wholeness, Safe
    <3> QED BY <3>2, <3>3
  <2>9. CASE InsertFails(w)
    BY <2>9, WholenessQuiet DEF InsertFails, disk
  <2> QED BY <1>1, <2>1, <2>2, <2>3, <2>4, <2>5, <2>6, <2>7, <2>8, <2>9 DEF Upload
<1>2. ASSUME NEW w \in Writers, NEW u \in UploadsOf[w], Receive(w, u) PROVE Wholeness'
  BY <1>2, WholenessQuiet DEF Receive, disk
<1>3. CASE Remove
  <2>1. ASSUME NEW h \in Hashes, Unlink(h) PROVE Wholeness'
    <3>1. ~Safe(h) /\ UNCHANGED <<rows, up>> /\ \A w \in Writers : pc'[w] = pc[w]
      BY <2>1 DEF Unlink, Uploading, SafeUploading
    <3>2. \A g \in Hashes : g # h => file'[g] = file[g]
      BY <2>1 DEF Unlink
    <3> SUFFICES ASSUME NEW g \in Apart PROVE Whole(g)'
      BY <1>0
    <3>3. g \in Hashes /\ (g = h => \A w \in Writers : pc[w] # "idle" => up[w].hash # g)
      BY <3>1, ApartUpload DEF Apart, Uploading
    <3> QED BY <3>1, <3>2, <3>3 DEF Wholeness, Safe
  <2>2. ASSUME NEW h \in Hashes, UnlinkFails(h) PROVE Wholeness'
    BY <2>2, WholenessQuiet DEF UnlinkFails, RemoverFails, disk
  <2>3. CASE ReadDir
    BY <2>3, WholenessQuiet DEF ReadDir, disk
  <2>4. CASE Rmdir
    BY <2>4, WholenessQuiet DEF Rmdir
  <2>5. CASE RmdirFails
    BY <2>5, WholenessQuiet DEF RmdirFails, RemoverFails, disk
  <2>6. CASE DeleteRows
    <3>1. /\ UNCHANGED <<file, up>> /\ \A w \in Writers : pc'[w] = pc[w]
          /\ \A h \in Hashes : rows'[h] = IF rows[h] = rkey THEN NoKey ELSE rows[h]
      BY <2>6 DEF DeleteRows, disk
    <3> SUFFICES ASSUME NEW h \in Apart PROVE Whole(h)'
      BY <1>0
    <3>2. h \in Hashes
      BY DEF Apart
    <3> QED BY <3>1, <3>2 DEF Wholeness, Safe
  <2>7. CASE DeleteFails
    BY <2>7, WholenessQuiet DEF DeleteFails, disk
  <2> QED BY <1>3, <2>1, <2>2, <2>3, <2>4, <2>5, <2>6, <2>7 DEF Remove
<1>4. ASSUME NEW key \in RemovedKeys, RemoveByKey(key) PROVE Wholeness'
  BY <1>4, WholenessQuiet DEF RemoveByKey, disk
<1>5. CASE Crash
  BY <1>5, WholenessQuiet DEF Crash, disk
<1>6. CASE UNCHANGED vars
  BY <1>6, WholenessQuiet DEF vars
<1> QED BY <1>1, <1>2, <1>3, <1>4, <1>5, <1>6 DEF Next

LEMMA WholenessHolds == Spec => []Wholeness
BY TypeOKHolds, UploadingHolds, WholenessInit, WholenessStep, PTL DEF Spec

\* A recorded content whose key is not removed is whole on the disk, whatever
\* fails and whatever else happens in its directory, when no two uploads meet
\* at it.
THEOREM RowsReadableHolds == Spec => []RowsReadable
<1>1. Wholeness => RowsReadable
  BY DEF Wholeness, RowsReadable
<1> QED BY <1>1, WholenessHolds, PTL

-----------------------------------------------------------------------------

\* What a step that changes no row and no whole file looks like to a reader.
LEMMA ReadableQuiet ==
  ASSUME UNCHANGED rows, \A h \in Apart : file'[h] = "full" <=> file[h] = "full"
  PROVE  UNCHANGED Readable
<1>1. \A h \in Hashes : Readable'[h] = Readable[h]
  BY DEF Readable, Apart
<1> QED BY <1>1 DEF Readable

\* Recording a whole file is the abstract Put, and unlinking one the abstract
\* Remove; deleting the rows takes what is left of a key.
LEMMA ReadableStep ==
  ASSUME TypeOK, Uploading, Wholeness, [Next]_vars
  PROVE  [Abstract!Next]_Readable
<1> USE StorageAssumption DEF TypeOK, Goto, Return, ReturnRemoval, Procs
<1>1. ASSUME NEW w \in Writers, Upload(w) PROVE [Abstract!Next]_Readable
  <2>1. CASE Mkdir(w) \/ Stat(w) \/ Compare(w) \/ CreateFails(w) \/ WriteFails(w) \/ InsertFails(w)
    <3>1. UNCHANGED <<file, rows>>
      BY <2>1 DEF Mkdir, Stat, Compare, CreateFails, WriteFails, InsertFails, disk
    <3> QED BY <3>1, ReadableQuiet
  <2>2. CASE Create(w) \/ Write(w)
    <3>1. UNCHANGED rows /\ pc[w] \in {"create", "write"}
          /\ \A h \in Hashes : h # up[w].hash => file'[h] = file[h]
      BY <2>2 DEF Create, Write
    <3>2. \A h \in Apart : h = up[w].hash => rows[h] = NoKey
      BY <3>1 DEF Wholeness
    <3>3. \A h \in Hashes : Readable'[h] = Readable[h]
      BY <3>1, <3>2 DEF Readable
    <3> QED BY <3>3 DEF Readable
  <2>3. CASE Insert(w)
    <3> DEFINE h == up[w].hash
    <3>1. /\ UNCHANGED file /\ pc[w] = "insert" /\ h \in Hashes /\ up[w].key \in Keys
          /\ rows' = [rows EXCEPT ![h] = IF @ = NoKey THEN up[w].key ELSE @]
      BY <2>3 DEF Insert, disk, Uploads
    <3>2. CASE h \notin Apart \/ rows[h] # NoKey
      <4>1. \A g \in Hashes : Readable'[g] = Readable[g]
        BY <3>1, <3>2 DEF Readable
      <4> QED BY <4>1 DEF Readable
    <3>3. CASE h \in Apart /\ rows[h] = NoKey
      <4>1. file[h] = "full"
        BY <3>1, <3>3 DEF Wholeness
      <4>2. Readable[h] = NoKey
        BY <3>1, <3>3 DEF Readable
      <4>3. Readable' = [Readable EXCEPT ![h] = up[w].key]
        BY <3>1, <3>3, <4>1 DEF Readable
      <4>4. Abstract!Put(h, up[w].key)
        BY <4>2, <4>3 DEF Abstract!Put
      <4> QED BY <3>1, <4>4 DEF Abstract!Next
    <3> QED BY <3>2, <3>3
  <2> QED BY <1>1, <2>1, <2>2, <2>3 DEF Upload
<1>2. ASSUME NEW w \in Writers, NEW u \in UploadsOf[w], Receive(w, u)
      PROVE  [Abstract!Next]_Readable
  BY <1>2, ReadableQuiet DEF Receive, disk
<1>3. CASE Remove
  <2>1. ASSUME NEW h \in Hashes, Unlink(h) PROVE [Abstract!Next]_Readable
    <3>1. ~Safe(h) /\ UNCHANGED rows /\ file' = [file EXCEPT ![h] = "none"]
      BY <2>1 DEF Unlink, Uploading, SafeUploading
    <3>2. Readable' = [g \in Hashes |-> IF g \in {h} THEN NoKey ELSE Readable[g]]
      BY <3>1 DEF Readable
    <3>3. CASE Readable[h] = NoKey
      <4>1. \A g \in Hashes : Readable'[g] = Readable[g]
        BY <3>2, <3>3
      <4> QED BY <4>1 DEF Readable
    <3>4. CASE Readable[h] # NoKey
      <4>1. Readable[h] = rows[h] /\ h \in Apart
        BY <3>4 DEF Readable
      <4>2. Readable[h] \in RemovedKeys
        BY <3>1, <3>4, <4>1 DEF Wholeness
      <4>3. Abstract!Remove(Readable[h], {h})
        BY <3>2 DEF Abstract!Remove
      <4>4. {h} \in SUBSET Hashes
        OBVIOUS
      <4> QED BY <4>2, <4>3, <4>4 DEF Abstract!Next
    <3> QED BY <3>3, <3>4
  <2>2. CASE (\E h \in Hashes : UnlinkFails(h)) \/ ReadDir \/ Rmdir \/ RmdirFails \/ DeleteFails
    <3>1. UNCHANGED <<file, rows>>
      BY <2>2 DEF UnlinkFails, RemoverFails, ReadDir, Rmdir, RmdirFails, DeleteFails, disk
    <3> QED BY <3>1, ReadableQuiet
  <2>3. CASE DeleteRows
    <3> DEFINE gone == {h \in Apart : file[h] = "full" /\ rows[h] = rkey}
    <3>1. /\ rkey \in RemovedKeys /\ UNCHANGED file
          /\ rows' = [h \in Hashes |-> IF rows[h] = rkey THEN NoKey ELSE rows[h]]
      BY <2>3 DEF DeleteRows, Uploading, RemoverKey, disk
    <3>2. gone \subseteq Hashes /\ \A h \in gone : Readable[h] = rkey
      BY DEF Apart, Readable
    <3>3. Readable' = [h \in Hashes |-> IF h \in gone THEN NoKey ELSE Readable[h]]
      <4>1. \A h \in Hashes : Readable'[h] = IF h \in gone THEN NoKey ELSE Readable[h]
        BY <3>1 DEF Readable
      <4> QED BY <4>1 DEF Readable
    <3>4. Abstract!Remove(rkey, gone)
      BY <3>2, <3>3 DEF Abstract!Remove
    <3>5. gone \in SUBSET Hashes
      BY <3>2
    <3> QED BY <3>1, <3>4, <3>5 DEF Abstract!Next
  <2> QED BY <1>3, <2>1, <2>2, <2>3 DEF Remove
<1>4. ASSUME NEW key \in RemovedKeys, RemoveByKey(key) PROVE [Abstract!Next]_Readable
  BY <1>4, ReadableQuiet DEF RemoveByKey, disk
<1>5. CASE Crash
  BY <1>5, ReadableQuiet DEF Crash, disk
<1>6. CASE UNCHANGED vars
  BY <1>6, ReadableQuiet DEF vars
<1> QED BY <1>1, <1>2, <1>3, <1>4, <1>5, <1>6 DEF Next

\* For contents that no two uploads meet at, the storage implements
\* ContentStore: nobody ever reads half a file or loses a content but by the
\* removal of its key, whatever fails and crashes.
THEOREM Implements == Spec => ImplementsContentStore
<1>1. TypeOK => Abstract!Init
  BY DEF TypeOK, Abstract!Init, Readable
<1>2. TypeOK /\ Uploading /\ Wholeness /\ [Next]_vars => [Abstract!Next]_Readable
  BY ReadableStep
<1> QED BY <1>1, <1>2, TypeOKHolds, UploadingHolds, WholenessHolds, PTL
        DEF Spec, ImplementsContentStore, Abstract!Spec

-----------------------------------------------------------------------------

NotSent(h) == \A w \in Writers : \A u \in UploadsOf[w] : u.hash # h

\* What a removal in progress has still to remove of its key: every content that
\* nobody uploads is listed as long as it has a file.
Listed ==
  \A h \in Hashes :
    NotSent(h) /\ pc[Remover] # "idle" /\ rows[h] = rkey => h \in todo \/ file[h] = "none"

\* No writer puts down a file, whole or not, or a row of such a content.
LEMMA NotSentKept ==
  ASSUME TypeOK, Sent, NEW w \in Writers, Upload(w), NEW h \in Hashes, NotSent(h)
  PROVE  file'[h] = file[h] /\ rows'[h] = rows[h]
<1>1. pc[w] # "idle"
  BY DEF Upload, Mkdir, Stat, Compare, Create, CreateFails, Write, WriteFails, Insert,
         InsertFails
<1>2. up[w].hash # h
  BY <1>1 DEF Sent, NotSent
<1>3. file' = file \/ \E x \in {"none", "partial", "full"} : file' = [file EXCEPT ![up[w].hash] = x]
  BY DEF TypeOK, Uploads, Upload, Mkdir, Stat, Compare, Create, CreateFails, Write, WriteFails,
         Insert, InsertFails, disk
<1>4. rows' = rows \/ rows' = [rows EXCEPT ![up[w].hash] = IF @ = NoKey THEN up[w].key ELSE @]
  BY DEF Upload, Mkdir, Stat, Compare, Create, CreateFails, Write, WriteFails, Insert,
         InsertFails
<1> QED BY <1>2, <1>3, <1>4 DEF TypeOK

LEMMA ListedStep ==
  ASSUME TypeOK, Sent, Listed, [Next]_vars
  PROVE  Listed'
<1> USE StorageAssumption DEF TypeOK, Goto, ReturnRemoval, Procs
<1>1. ASSUME NEW w \in Writers, Upload(w) PROVE Listed'
  <2>1. UNCHANGED <<rkey, todo>> /\ pc'[Remover] = pc[Remover]
    BY <1>1 DEF Upload, Mkdir, Stat, Compare, Create, CreateFails, Write, WriteFails, Insert,
                InsertFails, Return, removal
  <2> QED BY <1>1, <2>1, NotSentKept DEF Listed, NotSent
<1>2. ASSUME NEW w \in Writers, NEW u \in UploadsOf[w], Receive(w, u) PROVE Listed'
  BY <1>2 DEF Receive, Listed, NotSent, disk, removal
<1>3. CASE Remove
  <2>1. ASSUME NEW h \in Hashes, Unlink(h) PROVE Listed'
    BY <2>1 DEF Unlink, Listed, NotSent
  <2>2. CASE (\E h \in Hashes : UnlinkFails(h)) \/ RmdirFails \/ DeleteRows \/ DeleteFails
    <3>1. pc'[Remover] = "idle"
      BY <2>2 DEF UnlinkFails, RmdirFails, RemoverFails, DeleteRows, DeleteFails
    <3> QED BY <3>1 DEF Listed
  <2>3. CASE ReadDir \/ Rmdir
    BY <2>3 DEF ReadDir, Rmdir, Listed, NotSent, disk, removal
  <2> QED BY <1>3, <2>1, <2>2, <2>3 DEF Remove
<1>4. ASSUME NEW key \in RemovedKeys, RemoveByKey(key) PROVE Listed'
  BY <1>4 DEF RemoveByKey, Listed
<1>5. CASE Crash
  BY <1>5 DEF Crash, Listed
<1>6. CASE UNCHANGED vars
  BY <1>6 DEF vars, Listed, NotSent
<1> QED BY <1>1, <1>2, <1>3, <1>4, <1>5, <1>6 DEF Next

\* A removal that answers ok has left no file of a content of its key that
\* nobody uploads, whatever else happened in its directories.
THEOREM RemovalCompleteHolds == Spec => RemovalComplete
<1> DEFINE Complete ==
      DeleteRows =>
        \A h \in Hashes :
          /\ rows[h] = rkey
          /\ \A w \in Writers : \A u \in UploadsOf[w] : u.hash # h
          => file[h] = "none"
<1>1. Init => Listed
  BY StorageAssumption DEF Init, Listed, Procs
<1>2. Listed => Complete
  BY DEF Listed, NotSent, DeleteRows
<1>3. Init => Sent
  BY UploadingInit DEF Uploading
<1>4. Listed => [Complete]_vars
  BY <1>2
<1> QED BY <1>1, <1>3, <1>4, TypeOKInit, TypeOKStep, SentStep, ListedStep, PTL
        DEF Spec, RemovalComplete
=============================================================================
