------------------------------ MODULE Storage -------------------------------
(***************************************************************************)
(* The content-addressed storage of one node (pkg/cas, driven by           *)
(* internal/services/storage.go): files named by the hash of their content *)
(* in directories named by the hash's prefix, and a database row per hash  *)
(* that names the key it was stored under.  Goroutines that handle uploads *)
(* (SaveCompressed, SaveRaw) run beside the one that rebases, which        *)
(* removes keys; each step below is one call to the operating system or    *)
(* the database, and nothing orders the steps of different goroutines.     *)
(*                                                                         *)
(* The content of a hash is fixed, so a file is "full" or "partial".       *)
(***************************************************************************)
EXTENDS Naturals, FiniteSets

CONSTANTS
  Hashes, Keys, NoKey,
  Dirs, Prefix,       \* Prefix[h]: the directory of hash h
  Writers, Remover,   \* the goroutines
  UploadsOf,          \* the uploads a writer may be sent, records of Uploads
  RemovedKeys,        \* the keys a rebase may move away
  Stored,             \* hash -> key: what is stored at the start
  FaultKinds,         \* of "crash", "write", "insert" and "delete"
  MaxFaults           \* bound on their number

Uploads == [key : Keys, hash : Hashes, compressed : BOOLEAN]
Procs == Writers \cup {Remover}

ASSUME StorageAssumption ==
  /\ NoKey \notin Keys /\ Keys # {} /\ Hashes # {}
  /\ Prefix \in [Hashes -> Dirs]
  /\ Remover \notin Writers
  /\ UploadsOf \in [Writers -> SUBSET Uploads]
  /\ RemovedKeys \subseteq Keys
  /\ Stored \in [Hashes -> Keys \cup {NoKey}]
  /\ FaultKinds \subseteq {"crash", "write", "insert", "delete"}
  /\ MaxFaults \in Nat

VARIABLES
  file,      \* hash -> "none", "partial" or "full"
  dirs,      \* the directories there are
  rows,      \* hash -> the key of its row (the column hash is unique), or NoKey
  pc,
  up,        \* the upload a writer handles
  attached,  \* whether the file a writer has open is the one linked at its path
  rkey,      \* RemoveByKey's key ...
  todo,      \* ... the hashes it has still to remove ...
  rhash,     \* ... and the one it is removing
  faults     \* how many faults have happened

vars == <<file, dirs, rows, pc, up, attached, rkey, todo, rhash, faults>>
disk == <<file, dirs>>
removal == <<rkey, todo, rhash>>

-----------------------------------------------------------------------------

\* What stands in the locals of a goroutine that does nothing.
AnyUpload == CHOOSE u \in Uploads : TRUE
AnyHash == CHOOSE h \in Hashes : TRUE

Init ==
  /\ rows = Stored
  /\ file = [h \in Hashes |-> IF Stored[h] = NoKey THEN "none" ELSE "full"]
  /\ dirs = {Prefix[h] : h \in {g \in Hashes : Stored[g] # NoKey}}
  /\ pc = [p \in Procs |-> "idle"]
  /\ up = [w \in Writers |-> AnyUpload]
  /\ attached = [w \in Writers |-> FALSE]
  /\ rkey = NoKey
  /\ todo = {}
  /\ rhash = AnyHash
  /\ faults = 0

Goto(p, label) == pc' = [pc EXCEPT ![p] = label]

\* An upload returns, and so does a removal.
Return(w) ==
  /\ Goto(w, "idle")
  /\ up' = [up EXCEPT ![w] = AnyUpload]

ReturnRemoval ==
  /\ Goto(Remover, "idle")
  /\ rkey' = NoKey /\ todo' = {} /\ rhash' = AnyHash

\* One more fault of a kind that may happen.
Fault(kind) ==
  /\ kind \in FaultKinds
  /\ faults < MaxFaults
  /\ faults' = faults + 1

DirOf(w) == Prefix[up[w].hash]
FileOf(w) == file[up[w].hash]

-----------------------------------------------------------------------------
(* Uploads *)

Receive(w, u) ==
  /\ pc[w] = "idle"
  /\ Goto(w, "mkdir")
  /\ up' = [up EXCEPT ![w] = u]
  /\ UNCHANGED <<disk, rows, attached, removal, faults>>

\* Deviation: the row is recorded instead of the data.
MkdirThenInsert(w) ==
  /\ pc[w] = "mkdir"
  /\ dirs' = dirs \cup {DirOf(w)}
  /\ Goto(w, "insert")
  /\ UNCHANGED <<file, rows, up, attached, removal, faults>>

\* Only SaveRaw looks whether the file is there.
Mkdir(w) ==
  /\ pc[w] = "mkdir"
  /\ dirs' = dirs \cup {DirOf(w)}
  /\ Goto(w, IF up[w].compressed THEN "create" ELSE "stat")
  /\ UNCHANGED <<file, rows, up, attached, removal, faults>>

\* Deviation: a raw upload overwrites like a compressed one.
StatIgnored(w) ==
  /\ pc[w] = "stat"
  /\ Goto(w, "create")
  /\ UNCHANGED <<disk, rows, up, attached, removal, faults>>

Stat(w) ==
  /\ pc[w] = "stat"
  /\ Goto(w, IF FileOf(w) = "none" THEN "create" ELSE "compare")
  /\ UNCHANGED <<disk, rows, up, attached, removal, faults>>

\* Deviation: a file that is there is taken for the content.
CompareSkipped(w) ==
  /\ pc[w] = "compare"
  /\ Goto(w, "insert")
  /\ UNCHANGED <<disk, rows, up, attached, removal, faults>>

\* A file with another content, or none any more, is an error.
Compare(w) ==
  /\ pc[w] = "compare"
  /\ IF FileOf(w) = "full" THEN Goto(w, "insert") /\ UNCHANGED up ELSE Return(w)
  /\ UNCHANGED <<disk, rows, attached, removal, faults>>

\* os.Create: a file that is there is truncated, whoever reads or writes it.
Create(w) ==
  /\ pc[w] = "create"
  /\ DirOf(w) \in dirs
  /\ file' = [file EXCEPT ![up[w].hash] = "partial"]
  /\ attached' = [attached EXCEPT ![w] = TRUE]
  /\ Goto(w, "write")
  /\ UNCHANGED <<dirs, rows, up, removal, faults>>

\* A removal has taken the directory away: an error.
CreateFails(w) ==
  /\ pc[w] = "create"
  /\ DirOf(w) \notin dirs
  /\ Return(w)
  /\ UNCHANGED <<disk, rows, attached, removal, faults>>

\* Deviation: the file stays open.
WriteKeepsOpen(w) ==
  /\ pc[w] = "write"
  /\ file' = [file EXCEPT ![up[w].hash] = IF attached[w] THEN "full" ELSE @]
  /\ Goto(w, "insert")
  /\ UNCHANGED <<dirs, rows, up, attached, removal, faults>>

\* Every writer of a path writes the same bytes from its beginning on, all in
\* one call; to a file that was removed meanwhile they are lost.
Write(w) ==
  /\ pc[w] = "write"
  /\ file' = [file EXCEPT ![up[w].hash] = IF attached[w] THEN "full" ELSE @]
  /\ attached' = [attached EXCEPT ![w] = FALSE]
  /\ Goto(w, "insert")
  /\ UNCHANGED <<dirs, rows, up, removal, faults>>

\* A write that stops short leaves what is there: some of the same bytes.
WriteFails(w) ==
  /\ pc[w] = "write"
  /\ Fault("write")
  /\ attached' = [attached EXCEPT ![w] = FALSE]
  /\ Return(w)
  /\ UNCHANGED <<disk, rows, removal>>

\* Deviation: the row is inserted in place of an existing one.
InsertReplaces(w) ==
  /\ pc[w] = "insert"
  /\ rows' = [rows EXCEPT ![up[w].hash] = up[w].key]
  /\ Return(w)
  /\ UNCHANGED <<disk, attached, removal, faults>>

\* A hash that has a row already is refused: the column is unique.
Insert(w) ==
  /\ pc[w] = "insert"
  /\ rows' = [rows EXCEPT ![up[w].hash] = IF @ = NoKey THEN up[w].key ELSE @]
  /\ Return(w)
  /\ UNCHANGED <<disk, attached, removal, faults>>

InsertFails(w) ==
  /\ pc[w] = "insert"
  /\ Fault("insert")
  /\ Return(w)
  /\ UNCHANGED <<disk, rows, attached, removal>>

-----------------------------------------------------------------------------
(* Removals *)

\* GetByKey lists the hashes of the key.
RemoveByKey(key) ==
  /\ pc[Remover] = "idle"
  /\ rkey' = key
  /\ todo' = {h \in Hashes : rows[h] = key}
  /\ Goto(Remover, "next")
  /\ UNCHANGED <<disk, rows, up, attached, rhash, faults>>

\* RemoveByHash: only this goroutine unlinks, so a file seen is a file removed.
Unlink(h) ==
  /\ pc[Remover] = "next"
  /\ h \in todo
  /\ file[h] # "none"
  /\ file' = [file EXCEPT ![h] = "none"]
  /\ attached' = [w \in Writers |-> attached[w] /\ up[w].hash # h]
  /\ rhash' = h
  /\ todo' = todo \ {h}
  /\ Goto(Remover, "readdir")
  /\ UNCHANGED <<dirs, rows, up, rkey, faults>>

RemoverFails ==
  /\ ReturnRemoval
  /\ UNCHANGED <<disk, rows, up, attached, faults>>

\* A hash without a file ends the removal, and the hashes after it stay.
UnlinkFails(h) ==
  /\ pc[Remover] = "next"
  /\ h \in todo
  /\ file[h] = "none"
  /\ RemoverFails

Empty(dir) == \A h \in Hashes : Prefix[h] = dir => file[h] = "none"

ReadDir ==
  /\ pc[Remover] = "readdir"
  /\ Goto(Remover, IF Empty(Prefix[rhash]) THEN "rmdir" ELSE "next")
  /\ UNCHANGED <<disk, rows, up, attached, removal, faults>>

Rmdir ==
  /\ pc[Remover] = "rmdir"
  /\ Empty(Prefix[rhash])
  /\ dirs' = dirs \ {Prefix[rhash]}
  /\ Goto(Remover, "next")
  /\ UNCHANGED <<file, rows, up, attached, removal, faults>>

\* An upload has put a file into the directory since it was read.
RmdirFails ==
  /\ pc[Remover] = "rmdir"
  /\ ~Empty(Prefix[rhash])
  /\ RemoverFails

\* Deviation: the rows go before the files.
DeleteRowsEarly ==
  /\ pc[Remover] = "next"
  /\ rows' = [h \in Hashes |-> IF rows[h] = rkey THEN NoKey ELSE rows[h]]
  /\ ReturnRemoval
  /\ UNCHANGED <<disk, up, attached, faults>>

DeleteRows ==
  /\ pc[Remover] = "next"
  /\ todo = {}
  /\ rows' = [h \in Hashes |-> IF rows[h] = rkey THEN NoKey ELSE rows[h]]
  /\ ReturnRemoval
  /\ UNCHANGED <<disk, up, attached, faults>>

\* The error of the statement is dropped: the removal ends as if it had worked.
DeleteFails ==
  /\ pc[Remover] = "next"
  /\ todo = {}
  /\ Fault("delete")
  /\ ReturnRemoval
  /\ UNCHANGED <<disk, rows, up, attached>>

-----------------------------------------------------------------------------

\* The process dies and starts again: the files and the rows are still there.
Crash ==
  /\ Fault("crash")
  /\ \E p \in Procs : pc[p] # "idle"
  /\ pc' = [p \in Procs |-> "idle"]
  /\ attached' = [w \in Writers |-> FALSE]
  /\ up' = [w \in Writers |-> AnyUpload]
  /\ rkey' = NoKey /\ todo' = {} /\ rhash' = AnyHash
  /\ UNCHANGED <<disk, rows>>

Upload(w) ==
  Mkdir(w) \/ Stat(w) \/ Compare(w) \/ Create(w) \/ CreateFails(w) \/ Write(w)
    \/ WriteFails(w) \/ Insert(w) \/ InsertFails(w)

Remove ==
  \/ \E h \in Hashes : Unlink(h) \/ UnlinkFails(h)
  \/ ReadDir \/ Rmdir \/ RmdirFails \/ DeleteRows \/ DeleteFails

Next ==
  \/ \E w \in Writers : Upload(w) \/ \E u \in UploadsOf[w] : Receive(w, u)
  \/ Remove
  \/ \E key \in RemovedKeys : RemoveByKey(key)
  \/ Crash

Spec == Init /\ [][Next]_vars

\* A goroutine that can run does run, and the rebase retries a key that stays.
FairSpec ==
  /\ Spec
  /\ WF_vars(Remove)
  /\ \A key \in RemovedKeys : WF_vars(RemoveByKey(key))

-----------------------------------------------------------------------------
(* Properties *)

\* A writer has a file open only from its creation to the end of its write.
TypeOK ==
  /\ file \in [Hashes -> {"none", "partial", "full"}]
  /\ dirs \subseteq Dirs
  /\ rows \in [Hashes -> Keys \cup {NoKey}]
  /\ pc \in [Procs -> {"idle", "mkdir", "stat", "compare", "create", "write", "insert",
                       "next", "readdir", "rmdir"}]
  /\ up \in [Writers -> Uploads]
  /\ attached \in [Writers -> BOOLEAN]
  /\ \A w \in Writers : attached[w] => pc[w] = "write" /\ FileOf(w) # "none"
  /\ rkey \in Keys \cup {NoKey}
  /\ todo \subseteq Hashes
  /\ rhash \in Hashes
  /\ faults \in 0 .. MaxFaults

Writing(h) == \E w \in Writers : attached[w] /\ up[w].hash = h

\* A file is incomplete only while somebody writes it, however uploads and
\* removals of it overlap, or because a fault stopped a write.
TornOnlyInWrite ==
  faults = 0 => \A h \in Hashes : file[h] = "partial" => Writing(h)

\* A content stays under the key it was first recorded under, whoever uploads
\* it again, until that key is removed.
FirstKeyWins ==
  [][\A h \in Hashes :
       rows[h] # NoKey /\ rows'[h] # rows[h] =>
         rows'[h] = NoKey /\ rows[h] = rkey /\ rkey \in RemovedKeys]_vars

\* No removal is after a content: neither what is stored nor any upload of it
\* has a key that is removed.
Safe(h) ==
  /\ Stored[h] \notin RemovedKeys
  /\ \A w \in Writers : \A u \in UploadsOf[w] : u.hash = h => u.key \notin RemovedKeys

\* Uploads of whatever overlapping contents, keys and kinds never record a
\* content without a file, whatever fails in between, and whatever is removed
\* from the same directory.
RowHasFile ==
  \A h \in Hashes : Safe(h) /\ rows[h] # NoKey => file[h] # "none"

\* When the uploads have ended, and there was no fault, the disk holds what the
\* rows say.
AtRestConsistent ==
  /\ faults = 0
  /\ \A w \in Writers : pc[w] = "idle"
  => \A h \in Hashes :
       Safe(h) => file[h] = IF rows[h] = NoKey THEN "none" ELSE "full"

\* Contents at which no two writers, and no writer and a removal, meet, and
\* whose uploads are raw.
Apart ==
  {h \in Hashes :
     \A w \in Writers : \A u \in UploadsOf[w] : u.hash = h =>
       /\ ~u.compressed
       /\ u.key \notin RemovedKeys
       /\ Stored[h] \in {u.key, NoKey}
       /\ \A v \in Writers \ {w} : \A x \in UploadsOf[v] : x.hash # h}

\* Such a content recorded under a key that nobody removes is whole on the disk,
\* whatever fails, and whatever is uploaded to and removed from its directory.
RowsReadable ==
  \A h \in Apart : rows[h] \notin RemovedKeys \cup {NoKey} => file[h] = "full"

\* With such contents the storage implements ContentStore: one can be read under
\* a key when its file is whole and its row is there.
Readable == [h \in Hashes |-> IF h \in Apart /\ file[h] = "full" THEN rows[h] ELSE NoKey]

Abstract == INSTANCE ContentStore WITH content <- Readable

ImplementsContentStore == Abstract!Spec

\* A removal that answers ok, without a fault of the database, has left neither
\* a row nor a file of the contents of its key that nobody uploads, whatever it
\* met in their directories and whatever was interrupted before.
RemovalComplete ==
  [][DeleteRows =>
       \A h \in Hashes :
         /\ rows[h] = rkey
         /\ \A w \in Writers : \A u \in UploadsOf[w] : u.hash # h
         => file[h] = "none"]_vars

\* pkg/cas/storage.go on RemoveByKey: it removes the files of the key, at the
\* latest when it is called again after a crash.
RemovalSucceeds ==
  \A key \in RemovedKeys : <>(\A h \in Hashes : rows[h] # key)
=============================================================================
