------------------------------- MODULE Rebase -------------------------------
(***************************************************************************)
(* The rebase of one node (internal/sender/client.go): a goroutine that    *)
(* pages through the keys of the database and moves those that belong to   *)
(* another node: it sends every content of a page's keys, then removes the *)
(* keys.  Handlers save uploads meanwhile, and the ring changes.           *)
(*                                                                         *)
(* A transfer is a compressed upload at its receiver: it truncates and     *)
(* rewrites the file, also one whose row then refuses it, also this node's *)
(* own file when a key is sent to this node under another address.         *)
(*                                                                         *)
(* Directories are left out (they are in Storage).  An upload brings the   *)
(* whole content of its hash, and a write of it is one call.               *)
(***************************************************************************)
EXTENDS Naturals, FiniteSets, Sequences

CONSTANTS
  Hashes, NoHash, Keys, NoKey,
  Peers,         \* the addresses of the ring but the one this node knows as its own
  Alias,         \* of these, the node's own address in another form
  Self, Nobody,  \* destinations: this node; none, as the ring is empty or the node dead
  Callers,       \* clients that ask for a rebase
  Uploads,       \* the uploads there may be, records of a key, a hash and compressed
  Stored,        \* hash -> key: the rows at the start ...
  StoredOrder,   \* ... and hash -> the hashes of older rows
  PeerStored,    \* peer -> hash -> key: the rows of the other nodes at the start
  FirstDest,     \* the destination the ring gives a key at the start ...
  Dests,         \* ... and those it may give it later, key -> set
  Chunk,         \* DB_CHUNK_SIZE
  MaxFaults, MaxChanges  \* bounds on faults and on changes of the ring

Destinations == Peers \cup {Self, Nobody}
Rows == [Hashes -> Keys \cup {NoKey}]

ASSUME RebaseAssumption ==
  /\ NoKey \notin Keys /\ NoHash \notin Hashes
  /\ Self \notin Peers /\ Nobody \notin Peers /\ Self # Nobody
  /\ Uploads \subseteq [key : Keys, hash : Hashes, compressed : BOOLEAN]
  /\ Stored \in Rows /\ StoredOrder \in [Hashes -> SUBSET Hashes]
  /\ PeerStored \in [Peers -> Rows]
  /\ FirstDest \in [Keys -> Destinations] /\ Dests \in [Keys -> SUBSET Destinations]
  /\ Chunk \in Nat \ {0} /\ MaxFaults \in Nat /\ MaxChanges \in Nat

VARIABLES
  rows,     \* hash -> the key of its row, or NoKey
  older,    \* hash -> the hashes whose rows are older (the column id)
  file,     \* hash -> "none", "part" or "whole"
  acked,    \* hash -> the key the last successful upload of it was under
  peer,     \* the rows of the other nodes; each has its file ...
  torn,     \* ... which is not whole for these pairs of a peer and a hash
  hung,     \* the peers that keep their connections and do not answer
  dest,     \* key -> GetNodeForKey, as far as the rebase looks at it
  waiting,  \* the callers blocked on notifyRebase, in their order
  pc, offset,
  full,     \* whether the page was a full one
  info,     \* rebaseInfo: key -> peer, or Self for a key that is not in it
  copied,   \* the keys whose contents have been listed for copying, until removed
  key, todo, \* the key at work, and its contents still to send or to unlink
  hash, data, \* the content being sent, and what was read of it: "part" or "whole"
  up,       \* upload -> "idle", "create", "write" or "insert"
  linked,   \* the uploads whose open file is the one at its path
  exposed,  \* contents that met the rebase, a crash or a fault half done, see NothingLost
  faults, changes

local == <<rows, older, file, acked>>
peers == <<peer, torn, hung>>
loop == <<offset, full, info, copied>>
work == <<key, todo, hash, data>>
handlers == <<up, linked>>
vars == <<local, peers, dest, waiting, pc, loop, work, handlers, exposed, faults, changes>>

-----------------------------------------------------------------------------

Init ==
  /\ rows = Stored /\ older = StoredOrder
  /\ file = [h \in Hashes |-> IF Stored[h] = NoKey THEN "none" ELSE "whole"]
  /\ acked = Stored
  /\ peer = PeerStored /\ torn = {} /\ hung = {}
  /\ dest = FirstDest
  /\ waiting = <<>>
  /\ pc = "idle" /\ offset = 0 /\ full = FALSE
  /\ info = [k \in Keys |-> Self]
  /\ copied = {}
  /\ key = NoKey /\ todo = {} /\ hash = NoHash /\ data = "whole"
  /\ up = [u \in Uploads |-> "idle"] /\ linked = {}
  /\ exposed = {}
  /\ faults = 0 /\ changes = 0

HashesOf(k) == {h \in Hashes : rows[h] = k}
StoredKeys == {k \in Keys : HashesOf(k) # {}}

\* The order of select distinct: by the first row of each key.
Before(k, l) == \E h \in HashesOf(k) : \A g \in HashesOf(l) : h \in older[g]
Rank(k) == Cardinality({l \in StoredKeys : Before(l, k)})
GetKeysByChunks == {k \in StoredKeys : offset <= Rank(k) /\ Rank(k) < offset + Chunk}

Fault ==
  /\ faults < MaxFaults
  /\ faults' = faults + 1

\* Somebody has truncated the file of h and is about to write it.
Writing(h) ==
  \/ \E u \in linked : u.hash = h
  \/ pc = "write" /\ hash = h

-----------------------------------------------------------------------------
(* The signal *)

\* Rebase: the handler blocks until the loop takes its signal.
Call(c) ==
  /\ \A i \in DOMAIN waiting : waiting[i] # c
  /\ waiting' = Append(waiting, c)
  /\ UNCHANGED <<local, peers, dest, pc, loop, work, handlers, exposed, faults, changes>>

\* Deviation: pages are counted from one.
SignalFirstPageOne ==
  /\ pc = "idle" /\ waiting # <<>>
  /\ waiting' = Tail(waiting)
  /\ pc' = "page"
  /\ offset' = Chunk
  /\ UNCHANGED <<local, peers, dest, full, info, copied, work, handlers, exposed, faults, changes>>

Signal ==
  /\ pc = "idle" /\ waiting # <<>>
  /\ waiting' = Tail(waiting)
  /\ pc' = "page"
  /\ offset' = 0
  /\ UNCHANGED <<local, peers, dest, full, info, copied, work, handlers, exposed, faults, changes>>

\* Deviation: the keys at work are not forgotten.
EndedKeepsCopied ==
  /\ pc' = "idle" /\ offset' = 0 /\ full' = FALSE
  /\ key' = NoKey /\ todo' = {} /\ hash' = NoHash /\ data' = "whole"
  /\ UNCHANGED <<info, copied>>

\* The locals of handleRebaseSignal when it is over.
Ended ==
  /\ pc' = "idle" /\ offset' = 0 /\ full' = FALSE
  /\ info' = [k \in Keys |-> Self]
  /\ copied' = {}
  /\ key' = NoKey /\ todo' = {} /\ hash' = NoHash /\ data' = "whole"

\* An error is logged, and the loop waits for the next signal.
Abort ==
  /\ Ended
  /\ UNCHANGED <<rows, older, acked, peer, hung, dest, waiting, handlers, changes>>

AbortOnly == Abort /\ UNCHANGED <<file, torn, exposed>>

-----------------------------------------------------------------------------
(* A page *)

\* The destinations are looked up key by key; the ring changes key by key too.
CheckForRebase ==
  /\ pc = "page"
  /\ \A k \in GetKeysByChunks : dest[k] # Nobody
  /\ info' = [k \in Keys |-> IF k \in GetKeysByChunks THEN dest[k] ELSE Self]
  /\ full' = (Cardinality(GetKeysByChunks) = Chunk)
  /\ pc' = "copy"
  /\ UNCHANGED <<local, peers, dest, waiting, offset, copied, work, handlers, exposed, faults,
                 changes>>

CheckFails ==
  /\ pc = "page"
  /\ \E k \in GetKeysByChunks : dest[k] = Nobody
  /\ AbortOnly
  /\ UNCHANGED faults

\* GetHashesByKey lists the contents to send.
CopyKey(k) ==
  /\ pc = "copy"
  /\ info[k] # Self /\ k \notin copied
  /\ key' = k /\ todo' = HashesOf(k)
  /\ copied' = copied \cup {k}
  /\ pc' = "send"
  /\ UNCHANGED <<local, peers, dest, waiting, offset, full, info, hash, data, handlers, exposed,
                 faults, changes>>

\* Opens the file and streams it to its end.  A handler may be rewriting it: what
\* is read is what is there when the end is met.
SendFile(h) ==
  /\ pc = "send" /\ h \in todo
  /\ file[h] # "none"
  /\ hash' = h /\ data' = file[h]
  /\ pc' = "receive"
  /\ exposed' = exposed \cup {g \in {h} : file[g] = "part"}
  /\ UNCHANGED <<local, peers, dest, waiting, loop, key, todo, handlers, faults, changes>>

NoFile(h) ==
  /\ pc = "send" /\ h \in todo
  /\ file[h] = "none"
  /\ AbortOnly
  /\ UNCHANGED faults

-----------------------------------------------------------------------------
(* The receiver: SaveCompressed of another node, unless it hangs *)

Receiver == info[key]
Receiving == pc = "receive" /\ Receiver # Alias /\ Receiver \notin hung
Accepts(p, h) == p # Alias /\ peer[p][h] = NoKey

\* Its file is what has arrived, whatever it was.
Rewritten ==
  torn' = IF data = "whole" THEN torn \ {<<Receiver, hash>>} ELSE torn \cup {<<Receiver, hash>>}

Recorded == peer' = [peer EXCEPT ![Receiver][hash] = key]

Accepted ==
  /\ Receiving /\ Accepts(Receiver, hash)
  /\ Rewritten
  /\ Recorded
  /\ todo' = todo \ {hash} /\ hash' = NoHash /\ data' = "whole"
  /\ pc' = "send"
  /\ UNCHANGED <<local, hung, dest, waiting, loop, key, handlers, exposed, faults, changes>>

\* Deviation: a refused content counts as sent.
RefusalIgnored ==
  /\ Receiving /\ ~Accepts(Receiver, hash)
  /\ Rewritten
  /\ todo' = todo \ {hash} /\ hash' = NoHash /\ data' = "whole"
  /\ pc' = "send"
  /\ UNCHANGED <<local, peer, hung, dest, waiting, loop, key, handlers, exposed, faults, changes>>

\* The receiver has a row of the hash; it has rewritten its file before it refuses.
SendRefused ==
  /\ Receiving /\ ~Accepts(Receiver, hash)
  /\ Rewritten
  /\ Abort
  /\ UNCHANGED <<file, exposed, faults>>

\* The content arrives and the reply is lost.
ReplyLost ==
  /\ Receiving /\ Accepts(Receiver, hash)
  /\ Fault
  /\ Rewritten
  /\ Recorded
  /\ Ended
  /\ UNCHANGED <<local, hung, dest, waiting, handlers, exposed, changes>>

\* It dies, or its disk is full, behind os.Create.
ReceiverFails ==
  /\ Receiving
  /\ Fault
  /\ torn' = torn \cup {<<Receiver, hash>>}
  /\ Abort
  /\ UNCHANGED <<file, exposed>>

\* sendFile has no deadline: it waits for a receiver that hangs ...
Stuck == pc = "receive" /\ Receiver \in hung

\* ... until the connection breaks, if it does.
ConnectionBreaks ==
  /\ Stuck
  /\ AbortOnly
  /\ UNCHANGED faults

Hang(p) ==
  /\ p \notin hung
  /\ Fault
  /\ hung' = hung \cup {p}
  /\ UNCHANGED <<local, peer, torn, dest, waiting, pc, loop, work, handlers, exposed, changes>>

Resume(p) ==
  /\ p \in hung
  /\ hung' = hung \ {p}
  /\ UNCHANGED <<local, peer, torn, dest, waiting, pc, loop, work, handlers, exposed, faults,
                 changes>>

-----------------------------------------------------------------------------
(* The receiver is this node: it truncates the file it has read *)

SelfCreate ==
  /\ pc = "receive" /\ Receiver = Alias
  /\ file' = [file EXCEPT ![hash] = "part"]
  /\ pc' = "write"
  /\ UNCHANGED <<rows, older, acked, peers, dest, waiting, loop, work, handlers, exposed, faults,
                 changes>>

\* The row is there, and refuses the hash.
SelfRefused ==
  /\ pc = "write"
  /\ file' = [file EXCEPT ![hash] = IF data = "whole" THEN "whole" ELSE @]
  /\ Abort
  /\ UNCHANGED <<torn, exposed, faults>>

SelfWriteFails ==
  /\ pc = "write"
  /\ Fault
  /\ file' = [file EXCEPT ![hash] = "part"]
  /\ exposed' = exposed \cup {hash}
  /\ Abort
  /\ UNCHANGED torn

-----------------------------------------------------------------------------
(* The removal *)

KeyCopied ==
  /\ pc = "send" /\ todo = {}
  /\ pc' = "copy"
  /\ key' = NoKey
  /\ UNCHANGED <<local, peers, dest, waiting, loop, todo, hash, data, handlers, exposed, faults,
                 changes>>

CopyStorage ==
  /\ pc = "copy"
  /\ \A k \in Keys : info[k] # Self => k \in copied
  /\ pc' = "remove"
  /\ UNCHANGED <<local, peers, dest, waiting, loop, work, handlers, exposed, faults, changes>>

RemoveKey(k) ==
  /\ pc = "remove" /\ k \in copied
  /\ key' = k /\ todo' = HashesOf(k)
  /\ pc' = "unlink"
  /\ UNCHANGED <<local, peers, dest, waiting, loop, hash, data, handlers, exposed, faults, changes>>

\* An upload that has opened the file writes what nobody can read, and one that has
\* seen or written it does not write it again.
Unlink(h) ==
  /\ pc = "unlink" /\ h \in todo
  /\ file[h] # "none"
  /\ file' = [file EXCEPT ![h] = "none"]
  /\ todo' = todo \ {h}
  /\ linked' = {u \in linked : u.hash # h}
  /\ exposed' = exposed \cup
       {g \in {h} : \E u \in Uploads : u.hash = g /\ up[u] \in {"write", "insert"}}
  /\ UNCHANGED <<rows, older, acked, peers, dest, waiting, pc, loop, key, hash, data, up, faults,
                 changes>>

UnlinkFails(h) ==
  /\ pc = "unlink" /\ h \in todo
  /\ file[h] = "none"
  /\ AbortOnly
  /\ UNCHANGED faults

KeyRemoved ==
  /\ pc' = "remove"
  /\ copied' = copied \ {key}
  /\ key' = NoKey
  /\ UNCHANGED <<file, acked, peers, dest, waiting, offset, full, info, todo, hash, data, handlers,
                 exposed, changes>>

DeleteRows ==
  /\ pc = "unlink" /\ todo = {}
  /\ rows' = [h \in Hashes |-> IF rows[h] = key THEN NoKey ELSE rows[h]]
  /\ older' = [h \in Hashes |-> IF rows[h] = key THEN {} ELSE older[h] \ HashesOf(key)]
  /\ KeyRemoved
  /\ UNCHANGED faults

\* The error of the statement is dropped.
DeleteFails ==
  /\ pc = "unlink" /\ todo = {}
  /\ Fault
  /\ KeyRemoved
  /\ UNCHANGED <<rows, older>>

\* Deviation: the offset stays.
SamePage ==
  /\ pc = "remove" /\ copied = {}
  /\ full
  /\ pc' = "page"
  /\ UNCHANGED <<local, peers, dest, waiting, loop, work, handlers, exposed, faults, changes>>

NextPage ==
  /\ pc = "remove" /\ copied = {}
  /\ full
  /\ pc' = "page"
  /\ offset' = offset + Chunk
  /\ UNCHANGED <<local, peers, dest, waiting, full, info, copied, work, handlers, exposed, faults,
                 changes>>

LastPage ==
  /\ pc = "remove" /\ copied = {}
  /\ ~full
  /\ Ended
  /\ UNCHANGED <<local, peers, dest, waiting, handlers, exposed, faults, changes>>

\* A call of the database, of the disk or of a peer fails and has changed nothing.
CallFails ==
  /\ pc \in {"page", "copy", "send", "remove", "unlink"}
  /\ Fault
  /\ AbortOnly

-----------------------------------------------------------------------------
(* Uploads to this node *)

\* SaveRaw looks for the file; one that is there and not whole is an error.
Stat(u) ==
  /\ up[u] = "idle" /\ ~u.compressed
  /\ file[u.hash] # "part"
  /\ up' = [up EXCEPT ![u] = IF file[u.hash] = "none" THEN "create" ELSE "insert"]
  /\ UNCHANGED <<local, peers, dest, waiting, pc, loop, work, linked, exposed, faults, changes>>

\* SaveCompressed does not look.
Create(u) ==
  /\ up[u] = IF u.compressed THEN "idle" ELSE "create"
  /\ file' = [file EXCEPT ![u.hash] = "part"]
  /\ up' = [up EXCEPT ![u] = "write"]
  /\ linked' = linked \cup {u}
  /\ UNCHANGED <<rows, older, acked, peers, dest, waiting, pc, loop, work, exposed, faults, changes>>

Write(u) ==
  /\ up[u] = "write"
  /\ file' = IF u \in linked THEN [file EXCEPT ![u.hash] = "whole"] ELSE file
  /\ up' = [up EXCEPT ![u] = "insert"]
  /\ linked' = linked \ {u}
  /\ UNCHANGED <<rows, older, acked, peers, dest, waiting, pc, loop, work, exposed, faults, changes>>

\* A row the hash has already refuses the upload.
UploadRow(u) ==
  /\ up[u] = "insert"
  /\ up' = [up EXCEPT ![u] = "idle"]
  /\ IF rows[u.hash] = NoKey
     THEN /\ rows' = [rows EXCEPT ![u.hash] = u.key]
          /\ older' = [older EXCEPT ![u.hash] = {g \in Hashes : rows[g] # NoKey}]
          /\ acked' = [acked EXCEPT ![u.hash] = u.key]
          /\ exposed' = exposed \cup {g \in {u.hash} : u.key \in copied}
     ELSE UNCHANGED <<rows, older, acked, exposed>>
  /\ UNCHANGED <<file, peers, dest, waiting, pc, loop, work, linked, faults, changes>>

\* A write that fails leaves what it has written.
UploadFails(u) ==
  /\ up[u] # "idle"
  /\ Fault
  /\ up' = [up EXCEPT ![u] = "idle"]
  /\ file' = IF u \in linked THEN [file EXCEPT ![u.hash] = "part"] ELSE file
  /\ linked' = linked \ {u}
  /\ exposed' = exposed \cup {g \in {u.hash} : u \in linked}
  /\ UNCHANGED <<rows, older, acked, peers, dest, waiting, pc, loop, work, changes>>

-----------------------------------------------------------------------------

\* A node is announced, removed, found dead or alive: a key gets another one.
RingChange(k, d) ==
  /\ changes < MaxChanges
  /\ changes' = changes + 1
  /\ dest' = [dest EXCEPT ![k] = d]
  /\ UNCHANGED <<local, peers, waiting, pc, loop, work, handlers, exposed, faults>>

Crash ==
  /\ Fault
  /\ Ended
  /\ waiting' = <<>>
  /\ up' = [u \in Uploads |-> "idle"] /\ linked' = {}
  /\ exposed' = exposed \cup {h \in Hashes : Writing(h)}
  /\ UNCHANGED <<local, peers, dest, changes>>

\* What the goroutine, and a receiver that does not hang, do next.
HandleRebaseSignal ==
  \/ CheckForRebase \/ CheckFails
  \/ \E k \in Keys : CopyKey(k) \/ RemoveKey(k)
  \/ \E h \in Hashes : SendFile(h) \/ NoFile(h) \/ Unlink(h) \/ UnlinkFails(h)
  \/ Accepted \/ SendRefused \/ ReplyLost \/ ReceiverFails
  \/ SelfCreate \/ SelfRefused \/ SelfWriteFails
  \/ KeyCopied \/ CopyStorage \/ DeleteRows \/ DeleteFails \/ NextPage \/ LastPage
  \/ CallFails

Upload(u) == Stat(u) \/ Create(u) \/ Write(u) \/ UploadRow(u) \/ UploadFails(u)

Next ==
  \/ \E c \in Callers : Call(c)
  \/ Signal
  \/ HandleRebaseSignal
  \/ ConnectionBreaks
  \/ \E p \in Peers \ {Alias} : Hang(p) \/ Resume(p)
  \/ \E u \in Uploads : Upload(u)
  \/ \E k \in Keys : \E d \in Dests[k] : RingChange(k, d)
  \/ Crash

Spec == Init /\ [][Next]_vars

\* The goroutine runs, a peer that does not hang answers or fails, and clients ask
\* again.  Nothing makes a peer that hangs answer, or its connection break.
FairSpec ==
  /\ Spec
  /\ WF_vars(Signal) /\ WF_vars(HandleRebaseSignal)
  /\ \A c \in Callers : WF_vars(Call(c))

-----------------------------------------------------------------------------
(* Properties *)

\* Keys at work are keys of the page that belong elsewhere, and only a rebase
\* in its pages has any; a handler has its file open only while it writes.
TypeOK ==
  /\ rows \in Rows /\ older \in [Hashes -> SUBSET Hashes] /\ acked \in Rows
  /\ file \in [Hashes -> {"none", "part", "whole"}]
  /\ peer \in [Peers -> Rows] /\ torn \subseteq Peers \X Hashes /\ hung \subseteq Peers \ {Alias}
  /\ dest \in [Keys -> Destinations]
  /\ waiting \in Seq(Callers)
  /\ pc \in {"idle", "page", "copy", "send", "receive", "write", "remove", "unlink"}
  /\ offset \in Nat /\ full \in BOOLEAN
  /\ info \in [Keys -> Peers \cup {Self}]
  /\ copied \subseteq {k \in Keys : info[k] # Self}
  /\ pc \in {"idle", "page"} => copied = {}
  /\ key \in Keys \cup {NoKey}
  /\ pc \in {"send", "receive", "write", "unlink"} => key \in copied
  /\ todo \subseteq Hashes
  /\ hash \in Hashes \cup {NoHash} /\ data \in {"part", "whole"}
  /\ pc \in {"receive", "write"} => hash \in todo
  /\ pc = "write" => info[key] = Alias
  /\ up \in [Uploads -> {"idle", "create", "write", "insert"}]
  /\ linked \subseteq {u \in Uploads : up[u] = "write"}
  /\ exposed \subseteq Hashes
  /\ faults \in 0 .. MaxFaults /\ changes \in 0 .. MaxChanges

\* The file is whole, or is being written.
Good(h) == file[h] = "whole" \/ Writing(h)

Held(h) ==
  \/ rows[h] = acked[h] /\ Good(h)
  \/ \E p \in Peers \ {Alias} : peer[p][h] = acked[h] /\ <<p, h>> \notin torn

\* A content whose upload has succeeded is held under its key by this node, its file
\* whole or being written, or whole by another one, through rebases that fail, crash,
\* meet a changed ring or a peer that refuses or hangs; but for a content that was
\* - recorded between the copy and the removal of its key, or
\* - written or found by an upload that was not over when its file was unlinked, or
\* - read by the rebase while a handler was rewriting its file, or
\* - left incomplete by a handler, that of a transfer from this node to itself
\*   included, that failed or died after it had truncated the file.
NothingLost == \A h \in Hashes : acked[h] # NoKey /\ h \notin exposed => Held(h)

\* Rebases that are asked for again and again move every foreign key in the
\* end, although a rebase may skip some: unless it waits for ever for a receiver
\* that hangs, or keeps meeting a key without a live owner, a file that is missing
\* or one that its owner refuses.
Foreign(h) == rows[h] # NoKey /\ dest[rows[h]] # Self
Movable(h) ==
  /\ file[h] # "none"
  /\ dest[rows[h]] \in Peers
  /\ Accepts(dest[rows[h]], h)

RebasesConverge ==
  <>[](~Stuck /\ (pc = "idle" => \A h \in Hashes : Foreign(h) => Movable(h)))
    => []<>(\A h \in Hashes : ~Foreign(h))

\* Every call of Rebase gets its turn, or the node dies, or the rebase before it
\* waits for ever for a receiver that hangs.
CallsReturn ==
  \/ <>[]Stuck
  \/ \A c \in Callers :
       (\E i \in DOMAIN waiting : waiting[i] = c) ~> (\A i \in DOMAIN waiting : waiting[i] # c)

\* proto/stash.proto on Rebase: all stored files are checked, and one that
\* belongs elsewhere is moved, when the rebase ends without an error.
AllChecked ==
  [][LastPage /\ faults = 0 => \A h \in Hashes : ~Foreign(h)]_vars
=============================================================================
