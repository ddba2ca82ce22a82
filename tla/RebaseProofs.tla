---------------------------- MODULE RebaseProofs ----------------------------
(***************************************************************************)
(* Proofs about Rebase, for any contents, keys, peers, uploads and size of *)
(* a page, and any number of faults and changes of the ring.               *)
(***************************************************************************)
EXTENDS Rebase, TLAPS

LEMMA TypeOKInit == Init => TypeOK
<1> SUFFICES ASSUME Init PROVE TypeOK
  OBVIOUS
<1>1. rows \in Rows /\ older \in [Hashes -> SUBSET Hashes] /\ acked \in Rows
      /\ file \in [Hashes -> {"none", "part", "whole"}]
  BY RebaseAssumption DEF Init
<1>2. peer \in [Peers -> Rows] /\ dest \in [Keys -> Destinations]
      /\ torn \subseteq Peers \X Hashes /\ hung \subseteq Peers \ {Alias}
  BY RebaseAssumption DEF Init
<1>3. info \in [Keys -> Peers \cup {Self}]
  BY DEF Init
<1>4. waiting \in Seq(Callers) /\ exposed \subseteq Hashes
  BY DEF Init
<1>5. faults \in 0 .. MaxFaults /\ changes \in 0 .. MaxChanges
  BY RebaseAssumption DEF Init
<1>6. /\ pc = "idle" /\ offset \in Nat /\ full \in BOOLEAN
      /\ copied = {} /\ key \in Keys \cup {NoKey} /\ todo \subseteq Hashes
      /\ hash \in Hashes \cup {NoHash} /\ data \in {"part", "whole"}
  BY DEF Init
<1>7. up \in [Uploads -> {"idle", "create", "write", "insert"}] /\ linked = {}
  BY DEF Init
<1> QED BY <1>1, <1>2, <1>3, <1>4, <1>5, <1>6, <1>7 DEF TypeOK

LEMMA EndedTyped ==
  ASSUME TypeOK, Ended
  PROVE  /\ pc' = "idle" /\ offset' \in Nat /\ full' \in BOOLEAN
         /\ info' \in [Keys -> Peers \cup {Self}]
         /\ copied' = {} /\ key' \in Keys \cup {NoKey} /\ todo' = {}
         /\ hash' \in Hashes \cup {NoHash} /\ data' \in {"part", "whole"}
BY DEF Ended

LEMMA AbortTyped ==
  ASSUME TypeOK, Abort, file' \in [Hashes -> {"none", "part", "whole"}],
         torn' \subseteq Peers \X Hashes, exposed' \subseteq Hashes, faults' \in 0 .. MaxFaults
  PROVE  TypeOK'
BY EndedTyped DEF TypeOK, Abort, handlers

LEMMA AbortOnlyTyped ==
  ASSUME TypeOK, AbortOnly, faults' \in 0 .. MaxFaults
  PROVE  TypeOK'
BY AbortTyped DEF TypeOK, AbortOnly

LEMMA FaultTyped ==
  ASSUME TypeOK, Fault
  PROVE  faults' \in 0 .. MaxFaults
BY RebaseAssumption DEF TypeOK, Fault

\* What is being received has a receiver, and a content of the key at work.
LEMMA InTransit ==
  ASSUME TypeOK, pc \in {"receive", "write"}
  PROVE  /\ key \in Keys /\ key \in copied /\ Receiver \in Peers
         /\ hash \in Hashes /\ hash \in todo
BY DEF TypeOK, Receiver

LEMMA RecordedTyped ==
  ASSUME TypeOK, Receiving
  PROVE  /\ Rewritten => torn' \subseteq Peers \X Hashes
         /\ Recorded => peer' \in [Peers -> Rows]
<1>1. key \in Keys /\ Receiver \in Peers /\ hash \in Hashes
  BY InTransit DEF Receiving
<1>2. Rewritten => torn' \subseteq Peers \X Hashes
  BY <1>1 DEF TypeOK, Rewritten
<1>3. Recorded => peer' \in [Peers -> Rows]
  BY <1>1 DEF TypeOK, Recorded, Rows
<1> QED BY <1>2, <1>3

LEMMA TypeOKUpload ==
  ASSUME TypeOK, NEW u \in Uploads, Upload(u)
  PROVE  TypeOK'
<1> USE RebaseAssumption DEF local, peers, loop, work, handlers
<1>0. u.key \in Keys /\ u.hash \in Hashes
  OBVIOUS
<1>1. CASE Stat(u)
  <2>1. up' \in [Uploads -> {"idle", "create", "write", "insert"}]
        /\ linked' \subseteq {v \in Uploads : up'[v] = "write"}
    BY <1>1 DEF Stat, TypeOK
  <2> QED BY <1>1, <2>1 DEF Stat, TypeOK
<1>2. CASE Create(u)
  <2>1. up' \in [Uploads -> {"idle", "create", "write", "insert"}]
        /\ linked' \subseteq {v \in Uploads : up'[v] = "write"}
        /\ file' \in [Hashes -> {"none", "part", "whole"}]
    BY <1>0, <1>2 DEF Create, TypeOK
  <2> QED BY <1>2, <2>1 DEF Create, TypeOK
<1>3. CASE Write(u)
  <2>1. up' \in [Uploads -> {"idle", "create", "write", "insert"}]
        /\ linked' \subseteq {v \in Uploads : up'[v] = "write"}
        /\ file' \in [Hashes -> {"none", "part", "whole"}]
    BY <1>0, <1>3 DEF Write, TypeOK
  <2> QED BY <1>3, <2>1 DEF Write, TypeOK
<1>4. CASE UploadRow(u)
  <2>1. up' \in [Uploads -> {"idle", "create", "write", "insert"}]
        /\ linked' \subseteq {v \in Uploads : up'[v] = "write"}
    BY <1>4 DEF UploadRow, TypeOK
  <2>2. rows' \in Rows /\ acked' \in Rows
    BY <1>0, <1>4 DEF UploadRow, TypeOK, Rows
  <2>3. older' \in [Hashes -> SUBSET Hashes]
    <3>1. {g \in Hashes : rows[g] # NoKey} \in SUBSET Hashes
      OBVIOUS
    <3> QED BY <1>0, <1>4, <3>1 DEF UploadRow, TypeOK
  <2>4. exposed' \subseteq Hashes
    BY <1>0, <1>4 DEF UploadRow, TypeOK
  <2> QED BY <1>4, <2>1, <2>2, <2>3, <2>4 DEF UploadRow, TypeOK
<1>5. CASE UploadFails(u)
  <2>1. up' \in [Uploads -> {"idle", "create", "write", "insert"}]
        /\ linked' \subseteq {v \in Uploads : up'[v] = "write"}
        /\ file' \in [Hashes -> {"none", "part", "whole"}]
    BY <1>0, <1>5 DEF UploadFails, TypeOK
  <2>2. exposed' \subseteq Hashes /\ faults' \in 0 .. MaxFaults
    BY <1>0, <1>5, FaultTyped DEF UploadFails, TypeOK
  <2> QED BY <1>5, <2>1, <2>2 DEF UploadFails, TypeOK
<1> QED BY <1>1, <1>2, <1>3, <1>4, <1>5 DEF Upload

LEMMA TypeOKStep ==
  ASSUME TypeOK, [Next]_vars
  PROVE  TypeOK'
<1> USE RebaseAssumption DEF TypeOK, local, peers, loop, work, handlers
<1>1. ASSUME NEW c \in Callers, Call(c) PROVE TypeOK'
  BY <1>1 DEF Call
<1>2. CASE Signal
  BY <1>2 DEF Signal
<1>3. CASE HandleRebaseSignal
  <2>1. CASE CheckForRebase
    <3>1. GetKeysByChunks \subseteq Keys
      BY DEF GetKeysByChunks, StoredKeys
    <3>2. info' \in [Keys -> Peers \cup {Self}]
      BY <2>1, <3>1 DEF CheckForRebase, Destinations
    <3>3. full' \in BOOLEAN
      BY <2>1 DEF CheckForRebase
    <3>4. copied' = {} /\ pc' = "copy"
      BY <2>1 DEF CheckForRebase
    <3> QED BY <2>1, <3>2, <3>3, <3>4 DEF CheckForRebase
  <2>2. CASE CheckFails
    BY <2>2, AbortOnlyTyped DEF CheckFails
  <2>3. ASSUME NEW k \in Keys, CopyKey(k) PROVE TypeOK'
    BY <2>3 DEF CopyKey, HashesOf
  <2>4. ASSUME NEW k \in Keys, RemoveKey(k) PROVE TypeOK'
    BY <2>4 DEF RemoveKey, HashesOf
  <2>5. ASSUME NEW h \in Hashes, SendFile(h) PROVE TypeOK'
    BY <2>5 DEF SendFile
  <2>6. ASSUME NEW h \in Hashes, NoFile(h) \/ UnlinkFails(h) PROVE TypeOK'
    BY <2>6, AbortOnlyTyped DEF NoFile, UnlinkFails
  <2>7. CASE Accepted
    <3>1. peer' \in [Peers -> Rows] /\ torn' \subseteq Peers \X Hashes
      BY <2>7, RecordedTyped DEF Accepted
    <3>2. key \in copied
      BY <2>7, InTransit DEF Accepted, Receiving
    <3> QED BY <2>7, <3>1, <3>2 DEF Accepted
  <2>8. CASE SendRefused
    BY <2>8, RecordedTyped, AbortTyped DEF SendRefused
  <2>9. CASE ReplyLost
    BY <2>9, RecordedTyped, EndedTyped, FaultTyped DEF ReplyLost
  <2>10. CASE ReceiverFails
    BY <2>10, InTransit, AbortTyped, FaultTyped DEF ReceiverFails, Receiving
  <2>11. CASE SelfCreate
    BY <2>11, InTransit DEF SelfCreate, Receiver
  <2>12. CASE SelfRefused
    BY <2>12, AbortTyped DEF SelfRefused
  <2>13. CASE SelfWriteFails
    BY <2>13, InTransit, AbortTyped, FaultTyped DEF SelfWriteFails
  <2>14. ASSUME NEW h \in Hashes, Unlink(h) PROVE TypeOK'
    BY <2>14 DEF Unlink
  <2>15. CASE KeyCopied \/ CopyStorage
    BY <2>15 DEF KeyCopied, CopyStorage
  <2>16. CASE DeleteRows
    <3>1. rows' \in Rows
      BY <2>16 DEF DeleteRows, Rows
    <3>2. older' \in [Hashes -> SUBSET Hashes]
      BY <2>16 DEF DeleteRows
    <3> QED BY <2>16, <3>1, <3>2 DEF DeleteRows, KeyRemoved
  <2>17. CASE DeleteFails
    BY <2>17, FaultTyped DEF DeleteFails, KeyRemoved
  <2>18. CASE NextPage
    BY <2>18 DEF NextPage
  <2>19. CASE LastPage
    BY <2>19, EndedTyped DEF LastPage
  <2>20. CASE CallFails
    BY <2>20, AbortOnlyTyped, FaultTyped DEF CallFails
  <2> QED BY <1>3, <2>1, <2>2, <2>3, <2>4, <2>5, <2>6, <2>7, <2>8, <2>9, <2>10, <2>11, <2>12,
             <2>13, <2>14, <2>15, <2>16, <2>17, <2>18, <2>19, <2>20 DEF HandleRebaseSignal
<1>4. CASE ConnectionBreaks
  BY <1>4, AbortOnlyTyped DEF ConnectionBreaks
<1>5. ASSUME NEW p \in Peers \ {Alias}, Hang(p) \/ Resume(p) PROVE TypeOK'
  BY <1>5, FaultTyped DEF Hang, Resume
<1>6. ASSUME NEW u \in Uploads, Upload(u) PROVE TypeOK'
  BY <1>6, TypeOKUpload
<1>7. ASSUME NEW k \in Keys, NEW d \in Dests[k], RingChange(k, d) PROVE TypeOK'
  BY <1>7 DEF RingChange
<1>8. CASE Crash
  BY <1>8, EndedTyped, FaultTyped DEF Crash
<1>9. CASE UNCHANGED vars
  BY <1>9 DEF vars
<1> QED BY <1>1, <1>2, <1>3, <1>4, <1>5, <1>6, <1>7, <1>8, <1>9 DEF Next

\* Types are right; keys are at work only during the pages of a rebase, and
\* only keys of the page that belong to another node.
THEOREM TypeOKHolds == Spec => []TypeOK
BY TypeOKInit, TypeOKStep, PTL DEF Spec

-----------------------------------------------------------------------------

\* A row names the key of the last upload.  An upload in flight has its file, and so
\* has the content being sent, unless it is exposed.  What a rebase is about to remove
\* has arrived: of the keys listed for copying every content, but those still to send
\* and those that came later, is held whole by its destination.
RowAcked == \A h \in Hashes : rows[h] # NoKey => rows[h] = acked[h]
InFlight ==
  \A u \in Uploads : u.hash \notin exposed =>
    /\ up[u] = "write" => u \in linked
    /\ up[u] = "insert" => Good(u.hash)
Sending ==
  pc \in {"receive", "write"} /\ hash \notin exposed => data = "whole" /\ Good(hash)
AtWork == pc \in {"send", "receive", "write", "unlink"} => \A h \in todo : rows[h] = key
ToSend(k, h) == pc \in {"send", "receive", "write"} /\ key = k /\ h \in todo
Arrived ==
  \A k \in copied, h \in Hashes :
    rows[h] = k /\ h \notin exposed /\ ~ToSend(k, h) =>
      /\ info[k] \in Peers \ {Alias}
      /\ peer[info[k]][h] = k
      /\ <<info[k], h>> \notin torn

Kept == NothingLost /\ RowAcked /\ InFlight /\ Sending /\ AtWork /\ Arrived

LEMMA KeptInit == Init => Kept
<1> SUFFICES ASSUME Init PROVE Kept
  OBVIOUS
<1>1. NothingLost /\ RowAcked
  BY DEF Init, NothingLost, Held, Good, RowAcked
<1>2. InFlight
  BY DEF Init, InFlight
<1>3. Sending /\ AtWork /\ Arrived
  BY DEF Init, Sending, AtWork, Arrived
<1> QED BY <1>1, <1>2, <1>3 DEF Kept

\* What a step leaves alone: a file stays good, and a copy at a peer stays.
GoodStays == \A h \in Hashes : h \notin exposed' /\ Good(h) => Good(h)'
CopiesStay ==
  \A p \in Peers \ {Alias}, h \in Hashes :
    h \notin exposed' /\ peer[p][h] # NoKey /\ <<p, h>> \notin torn =>
      peer'[p][h] = peer[p][h] /\ <<p, h>> \notin torn'

LEMMA HeldStays ==
  ASSUME TypeOK, Kept, UNCHANGED <<rows, acked>>, exposed \subseteq exposed', GoodStays, CopiesStay
  PROVE  NothingLost' /\ RowAcked'
<1>1. ASSUME NEW h \in Hashes, acked[h] # NoKey, h \notin exposed' PROVE Held(h)'
  <2>1. Held(h)
    BY <1>1 DEF Kept, NothingLost
  <2>2. CASE rows[h] = acked[h] /\ Good(h)
    BY <1>1, <2>2 DEF GoodStays, Held
  <2>3. CASE \E p \in Peers \ {Alias} : peer[p][h] = acked[h] /\ <<p, h>> \notin torn
    <3>1. PICK p \in Peers \ {Alias} : peer[p][h] = acked[h] /\ <<p, h>> \notin torn
      BY <2>3
    <3>2. peer'[p][h] = acked'[h] /\ <<p, h>> \notin torn'
      BY <1>1, <3>1 DEF CopiesStay
    <3> QED BY <3>2 DEF Held
  <2> QED BY <2>1, <2>2, <2>3 DEF Held
<1>2. NothingLost'
  BY <1>1 DEF NothingLost
<1>3. RowAcked'
  BY DEF Kept, RowAcked
<1> QED BY <1>2, <1>3

LEMMA InFlightStays ==
  ASSUME TypeOK, Kept, UNCHANGED handlers, exposed \subseteq exposed', GoodStays
  PROVE  InFlight'
<1> SUFFICES ASSUME NEW u \in Uploads, u.hash \notin exposed'
             PROVE  /\ up[u] = "write" => u \in linked
                    /\ up[u] = "insert" => Good(u.hash)'
  BY DEF InFlight, handlers
<1>1. u.hash \in Hashes /\ u.hash \notin exposed
  BY RebaseAssumption
<1> QED BY <1>1 DEF Kept, InFlight, GoodStays

\* A step that touches no file, and does not end a write.
LEMMA GoodQuiet ==
  ASSUME UNCHANGED <<file, linked, hash>> \/ (UNCHANGED <<file, linked>> /\ pc # "write"),
         pc = "write" => pc' = "write"
  PROVE  GoodStays
BY DEF GoodStays, Good, Writing

\* A step that touches neither contents nor the work on them keeps Kept.
LEMMA KeptQuiet ==
  ASSUME TypeOK, Kept, UNCHANGED <<rows, acked, file, peer, torn, handlers, exposed>>,
         \/ UNCHANGED <<pc, copied, info, key, todo, hash, data>>
         \/ copied' = {} /\ pc \in {"idle", "page", "remove"} /\ pc' \in {"page", "copy"}
         \/ UNCHANGED <<copied, info>> /\ pc = "copy" /\ pc' = "remove"
  PROVE  Kept'
<1>1. GoodStays
  BY GoodQuiet DEF handlers
<1>2. CopiesStay
  BY DEF CopiesStay
<1>3. NothingLost' /\ RowAcked' /\ InFlight'
  BY <1>1, <1>2, HeldStays, InFlightStays
<1>4. AtWork' /\ Arrived'
  BY DEF Kept, AtWork, Arrived, ToSend
<1>5. Sending'
  BY DEF Kept, Sending, Good, Writing, handlers
<1> QED BY <1>3, <1>4, <1>5 DEF Kept

\* When the rebase is over, nothing is at work any more.
LEMMA NothingAtWork ==
  ASSUME Ended
  PROVE  Sending' /\ AtWork' /\ Arrived'
BY DEF Ended, Sending, AtWork, Arrived

LEMMA KeptAbort ==
  ASSUME TypeOK, Kept, Ended, UNCHANGED <<rows, acked, handlers>>, exposed \subseteq exposed',
         GoodStays, CopiesStay
  PROVE  Kept'
BY HeldStays, InFlightStays, NothingAtWork DEF Kept

LEMMA KeptAbortOnly ==
  ASSUME TypeOK, Kept, AbortOnly, pc # "write"
  PROVE  Kept'
<1>1. Ended /\ UNCHANGED <<rows, acked, file, peer, torn, handlers, exposed>>
  BY DEF AbortOnly, Abort
<1>2. GoodStays
  BY <1>1, GoodQuiet DEF handlers, Ended
<1>3. CopiesStay
  BY <1>1 DEF CopiesStay
<1> QED BY <1>1, <1>2, <1>3, KeptAbort

-----------------------------------------------------------------------------

\* A receiver that rewrites its file keeps a whole copy whole, unless it is sent less.
LEMMA ReceivedStays ==
  ASSUME TypeOK, Kept, Receiving, Rewritten, exposed' = exposed,
         \/ peer' = peer
         \/ Accepts(Receiver, hash) /\ Recorded
  PROVE  CopiesStay
<1>0. key \in Keys /\ Receiver \in Peers /\ hash \in Hashes /\ pc = "receive"
  BY InTransit DEF Receiving
<1> SUFFICES ASSUME NEW p \in Peers \ {Alias}, NEW h \in Hashes, h \notin exposed,
                    peer[p][h] # NoKey, <<p, h>> \notin torn
             PROVE  peer'[p][h] = peer[p][h] /\ <<p, h>> \notin torn'
  BY DEF CopiesStay
<1>1. peer'[p][h] = peer[p][h]
  BY <1>0 DEF TypeOK, Recorded, Rows, Accepts
<1>2. <<p, h>> \notin torn'
  BY <1>0 DEF Rewritten, Kept, Sending
<1> QED BY <1>1, <1>2

LEMMA KeptAccepted ==
  ASSUME TypeOK, Kept, Accepted
  PROVE  Kept'
<1>0. /\ key \in Keys /\ key \in copied /\ Receiver \in Peers /\ hash \in Hashes /\ hash \in todo
      /\ key # NoKey /\ Receiver # Alias /\ pc = "receive"
  BY InTransit, RebaseAssumption DEF Accepted, Receiving
<1>1. /\ UNCHANGED <<rows, acked, file, handlers, info, copied, key, exposed>>
      /\ pc' = "send" /\ todo' = todo \ {hash}
      /\ Rewritten /\ Recorded
  BY DEF Accepted, local, loop
<1>2. GoodStays
  BY <1>0, <1>1, GoodQuiet DEF handlers
<1>3. CopiesStay
  BY <1>1, ReceivedStays DEF Accepted
<1>4. NothingLost' /\ RowAcked' /\ InFlight'
  BY <1>1, <1>2, <1>3, HeldStays, InFlightStays
<1>5. Sending' /\ AtWork'
  BY <1>0, <1>1 DEF Kept, Sending, AtWork
<1>6. Arrived'
  <2> SUFFICES ASSUME NEW k \in copied, NEW h \in Hashes, rows[h] = k, h \notin exposed,
                      ~(key = k /\ h \in todo \ {hash})
               PROVE  /\ info[k] \in Peers \ {Alias} /\ peer'[info[k]][h] = k
                      /\ <<info[k], h>> \notin torn'
    BY <1>1 DEF Arrived, ToSend
  <2>1. CASE key = k /\ h = hash
    <3>1. peer'[info[k]][h] = k
      BY <1>0, <1>1, <2>1 DEF TypeOK, Recorded, Receiver, Rows
    <3>2. <<info[k], h>> \notin torn'
      BY <1>0, <1>1, <2>1 DEF Rewritten, Receiver, Kept, Sending
    <3> QED BY <1>0, <2>1, <3>1, <3>2 DEF Receiver
  <2>2. CASE ~(key = k /\ h = hash)
    <3>1. k # NoKey /\ ~ToSend(k, h)
      BY <2>2, RebaseAssumption DEF TypeOK, ToSend
    <3>2. info[k] \in Peers \ {Alias} /\ peer[info[k]][h] = k /\ <<info[k], h>> \notin torn
      BY <3>1 DEF Kept, Arrived
    <3> QED BY <1>1, <1>3, <3>1, <3>2 DEF CopiesStay
  <2> QED BY <2>1, <2>2
<1> QED BY <1>4, <1>5, <1>6 DEF Kept

LEMMA KeptRefused ==
  ASSUME TypeOK, Kept, SendRefused \/ ReplyLost
  PROVE  Kept'
<1>0. pc = "receive"
  BY DEF SendRefused, ReplyLost, Receiving
<1>1. /\ UNCHANGED <<rows, acked, file, handlers, exposed>>
      /\ Ended /\ Rewritten /\ Receiving
      /\ peer' = peer \/ (Accepts(Receiver, hash) /\ Recorded)
  BY DEF SendRefused, ReplyLost, Abort, local
<1>2. GoodStays
  BY <1>0, <1>1, GoodQuiet DEF handlers
<1>3. CopiesStay
  BY <1>1, ReceivedStays
<1> QED BY <1>1, <1>2, <1>3, KeptAbort

\* The copy that a receiver spoils is one of a content this node still has.
LEMMA KeptReceiverFails ==
  ASSUME TypeOK, Kept, ReceiverFails
  PROVE  Kept'
<1>0. /\ Receiver \in Peers /\ hash \in Hashes /\ hash \in todo /\ key \in Keys /\ key # NoKey
      /\ pc = "receive"
  BY InTransit, RebaseAssumption DEF ReceiverFails, Receiving
<1>1. /\ UNCHANGED <<rows, acked, file, peer, handlers, exposed>>
      /\ Ended /\ torn' = torn \cup {<<Receiver, hash>>}
  BY DEF ReceiverFails, Abort
<1>2. GoodStays
  BY <1>0, <1>1, GoodQuiet DEF handlers
<1>3. NothingLost'
  <2> SUFFICES ASSUME NEW h \in Hashes, acked[h] # NoKey, h \notin exposed
               PROVE  Held(h)'
    BY <1>1 DEF NothingLost
  <2>1. CASE h = hash
    <3>1. rows[h] = acked[h]
      BY <1>0, <2>1 DEF Kept, AtWork, RowAcked
    <3>2. Good(h)
      BY <1>0, <2>1 DEF Kept, Sending
    <3> QED BY <1>1, <1>2, <3>1, <3>2 DEF GoodStays, Held
  <2>2. CASE h # hash
    <3>1. Held(h)
      BY DEF Kept, NothingLost
    <3>2. Good(h) => Good(h)'
      BY <1>1, <1>2 DEF GoodStays
    <3>3. \A p \in Peers : <<p, h>> \notin torn => <<p, h>> \notin torn'
      BY <1>1, <2>2
    <3> QED BY <1>1, <3>1, <3>2, <3>3 DEF Held
  <2> QED BY <2>1, <2>2
<1>4. RowAcked' /\ InFlight'
  BY <1>1, <1>2, InFlightStays DEF Kept, RowAcked
<1> QED BY <1>1, <1>3, <1>4, NothingAtWork DEF Kept

\* This node truncates its own file, and writes it, or stops.
LEMMA KeptSelf ==
  ASSUME TypeOK, Kept, SelfCreate \/ SelfRefused \/ SelfWriteFails
  PROVE  Kept'
<1>0. hash \in Hashes /\ pc \in {"receive", "write"}
  BY InTransit DEF SelfCreate, SelfRefused, SelfWriteFails
<1>1. /\ UNCHANGED <<rows, acked, peer, torn, handlers>> /\ exposed \subseteq exposed'
      /\ \A h \in Hashes : h # hash => file'[h] = file[h]
  BY <1>0 DEF SelfCreate, SelfRefused, SelfWriteFails, Abort, peers, TypeOK
<1>2. GoodStays
  <2> SUFFICES ASSUME NEW h \in Hashes, h \notin exposed', Good(h) PROVE Good(h)'
    BY DEF GoodStays
  <2>1. CASE h # hash
    BY <1>1, <2>1 DEF Good, Writing, handlers
  <2>2. CASE h = hash /\ SelfCreate
    BY <2>2 DEF SelfCreate, Good, Writing, work
  <2>3. CASE h = hash /\ SelfRefused
    <3>1. data = "whole"
      BY <1>1, <2>3 DEF SelfRefused, Kept, Sending
    <3> QED BY <1>0, <2>3, <3>1 DEF SelfRefused, Good, TypeOK
  <2>4. CASE h = hash /\ SelfWriteFails
    BY <2>4 DEF SelfWriteFails
  <2> QED BY <2>1, <2>2, <2>3, <2>4
<1>3. CopiesStay
  BY <1>1 DEF CopiesStay
<1>4. CASE SelfCreate
  <2>1. NothingLost' /\ RowAcked' /\ InFlight'
    BY <1>1, <1>2, <1>3, HeldStays, InFlightStays
  <2>2. /\ UNCHANGED <<info, copied, key, todo, hash, data, exposed>>
        /\ pc = "receive" /\ pc' = "write"
    BY <1>4 DEF SelfCreate, loop, work
  <2>3. Sending'
    BY <2>2 DEF Kept, Sending, Good, Writing
  <2>4. AtWork' /\ Arrived'
    BY <1>1, <2>2 DEF Kept, AtWork, Arrived, ToSend
  <2> QED BY <2>1, <2>3, <2>4 DEF Kept
<1>5. CASE SelfRefused \/ SelfWriteFails
  BY <1>1, <1>2, <1>3, <1>5, KeptAbort DEF SelfRefused, SelfWriteFails, Abort
<1> QED BY <1>4, <1>5

-----------------------------------------------------------------------------

\* What is unlinked has arrived at its destination, or is exposed.
LEMMA KeptUnlink ==
  ASSUME TypeOK, Kept, NEW h \in Hashes, Unlink(h)
  PROVE  Kept'
<1>0. pc = "unlink" /\ h \in todo /\ key \in copied /\ rows[h] = key /\ key # NoKey /\ key \in Keys
  BY RebaseAssumption DEF Unlink, TypeOK, Kept, AtWork
<1>1. /\ UNCHANGED <<rows, acked, peer, torn, pc, info, copied, key, hash, data, up>>
      /\ exposed \subseteq exposed' /\ todo' = todo \ {h}
      /\ linked' = {u \in linked : u.hash # h}
      /\ \A g \in Hashes : g # h => file'[g] = file[g]
  BY DEF Unlink, peers, loop, TypeOK
<1>2. \A g \in Hashes : g # h /\ Good(g) => Good(g)'
  BY <1>1 DEF Good, Writing
<1>3. NothingLost'
  <2> SUFFICES ASSUME NEW g \in Hashes, acked[g] # NoKey, g \notin exposed'
               PROVE  Held(g)'
    BY <1>1 DEF NothingLost
  <2>1. CASE g = h
    <3>1. /\ info[key] \in Peers \ {Alias} /\ peer[info[key]][h] = key
          /\ <<info[key], h>> \notin torn
      BY <1>0, <1>1, <2>1 DEF Kept, Arrived, ToSend
    <3>2. acked[h] = key
      BY <1>0 DEF Kept, RowAcked
    <3> QED BY <1>1, <2>1, <3>1, <3>2 DEF Held
  <2>2. CASE g # h
    BY <1>1, <1>2, <2>2 DEF Held, Kept, NothingLost
  <2> QED BY <2>1, <2>2
<1>4. InFlight'
  <2> SUFFICES ASSUME NEW u \in Uploads, u.hash \notin exposed'
               PROVE  /\ up[u] = "write" => u \in linked'
                      /\ up[u] = "insert" => Good(u.hash)'
    BY <1>1 DEF InFlight
  <2>1. CASE u.hash = h
    BY <2>1 DEF Unlink
  <2>2. CASE u.hash # h
    <3>1. u.hash \in Hashes
      BY RebaseAssumption
    <3> QED BY <1>1, <1>2, <2>2, <3>1 DEF Kept, InFlight
  <2> QED BY <2>1, <2>2
<1>5. RowAcked' /\ AtWork' /\ Arrived'
  BY <1>0, <1>1 DEF Kept, RowAcked, AtWork, Arrived, ToSend
<1>6. Sending'
  BY <1>0, <1>1 DEF Sending
<1> QED BY <1>3, <1>4, <1>5, <1>6 DEF Kept

\* So have the rows that are deleted.
LEMMA KeptDeleteRows ==
  ASSUME TypeOK, Kept, DeleteRows
  PROVE  Kept'
<1>0. pc = "unlink" /\ key \in copied /\ key # NoKey /\ key \in Keys
  BY RebaseAssumption DEF DeleteRows, TypeOK
<1>1. /\ UNCHANGED <<file, acked, peer, torn, info, handlers, exposed>>
      /\ pc' = "remove" /\ copied' = copied \ {key}
      /\ \A h \in Hashes : rows'[h] = IF rows[h] = key THEN NoKey ELSE rows[h]
  BY DEF DeleteRows, KeyRemoved, peers
<1>2. GoodStays
  BY <1>0, <1>1, GoodQuiet DEF handlers
<1>3. NothingLost'
  <2> SUFFICES ASSUME NEW h \in Hashes, acked[h] # NoKey, h \notin exposed
               PROVE  Held(h)'
    BY <1>1 DEF NothingLost
  <2>1. CASE rows[h] = key
    <3>1. /\ info[key] \in Peers \ {Alias} /\ peer[info[key]][h] = key
          /\ <<info[key], h>> \notin torn
      BY <1>0, <2>1 DEF Kept, Arrived, ToSend
    <3>2. acked[h] = key
      BY <1>0, <2>1 DEF Kept, RowAcked
    <3> QED BY <1>1, <3>1, <3>2 DEF Held
  <2>2. CASE rows[h] # key
    <3>1. Good(h) => Good(h)'
      BY <1>1, <1>2 DEF GoodStays
    <3> QED BY <1>1, <2>2, <3>1 DEF Held, Kept, NothingLost
  <2> QED BY <2>1, <2>2
<1>4. RowAcked' /\ InFlight' /\ Sending' /\ AtWork'
  BY <1>1, <1>2, InFlightStays DEF Kept, RowAcked, Sending, AtWork
<1>5. Arrived'
  <2> SUFFICES ASSUME NEW k \in copied, k # key, NEW h \in Hashes, rows'[h] = k, h \notin exposed
               PROVE  /\ info[k] \in Peers \ {Alias} /\ peer[info[k]][h] = k
                      /\ <<info[k], h>> \notin torn
    BY <1>1 DEF Arrived
  <2>1. k # NoKey
    BY RebaseAssumption DEF TypeOK
  <2>2. rows[h] = k /\ ~ToSend(k, h)
    BY <1>0, <1>1, <2>1 DEF ToSend
  <2> QED BY <2>2 DEF Kept, Arrived
<1> QED BY <1>3, <1>4, <1>5 DEF Kept

-----------------------------------------------------------------------------

\* The steps of an upload that touch its file: as long as it does not fail, the file
\* is good when they are done.
LEMMA KeptFile ==
  ASSUME TypeOK, Kept, NEW u \in Uploads, Stat(u) \/ Create(u) \/ Write(u) \/ UploadFails(u)
  PROVE  Kept'
<1>0. u.hash \in Hashes
  BY RebaseAssumption
<1>1. /\ UNCHANGED <<rows, acked, peer, torn, pc, info, copied, key, todo, hash, data>>
      /\ exposed \subseteq exposed'
      /\ \A h \in Hashes : h # u.hash => file'[h] = file[h]
      /\ \A v \in Uploads : v # u => up'[v] = up[v] /\ (v \in linked' <=> v \in linked)
  BY <1>0 DEF Stat, Create, Write, UploadFails, local, peers, loop, work, TypeOK
<1>2. u.hash \in exposed' \/ (Good(u.hash) => Good(u.hash)')
  <2>1. CASE Stat(u)
    BY <2>1 DEF Stat, Good, Writing, local, work
  <2>2. CASE Create(u)
    BY <2>2 DEF Create, Good, Writing
  <2>3. CASE Write(u)
    <3>1. CASE u \in linked
      BY <1>0, <2>3, <3>1 DEF Write, Good, TypeOK
    <3>2. CASE u \notin linked
      BY <1>1, <2>3, <3>2 DEF Write, Kept, InFlight
    <3> QED BY <3>1, <3>2
  <2>4. CASE UploadFails(u)
    <3>1. CASE u \in linked
      BY <2>4, <3>1 DEF UploadFails
    <3>2. CASE u \notin linked
      BY <1>1, <2>4, <3>2 DEF UploadFails, Good, Writing
    <3> QED BY <3>1, <3>2
  <2> QED BY <2>1, <2>2, <2>3, <2>4
<1>3. GoodStays
  <2> SUFFICES ASSUME NEW h \in Hashes, h \notin exposed', Good(h), h # u.hash PROVE Good(h)'
    BY <1>2 DEF GoodStays
  <2> QED BY <1>1 DEF Good, Writing, TypeOK
<1>4. CopiesStay
  BY <1>1 DEF CopiesStay
<1>5. NothingLost' /\ RowAcked'
  BY <1>1, <1>3, <1>4, HeldStays
<1>6. InFlight'
  <2> SUFFICES ASSUME NEW v \in Uploads, v.hash \notin exposed'
               PROVE  /\ up'[v] = "write" => v \in linked'
                      /\ up'[v] = "insert" => Good(v.hash)'
    BY DEF InFlight
  <2>1. CASE v # u
    <3>1. v.hash \in Hashes /\ v.hash \notin exposed
      BY <1>1, RebaseAssumption
    <3> QED BY <1>1, <1>3, <2>1, <3>1 DEF Kept, InFlight, GoodStays
  <2>2. CASE v = u /\ Stat(u)
    <3>1. up'[u] \in {"create", "insert"} /\ (up'[u] = "insert" => file[u.hash] # "none")
      BY <2>2 DEF Stat, TypeOK
    <3>2. file' = file /\ file[u.hash] \in {"none", "whole"}
      BY <1>0, <2>2 DEF Stat, TypeOK, local
    <3> QED BY <2>2, <3>1, <3>2 DEF Good
  <2>3. CASE v = u /\ Create(u)
    BY <2>3 DEF Create, TypeOK
  <2>4. CASE v = u /\ Write(u)
    <3>1. u \in linked
      BY <1>1, <2>4 DEF Write, Kept, InFlight
    <3> QED BY <1>0, <2>4, <3>1 DEF Write, Good, TypeOK
  <2>5. CASE v = u /\ UploadFails(u)
    BY <2>5 DEF UploadFails, TypeOK
  <2> QED BY <2>1, <2>2, <2>3, <2>4, <2>5
<1>7. Sending'
  <2>1. pc \in {"receive", "write"} => hash \in Hashes
    BY InTransit
  <2> QED BY <1>1, <1>3, <2>1 DEF Kept, Sending, GoodStays
<1>8. AtWork' /\ Arrived'
  BY <1>1 DEF Kept, AtWork, Arrived, ToSend
<1> QED BY <1>5, <1>6, <1>7, <1>8 DEF Kept

LEMMA KeptUploadRow ==
  ASSUME TypeOK, Kept, NEW u \in Uploads, UploadRow(u)
  PROVE  Kept'
<1>0. u.key \in Keys /\ u.hash \in Hashes /\ u.key # NoKey /\ up[u] = "insert"
  BY RebaseAssumption DEF UploadRow
<1>1. /\ UNCHANGED <<file, peer, torn, pc, info, copied, key, todo, hash, data, linked>>
      /\ exposed \subseteq exposed'
      /\ \A v \in Uploads : up'[v] = IF v = u THEN "idle" ELSE up[v]
  BY DEF UploadRow, peers, loop, work, TypeOK
<1>2. \A h \in Hashes : Good(h) => Good(h)'
  BY <1>1 DEF Good, Writing
<1>3. InFlight'
  <2> SUFFICES ASSUME NEW v \in Uploads, v # u, v.hash \notin exposed'
               PROVE  /\ up[v] = "write" => v \in linked
                      /\ up[v] = "insert" => Good(v.hash)'
    BY <1>1 DEF InFlight
  <2>1. v.hash \in Hashes
    BY RebaseAssumption
  <2> QED BY <1>1, <1>2, <2>1 DEF Kept, InFlight
<1>4. Sending'
  <2>1. pc \in {"receive", "write"} => hash \in Hashes
    BY InTransit
  <2> QED BY <1>1, <1>2, <2>1 DEF Kept, Sending
<1>5. CASE rows[u.hash] # NoKey
  <2>1. UNCHANGED <<rows, acked, exposed>>
    BY <1>5 DEF UploadRow
  <2>2. GoodStays /\ CopiesStay
    BY <1>1, <1>2 DEF GoodStays, CopiesStay
  <2>3. NothingLost' /\ RowAcked'
    BY <1>1, <2>1, <2>2, HeldStays
  <2>4. AtWork' /\ Arrived'
    BY <1>1, <2>1 DEF Kept, AtWork, Arrived, ToSend
  <2> QED BY <1>3, <1>4, <2>3, <2>4 DEF Kept
<1>6. CASE rows[u.hash] = NoKey
  <2>1. /\ \A g \in Hashes : rows'[g] = IF g = u.hash THEN u.key ELSE rows[g]
        /\ \A g \in Hashes : acked'[g] = IF g = u.hash THEN u.key ELSE acked[g]
    BY <1>6 DEF UploadRow, TypeOK, Rows
  <2>2. u.hash \notin exposed' => u.key \notin copied /\ Good(u.hash)
    BY <1>0, <1>1, <1>6 DEF UploadRow, Kept, InFlight
  <2>3. NothingLost'
    <3> SUFFICES ASSUME NEW g \in Hashes, acked'[g] # NoKey, g \notin exposed'
                 PROVE  Held(g)'
      BY DEF NothingLost
    <3>1. CASE g = u.hash
      BY <1>0, <1>2, <2>1, <2>2, <3>1 DEF Held
    <3>2. CASE g # u.hash
      BY <1>1, <1>2, <2>1, <3>2 DEF Kept, NothingLost, Held
    <3> QED BY <3>1, <3>2
  <2>4. RowAcked'
    BY <2>1 DEF Kept, RowAcked
  <2>5. AtWork'
    <3> SUFFICES ASSUME pc \in {"send", "receive", "write", "unlink"}, NEW g \in todo
                 PROVE  rows'[g] = key
      BY <1>1 DEF AtWork
    <3>1. rows[g] = key /\ key # NoKey /\ g \in Hashes
      BY RebaseAssumption DEF Kept, AtWork, TypeOK
    <3> QED BY <1>6, <2>1, <3>1
  <2>6. Arrived'
    BY <1>1, <2>1, <2>2 DEF Kept, Arrived, ToSend
  <2> QED BY <1>3, <1>4, <2>3, <2>4, <2>5, <2>6 DEF Kept
<1> QED BY <1>5, <1>6

LEMMA KeptCrash ==
  ASSUME TypeOK, Kept, Crash
  PROVE  Kept'
<1>1. /\ UNCHANGED <<rows, acked, file, peer, torn>> /\ Ended
      /\ exposed' = exposed \cup {h \in Hashes : Writing(h)}
      /\ up' = [u \in Uploads |-> "idle"]
  BY DEF Crash, local, peers
<1>2. GoodStays /\ CopiesStay
  BY <1>1 DEF GoodStays, CopiesStay, Good
<1>3. NothingLost' /\ RowAcked'
  BY <1>1, <1>2, HeldStays
<1>4. InFlight'
  BY <1>1 DEF InFlight
<1> QED BY <1>1, <1>3, <1>4, NothingAtWork DEF Kept

LEMMA KeptStep ==
  ASSUME TypeOK, Kept, [Next]_vars
  PROVE  Kept'
<1> USE DEF local, peers, loop, work
<1>1. ASSUME NEW c \in Callers, Call(c) PROVE Kept'
  BY <1>1, KeptQuiet DEF Call
<1>2. CASE Signal
  BY <1>2, KeptQuiet DEF Signal, TypeOK
<1>3. CASE HandleRebaseSignal
  <2>1. CASE CheckForRebase
    <3>1. copied' = {}
      BY <2>1 DEF CheckForRebase, TypeOK
    <3> QED BY <2>1, <3>1, KeptQuiet DEF CheckForRebase
  <2>2. CASE CheckFails
    BY <2>2, KeptAbortOnly DEF CheckFails
  <2>3. ASSUME NEW k \in Keys, CopyKey(k) \/ RemoveKey(k) PROVE Kept'
    <3>1. /\ UNCHANGED <<rows, acked, file, peer, torn, handlers, exposed, info>>
          /\ pc \in {"copy", "remove"} /\ pc' \in {"send", "unlink"}
          /\ key' = k /\ todo' = HashesOf(k) /\ copied' = copied \cup {k}
          /\ pc' = "send" \/ copied' = copied
      BY <2>3 DEF CopyKey, RemoveKey
    <3>2. GoodStays /\ CopiesStay
      BY <3>1, GoodQuiet DEF CopiesStay, handlers
    <3>3. NothingLost' /\ RowAcked' /\ InFlight'
      BY <3>1, <3>2, HeldStays, InFlightStays
    <3>4. Sending' /\ AtWork'
      BY <3>1 DEF Sending, AtWork, HashesOf
    <3>5. Arrived'
      BY <3>1 DEF Kept, Arrived, ToSend, HashesOf
    <3> QED BY <3>3, <3>4, <3>5 DEF Kept
  <2>4. ASSUME NEW h \in Hashes, SendFile(h) PROVE Kept'
    <3>1. /\ UNCHANGED <<rows, acked, file, peer, torn, handlers, info, copied, key, todo>>
          /\ pc = "send" /\ pc' = "receive" /\ exposed \subseteq exposed'
          /\ hash' = h /\ data' = file[h]
          /\ h \notin exposed' => file[h] = "whole"
      BY <2>4 DEF SendFile, TypeOK
    <3>2. GoodStays /\ CopiesStay
      BY <3>1, GoodQuiet DEF CopiesStay, handlers
    <3>3. NothingLost' /\ RowAcked' /\ InFlight'
      BY <3>1, <3>2, HeldStays, InFlightStays
    <3>4. Sending'
      BY <3>1 DEF Sending, Good
    <3>5. AtWork' /\ Arrived'
      BY <3>1 DEF Kept, AtWork, Arrived, ToSend
    <3> QED BY <3>3, <3>4, <3>5 DEF Kept
  <2>5. ASSUME NEW h \in Hashes, NoFile(h) \/ UnlinkFails(h) PROVE Kept'
    BY <2>5, KeptAbortOnly DEF NoFile, UnlinkFails
  <2>6. CASE Accepted
    BY <2>6, KeptAccepted
  <2>7. CASE SendRefused \/ ReplyLost
    BY <2>7, KeptRefused
  <2>8. CASE ReceiverFails
    BY <2>8, KeptReceiverFails
  <2>9. CASE SelfCreate \/ SelfRefused \/ SelfWriteFails
    BY <2>9, KeptSelf
  <2>10. ASSUME NEW h \in Hashes, Unlink(h) PROVE Kept'
    BY <2>10, KeptUnlink
  <2>11. CASE KeyCopied
    <3>1. /\ UNCHANGED <<rows, acked, file, peer, torn, handlers, exposed, info, copied>>
          /\ pc = "send" /\ pc' = "copy" /\ todo = {}
      BY <2>11 DEF KeyCopied
    <3>2. GoodStays /\ CopiesStay
      BY <3>1, GoodQuiet DEF CopiesStay, handlers
    <3>3. NothingLost' /\ RowAcked' /\ InFlight'
      BY <3>1, <3>2, HeldStays, InFlightStays
    <3>4. Sending' /\ AtWork' /\ Arrived'
      BY <3>1 DEF Kept, Sending, AtWork, Arrived, ToSend
    <3> QED BY <3>3, <3>4 DEF Kept
  <2>12. CASE CopyStorage
    BY <2>12, KeptQuiet DEF CopyStorage
  <2>13. CASE DeleteRows
    BY <2>13, KeptDeleteRows
  <2>14. CASE DeleteFails
    <3>1. /\ UNCHANGED <<rows, acked, file, peer, torn, handlers, exposed, info>>
          /\ copied' = copied \ {key} /\ pc = "unlink" /\ pc' = "remove"
      BY <2>14 DEF DeleteFails, KeyRemoved
    <3>2. GoodStays /\ CopiesStay
      BY <3>1, GoodQuiet DEF CopiesStay, handlers
    <3>3. NothingLost' /\ RowAcked' /\ InFlight'
      BY <3>1, <3>2, HeldStays, InFlightStays
    <3>4. Sending' /\ AtWork' /\ Arrived'
      BY <3>1 DEF Kept, Sending, AtWork, Arrived, ToSend
    <3> QED BY <3>3, <3>4 DEF Kept
  <2>15. CASE NextPage
    BY <2>15, KeptQuiet DEF NextPage
  <2>16. CASE LastPage
    <3>1. GoodStays /\ CopiesStay
      BY <2>16, GoodQuiet DEF LastPage, CopiesStay, handlers, Ended
    <3> QED BY <2>16, <3>1, KeptAbort DEF LastPage
  <2>17. CASE CallFails
    BY <2>17, KeptAbortOnly DEF CallFails
  <2> QED BY <1>3, <2>1, <2>2, <2>3, <2>4, <2>5, <2>6, <2>7, <2>8, <2>9, <2>10, <2>11, <2>12,
             <2>13, <2>14, <2>15, <2>16, <2>17 DEF HandleRebaseSignal
<1>4. CASE ConnectionBreaks
  BY <1>4, KeptAbortOnly DEF ConnectionBreaks, Stuck
<1>5. ASSUME NEW p \in Peers \ {Alias}, Hang(p) \/ Resume(p) PROVE Kept'
  BY <1>5, KeptQuiet DEF Hang, Resume
<1>6. ASSUME NEW u \in Uploads, Upload(u) PROVE Kept'
  BY <1>6, KeptFile, KeptUploadRow DEF Upload
<1>7. ASSUME NEW k \in Keys, NEW d \in Dests[k], RingChange(k, d) PROVE Kept'
  BY <1>7, KeptQuiet DEF RingChange
<1>8. CASE Crash
  BY <1>8, KeptCrash
<1>9. CASE UNCHANGED vars
  BY <1>9, KeptQuiet DEF vars
<1> QED BY <1>1, <1>2, <1>3, <1>4, <1>5, <1>6, <1>7, <1>8, <1>9 DEF Next

\* No rebase loses a content whose upload has succeeded before the rebase came
\* to its key, and whose file nobody was rewriting when the rebase read or unlinked
\* it or when a fault struck, whatever fails, dies, refuses, hangs or changes.
THEOREM NothingLostHolds == Spec => []NothingLost
<1>1. TypeOK /\ Kept /\ [Next]_vars => Kept'
  BY KeptStep
<1>2. Kept => NothingLost
  BY DEF Kept
<1> QED BY <1>1, <1>2, KeptInit, TypeOKInit, TypeOKStep, PTL DEF Spec
=============================================================================
