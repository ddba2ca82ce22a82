-------------------------- MODULE ReplicationProofs --------------------------
(***************************************************************************)
(* Of Replication: copies are not replicated in turn, they lie where their *)
(* keys lead, and what was sent without an error stays.                    *)
(***************************************************************************)
EXTENDS Replication, TLAPS, FiniteSetTheorems

\* Only pairs of uploads are replicated, each by the loop of its own node.
Loops ==
  /\ \A p \in Pairs : outcome[p] # "none" => \E u \in received : u.replicate /\ p = PairOf(u)
  /\ \A n \in Nodes : pc[n] # "idle" => outcome[pair[n]] = "running" /\ pair[n].node = n

Typed == TypeOK /\ Loops

LEMMA Constants ==
  /\ NodeAt \in [Addrs -> Nodes] /\ Factor \in Nat
  /\ None \notin ReplicaKeys /\ None \notin Addrs /\ None \notin Pairs
  /\ Uploads \subseteq [node : Nodes, key : Keys, hash : Hashes, replicate : BOOLEAN]
  /\ FirstDest \in [ReplicaKeys -> Addrs \cup {None}]
  /\ \A c \in RingChanges : c[1] \in Nodes /\ c[2] \in ReplicaKeys /\ c[3] \in Addrs \cup {None}
  /\ MaxFaults \in Nat /\ MaxRebases \in Nat
BY ReplicationAssumption

LEMMA PairOfUpload ==
  ASSUME NEW u \in Uploads
  PROVE  /\ PairOf(u) \in Pairs /\ PairOf(u).node = u.node /\ PairOf(u).hash = u.hash
         /\ PairOf(u).key = <<u.key, 0>>
         /\ u.node \in Nodes /\ u.hash \in Hashes /\ u.key \in Keys /\ <<u.key, 0>> \in ReplicaKeys
BY Constants DEF PairOf, Pairs, ReplicaKeys

\* The keys a loop looks up are replica keys of an upload's key.
LEMMA KeysAtWork ==
  ASSUME TypeOK, Loops, NEW n \in Nodes, pc[n] # "idle"
  PROVE  /\ pair[n] \in Pairs /\ pair[n].hash \in Hashes
         /\ pair[n].key = <<pair[n].key[1], 0>> /\ pair[n].key[1] \in Keys
         /\ \A i \in 0 .. Factor + 1 :
              ReplicaKey(n, i) = <<pair[n].key[1], i>> /\ ReplicaKey(n, i) \in ReplicaKeys
<1>1. pair[n] \in Pairs
  BY DEF TypeOK
<1>2. PICK u \in received : u.replicate /\ pair[n] = PairOf(u)
  BY <1>1 DEF Loops
<1>3. u \in Uploads
  BY DEF TypeOK
<1>4. pair[n].key = <<u.key, 0>> /\ u.key \in Keys /\ pair[n].hash \in Hashes
  BY <1>2, <1>3, PairOfUpload
<1> QED BY <1>1, <1>4, Constants DEF ReplicaKey, ReplicaKeys

LEMMA TypedInit == Init => Typed
<1> SUFFICES ASSUME Init PROVE Typed
  OBVIOUS
<1>1. TypeOK
  BY Constants DEF Init, TypeOK
<1>2. Loops
  BY DEF Init, Loops
<1> QED BY <1>1, <1>2 DEF Typed

\* The variables each conjunct of TypeOK is about.
LEMMA LoopEnds ==
  ASSUME TypeOK, NEW n \in Nodes, Ended(n)
  PROVE  /\ pc' \in [Nodes -> {"idle", "next", "send"}]
         /\ pair' \in [Nodes -> Pairs \cup {None}]
         /\ level' \in [Nodes -> 0 .. Factor]
         /\ used' \in [Nodes -> SUBSET Addrs]
         /\ to' \in [Nodes -> Addrs \cup {None}]
         /\ pc'[n] = "idle" /\ level'[n] = 0 /\ used'[n] = {}
         /\ \A m \in Nodes \ {n} :
              pc'[m] = pc[m] /\ pair'[m] = pair[m] /\ level'[m] = level[m]
                /\ used'[m] = used[m] /\ to'[m] = to[m]
<1>1. 0 \in 0 .. Factor
  BY Constants
<1> QED BY <1>1 DEF TypeOK, Ended

LoopTypes ==
  /\ pc \in [Nodes -> {"idle", "next", "send"}]
  /\ pair \in [Nodes -> Pairs \cup {None}]
  /\ level \in [Nodes -> 0 .. Factor]
  /\ used \in [Nodes -> SUBSET Addrs]
  /\ to \in [Nodes -> Addrs \cup {None}]
  /\ \A n \in Nodes :
       /\ pc[n] = "idle" => level[n] = 0 /\ used[n] = {}
       /\ pc[n] # "idle" => pair[n] \in Pairs
       /\ pc[n] = "send" => to[n] \in used[n] /\ level[n] > 0

OtherTypes ==
  /\ rows \in [Nodes -> [Hashes -> ReplicaKeys \cup {None}]]
  /\ state \in [Nodes -> {"up", "down", "hung"}]
  /\ dest \in [Nodes -> [ReplicaKeys -> Addrs \cup {None}]]
  /\ changed \subseteq ReplicaKeys
  /\ received \subseteq Uploads
  /\ outcome \in [Pairs -> {"none", "waiting", "running", "done", "failed", "lost"}]
  /\ sent \in [Pairs -> SUBSET (1 .. Factor)]
  /\ faults \in 0 .. MaxFaults /\ rebases \in 0 .. MaxRebases

RebaseTypes ==
  /\ rebaseKey \in [Nodes -> ReplicaKeys \cup {None}]
  /\ rebaseTo \in [Nodes -> Addrs \cup {None}]
  /\ toCopy \in [Nodes -> SUBSET Hashes]
  /\ \A n \in Nodes : IF rebaseKey[n] = None THEN toCopy[n] = {} ELSE rebaseTo[n] \in Addrs
  /\ late \subseteq ReplicaKeys \X Hashes

LEMMA TypesSplit == TypeOK <=> LoopTypes /\ OtherTypes /\ RebaseTypes
BY DEF TypeOK, LoopTypes, OtherTypes, RebaseTypes

LEMMA EndedTyped ==
  ASSUME LoopTypes, NEW n \in Nodes, Ended(n)
  PROVE  LoopTypes'
BY Constants DEF LoopTypes, Ended

LEMMA LoopTypesStep ==
  ASSUME TypeOK, Loops, Next
  PROVE  LoopTypes'
<1> USE TypesSplit
<1>1. ASSUME UNCHANGED loop PROVE LoopTypes'
  BY <1>1 DEF LoopTypes, loop
<1>2. ASSUME NEW n \in Nodes, NEW p \in Pairs, TakePair(n, p) PROVE LoopTypes'
  BY <1>2 DEF TakePair, LoopTypes
<1>3. ASSUME NEW n \in Nodes, NextKey(n) PROVE LoopTypes'
  <2>1. level[n] + 1 \in 0 .. Factor /\ level[n] + 1 > 0 /\ level[n] < Factor
    BY <1>3, Constants DEF NextKey, LoopTypes
  <2>2. ReplicaKey(n, level[n] + 1) \in ReplicaKeys
    <3>1. pc[n] # "idle" /\ level[n] + 1 \in 0 .. Factor + 1
      BY <1>3, <2>1, Constants DEF NextKey
    <3> QED BY <3>1, KeysAtWork
  <2>3. PICK a \in Addrs :
          /\ used' = [used EXCEPT ![n] = @ \cup {a}]
          /\ to' = [to EXCEPT ![n] = IF a \in used[n] THEN None ELSE a]
          /\ pc' = [pc EXCEPT ![n] = IF a \in used[n] THEN "next" ELSE "send"]
    <3> DEFINE a == dest[n][ReplicaKey(n, level[n] + 1)]
    <3>1. a \in Addrs
      <4>1. a \in Addrs \cup {None}
        BY <2>2 DEF OtherTypes
      <4> QED BY <1>3, <4>1 DEF NextKey
    <3> WITNESS a \in Addrs
    <3> QED BY <1>3 DEF NextKey
  <2>4. level' = [level EXCEPT ![n] = level[n] + 1] /\ pair' = pair /\ pc[n] = "next"
    BY <1>3 DEF NextKey, LoopTypes
  <2> QED BY <2>1, <2>3, <2>4 DEF LoopTypes
<1>4. ASSUME NEW n \in Nodes, Ended(n) PROVE LoopTypes'
  BY <1>4, EndedTyped
<1>5. ASSUME NEW n \in Nodes, SendFile(n) PROVE LoopTypes'
  BY <1>5 DEF SendFile, Sent, Sending, LoopTypes
<1> QED
  BY <1>1, <1>2, <1>3, <1>4, <1>5
     DEF Next, HandleReplication, Upload, Done, NoDestination, SendFails, ConnectionBreaks, Fail,
         Exit, Hang, Resume, RingChange, RebaseLists, RebaseCopies, RebaseRemoves, RebaseFails

\* Where a rebase copies to.
LEMMA CopyTyped ==
  ASSUME TypeOK, NEW n \in Nodes, toCopy[n] # {}
  PROVE  /\ rebaseKey[n] \in ReplicaKeys /\ rebaseTo[n] \in Addrs
         /\ NodeAt[rebaseTo[n]] \in Nodes
<1>1. rebaseKey[n] \in ReplicaKeys /\ rebaseTo[n] \in Addrs
  BY DEF TypeOK
<1> QED BY <1>1, Constants

LEMMA OtherTypesStep ==
  ASSUME TypeOK, Loops, Next
  PROVE  OtherTypes'
<1> USE TypesSplit
<1>1. ASSUME NEW u \in Uploads, Upload(u) PROVE OtherTypes'
  BY <1>1, PairOfUpload, Constants DEF Upload, Record, OtherTypes, bounds
<1>2. ASSUME NEW n \in Nodes, NEW p \in Pairs, TakePair(n, p) PROVE OtherTypes'
  BY <1>2 DEF TakePair, OtherTypes, bounds
<1>3. ASSUME NEW n \in Nodes, NextKey(n) PROVE OtherTypes'
  BY <1>3 DEF NextKey, OtherTypes, bounds, uploaded
<1>4. ASSUME NEW n \in Nodes, pc[n] # "idle",
             outcome' = [outcome EXCEPT ![pair[n]] = outcome'[pair[n]]],
             outcome'[pair[n]] \in {"done", "failed"},
             UNCHANGED <<state, dest, received, sent, changed, rebases>>,
             rows' \in [Nodes -> [Hashes -> ReplicaKeys \cup {None}]], faults' \in 0 .. MaxFaults
      PROVE  OtherTypes'
  BY <1>4 DEF OtherTypes
<1>5. ASSUME NEW n \in Nodes, Done(n) PROVE OtherTypes'
  BY <1>5, KeysAtWork DEF Done, OtherTypes, bounds
<1>6. ASSUME NEW n \in Nodes, NoDestination(n) \/ SendFails(n) PROVE OtherTypes'
  BY <1>6, KeysAtWork DEF NoDestination, SendFails, Fail, OtherTypes
<1>7. ASSUME NEW n \in Nodes, Sending(n)
      PROVE  /\ Content(n) \in Hashes /\ Target(n) \in Nodes /\ pair[n] \in Pairs
             /\ level[n] \in 1 .. Factor /\ ReplicaKey(n, level[n]) \in ReplicaKeys
  <2>1. to[n] \in Addrs /\ level[n] \in 1 .. Factor /\ pc[n] # "idle"
    BY <1>7 DEF Sending, LoopTypes
  <2> QED BY <2>1, KeysAtWork, Constants DEF Content, Target
<1>8. ASSUME NEW n \in Nodes, ConnectionBreaks(n) PROVE OtherTypes'
  <2>1. rows' \in [Nodes -> [Hashes -> ReplicaKeys \cup {None}]]
    <3>1. \/ rows' = [rows EXCEPT ![Target(n)][Content(n)] = ReplicaKey(n, level[n])]
          \/ rows' = rows
      BY <1>8 DEF ConnectionBreaks, Record
    <3>2. Sending(n) /\ rows \in [Nodes -> [Hashes -> ReplicaKeys \cup {None}]]
      BY <1>8 DEF ConnectionBreaks, OtherTypes
    <3> QED BY <1>7, <3>1, <3>2
  <2>2. faults' \in 0 .. MaxFaults
    BY <1>8, Constants DEF ConnectionBreaks, Fault, OtherTypes
  <2> QED BY <1>7, <1>8, <2>1, <2>2 DEF ConnectionBreaks, Fail, OtherTypes
<1>9. ASSUME NEW n \in Nodes, SendFile(n) PROVE OtherTypes'
  <2>1. rows' \in [Nodes -> [Hashes -> ReplicaKeys \cup {None}]]
    BY <1>7, <1>9 DEF SendFile, Record, OtherTypes
  <2>2. sent' \in [Pairs -> SUBSET (1 .. Factor)]
    BY <1>7, <1>9 DEF SendFile, Sent, OtherTypes
  <2> QED BY <1>9, <2>1, <2>2 DEF SendFile, OtherTypes, bounds
<1>10. ASSUME NEW n \in Nodes, Exit(n) PROVE OtherTypes'
  BY <1>10, Constants DEF Exit, Fault, OtherTypes
<1>11. ASSUME NEW n \in Nodes, Hang(n) \/ Resume(n) PROVE OtherTypes'
  BY <1>11, Constants DEF Hang, Resume, Fault, OtherTypes, uploaded, bounds
<1>12. ASSUME NEW c \in RingChanges, RingChange(c[1], c[2], c[3]) PROVE OtherTypes'
  <2>1. c[1] \in Nodes /\ c[2] \in ReplicaKeys /\ c[3] \in Addrs \cup {None}
    BY Constants
  <2> QED BY <1>12, <2>1 DEF RingChange, OtherTypes, uploaded
<1>13. ASSUME NEW n \in Nodes, NEW h \in Hashes, RebaseCopies(n, h) PROVE OtherTypes'
  <2>1. /\ rebaseKey[n] \in ReplicaKeys /\ NodeAt[rebaseTo[n]] \in Nodes
        /\ rows' = [rows EXCEPT ![NodeAt[rebaseTo[n]]][h] = rebaseKey[n]]
    BY <1>13, CopyTyped DEF RebaseCopies, Record
  <2>2. rows' \in [Nodes -> [Hashes -> ReplicaKeys \cup {None}]]
    BY <2>1 DEF OtherTypes
  <2> QED BY <1>13, <2>2 DEF RebaseCopies, OtherTypes, uploaded, bounds
<1>14. ASSUME NEW n \in Nodes, RebaseRemoves(n) PROVE OtherTypes'
  <2>1. rows' \in [Nodes -> [Hashes -> ReplicaKeys \cup {None}]]
    BY <1>14 DEF RebaseRemoves, OtherTypes
  <2> QED BY <1>14, <2>1 DEF RebaseRemoves, OtherTypes, uploaded, bounds
<1>15. ASSUME NEW n \in Nodes, NEW key \in ReplicaKeys, RebaseLists(n, key) PROVE OtherTypes'
  BY <1>15, Constants DEF RebaseLists, OtherTypes, uploaded
<1>16. ASSUME NEW n \in Nodes, RebaseFails(n) PROVE OtherTypes'
  BY <1>16 DEF RebaseFails, OtherTypes, uploaded, bounds
<1> QED
  BY <1>1, <1>2, <1>3, <1>5, <1>6, <1>8, <1>9, <1>10, <1>11, <1>12, <1>13, <1>14,
     <1>15, <1>16 DEF Next, HandleReplication

\* What a step may add to the exceptions.
LEMMA LateTyped ==
  ASSUME TypeOK, NEW n \in Nodes, NEW h \in Hashes, NEW key \in ReplicaKeys, Record(n, key, h)
  PROVE  late' \subseteq ReplicaKeys \X Hashes
BY DEF TypeOK, Record

LEMMA RebaseTypesStep ==
  ASSUME TypeOK, Loops, Next
  PROVE  RebaseTypes'
<1> USE TypesSplit
<1>1. ASSUME NEW n \in Nodes, NEW h \in Hashes, NEW key \in ReplicaKeys, Record(n, key, h),
             UNCHANGED rebase
      PROVE  RebaseTypes'
  BY <1>1, LateTyped DEF RebaseTypes, rebase
<1>2. ASSUME NEW n \in Nodes, RebaseEnded(n), late' = late PROVE RebaseTypes'
  BY <1>2 DEF RebaseEnded, RebaseTypes
<1>3. ASSUME NEW u \in Uploads, Upload(u) PROVE RebaseTypes'
  BY <1>1, <1>3, PairOfUpload DEF Upload
<1>4. ASSUME NEW n \in Nodes, Sending(n)
      PROVE  Content(n) \in Hashes /\ Target(n) \in Nodes /\ ReplicaKey(n, level[n]) \in ReplicaKeys
  <2>1. to[n] \in Addrs /\ level[n] \in 1 .. Factor /\ pc[n] # "idle"
    BY <1>4 DEF Sending, LoopTypes
  <2> QED BY <2>1, KeysAtWork, Constants DEF Content, Target
<1>5. ASSUME NEW n \in Nodes, SendFile(n) PROVE RebaseTypes'
  BY <1>1, <1>4, <1>5 DEF SendFile
<1>6. ASSUME UNCHANGED <<rebase, late>> PROVE RebaseTypes'
  BY <1>6 DEF RebaseTypes, rebase
<1>7. ASSUME NEW n \in Nodes, ConnectionBreaks(n) PROVE RebaseTypes'
  BY <1>1, <1>4, <1>6, <1>7 DEF ConnectionBreaks, Fail, rebase
<1>8. ASSUME NEW n \in Nodes, NEW key \in ReplicaKeys, RebaseLists(n, key) PROVE RebaseTypes'
  <2>1. dest[n][key] \in Addrs
    BY <1>8 DEF RebaseLists, OtherTypes
  <2> QED BY <1>8, <2>1, Constants DEF RebaseLists, RebaseTypes
<1>9. ASSUME NEW n \in Nodes, NEW h \in Hashes, RebaseCopies(n, h) PROVE RebaseTypes'
  <2>1. late' \subseteq ReplicaKeys \X Hashes
    BY <1>9, CopyTyped, LateTyped DEF RebaseCopies
  <2> QED BY <1>9, <2>1 DEF RebaseCopies, RebaseTypes
<1> QED
  BY <1>2, <1>3, <1>5, <1>6, <1>7, <1>8, <1>9
     DEF Next, HandleReplication, TakePair, NextKey, Done, NoDestination, SendFails, Fail, Exit,
         Hang, Resume, RingChange, RebaseRemoves, RebaseFails

LEMMA LoopsStep ==
  ASSUME TypeOK, Loops, Next
  PROVE  Loops'
<1> USE DEF TypeOK, Loops
<1>1. ASSUME NEW u \in Uploads, Upload(u) PROVE Loops'
  <2>1. /\ u \notin received /\ received' = received \cup {u} /\ UNCHANGED <<pc, pair>>
        /\ outcome' = IF u.replicate THEN [outcome EXCEPT ![PairOf(u)] = "waiting"] ELSE outcome
    BY <1>1 DEF Upload, loop
  <2>2. ASSUME u.replicate PROVE outcome[PairOf(u)] = "none"
    <3>1. ASSUME NEW v \in received, v.replicate, PairOf(u) = PairOf(v) PROVE u = v
      <4>1. /\ u \in [node : Nodes, key : Keys, hash : Hashes, replicate : BOOLEAN]
            /\ v \in [node : Nodes, key : Keys, hash : Hashes, replicate : BOOLEAN]
        BY Constants
      <4>2. u.node = v.node /\ u.hash = v.hash /\ u.key = v.key
        BY <3>1 DEF PairOf
      <4>3. u.replicate = v.replicate
        BY <2>2, <3>1, <4>1
      <4>4. /\ u = [node |-> u.node, key |-> u.key, hash |-> u.hash, replicate |-> u.replicate]
            /\ v = [node |-> v.node, key |-> v.key, hash |-> v.hash, replicate |-> v.replicate]
        BY <4>1
      <4> QED BY <4>2, <4>3, <4>4
    <3>2. PairOf(u) \in Pairs
      BY PairOfUpload
    <3>3. outcome[PairOf(u)] # "none" => \E v \in received : v.replicate /\ PairOf(u) = PairOf(v)
      BY <3>2
    <3> QED BY <2>1, <3>1, <3>3
  <2>3. \A n \in Nodes : pc[n] # "idle" => outcome'[pair[n]] = "running"
    BY <2>1, <2>2, PairOfUpload
  <2>4. \A p \in Pairs : outcome'[p] # "none" => \E v \in received' : v.replicate /\ p = PairOf(v)
    BY <2>1, PairOfUpload
  <2> QED BY <2>1, <2>3, <2>4
<1>2. ASSUME NEW n \in Nodes, NEW p \in Pairs, TakePair(n, p) PROVE Loops'
  BY <1>2 DEF TakePair
<1>3. ASSUME NEW n \in Nodes, NextKey(n) PROVE Loops'
  <2>1. /\ pc[n] = "next" /\ UNCHANGED <<outcome, received, pair>>
        /\ \A m \in Nodes \ {n} : pc'[m] = pc[m]
    BY <1>3 DEF NextKey, uploaded
  <2> QED BY <2>1
<1>4. ASSUME NEW n \in Nodes, Ended(n), received' = received,
             \A p \in Pairs : outcome'[p] = outcome[p] \/ (outcome[p] # "none" /\ p.node = n)
      PROVE  Loops'
  <2>1. /\ pc'[n] = "idle"
        /\ \A m \in Nodes \ {n} : pc'[m] = pc[m] /\ pair'[m] = pair[m]
    BY <1>4 DEF Ended
  <2>2. ASSUME NEW m \in Nodes, pc'[m] # "idle"
        PROVE  outcome'[pair'[m]] = "running" /\ pair'[m].node = m
    <3>1. m # n /\ pc[m] # "idle" /\ pair'[m] = pair[m]
      BY <2>1, <2>2
    <3>2. pair[m] \in Pairs /\ pair[m].node = m /\ outcome[pair[m]] = "running"
      BY <3>1
    <3> QED BY <1>4, <3>1, <3>2
  <2>3. \A p \in Pairs : outcome'[p] # "none" => outcome[p] # "none"
    BY <1>4
  <2> QED BY <1>4, <2>2, <2>3
<1>5. ASSUME NEW n \in Nodes, Done(n) \/ NoDestination(n) \/ SendFails(n) \/ ConnectionBreaks(n)
      PROVE  Loops'
  <2>1. pc[n] # "idle" /\ Ended(n) /\ received' = received
    BY <1>5 DEF Done, NoDestination, SendFails, ConnectionBreaks, Fail, Sending
  <2>2. \A p \in Pairs \ {pair[n]} : outcome'[p] = outcome[p]
    BY <1>5 DEF Done, NoDestination, SendFails, ConnectionBreaks, Fail
  <2>3. outcome[pair[n]] # "none" /\ pair[n].node = n
    BY <2>1
  <2>4. \A p \in Pairs : outcome'[p] = outcome[p] \/ (outcome[p] # "none" /\ p.node = n)
    BY <2>2, <2>3
  <2> HIDE DEF TypeOK, Loops
  <2> QED BY <1>4, <2>1, <2>4
<1>6. ASSUME NEW n \in Nodes, SendFile(n) PROVE Loops'
  BY <1>6 DEF SendFile, Sent, Sending
<1>7. ASSUME NEW n \in Nodes, Exit(n) PROVE Loops'
  <2>1. Ended(n) /\ received' = received
    BY <1>7 DEF Exit
  <2> HIDE DEF TypeOK, Loops
  <2>2. \A p \in Pairs : outcome'[p] = outcome[p] \/ (outcome[p] # "none" /\ p.node = n)
    <3>1. \A p \in Pairs :
            outcome'[p] = IF p.node = n /\ outcome[p] \in {"waiting", "running"} THEN "lost" ELSE outcome[p]
      BY <1>7 DEF Exit
    <3> QED BY <3>1
  <2> QED BY <1>4, <2>1, <2>2
<1>8. ASSUME UNCHANGED <<outcome, received, pc, pair>> PROVE Loops'
  BY <1>8
<1> QED
  BY <1>1, <1>2, <1>3, <1>5, <1>6, <1>7, <1>8
     DEF Next, HandleReplication, Hang, Resume, RingChange, RebaseLists, RebaseCopies, RebaseRemoves, RebaseFails, loop, uploaded

LEMMA TypedStep ==
  ASSUME Typed, [Next]_vars
  PROVE  Typed'
<1>1. ASSUME UNCHANGED vars PROVE Typed'
  BY <1>1 DEF Typed, TypeOK, Loops, vars, uploaded, loop, rebase, bounds
<1>2. ASSUME Next PROVE Typed'
  <2>1. LoopTypes' /\ OtherTypes' /\ RebaseTypes' /\ Loops'
    BY <1>2, LoopTypesStep, OtherTypesStep, RebaseTypesStep, LoopsStep DEF Typed
  <2>2. LoopTypes' /\ OtherTypes' /\ RebaseTypes' => TypeOK'
    BY DEF TypeOK, LoopTypes, OtherTypes, RebaseTypes
  <2> QED BY <2>1, <2>2 DEF Typed
<1> QED BY <1>1, <1>2

LEMMA TypedAlways == Spec => []Typed
BY TypedInit, TypedStep, PTL DEF Spec

\* Types, and what stands in the locals of a loop, for any number of nodes,
\* uploads and faults.
THEOREM TypeOKHolds == Spec => []TypeOK
<1>1. Typed => TypeOK
  BY DEF Typed
<1> QED BY <1>1, TypedAlways, PTL

-----------------------------------------------------------------------------
(* What happens to the rows *)

Uploaded(u) ==
  /\ rows[u.node][u.hash] = None
  /\ rows' = [rows EXCEPT ![u.node][u.hash] = <<u.key, 0>>]

Copied(n) ==
  /\ Sending(n)
  /\ rows[Target(n)][Content(n)] = None
  /\ rows' = [rows EXCEPT ![Target(n)][Content(n)] = ReplicaKey(n, level[n])]

Moved(n, h) ==
  /\ h \in toCopy[n]
  /\ rows[NodeAt[rebaseTo[n]]][h] = None
  /\ rows' = [rows EXCEPT ![NodeAt[rebaseTo[n]]][h] = rebaseKey[n]]

Removed(n) ==
  /\ rebaseKey[n] # None /\ toCopy[n] = {}
  /\ rows' = [rows EXCEPT ![n] =
                [h \in Hashes |-> IF rows[n][h] = rebaseKey[n] THEN None ELSE rows[n][h]]]

LEMMA RowsStep ==
  ASSUME Next
  PROVE  \/ rows' = rows
         \/ /\ UNCHANGED <<dest, changed>>
            /\ \/ \E u \in Uploads : Uploaded(u)
               \/ \E n \in Nodes : Copied(n)
               \/ \E n \in Nodes, h \in Hashes : Moved(n, h)
               \/ \E n \in Nodes : Removed(n)
<1> DEFINE P == \/ rows' = rows
                \/ /\ UNCHANGED <<dest, changed>>
                   /\ \/ \E u \in Uploads : Uploaded(u)
                      \/ \E n \in Nodes : Copied(n)
                      \/ \E n \in Nodes, h \in Hashes : Moved(n, h)
                      \/ \E n \in Nodes : Removed(n)
<1>1. ASSUME NEW u \in Uploads, Upload(u) PROVE P
  <2>1. Uploaded(u) /\ UNCHANGED <<dest, changed>>
    BY <1>1 DEF Upload, Uploaded, Record, Accepts, bounds
  <2> QED BY <2>1
<1>2. ASSUME NEW n \in Nodes, SendFile(n) PROVE P
  <2>1. Copied(n) /\ UNCHANGED <<dest, changed>>
    BY <1>2 DEF SendFile, Copied, Record, Accepts, bounds
  <2> QED BY <2>1
<1>3. ASSUME NEW n \in Nodes, ConnectionBreaks(n) PROVE P
  <2>1. rows' = rows \/ (Copied(n) /\ UNCHANGED <<dest, changed>>)
    BY <1>3 DEF ConnectionBreaks, Fail, Copied, Record, Accepts
  <2> QED BY <2>1
<1>4. ASSUME NEW n \in Nodes, NEW h \in Hashes, RebaseCopies(n, h) PROVE P
  <2>1. Moved(n, h) /\ UNCHANGED <<dest, changed>>
    BY <1>4 DEF RebaseCopies, Moved, Record, Accepts, bounds
  <2> QED BY <2>1
<1>5. ASSUME NEW n \in Nodes, RebaseRemoves(n) PROVE P
  <2>1. Removed(n) /\ UNCHANGED <<dest, changed>>
    BY <1>5 DEF RebaseRemoves, Removed, bounds
  <2> QED BY <2>1
<1>6. ASSUME rows' = rows PROVE P
  BY <1>6
<1> HIDE DEF P
<1>7. P
  BY <1>1, <1>2, <1>3, <1>4, <1>5, <1>6
     DEF Next, HandleReplication, TakePair, NextKey, Done, NoDestination, SendFails, Exit, Hang,
         Resume, RingChange, RebaseLists, RebaseFails
<1> QED BY <1>7 DEF P

LEMMA SendingFacts ==
  ASSUME Typed, NEW n \in Nodes, Sending(n)
  PROVE  /\ Content(n) \in Hashes /\ Target(n) \in Nodes
         /\ pair[n] \in Pairs /\ outcome[pair[n]] = "running" /\ pair[n].node = n
         /\ level[n] \in 1 .. Factor /\ to[n] \in Addrs
         /\ ReplicaKey(n, level[n]) = <<pair[n].key[1], level[n]>>
         /\ ReplicaKey(n, level[n]) \in ReplicaKeys
<1>1. to[n] \in Addrs /\ level[n] \in 1 .. Factor /\ pc[n] # "idle"
  BY DEF Typed, TypeOK, Sending
<1> QED BY <1>1, KeysAtWork, Constants DEF Content, Target, Typed, Loops

\* A row that is new at m for the content h, and every other row.
LEMMA RowAdded ==
  ASSUME TypeOK, NEW m \in Nodes, NEW h \in Hashes, NEW k,
         rows' = [rows EXCEPT ![m][h] = k]
  PROVE  /\ rows'[m][h] = k
         /\ \A n \in Nodes, g \in Hashes : n # m \/ g # h => rows'[n][g] = rows[n][g]
BY DEF TypeOK

\* A removal leaves every other row as it is.
LEMMA RowsRemoved ==
  ASSUME TypeOK, NEW n \in Nodes, Removed(n)
  PROVE  /\ \A m \in Nodes, h \in Hashes : rows'[m][h] = rows[m][h] \/ rows'[m][h] = None
         /\ \A m \in Nodes, h \in Hashes :
              m # n \/ rows[m][h] # rebaseKey[n] => rows'[m][h] = rows[m][h]
BY DEF TypeOK, Removed

-----------------------------------------------------------------------------
(* No chains *)

Levels ==
  /\ \A n \in Nodes, h \in Hashes : rows[n][h] # None => rows[n][h][2] <= Factor
  /\ \A n \in Nodes : rebaseKey[n] # None => rebaseKey[n][2] <= Factor

\* The key of a rebase is that of a row.
LEMMA RebaseKeyStep ==
  ASSUME TypeOK, Next, NEW n \in Nodes
  PROVE  \/ rebaseKey'[n] = rebaseKey[n] \/ rebaseKey'[n] = None
         \/ \E h \in Hashes : rows[n][h] = rebaseKey'[n]
<1> DEFINE P == \/ rebaseKey'[n] = rebaseKey[n] \/ rebaseKey'[n] = None
                \/ \E h \in Hashes : rows[n][h] = rebaseKey'[n]
<1>1. ASSUME NEW m \in Nodes, RebaseEnded(m) PROVE P
  BY <1>1 DEF RebaseEnded, TypeOK
<1>2. ASSUME NEW m \in Nodes, NEW key \in ReplicaKeys, RebaseLists(m, key) PROVE P
  BY <1>2 DEF RebaseLists, TypeOK
<1>3. ASSUME rebaseKey' = rebaseKey PROVE P
  BY <1>3
<1> HIDE DEF P
<1>4. P
  BY <1>1, <1>2, <1>3
     DEF Next, HandleReplication, TakePair, NextKey, Upload, Done, NoDestination, SendFails, SendFile,
         ConnectionBreaks, Fail, Exit, Hang, Resume, RingChange, RebaseCopies, RebaseRemoves,
         RebaseFails, rebase
<1> QED BY <1>4 DEF P

LEMMA LevelsStep ==
  ASSUME Typed, Levels, Next
  PROVE  Levels'
<1> DEFINE L == \A n \in Nodes, h \in Hashes : rows'[n][h] # None => rows'[n][h][2] <= Factor
<1>1. TypeOK
  BY DEF Typed
<1>2. ASSUME NEW m \in Nodes, NEW h \in Hashes, NEW key, rows' = [rows EXCEPT ![m][h] = key],
             key[2] <= Factor
      PROVE  L
  <2>1. /\ rows'[m][h] = key
        /\ \A n \in Nodes, g \in Hashes : n # m \/ g # h => rows'[n][g] = rows[n][g]
    BY <1>1, <1>2 DEF TypeOK
  <2>2. ASSUME NEW n \in Nodes, NEW g \in Hashes, rows'[n][g] # None PROVE rows'[n][g][2] <= Factor
    <3>1. CASE n = m /\ g = h
      BY <1>2, <2>1, <3>1
    <3>2. CASE n # m \/ g # h
      BY <2>1, <2>2, <3>2 DEF Levels
    <3> QED BY <3>1, <3>2
  <2> QED BY <2>2
<1>3. ASSUME NEW u \in Uploads, Uploaded(u) PROVE L
  <2>1. 0 <= Factor /\ u.node \in Nodes /\ u.hash \in Hashes
    BY PairOfUpload, Constants
  <2>2. <<u.key, 0>>[2] <= Factor
    BY <2>1
  <2> HIDE DEF L
  <2> QED BY <1>2, <1>3, <2>1, <2>2 DEF Uploaded
<1>4. ASSUME NEW n \in Nodes, Copied(n) PROVE L
  <2>1. ReplicaKey(n, level[n])[2] <= Factor
    BY <1>4, SendingFacts DEF Copied
  <2> QED BY <1>2, <1>4, <2>1, SendingFacts DEF Copied
<1>5. ASSUME NEW n \in Nodes, NEW h \in Hashes, Moved(n, h) PROVE L
  <2>1. rebaseKey[n] \in ReplicaKeys /\ NodeAt[rebaseTo[n]] \in Nodes
    BY <1>1, <1>5, CopyTyped DEF Moved
  <2>2. rebaseKey[n][2] <= Factor
    BY <2>1, Constants DEF Levels
  <2> QED BY <1>2, <1>5, <2>1, <2>2 DEF Moved
<1>6. ASSUME NEW n \in Nodes, Removed(n) PROVE L
  BY <1>1, <1>6, RowsRemoved DEF Levels
<1>7. L
  <2>1. rows' = rows => L
    BY DEF Levels
  <2> HIDE DEF L
  <2> QED BY <1>3, <1>4, <1>5, <1>6, <2>1, RowsStep
<1>8. \A n \in Nodes : rebaseKey'[n] # None => rebaseKey'[n][2] <= Factor
  BY <1>1, RebaseKeyStep DEF Levels
<1> QED BY <1>7, <1>8 DEF Levels

\* A copy is never replicated in turn, for any factor, number of nodes and way
\* in which replica keys fall on them.
THEOREM NoChainsHolds == Spec => []NoChains
<1>1. Init => Levels
  BY DEF Init, Levels
<1>2. Typed /\ Levels /\ [Next]_vars => Levels'
  BY LevelsStep DEF Levels, vars, rebase
<1>3. Typed /\ Levels => NoChains
  BY DEF Typed, Loops, Levels, NoChains
<1> QED BY <1>1, <1>2, <1>3, TypedAlways, PTL DEF Spec

-----------------------------------------------------------------------------
(* Replicas lie where their keys lead *)

\* Rings differ only in what has changed, and a loop sends to where its replica
\* key leads.
Routed ==
  /\ \A m \in Nodes, k \in ReplicaKeys : k \notin changed => dest[m][k] = FirstDest[k]
  /\ \A n \in Nodes :
       pc[n] = "send" =>
         LET k == ReplicaKey(n, level[n]) IN k \notin changed => to[n] = dest[n][k]

LEMMA RoutedStep ==
  ASSUME Typed, Routed, Next
  PROVE  Routed'
<1> USE DEF Typed
<1>1. ASSUME NEW c \in RingChanges, RingChange(c[1], c[2], c[3]) PROVE Routed'
  <2>1. c[1] \in Nodes /\ c[2] \in ReplicaKeys /\ changed' = changed \cup {c[2]}
    BY <1>1, Constants DEF RingChange
  <2>2. \A m \in Nodes, k \in ReplicaKeys : k # c[2] => dest'[m][k] = dest[m][k]
    BY <1>1, <2>1 DEF RingChange, TypeOK
  <2>3. UNCHANGED <<pc, to, level, pair>>
    BY <1>1 DEF RingChange, loop
  <2>4. ASSUME NEW n \in Nodes, pc'[n] = "send", ReplicaKey(n, level[n])' \notin changed'
        PROVE  to'[n] = dest'[n][ReplicaKey(n, level[n])']
    <3>1. ReplicaKey(n, level[n])' = ReplicaKey(n, level[n])
      BY <2>3 DEF ReplicaKey
    <3>2. ReplicaKey(n, level[n]) \in ReplicaKeys /\ pc[n] = "send"
      <4>1. pc[n] # "idle" /\ level[n] \in 0 .. Factor + 1 /\ pc[n] = "send"
        BY <2>3, <2>4, Constants DEF TypeOK
      <4> QED BY <4>1, KeysAtWork
    <3> QED BY <2>1, <2>2, <2>3, <2>4, <3>1, <3>2 DEF Routed
  <2> QED BY <2>1, <2>2, <2>4 DEF Routed
<1>2. ASSUME NEW n \in Nodes, UNCHANGED <<dest, changed>>,
             pc'[n] = "send" =>
               (ReplicaKey(n, level[n])' \notin changed => to'[n] = dest[n][ReplicaKey(n, level[n])']),
             \A m \in Nodes \ {n} :
               pc'[m] = pc[m] /\ pair'[m] = pair[m] /\ level'[m] = level[m] /\ to'[m] = to[m]
      PROVE  Routed'
  <2>1. ASSUME NEW m \in Nodes, pc'[m] = "send", ReplicaKey(m, level[m])' \notin changed
        PROVE  to'[m] = dest[m][ReplicaKey(m, level[m])']
    <3>1. m # n => ReplicaKey(m, level[m])' = ReplicaKey(m, level[m])
      BY <1>2 DEF ReplicaKey
    <3> QED BY <1>2, <2>1, <3>1 DEF Routed
  <2> QED BY <1>2, <2>1 DEF Routed
<1>3. ASSUME NEW n \in Nodes, NEW p \in Pairs, TakePair(n, p) PROVE Routed'
  BY <1>2, <1>3 DEF TakePair, bounds, TypeOK
<1>4. ASSUME NEW n \in Nodes, NextKey(n) PROVE Routed'
  <2>1. /\ level'[n] = level[n] + 1 /\ pair' = pair /\ UNCHANGED <<dest, changed>>
        /\ pc'[n] = "send" => to'[n] = dest[n][ReplicaKey(n, level[n] + 1)]
        /\ \A m \in Nodes \ {n} : pc'[m] = pc[m] /\ level'[m] = level[m] /\ to'[m] = to[m]
    BY <1>4 DEF NextKey, bounds, TypeOK
  <2>2. ReplicaKey(n, level[n])' = ReplicaKey(n, level[n] + 1)
    BY <2>1 DEF ReplicaKey
  <2> QED BY <1>2, <2>1, <2>2
<1>5. ASSUME NEW n \in Nodes, Ended(n), UNCHANGED <<dest, changed>> PROVE Routed'
  BY <1>2, <1>5, LoopEnds
<1>6. ASSUME NEW n \in Nodes, SendFile(n) PROVE Routed'
  BY <1>2, <1>6 DEF SendFile, Sent, bounds, TypeOK
<1>7. ASSUME UNCHANGED <<dest, changed, loop>> PROVE Routed'
  BY <1>7 DEF Routed, loop, ReplicaKey
<1> QED
  BY <1>1, <1>3, <1>4, <1>5, <1>6, <1>7
     DEF Next, HandleReplication, Upload, Done, NoDestination, SendFails, ConnectionBreaks, Fail,
         Exit, Hang, Resume, RebaseLists, RebaseCopies, RebaseRemoves, RebaseFails, bounds

LEMMA RoutedAlways == Spec => []Routed
<1>1. Init => Routed
  BY DEF Init, Routed
<1>2. Typed /\ Routed /\ [Next]_vars => Routed'
  <2>1. ASSUME Routed, UNCHANGED vars PROVE Routed'
    BY <2>1 DEF Routed, vars, loop, bounds, ReplicaKey
  <2> QED BY <2>1, RoutedStep
<1> QED BY <1>1, <1>2, TypedAlways, PTL DEF Spec

\* A rebase copies to where its key leads.
Directed ==
  \A n \in Nodes :
    rebaseKey[n] # None /\ rebaseKey[n] \notin changed => rebaseTo[n] = dest[n][rebaseKey[n]]

LEMMA DirectedStep ==
  ASSUME Typed, Directed, Next
  PROVE  Directed'
<1>1. TypeOK
  BY DEF Typed
<1>2. ASSUME NEW c \in RingChanges, RingChange(c[1], c[2], c[3]) PROVE Directed'
  <2>1. c[1] \in Nodes /\ c[2] \in ReplicaKeys /\ changed' = changed \cup {c[2]}
    BY <1>2, Constants DEF RingChange
  <2>2. \A n \in Nodes : \A k : k # c[2] => dest'[n][k] = dest[n][k]
    BY <1>1, <1>2, <2>1 DEF RingChange, TypeOK
  <2>3. UNCHANGED <<rebaseKey, rebaseTo>>
    BY <1>2 DEF RingChange, rebase
  <2> QED BY <2>1, <2>2, <2>3 DEF Directed
<1>3. ASSUME NEW n \in Nodes, RebaseEnded(n), UNCHANGED <<dest, changed>> PROVE Directed'
  BY <1>1, <1>3 DEF RebaseEnded, Directed, TypeOK
<1>4. ASSUME NEW n \in Nodes, NEW key \in ReplicaKeys, RebaseLists(n, key) PROVE Directed'
  BY <1>1, <1>4 DEF RebaseLists, Directed, TypeOK
<1>5. ASSUME UNCHANGED <<dest, changed, rebaseKey, rebaseTo>> PROVE Directed'
  BY <1>5 DEF Directed
<1> QED
  BY <1>2, <1>3, <1>4, <1>5
     DEF Next, HandleReplication, TakePair, NextKey, Upload, Done, NoDestination, SendFails, SendFile,
         ConnectionBreaks, Fail, Exit, Hang, Resume, RebaseCopies, RebaseRemoves, RebaseFails, rebase,
         bounds

LEMMA DirectedAlways == Spec => []Directed
<1>1. Init => Directed
  BY DEF Init, Directed
<1>2. Typed /\ Directed /\ [Next]_vars => Directed'
  <2>1. ASSUME Directed, UNCHANGED vars PROVE Directed'
    BY <2>1 DEF Directed, vars, rebase, bounds
  <2> QED BY <2>1, DirectedStep
<1> QED BY <1>1, <1>2, TypedAlways, PTL DEF Spec

\* A row that leads where it should, as Findable says it.
LeadsTo(k, n) ==
  k[2] > 0 /\ k \notin changed => \A m \in Nodes : dest[m][k] # None /\ NodeAt[dest[m][k]] = n

\* It does when one node's ring leads there, since the rings agree.
LEMMA RingsAgree ==
  ASSUME Routed, NEW n \in Nodes, NEW k \in ReplicaKeys, dest[n][k] # None
  PROVE  LeadsTo(k, NodeAt[dest[n][k]])
BY DEF Routed, LeadsTo

LEMMA FindableStep ==
  ASSUME Typed, Routed, Directed, Findable, Next
  PROVE  Findable'
<1> DEFINE F == \A n \in Nodes, h \in Hashes : rows'[n][h] # None => LeadsTo(rows'[n][h], n)
<1>1. \A n \in Nodes, h \in Hashes : rows[n][h] # None => LeadsTo(rows[n][h], n)
  BY DEF Findable, LeadsTo
<1>2. ASSUME NEW m \in Nodes, NEW h \in Hashes, NEW k,
             rows' = [rows EXCEPT ![m][h] = k], k # None => LeadsTo(k, m)
      PROVE  F
  <2>1. TypeOK
    BY DEF Typed
  <2> QED BY <1>1, <1>2, <2>1, RowAdded
<1>3. ASSUME NEW u \in Uploads, Uploaded(u) PROVE F
  <2>1. LeadsTo(<<u.key, 0>>, u.node)
    BY DEF LeadsTo
  <2> QED BY <1>2, <1>3, <2>1, PairOfUpload DEF Uploaded
<1>4. ASSUME NEW n \in Nodes, Copied(n) PROVE F
  <2> DEFINE k == ReplicaKey(n, level[n])
  <2>1. /\ k \in ReplicaKeys /\ to[n] \in Addrs /\ pc[n] = "send"
        /\ Target(n) \in Nodes /\ Content(n) \in Hashes
    BY <1>4, SendingFacts DEF Copied, Sending
  <2>2. k \notin changed => to[n] = dest[n][k] /\ dest[n][k] # None
    BY <2>1, Constants DEF Routed
  <2>3. LeadsTo(k, Target(n))
    <3>1. CASE k \in changed
      BY <3>1 DEF LeadsTo
    <3>2. CASE k \notin changed
      BY <2>1, <2>2, <3>2, RingsAgree DEF Target
    <3> QED BY <3>1, <3>2
  <2> QED BY <1>2, <1>4, <2>1, <2>3 DEF Copied
<1>5. ASSUME NEW n \in Nodes, NEW h \in Hashes, Moved(n, h) PROVE F
  <2>1. /\ rebaseKey[n] \in ReplicaKeys /\ rebaseTo[n] \in Addrs
        /\ NodeAt[rebaseTo[n]] \in Nodes
    BY <1>5, CopyTyped DEF Moved, Typed
  <2>2. rebaseKey[n] \notin changed =>
          rebaseTo[n] = dest[n][rebaseKey[n]] /\ dest[n][rebaseKey[n]] # None
    BY <2>1, Constants DEF Directed
  <2>3. LeadsTo(rebaseKey[n], NodeAt[rebaseTo[n]])
    <3>1. CASE rebaseKey[n] \in changed
      BY <3>1 DEF LeadsTo
    <3>2. CASE rebaseKey[n] \notin changed
      BY <2>1, <2>2, <3>2, RingsAgree
    <3> QED BY <3>1, <3>2
  <2> QED BY <1>2, <1>5, <2>1, <2>3 DEF Moved
<1>6. ASSUME NEW n \in Nodes, Removed(n) PROVE F
  BY <1>1, <1>6, RowsRemoved DEF Typed
<1>7. ASSUME rows' = rows PROVE F
  BY <1>1, <1>7
<1>8. F
  <2> HIDE DEF F
  <2> QED BY <1>3, <1>4, <1>5, <1>6, <1>7, RowsStep
<1>9. ASSUME UNCHANGED <<dest, changed>> PROVE Findable'
  BY <1>8, <1>9 DEF Findable, LeadsTo
<1>10. ASSUME NEW c \in RingChanges, RingChange(c[1], c[2], c[3]) PROVE Findable'
  <2>1. c[1] \in Nodes /\ c[2] \in ReplicaKeys /\ changed' = changed \cup {c[2]}
    BY <1>10, Constants DEF RingChange
  <2>2. \A m \in Nodes : \A k : k # c[2] => dest'[m][k] = dest[m][k]
    BY <1>10, <2>1 DEF RingChange, Typed, TypeOK
  <2>3. ASSUME NEW n \in Nodes, NEW h \in Hashes, rows'[n][h] # None, rows'[n][h][2] > 0,
               rows'[n][h] \notin changed', NEW m \in Nodes
        PROVE  dest'[m][rows'[n][h]] # None /\ NodeAt[dest'[m][rows'[n][h]]] = n
    <3>1. LeadsTo(rows'[n][h], n)
      BY <1>8, <2>3
    <3> QED BY <2>1, <2>2, <2>3, <3>1 DEF LeadsTo
  <2> QED BY <2>3 DEF Findable
<1> QED
  BY <1>9, <1>10
     DEF Next, HandleReplication, TakePair, NextKey, Upload, Done, NoDestination, SendFails, SendFile,
         ConnectionBreaks, Fail, Exit, Hang, Resume, RebaseLists, RebaseCopies, RebaseRemoves, RebaseFails, bounds

\* A reader that asks the ring for a replica key is led to a node that has it,
\* whichever rows a rebase has moved, while the rings agree on that key.
THEOREM FindableHolds == Spec => []Findable
<1>1. Init => Findable
  BY DEF Init, Findable
<1>2. Typed /\ Routed /\ Directed /\ Findable /\ [Next]_vars => Findable'
  BY FindableStep DEF Findable, vars, bounds
<1> QED BY <1>1, <1>2, TypedAlways, RoutedAlways, DirectedAlways, PTL DEF Spec

-----------------------------------------------------------------------------
(* What was sent stays *)

\* The rebase of n has listed the key and will not copy the content any more.
Doomed(n, key, h) == rebaseKey[n] = key /\ h \notin toCopy[n]

\* A node has the row and will not remove it before it is copied; or it is late.
Safe(key, h) ==
  \/ <<key, h>> \in late
  \/ \E n \in Nodes : rows[n][h] = key /\ ~Doomed(n, key, h)

\* So is what is recorded.
LEMMA RecordedSafe ==
  ASSUME TypeOK, NEW n \in Nodes, NEW h \in Hashes, NEW key, Record(n, key, h), UNCHANGED rebase
  PROVE  Safe(key, h)'
<1>1. rows'[n][h] = key
  <2>1. rows' = [rows EXCEPT ![n][h] = key]
    BY DEF Record
  <2> QED BY <2>1 DEF TypeOK
<1>2. CASE rebaseKey[n] = key
  BY <1>2 DEF Record, Safe
<1>3. CASE rebaseKey[n] # key
  BY <1>1, <1>3 DEF rebase, Safe, Doomed
<1> QED BY <1>2, <1>3

\* Recording elsewhere leaves what is safe as it is, as rows are written only
\* where none is.
LEMMA SafeBesideRecord ==
  ASSUME TypeOK, NEW n \in Nodes, NEW g \in Hashes, NEW l, rows[n][g] = None, Record(n, l, g),
         UNCHANGED rebase, NEW key \in ReplicaKeys, NEW h \in Hashes, Safe(key, h)
  PROVE  Safe(key, h)'
<1>1. CASE <<key, h>> \in late
  BY <1>1 DEF Record, Safe
<1>2. ASSUME NEW m \in Nodes, rows[m][h] = key, ~Doomed(m, key, h) PROVE Safe(key, h)'
  <2>1. m # n \/ h # g
    BY <1>2, Constants
  <2>2. rows'[m][h] = key
    BY <1>2, <2>1, RowAdded DEF Record
  <2> QED BY <1>2, <2>2 DEF rebase, Safe, Doomed
<1> QED BY <1>1, <1>2 DEF Safe

\* A copy that has been made is safe at its receiver.
LEMMA SafeCopied ==
  ASSUME Typed, NEW n \in Nodes, NEW g \in Hashes, RebaseCopies(n, g),
         NEW key \in ReplicaKeys, NEW h \in Hashes, Safe(key, h)
  PROVE  Safe(key, h)'
<1> DEFINE o == NodeAt[rebaseTo[n]]
<1>1. /\ TypeOK /\ o \in Nodes /\ rows[o][g] = None /\ Record(o, rebaseKey[n], g)
      /\ rebaseKey' = rebaseKey /\ toCopy' = [toCopy EXCEPT ![n] = @ \ {g}]
  BY CopyTyped DEF RebaseCopies, Accepts, Typed
<1> HIDE DEF o
<1>2. CASE <<key, h>> \in late
  BY <1>1, <1>2 DEF Record, Safe
<1>3. ASSUME NEW m \in Nodes, rows[m][h] = key, ~Doomed(m, key, h) PROVE Safe(key, h)'
  <2>1. m # o \/ h # g
    BY <1>1, <1>3, Constants
  <2>2. rows'[m][h] = key
    BY <1>1, <1>3, <2>1, RowAdded DEF Record
  <2>3. CASE m # n \/ h # g \/ rebaseKey[m] # key
    <3>1. h \in toCopy[m] /\ (m # n \/ h # g) => h \in toCopy'[m]
      BY <1>1 DEF TypeOK
    <3> QED BY <1>1, <1>3, <2>2, <2>3, <3>1 DEF Safe, Doomed
  <2>4. CASE m = n /\ h = g /\ rebaseKey[m] = key
    <3>1. rows'[o][h] = key /\ o # n
      <4>1. rows' = [rows EXCEPT ![o][g] = rebaseKey[n]]
        BY <1>1 DEF Record
      <4>2. rows'[o][g] = rebaseKey[n]
        BY <1>1, <4>1 DEF TypeOK
      <4> QED BY <2>1, <2>4, <4>2
    <3>2. CASE rebaseKey[o] = key
      BY <1>1, <2>4, <3>2 DEF Record, Safe
    <3>3. CASE rebaseKey[o] # key
      BY <1>1, <3>1, <3>3 DEF Safe, Doomed
    <3> QED BY <3>2, <3>3
  <2> QED BY <2>3, <2>4
<1> QED BY <1>2, <1>3 DEF Safe

\* A removal takes rows that are doomed.
LEMMA SafeRemoved ==
  ASSUME Typed, NEW n \in Nodes, RebaseRemoves(n), NEW key \in ReplicaKeys, NEW h \in Hashes,
         Safe(key, h)
  PROVE  Safe(key, h)'
<1>1. /\ TypeOK /\ Removed(n) /\ RebaseEnded(n) /\ late' = late
  BY DEF RebaseRemoves, Removed, Typed
<1>2. ASSUME NEW m \in Nodes, rows[m][h] = key, ~Doomed(m, key, h) PROVE Safe(key, h)'
  <2>1. m # n \/ rebaseKey[n] # key
    BY <1>1, <1>2 DEF Removed, Doomed
  <2>2. rows'[m][h] = key
    BY <1>1, <1>2, <2>1, RowsRemoved
  <2>3. rebaseKey'[m] = None \/ (rebaseKey'[m] = rebaseKey[m] /\ toCopy'[m] = toCopy[m])
    BY <1>1 DEF RebaseEnded, TypeOK
  <2>4. key # None
    BY Constants
  <2> QED BY <1>2, <2>2, <2>3, <2>4 DEF Safe, Doomed
<1> QED BY <1>1, <1>2 DEF Safe

LEMMA SafeStep ==
  ASSUME Typed, Next, NEW key \in ReplicaKeys, NEW h \in Hashes, Safe(key, h)
  PROVE  Safe(key, h)'
<1>1. TypeOK /\ key # None
  BY Constants DEF Typed
<1>2. ASSUME NEW u \in Uploads, Upload(u) PROVE Safe(key, h)'
  BY <1>1, <1>2, PairOfUpload, SafeBesideRecord DEF Upload, Accepts
<1>3. ASSUME NEW n \in Nodes, SendFile(n) PROVE Safe(key, h)'
  BY <1>1, <1>3, SendingFacts, SafeBesideRecord DEF SendFile, Accepts
<1>4. ASSUME UNCHANGED <<rows, late, rebase>> PROVE Safe(key, h)'
  BY <1>4 DEF Safe, Doomed, rebase
<1>5. ASSUME NEW n \in Nodes, ConnectionBreaks(n) PROVE Safe(key, h)'
  BY <1>1, <1>4, <1>5, SendingFacts, SafeBesideRecord DEF ConnectionBreaks, Fail, Accepts
<1>6. ASSUME NEW n \in Nodes, RebaseEnded(n), UNCHANGED <<rows, late>> PROVE Safe(key, h)'
  <2>1. \A m \in Nodes :
          rebaseKey'[m] = None \/ (rebaseKey'[m] = rebaseKey[m] /\ toCopy'[m] = toCopy[m])
    BY <1>1, <1>6 DEF RebaseEnded, TypeOK
  <2> QED BY <1>1, <1>6, <2>1 DEF Safe, Doomed
<1>7. ASSUME NEW n \in Nodes, NEW l \in ReplicaKeys, RebaseLists(n, l) PROVE Safe(key, h)'
  <2>1. \A m \in Nodes :
          \/ rebaseKey'[m] = rebaseKey[m] /\ toCopy'[m] = toCopy[m]
          \/ rebaseKey'[m] = l /\ toCopy'[m] = {g \in Hashes : rows[m][g] = l}
    BY <1>1, <1>7 DEF RebaseLists, TypeOK
  <2>2. UNCHANGED <<rows, late>>
    BY <1>7 DEF RebaseLists
  <2> QED BY <2>1, <2>2 DEF Safe, Doomed
<1> QED
  BY <1>2, <1>3, <1>4, <1>5, <1>6, <1>7, SafeCopied, SafeRemoved
     DEF Next, HandleReplication, TakePair, NextKey, Done, NoDestination, SendFails, Fail, Exit,
         Hang, Resume, RingChange, RebaseFails

\* The original of a pair is safe, and so is what its loop has sent.
Kept ==
  \A p \in Pairs :
    /\ outcome[p] # "none" => Safe(p.key, p.hash)
    /\ sent[p] # {} => outcome[p] # "none"
    /\ \A i \in sent[p] : Safe(<<p.key[1], i>>, p.hash)

LEMMA KeyTyped ==
  ASSUME TypeOK, Loops, NEW p \in Pairs, outcome[p] # "none"
  PROVE  /\ p.hash \in Hashes /\ p.key = <<p.key[1], 0>>
         /\ \A i \in 0 .. Factor : <<p.key[1], i>> \in ReplicaKeys
<1>1. PICK u \in received : u.replicate /\ p = PairOf(u)
  BY DEF Loops
<1>2. u \in Uploads
  BY DEF TypeOK
<1>3. p.key = <<u.key, 0>> /\ p.hash \in Hashes /\ u.key \in Keys
  BY <1>1, <1>2, PairOfUpload
<1> QED BY <1>3, Constants DEF ReplicaKeys

\* What a step does to the outcomes and to what is sent.
LEMMA OutcomeStep ==
  ASSUME Typed, Next, NEW p \in Pairs
  PROVE  /\ outcome'[p] # "none" => outcome[p] # "none" \/ Safe(p.key, p.hash)'
         /\ outcome[p] # "none" => outcome'[p] # "none"
         /\ \A i \in sent'[p] :
              i \in sent[p] \/ (outcome[p] # "none" /\ Safe(<<p.key[1], i>>, p.hash)')
<1> DEFINE P == /\ outcome'[p] # "none" => outcome[p] # "none" \/ Safe(p.key, p.hash)'
                /\ outcome[p] # "none" => outcome'[p] # "none"
                /\ \A i \in sent'[p] :
                     i \in sent[p] \/ (outcome[p] # "none" /\ Safe(<<p.key[1], i>>, p.hash)')
<1>1. TypeOK /\ Loops
  BY DEF Typed
<1>2. ASSUME NEW u \in Uploads, Upload(u) PROVE P
  <2>1. sent' = sent /\ Record(u.node, <<u.key, 0>>, u.hash) /\ UNCHANGED rebase
    BY <1>2 DEF Upload
  <2>2. Safe(<<u.key, 0>>, u.hash)'
    BY <1>1, <2>1, PairOfUpload, RecordedSafe
  <2>3. outcome' = outcome \/ outcome' = [outcome EXCEPT ![PairOf(u)] = "waiting"]
    BY <1>2 DEF Upload
  <2>4. p # PairOf(u) => outcome'[p] = outcome[p]
    BY <1>1, <2>3 DEF TypeOK
  <2>5. p = PairOf(u) => outcome'[p] = outcome[p] \/ outcome'[p] = "waiting"
    BY <1>1, <2>3 DEF TypeOK
  <2>6. p = PairOf(u) => Safe(p.key, p.hash)'
    BY <2>2, PairOfUpload
  <2> QED BY <2>1, <2>4, <2>5, <2>6
<1>3. ASSUME NEW n \in Nodes, NEW q \in Pairs, TakePair(n, q) PROVE P
  <2>1. sent' = sent /\ outcome[q] = "waiting" /\ outcome' = [outcome EXCEPT ![q] = "running"]
    BY <1>3 DEF TakePair
  <2> QED BY <1>1, <2>1 DEF TypeOK
<1>4. ASSUME NEW n \in Nodes, pc[n] # "idle", sent' = sent,
             NEW o \in {"done", "failed"}, outcome' = [outcome EXCEPT ![pair[n]] = o]
      PROVE  P
  <2>1. outcome[pair[n]] # "none"
    BY <1>1, <1>4 DEF Loops
  <2>2. outcome'[p] = outcome[p] \/ (p = pair[n] /\ outcome'[p] = o)
    BY <1>1, <1>4 DEF TypeOK
  <2> QED BY <1>4, <2>1, <2>2
<1>5. ASSUME NEW n \in Nodes, SendFile(n) PROVE P
  <2>1. /\ outcome' = outcome /\ sent' = [sent EXCEPT ![pair[n]] = @ \cup {level[n]}]
        /\ Record(Target(n), ReplicaKey(n, level[n]), Content(n))
        /\ Sending(n) /\ UNCHANGED rebase
    BY <1>5 DEF SendFile, Sent
  <2>2. ASSUME NEW i, p = pair[n], i = level[n] PROVE Safe(<<p.key[1], i>>, p.hash)'
    <3>1. /\ Target(n) \in Nodes /\ Content(n) \in Hashes
          /\ ReplicaKey(n, level[n]) = <<pair[n].key[1], level[n]>>
      BY <2>1, SendingFacts
    <3>2. \A l, f : l = ReplicaKey(n, level[n]) /\ f = Content(n) => Safe(l, f)'
      BY <1>1, <2>1, <3>1, RecordedSafe
    <3>3. <<p.key[1], i>> = ReplicaKey(n, level[n]) /\ p.hash = Content(n)
      BY <2>2, <3>1 DEF Content
    <3> QED BY <3>2, <3>3
  <2>3. outcome[pair[n]] # "none"
    BY <2>1, SendingFacts
  <2>4. p # pair[n] => sent'[p] = sent[p]
    BY <1>1, <2>1 DEF TypeOK
  <2>5. p = pair[n] => sent'[p] = sent[p] \cup {level[n]}
    BY <1>1, <2>1 DEF TypeOK
  <2>6. \A i \in sent'[p] : i \in sent[p] \/ (p = pair[n] /\ i = level[n])
    BY <2>4, <2>5
  <2> QED BY <2>1, <2>2, <2>3, <2>6
<1>6. ASSUME NEW n \in Nodes, Exit(n) PROVE P
  <2>1. /\ sent' = sent
        /\ outcome'[p] = IF p.node = n /\ outcome[p] \in {"waiting", "running"} THEN "lost" ELSE outcome[p]
    BY <1>6 DEF Exit
  <2> QED BY <2>1
<1>7. ASSUME UNCHANGED <<outcome, sent>> PROVE P
  BY <1>7
<1> HIDE DEF P
<1>8. ASSUME NEW n \in Nodes, Done(n) \/ NoDestination(n) \/ SendFails(n) \/ ConnectionBreaks(n) PROVE P
  <2>1. pc[n] # "idle" /\ sent' = sent
    BY <1>8 DEF Done, NoDestination, SendFails, ConnectionBreaks, Fail, Sending
  <2>2. \/ outcome' = [outcome EXCEPT ![pair[n]] = "done"]
        \/ outcome' = [outcome EXCEPT ![pair[n]] = "failed"]
    BY <1>8 DEF Done, NoDestination, SendFails, ConnectionBreaks, Fail
  <2> QED BY <1>4, <2>1, <2>2
<1>9. P
  BY <1>2, <1>3, <1>5, <1>6, <1>7, <1>8
     DEF Next, HandleReplication, NextKey, Hang, Resume, RingChange, RebaseLists, RebaseCopies, RebaseRemoves, RebaseFails, uploaded
<1> QED BY <1>9 DEF P

LEMMA KeptStep ==
  ASSUME Typed, Kept, Next
  PROVE  Kept'
<1>1. TypeOK /\ Loops
  BY DEF Typed
<1>2. ASSUME NEW p \in Pairs
      PROVE  /\ outcome'[p] # "none" => Safe(p.key, p.hash)'
             /\ sent'[p] # {} => outcome'[p] # "none"
             /\ \A i \in sent'[p] : Safe(<<p.key[1], i>>, p.hash)'
  <2>1. outcome[p] # "none" =>
          /\ Safe(p.key, p.hash)'
          /\ \A i \in sent[p] : Safe(<<p.key[1], i>>, p.hash)'
    <3>1. ASSUME outcome[p] # "none" PROVE Safe(p.key, p.hash)'
      <4>1. p.key \in ReplicaKeys /\ p.hash \in Hashes
        BY DEF Pairs, ReplicaKeys
      <4> QED BY <3>1, <4>1, SafeStep DEF Kept
    <3>2. ASSUME outcome[p] # "none", NEW i \in sent[p] PROVE Safe(<<p.key[1], i>>, p.hash)'
      <4>1. i \in 0 .. Factor
        BY <1>1, Constants DEF TypeOK
      <4>2. <<p.key[1], i>> \in ReplicaKeys /\ p.hash \in Hashes
        BY <1>1, <3>2, <4>1, KeyTyped
      <4> QED BY <3>2, <4>2, SafeStep DEF Kept
    <3> QED BY <3>1, <3>2
  <2>2. sent[p] # {} => outcome[p] # "none"
    BY DEF Kept
  <2> QED BY <2>1, <2>2, OutcomeStep
<1> QED BY <1>2 DEF Kept

LEMMA KeptAlways == Spec => []Kept
<1>1. Init => Kept
  BY DEF Init, Kept
<1>2. Typed /\ Kept /\ [Next]_vars => Kept'
  <2>1. ASSUME Kept, UNCHANGED vars PROVE Kept'
    <3>1. UNCHANGED <<rows, late, rebaseKey, toCopy, outcome, sent>>
      BY <2>1 DEF vars, uploaded, rebase
    <3>2. ASSUME NEW k, NEW h, Safe(k, h) PROVE Safe(k, h)'
      BY <3>1, <3>2 DEF Safe, Doomed
    <3> QED BY <2>1, <3>1, <3>2 DEF Kept
  <2> QED BY <2>1, KeptStep
<1> QED BY <1>1, <1>2, TypedAlways, PTL DEF Spec

\* A copy was left at address a.
Left(p, a) == \E j \in sent[p] : FirstDest[<<p.key[1], j>>] = a

\* Every address a loop has looked up is in usedNodes, and every address there
\* has a copy or is the one the loop sends to.
Visited(n) ==
  /\ \A i \in 1 .. level[n] : FirstDest[<<pair[n].key[1], i>>] \in used[n]
  /\ \A a \in used[n] : Left(pair[n], a) \/ (pc[n] = "send" /\ a = to[n])

Covered ==
  changed = {} =>
    /\ \A n \in Nodes : pc[n] # "idle" => Visited(n)
    /\ \A p \in Pairs :
         outcome[p] = "done" => \A i \in 1 .. Factor : Left(p, FirstDest[<<p.key[1], i>>])

LEMMA SentStep ==
  ASSUME Typed, Next
  PROVE  /\ \A p \in Pairs : sent[p] \subseteq sent'[p]
         /\ changed' = {} => changed = {}
<1>1. ASSUME NEW n \in Nodes, SendFile(n) PROVE \A p \in Pairs : sent[p] \subseteq sent'[p]
  <2>1. sent' = [sent EXCEPT ![pair[n]] = @ \cup {level[n]}]
    BY <1>1 DEF SendFile, Sent
  <2>2. sent \in [Pairs -> SUBSET (1 .. Factor)]
    BY DEF Typed, TypeOK
  <2> QED BY <2>1, <2>2
<1>2. \A p \in Pairs : sent[p] \subseteq sent'[p]
  BY <1>1
     DEF Next, HandleReplication, TakePair, NextKey, Upload, Done, NoDestination, SendFails,
         ConnectionBreaks, Fail, Exit, Hang, Resume, RingChange, RebaseLists, RebaseCopies, RebaseRemoves, RebaseFails, uploaded
<1>3. ASSUME NEW c \in RingChanges, RingChange(c[1], c[2], c[3]) PROVE changed' # {}
  BY <1>3 DEF RingChange
<1>4. changed' = changed \/ changed' # {}
  BY <1>3
     DEF Next, HandleReplication, TakePair, NextKey, Upload, Done, NoDestination, SendFails, SendFile,
         ConnectionBreaks, Fail, Exit, Hang, Resume, RebaseLists, RebaseCopies, RebaseRemoves, RebaseFails, bounds
<1> QED BY <1>2, <1>4

LEMMA CoveredStep ==
  ASSUME Typed, Routed, Covered, Next, changed' = {}
  PROVE  Covered'
<1> DEFINE Rest == \A p \in Pairs :
             outcome'[p] = "done" =>
               outcome[p] = "done" \/ \A i \in 1 .. Factor : Left(p, FirstDest[<<p.key[1], i>>])
           Loop(m) == pc'[m] # "idle" => Visited(m)'
           Same(m) == /\ pc'[m] = pc[m] /\ pair'[m] = pair[m] /\ level'[m] = level[m]
                      /\ used'[m] = used[m] /\ to'[m] = to[m]
<1>1. /\ TypeOK /\ Loops /\ changed = {}
      /\ \A p \in Pairs : sent[p] \subseteq sent'[p]
  BY SentStep DEF Typed
<1>2. /\ \A n \in Nodes : pc[n] # "idle" => Visited(n)
      /\ \A p \in Pairs :
           outcome[p] = "done" => \A i \in 1 .. Factor : Left(p, FirstDest[<<p.key[1], i>>])
  BY <1>1 DEF Covered
<1>3. \A p \in Pairs : \A a : Left(p, a) => Left(p, a)'
  BY <1>1 DEF Left
<1>4. ASSUME NEW m \in Nodes, Same(m) PROVE Loop(m)
  <2>1. SUFFICES ASSUME pc'[m] # "idle" PROVE Visited(m)'
    OBVIOUS
  <2>2. pc[m] # "idle" /\ Visited(m) /\ pair[m] \in Pairs
    BY <1>1, <1>2, <1>4, <2>1 DEF TypeOK
  <2>3. ASSUME NEW a \in used'[m] PROVE Left(pair[m], a)' \/ (pc'[m] = "send" /\ a = to'[m])
    <3>1. Left(pair[m], a) \/ (pc[m] = "send" /\ a = to[m])
      BY <1>4, <2>2, <2>3 DEF Visited
    <3>2. ASSUME NEW j \in sent[pair[m]], FirstDest[<<pair[m].key[1], j>>] = a PROVE Left(pair[m], a)'
      BY <1>1, <1>4, <2>2, <3>2 DEF Left
    <3> QED BY <1>4, <3>1, <3>2 DEF Left
  <2> QED BY <1>4, <2>2, <2>3 DEF Visited
<1>5. ASSUME NEW n \in Nodes, \A m \in Nodes \ {n} : Same(m), Loop(n), Rest PROVE Covered'
  <2> HIDE DEF Same, Loop
  <2>1. \A m \in Nodes : Loop(m)
    BY <1>4, <1>5
  <2>2. ASSUME NEW p \in Pairs, outcome'[p] = "done", NEW i \in 1 .. Factor
        PROVE  Left(p, FirstDest[<<p.key[1], i>>])'
    <3>1. Left(p, FirstDest[<<p.key[1], i>>])
      BY <1>2, <1>5, <2>2
    <3> QED BY <1>3, <3>1
  <2> QED BY <2>1, <2>2 DEF Covered, Loop
<1>6. ASSUME NEW u \in Uploads, Upload(u) PROVE Covered'
  <2>1. (\A m \in Nodes : Same(m)) /\ Rest
    <3>1. UNCHANGED loop /\ (outcome' = outcome \/ outcome' = [outcome EXCEPT ![PairOf(u)] = "waiting"])
      BY <1>6 DEF Upload
    <3>2. outcome' = outcome \/ \A p \in Pairs : outcome'[p] = outcome[p] \/ outcome'[p] = "waiting"
      BY <1>1, <3>1, PairOfUpload DEF TypeOK
    <3> QED BY <3>1, <3>2 DEF loop
  <2>2. u.node \in Nodes
    BY PairOfUpload
  <2> HIDE DEF Same, Loop, Rest
  <2> QED BY <1>4, <1>5, <2>1, <2>2
<1>7. ASSUME NEW n \in Nodes, NEW q \in Pairs, TakePair(n, q) PROVE Covered'
  <2>1. /\ \A m \in Nodes \ {n} : Same(m)
        /\ level'[n] = 0 /\ used'[n] = {}
    BY <1>1, <1>7 DEF TakePair, TypeOK
  <2>2. Rest
    BY <1>1, <1>7 DEF TakePair, TypeOK
  <2>3. Loop(n)
    BY <2>1 DEF Visited
  <2> HIDE DEF Same, Loop, Rest
  <2> QED BY <1>5, <2>1, <2>2, <2>3
<1>8. ASSUME NEW n \in Nodes, NextKey(n) PROVE Covered'
  <2>1. PICK a : /\ a = dest[n][ReplicaKey(n, level[n] + 1)]
                 /\ used' = [used EXCEPT ![n] = @ \cup {a}]
                 /\ to' = [to EXCEPT ![n] = IF a \in used[n] THEN None ELSE a]
                 /\ pc' = [pc EXCEPT ![n] = IF a \in used[n] THEN "next" ELSE "send"]
    BY <1>8 DEF NextKey
  <2>2. /\ pc[n] = "next" /\ level[n] < Factor /\ level' = [level EXCEPT ![n] = @ + 1]
        /\ pair' = pair /\ outcome' = outcome /\ sent' = sent
    BY <1>8 DEF NextKey, uploaded
  <2>3. /\ level[n] \in 0 .. Factor /\ level'[n] = level[n] + 1 /\ used'[n] = used[n] \cup {a}
        /\ a \in used[n] => pc'[n] = "next"
        /\ a \notin used[n] => pc'[n] = "send" /\ to'[n] = a
        /\ \A m \in Nodes \ {n} : Same(m)
    BY <1>1, <2>1, <2>2 DEF TypeOK
  <2>4. a = FirstDest[<<pair[n].key[1], level[n] + 1>>]
    <3>1. level[n] + 1 \in 0 .. Factor + 1
      BY <2>2, <2>3, Constants
    <3>2. ReplicaKey(n, level[n] + 1) = <<pair[n].key[1], level[n] + 1>>
            /\ ReplicaKey(n, level[n] + 1) \in ReplicaKeys
      BY <1>1, <2>2, <3>1, KeysAtWork
    <3> QED BY <1>1, <2>1, <3>2 DEF Routed
  <2>5. Visited(n)
    BY <1>2, <2>2
  <2>6. \A i \in 1 .. level'[n] : FirstDest[<<pair'[n].key[1], i>>] \in used'[n]
    <3>1. \A i \in 1 .. level'[n] : i \in 1 .. level[n] \/ i = level[n] + 1
      BY <2>3
    <3> QED BY <2>2, <2>3, <2>4, <2>5, <3>1 DEF Visited
  <2>7. ASSUME NEW b \in used'[n] PROVE Left(pair[n], b)' \/ (pc'[n] = "send" /\ b = to'[n])
    <3>1. b \in used[n] => Left(pair[n], b)
      BY <2>2, <2>5 DEF Visited
    <3>2. b \in used[n] => Left(pair[n], b)'
      BY <2>2, <3>1 DEF Left
    <3> QED BY <2>3, <2>7, <3>2
  <2>8. Loop(n) /\ Rest
    BY <2>2, <2>6, <2>7 DEF Visited
  <2> HIDE DEF Same, Loop, Rest
  <2> QED BY <1>5, <2>3, <2>8
<1>9. ASSUME NEW n \in Nodes, SendFile(n) PROVE Covered'
  <2>1. /\ Sending(n) /\ UNCHANGED <<outcome, pair, level, used>>
        /\ sent' = [sent EXCEPT ![pair[n]] = @ \cup {level[n]}]
        /\ pc' = [pc EXCEPT ![n] = "next"] /\ to' = [to EXCEPT ![n] = None]
    BY <1>9 DEF SendFile, Sent
  <2>2. pair[n] \in Pairs /\ pc[n] = "send"
    BY <2>1, SendingFacts DEF Sending
  <2>3. level[n] \in sent'[pair[n]] /\ \A m \in Nodes \ {n} : Same(m)
    BY <1>1, <2>1, <2>2 DEF TypeOK
  <2>4. to[n] = FirstDest[<<pair[n].key[1], level[n]>>]
    <3>1. /\ ReplicaKey(n, level[n]) = <<pair[n].key[1], level[n]>>
          /\ ReplicaKey(n, level[n]) \in ReplicaKeys
      BY <2>1, SendingFacts
    <3> QED BY <1>1, <2>2, <3>1 DEF Routed
  <2>5. ASSUME NEW a \in used[n] PROVE Left(pair[n], a)'
    <3>1. Left(pair[n], a) \/ a = to[n]
      BY <1>2, <2>2 DEF Visited
    <3>2. \E j \in sent'[pair[n]] : FirstDest[<<pair[n].key[1], j>>] = a
      BY <1>1, <2>2, <2>3, <2>4, <3>1 DEF Left
    <3> QED BY <2>1, <3>2 DEF Left
  <2>6. Loop(n) /\ Rest
    BY <1>2, <2>1, <2>2, <2>5 DEF Visited
  <2> HIDE DEF Same, Loop, Rest
  <2> QED BY <1>5, <2>3, <2>6
<1>10. ASSUME NEW n \in Nodes, Ended(n), Rest PROVE Covered'
  <2>1. Loop(n) /\ \A m \in Nodes \ {n} : Same(m)
    BY <1>1, <1>10, LoopEnds
  <2> HIDE DEF Same, Loop, Rest
  <2> QED BY <1>5, <1>10, <2>1
<1>11. ASSUME NEW n \in Nodes, Done(n) PROVE Covered'
  <2>1. /\ pc[n] = "next" /\ level[n] = Factor /\ Ended(n)
        /\ outcome' = [outcome EXCEPT ![pair[n]] = "done"]
    BY <1>11 DEF Done
  <2>2. \A i \in 1 .. Factor : Left(pair[n], FirstDest[<<pair[n].key[1], i>>])
    BY <1>2, <2>1 DEF Visited
  <2>3. Rest
    BY <1>1, <2>1, <2>2 DEF TypeOK
  <2> HIDE DEF Same, Loop, Rest
  <2> QED BY <1>10, <2>1, <2>3
<1>12. ASSUME NEW n \in Nodes, NoDestination(n) \/ SendFails(n) \/ ConnectionBreaks(n) PROVE Covered'
  <2>1. outcome' = [outcome EXCEPT ![pair[n]] = "failed"] /\ Ended(n)
    BY <1>12 DEF NoDestination, SendFails, ConnectionBreaks, Fail
  <2>2. Rest
    BY <1>1, <2>1 DEF TypeOK
  <2> HIDE DEF Same, Loop, Rest
  <2> QED BY <1>10, <2>1, <2>2
<1>13. ASSUME NEW n \in Nodes, Exit(n) PROVE Covered'
  <2>1. Ended(n) /\ Rest
    BY <1>13 DEF Exit
  <2> HIDE DEF Same, Loop, Rest
  <2> QED BY <1>10, <2>1
<1>14. ASSUME UNCHANGED <<uploaded, loop>> PROVE Covered'
  <2>1. UNCHANGED <<outcome, sent, pc, pair, level, used, to>>
    BY <1>14 DEF uploaded, loop
  <2> QED BY <1>1, <2>1 DEF Covered, Visited, Left
<1> HIDE DEF Rest, Loop, Same
<1> QED
  BY <1>6, <1>7, <1>8, <1>9, <1>11, <1>12, <1>13, <1>14
     DEF Next, HandleReplication, Hang, Resume, RingChange, RebaseLists, RebaseCopies, RebaseRemoves, RebaseFails

\* The content of an upload and every replica that was sent without an error
\* are held by a node each, through crashes, failures of later replicas and
\* rebases of any number of nodes at once, if none of them was at the key when
\* it was recorded there; and as long as no ring has changed, a replication that ends without
\* an error has left a copy at every address its replica keys lead to.
THEOREM ReplicasKeptHolds == Spec => []ReplicasKept
<1>1. Init => Covered
  BY DEF Init, Covered
<1>2. Typed /\ Routed /\ Covered /\ [Next]_vars => Covered'
  <2>1. ASSUME Covered, UNCHANGED vars PROVE Covered'
    BY <2>1 DEF Covered, Visited, Left, vars, uploaded, loop, bounds
  <2>2. ASSUME changed' # {} PROVE Covered'
    BY <2>2 DEF Covered
  <2> QED BY <2>1, <2>2, CoveredStep
<1>3. ASSUME Typed, Routed, Kept, Covered PROVE ReplicasKept
  <2>1. ASSUME NEW p \in Pairs, NEW i \in sent[p] \cup {0}, sent[p] # {}
        PROVE  \/ Held(<<p.key[1], i>>, p.hash)
               \/ <<<<p.key[1], i>>, p.hash>> \in late
    <3>1. outcome[p] # "none"
      BY <1>3, <2>1 DEF Kept
    <3>2. p.key = <<p.key[1], 0>>
      BY <1>3, <3>1, KeyTyped DEF Typed
    <3>3. Safe(<<p.key[1], i>>, p.hash)
      BY <1>3, <2>1, <3>1, <3>2 DEF Kept
    <3> QED BY <3>3 DEF Safe, Held
  <2>2. ASSUME NEW p \in Pairs, outcome[p] = "done", changed = {}, NEW i \in 1 .. Factor
        PROVE  \E j \in sent[p] : dest[p.node][<<p.key[1], i>>] = dest[p.node][<<p.key[1], j>>]
    <3>1. PICK j \in sent[p] : FirstDest[<<p.key[1], j>>] = FirstDest[<<p.key[1], i>>]
      BY <1>3, <2>2 DEF Covered, Left
    <3>2. j \in 0 .. Factor /\ i \in 0 .. Factor
      BY <1>3, Constants DEF Typed, TypeOK
    <3>3. <<p.key[1], i>> \in ReplicaKeys /\ <<p.key[1], j>> \in ReplicaKeys
      BY <1>3, <2>2, <3>2, KeyTyped DEF Typed
    <3>4. p.node \in Nodes
      BY DEF Pairs
    <3> QED BY <1>3, <2>2, <3>1, <3>3, <3>4 DEF Routed
  <2> QED BY <2>1, <2>2 DEF ReplicasKept
<1> QED BY <1>1, <1>2, <1>3, TypedAlways, RoutedAlways, KeptAlways, PTL DEF Spec
=============================================================================
