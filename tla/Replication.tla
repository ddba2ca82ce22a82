----------------------------- MODULE Replication -----------------------------
(***************************************************************************)
(* Replication among the nodes of a system: an upload that asks for it     *)
(* leaves a goroutine behind that waits for the node's replication loop    *)
(* (internal/grpc/transporter/server.go), and the loop sends the content   *)
(* to the owners of the key's replica keys, one call after the other       *)
(* (internal/sender/client.go).                                            *)
(*                                                                         *)
(* A replica key is the key with as many "_replica" behind it as its level *)
(* says; the key of an upload has level 0.  Storage has every step of an   *)
(* upload and Rebase those of a rebase; here a content arrives with its    *)
(* row at once, and a rebase has pages of one key, lists and copies its    *)
(* contents and removes all of the key's rows in one step.                 *)
(***************************************************************************)
EXTENDS Naturals, FiniteSets

CONSTANTS
  Nodes, Hashes, Keys,
  Addrs, NodeAt,   \* addresses, and the node at each
  None,
  Factor,          \* ReplicationFactor
  Uploads,         \* those there may be, records of node, key, hash and replicate
  FirstDest,       \* replica key -> the address every ring gives it at the start
  RingChanges,     \* what may change later: a node, a replica key and an address
  MaxFaults, MaxChanges, MaxRebases   \* bounds

\* One level more than the loop asks for.
ReplicaKeys == Keys \X (0 .. Factor + 1)

\* A KeyHashPair and the node whose loop it is for.
Pairs == [node : Nodes, key : ReplicaKeys, hash : Hashes]

ASSUME ReplicationAssumption ==
  /\ NodeAt \in [Addrs -> Nodes]
  /\ None \notin ReplicaKeys /\ None \notin Addrs /\ None \notin Pairs
  /\ Factor \in Nat
  /\ Uploads \subseteq [node : Nodes, key : Keys, hash : Hashes, replicate : BOOLEAN]
  /\ FirstDest \in [ReplicaKeys -> Addrs \cup {None}]
  /\ RingChanges \subseteq Nodes \X ReplicaKeys \X (Addrs \cup {None})
  /\ MaxFaults \in Nat /\ MaxChanges \in Nat /\ MaxRebases \in Nat

VARIABLES
  rows,      \* node -> hash -> the key of its row, or None
  state,     \* node -> "up", "down" or "hung"
  dest,      \* node -> replica key -> GetNodeForKey, None when it fails
  changed,   \* the replica keys whose destination has changed in some ring
  received,  \* the uploads that have been accepted
  outcome,   \* pair -> "none", "waiting", "running", "done", "failed" or "lost"
  sent,      \* pair -> the levels its loop has sent without an error
  pc,        \* node -> "idle", "next" or "send"
  pair,      \* node -> the pair its loop is at
  level, used, to,   \* of its loop: the level, usedNodes, and the address at work
  rebaseKey, \* node -> the key its rebase is at, or None
  rebaseTo,  \* node -> the address that key led to when it was checked
  toCopy,    \* node -> the listed contents of the key that are not copied yet
  late,      \* keys and contents recorded at a node whose rebase had listed the key
  faults, rebases

rebase == <<rebaseKey, rebaseTo, toCopy>>
loop == <<pc, pair, level, used, to>>
uploaded == <<received, outcome, sent>>
bounds == <<changed, faults, rebases>>
vars == <<rows, late, state, dest, uploaded, loop, rebase, bounds>>

-----------------------------------------------------------------------------

Init ==
  /\ rows = [n \in Nodes |-> [h \in Hashes |-> None]]
  /\ state = [n \in Nodes |-> "up"]
  /\ dest = [n \in Nodes |-> FirstDest]
  /\ changed = {} /\ received = {}
  /\ outcome = [p \in Pairs |-> "none"]
  /\ sent = [p \in Pairs |-> {}]
  /\ pc = [n \in Nodes |-> "idle"]
  /\ pair = [n \in Nodes |-> None]
  /\ level = [n \in Nodes |-> 0]
  /\ used = [n \in Nodes |-> {}]
  /\ to = [n \in Nodes |-> None]
  /\ rebaseKey = [n \in Nodes |-> None]
  /\ rebaseTo = [n \in Nodes |-> None]
  /\ toCopy = [n \in Nodes |-> {}]
  /\ late = {}
  /\ faults = 0 /\ rebases = 0

Fault ==
  /\ faults < MaxFaults
  /\ faults' = faults + 1

Up(n) == state[n] = "up"

\* A receiver refuses a content of which it has a row.
Accepts(n, h) == Up(n) /\ rows[n][h] = None
Refuses(n, h) == Up(n) /\ rows[n][h] # None

Record(n, key, h) ==
  /\ rows' = [rows EXCEPT ![n][h] = key]
  /\ late' = IF rebaseKey[n] = key THEN late \cup {<<key, h>>} ELSE late

-----------------------------------------------------------------------------
(* Uploads *)

PairOf(u) == [node |-> u.node, key |-> <<u.key, 0>>, hash |-> u.hash]

\* The reply does not wait for the goroutine that waits for the loop.
Upload(u) ==
  /\ u \notin received
  /\ Accepts(u.node, u.hash)
  /\ Record(u.node, <<u.key, 0>>, u.hash)
  /\ received' = received \cup {u}
  /\ outcome' = IF u.replicate THEN [outcome EXCEPT ![PairOf(u)] = "waiting"] ELSE outcome
  /\ UNCHANGED <<state, dest, sent, loop, rebase, bounds>>

-----------------------------------------------------------------------------
(* The loop of node n *)

Ended(n) ==
  /\ pc' = [pc EXCEPT ![n] = "idle"]
  /\ pair' = [pair EXCEPT ![n] = None]
  /\ level' = [level EXCEPT ![n] = 0]
  /\ used' = [used EXCEPT ![n] = {}]
  /\ to' = [to EXCEPT ![n] = None]

\* Whichever goroutine comes first.
TakePair(n, p) ==
  /\ Up(n) /\ pc[n] = "idle"
  /\ p.node = n /\ outcome[p] = "waiting"
  /\ outcome' = [outcome EXCEPT ![p] = "running"]
  /\ pc' = [pc EXCEPT ![n] = "next"]
  /\ pair' = [pair EXCEPT ![n] = p]
  /\ UNCHANGED <<rows, late, state, dest, received, sent, level, used, to, rebase, bounds>>

ReplicaKey(n, i) == <<pair[n].key[1], pair[n].key[2] + i>>

\* An address used before is skipped.
NextKey(n) ==
  /\ Up(n) /\ pc[n] = "next" /\ level[n] < Factor
  /\ LET a == dest[n][ReplicaKey(n, level[n] + 1)] IN
       /\ a # None
       /\ used' = [used EXCEPT ![n] = @ \cup {a}]
       /\ to' = [to EXCEPT ![n] = IF a \in used[n] THEN None ELSE a]
       /\ pc' = [pc EXCEPT ![n] = IF a \in used[n] THEN "next" ELSE "send"]
  /\ level' = [level EXCEPT ![n] = @ + 1]
  /\ UNCHANGED <<rows, late, state, dest, uploaded, pair, rebase, bounds>>

Done(n) ==
  /\ Up(n) /\ pc[n] = "next" /\ level[n] = Factor
  /\ outcome' = [outcome EXCEPT ![pair[n]] = "done"]
  /\ Ended(n)
  /\ UNCHANGED <<rows, late, state, dest, received, sent, rebase, bounds>>

\* Deviation: an error ends the goroutine of the loop.
FailEndsLoop(n) ==
  /\ outcome' = [outcome EXCEPT ![pair[n]] = "failed"]
  /\ pc' = [pc EXCEPT ![n] = "gone"]
  /\ UNCHANGED <<state, dest, received, sent, pair, level, used, to, rebase, changed, rebases>>

\* The error is logged; what has been sent stays where it is.
Fail(n) ==
  /\ outcome' = [outcome EXCEPT ![pair[n]] = "failed"]
  /\ Ended(n)
  /\ UNCHANGED <<state, dest, received, sent, rebase, changed, rebases>>

NoDestination(n) ==
  /\ Up(n) /\ pc[n] = "next" /\ level[n] < Factor
  /\ dest[n][ReplicaKey(n, level[n] + 1)] = None
  /\ Fail(n)
  /\ UNCHANGED <<rows, late, faults>>

Sending(n) == Up(n) /\ pc[n] = "send"
Content(n) == pair[n].hash
HasFile(n) == rows[n][Content(n)] # None
Target(n) == NodeAt[to[n]]

Sent(n) ==
  /\ sent' = [sent EXCEPT ![pair[n]] = @ \cup {level[n]}]
  /\ pc' = [pc EXCEPT ![n] = "next"]
  /\ to' = [to EXCEPT ![n] = None]

\* Deviation: the replica is uploaded under the key after the one looked up.
SendNextKey(n) ==
  /\ Sending(n) /\ HasFile(n) /\ Accepts(Target(n), Content(n))
  /\ Record(Target(n), ReplicaKey(n, level[n] + 1), Content(n))
  /\ Sent(n)
  /\ UNCHANGED <<state, dest, received, outcome, pair, level, used, rebase, bounds>>

\* Deviation: the upload of a replica asks for replication.
SendReplicate(n) ==
  /\ Sending(n) /\ HasFile(n) /\ Accepts(Target(n), Content(n))
  /\ Record(Target(n), ReplicaKey(n, level[n]), Content(n))
  /\ Sent(n)
  /\ outcome' = [outcome EXCEPT ![[node |-> Target(n), key |-> ReplicaKey(n, level[n]),
                                   hash |-> Content(n)]] = "waiting"]
  /\ UNCHANGED <<state, dest, received, pair, level, used, rebase, bounds>>

\* sendFile: an upload under the replica key that asks for no replication.
SendFile(n) ==
  /\ Sending(n) /\ HasFile(n) /\ Accepts(Target(n), Content(n))
  /\ Record(Target(n), ReplicaKey(n, level[n]), Content(n))
  /\ Sent(n)
  /\ UNCHANGED <<state, dest, received, outcome, pair, level, used, rebase, bounds>>

\* Deviation: errors are dropped.
SendErrorDropped(n) ==
  /\ Sending(n)
  /\ ~HasFile(n) \/ state[Target(n)] = "down" \/ Refuses(Target(n), Content(n))
  /\ Sent(n)
  /\ UNCHANGED <<rows, late, state, dest, received, outcome, pair, level, used, rebase, bounds>>

\* The file is gone, nobody listens, or the receiver has the content already,
\* as this node itself always has.
SendFails(n) ==
  /\ Sending(n)
  /\ ~HasFile(n) \/ state[Target(n)] = "down" \/ Refuses(Target(n), Content(n))
  /\ Fail(n)
  /\ UNCHANGED <<rows, late, faults>>

\* The connection breaks before or after the content has arrived.
ConnectionBreaks(n) ==
  /\ Sending(n) /\ HasFile(n)
  /\ Fault
  /\ \/ Accepts(Target(n), Content(n)) /\ Record(Target(n), ReplicaKey(n, level[n]), Content(n))
     \/ UNCHANGED <<rows, late>>
  /\ Fail(n)

-----------------------------------------------------------------------------
(* The rebase of node n *)

RebaseEnded(n) ==
  /\ rebaseKey' = [rebaseKey EXCEPT ![n] = None]
  /\ rebaseTo' = [rebaseTo EXCEPT ![n] = None]
  /\ toCopy' = [toCopy EXCEPT ![n] = {}]

\* A page with one key that leads to another node, and the contents the copy
\* lists.  A key that leads to this node itself is passed, or, by an address the
\* node does not recognize, refused before anything is removed (in Rebase).
RebaseLists(n, key) ==
  /\ Up(n) /\ rebaseKey[n] = None
  /\ rebases < MaxRebases
  /\ rebases' = rebases + 1
  /\ \E h \in Hashes : rows[n][h] = key
  /\ dest[n][key] # None /\ NodeAt[dest[n][key]] # n
  /\ rebaseKey' = [rebaseKey EXCEPT ![n] = key]
  /\ rebaseTo' = [rebaseTo EXCEPT ![n] = dest[n][key]]
  /\ toCopy' = [toCopy EXCEPT ![n] = {h \in Hashes : rows[n][h] = key}]
  /\ UNCHANGED <<rows, late, state, dest, uploaded, loop, changed, faults>>

\* A refusal ends the rebase.
RebaseCopies(n, h) ==
  /\ Up(n) /\ h \in toCopy[n]
  /\ Accepts(NodeAt[rebaseTo[n]], h)
  /\ Record(NodeAt[rebaseTo[n]], rebaseKey[n], h)
  /\ toCopy' = [toCopy EXCEPT ![n] = @ \ {h}]
  /\ UNCHANGED <<state, dest, uploaded, loop, rebaseKey, rebaseTo, bounds>>

\* RemoveByKey: every row of the key, those recorded since the listing included.
RebaseRemoves(n) ==
  /\ Up(n) /\ rebaseKey[n] # None /\ toCopy[n] = {}
  /\ rows' = [rows EXCEPT ![n] =
                [h \in Hashes |-> IF rows[n][h] = rebaseKey[n] THEN None ELSE rows[n][h]]]
  /\ RebaseEnded(n)
  /\ UNCHANGED <<late, state, dest, uploaded, loop, bounds>>

\* The receiver refuses or does not answer, a reply is lost, a removal fails.
RebaseFails(n) ==
  /\ Up(n) /\ rebaseKey[n] # None
  /\ RebaseEnded(n)
  /\ UNCHANGED <<rows, late, state, dest, uploaded, loop, bounds>>

-----------------------------------------------------------------------------
(* Beside the replication *)

\* A crash, or a stop: GracefulStop waits for calls, not for the goroutines
\* that wait for the loop.
Exit(n) ==
  /\ state[n] # "down"
  /\ Fault
  /\ state' = [state EXCEPT ![n] = "down"]
  /\ outcome' = [p \in Pairs |-> IF p.node = n /\ outcome[p] \in {"waiting", "running"} THEN "lost"
                                 ELSE outcome[p]]
  /\ Ended(n) /\ RebaseEnded(n)
  /\ UNCHANGED <<rows, late, dest, received, sent, changed, rebases>>

Hang(n) ==
  /\ Up(n)
  /\ Fault
  /\ state' = [state EXCEPT ![n] = "hung"]
  /\ UNCHANGED <<rows, late, dest, uploaded, loop, rebase, changed, rebases>>

\* A process that hangs goes on, or one is started again.
Resume(n) ==
  /\ ~Up(n)
  /\ state' = [state EXCEPT ![n] = "up"]
  /\ UNCHANGED <<rows, late, dest, uploaded, loop, rebase, bounds>>

RingChange(n, key, a) ==
  /\ Cardinality(changed \cup {key}) <= MaxChanges
  /\ changed' = changed \cup {key}
  /\ dest' = [dest EXCEPT ![n][key] = a]
  /\ UNCHANGED <<rows, late, state, uploaded, loop, rebase, faults, rebases>>

HandleReplication(n) ==
  \/ NextKey(n) \/ Done(n) \/ NoDestination(n)
  \/ SendFile(n) \/ SendFails(n) \/ ConnectionBreaks(n)

Next ==
  \/ \E u \in Uploads : Upload(u)
  \/ \E n \in Nodes : HandleReplication(n) \/ \E p \in Pairs : TakePair(n, p)
  \/ \E n \in Nodes : Exit(n) \/ Hang(n) \/ Resume(n)
  \/ \E c \in RingChanges : RingChange(c[1], c[2], c[3])
  \/ \E n \in Nodes, key \in ReplicaKeys : RebaseLists(n, key)
  \/ \E n \in Nodes, h \in Hashes : RebaseCopies(n, h)
  \/ \E n \in Nodes : RebaseRemoves(n) \/ RebaseFails(n)

Spec == Init /\ [][Next]_vars

\* The loop takes a pair when there is one and goes on when nothing hangs.
FairSpec ==
  /\ Spec
  /\ \A n \in Nodes :
       WF_vars(HandleReplication(n) \/ \E p \in Pairs : TakePair(n, p))

-----------------------------------------------------------------------------
(* Properties *)

TypeOK ==
  /\ rows \in [Nodes -> [Hashes -> ReplicaKeys \cup {None}]]
  /\ state \in [Nodes -> {"up", "down", "hung"}]
  /\ dest \in [Nodes -> [ReplicaKeys -> Addrs \cup {None}]]
  /\ changed \subseteq ReplicaKeys
  /\ received \subseteq Uploads
  /\ outcome \in [Pairs -> {"none", "waiting", "running", "done", "failed", "lost"}]
  /\ sent \in [Pairs -> SUBSET (1 .. Factor)]
  /\ pc \in [Nodes -> {"idle", "next", "send"}]
  /\ pair \in [Nodes -> Pairs \cup {None}]
  /\ level \in [Nodes -> 0 .. Factor]
  /\ used \in [Nodes -> SUBSET Addrs]
  /\ to \in [Nodes -> Addrs \cup {None}]
  /\ \A n \in Nodes :
       /\ pc[n] = "idle" => level[n] = 0 /\ used[n] = {}
       /\ pc[n] # "idle" => pair[n] \in Pairs
       /\ pc[n] = "send" => to[n] \in used[n] /\ level[n] > 0
  /\ rebaseKey \in [Nodes -> ReplicaKeys \cup {None}]
  /\ rebaseTo \in [Nodes -> Addrs \cup {None}]
  /\ toCopy \in [Nodes -> SUBSET Hashes]
  /\ \A n \in Nodes : IF rebaseKey[n] = None THEN toCopy[n] = {} ELSE rebaseTo[n] \in Addrs
  /\ late \subseteq ReplicaKeys \X Hashes
  /\ faults \in 0 .. MaxFaults /\ rebases \in 0 .. MaxRebases

\* Copies are not replicated in turn, whatever node a replica key falls on: a
\* key has at most as many "_replica" as the factor, and only the node that
\* took an upload that asked for it replicates.
NoChains ==
  /\ \A n \in Nodes, h \in Hashes : rows[n][h] # None => rows[n][h][2] <= Factor
  /\ \A p \in Pairs : outcome[p] # "none" => \E u \in received : u.replicate /\ p = PairOf(u)

\* A replica is kept, under its own key and beside the original, so on another
\* node, through the failure of later replicas, crashes, and rebases that move
\* either or stop halfway, also those of several nodes at once; and a
\* replication that ends without an error has left one at every address its
\* replica keys lead to.  The exception is a content that arrives at a node
\* while the rebase there is at its key: the removal takes it along uncopied.
Held(key, h) == \E n \in Nodes : rows[n][h] = key

ReplicasKept ==
  \A p \in Pairs :
    /\ \A i \in sent[p] \cup {0} :
         sent[p] # {} =>
           LET key == <<p.key[1], i>> IN Held(key, p.hash) \/ <<key, p.hash>> \in late
    /\ outcome[p] = "done" /\ changed = {} =>
         \A i \in 1 .. Factor :
           \E j \in sent[p] : dest[p.node][<<p.key[1], i>>] = dest[p.node][<<p.key[1], j>>]

\* A reader finds a replica: as long as the rings agree on its replica key, the
\* replica lies where that key leads.
Findable ==
  \A n \in Nodes, h \in Hashes :
    rows[n][h] # None /\ rows[n][h][2] > 0 /\ rows[n][h] \notin changed =>
      \A m \in Nodes : dest[m][rows[n][h]] # None /\ NodeAt[dest[m][rows[n][h]]] = n

\* Every upload that asked for it is replicated, or its replication fails, or
\* its node dies; unless this node hangs or the one its loop is sending to.
Stuck(n) == state[n] = "hung" \/ (pc[n] = "send" /\ state[Target(n)] = "hung")

EveryPairHandled ==
  \A u \in {v \in Uploads : v.replicate} :
    outcome[PairOf(u)] \in {"waiting", "running"}
      ~> outcome[PairOf(u)] \in {"done", "failed", "lost"} \/ Stuck(u.node)
=============================================================================
