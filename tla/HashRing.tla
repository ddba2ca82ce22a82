------------------------------ MODULE HashRing ------------------------------
(***************************************************************************)
(* The hash ring of one node (pkg/dht/dht.go), shared by the gRPC handlers *)
(* of internal/grpc/transporter/server.go that announce, remove and look   *)
(* up nodes, and by the loading of the node lists at start-up.  Only       *)
(* AddNode and the second half of RemoveNode hold the ring's mutex: the    *)
(* searches of RemoveNode and GetNodeForKey, and every read of the map,    *)
(* run beside the writers.                                                 *)
(*                                                                         *)
(* The searches are parameters; RingOps gives them to the model checker.   *)
(* Indices are those of the code: index i is the element ids[i + 1].       *)
(***************************************************************************)
EXTENDS SearchContract, FiniteSets

CONSTANTS
  Ids,           \* the ints that are node ids and key hashes
  Strings,       \* the strings hashed: addresses as announced or resolved, keys
  HashKey,       \* their ids, and that of the nil address, which prints as "<nil>"
  Resolve,       \* [Strings -> Strings \cup {NilAddr}]: net.ResolveTCPAddr
  NilAddr,       \* what an address that does not resolve resolves to
  IndexFor(_, _), \* findIndex
  ClosestTo(_, _), \* findClosestElement
  StaleWords,    \* what may lie in memory behind the slice's last element
  Handlers,      \* the goroutines that may serve requests
  Loader,        \* the goroutine that starts the process
  NoProc,
  Scenarios      \* what the process may be given: the lists it loads, who
                 \* serves, the arguments of the requests, and a bound

Procs == Handlers \cup {Loader}

ASSUME StringsAssumption ==
  /\ 0 \in Ids /\ Ids \subseteq Int /\ StaleWords \subseteq Ids
  /\ HashKey \in [Strings \cup {NilAddr} -> Ids]
  /\ Resolve \in [Strings -> Strings \cup {NilAddr}]
  /\ NilAddr \notin Strings
ASSUME ProcsAssumption ==
  /\ IsFiniteSet(Handlers)
  /\ Loader \notin Handlers
  /\ NoProc \notin Procs
ASSUME ScenariosAssumption ==
  \A s \in Scenarios :
    /\ s.config \in Seq(Strings) /\ s.synced \in Seq(Strings)
    /\ s.handlers \subseteq Handlers
    /\ s.adds \cup s.removals \cup s.lookups \subseteq Strings
    /\ s.maxIds \in Nat /\ Len(s.config) + Len(s.synced) <= s.maxIds

\* An address to be removed whose hash is a node's id is that node's: no two of
\* the hashes collide, and a resolved address resolves to itself.
ASSUME AddressAssumption ==
  \A s \in Scenarios : \A name \in s.removals,
      given \in s.adds \cup Elements(s.config) \cup Elements(s.synced) :
    Resolve[name] # NilAddr /\ HashKey[name] = HashKey[Resolve[given]]
      => HashKey[Resolve[name]] = HashKey[name]

\* What RingSearchProofs establishes of the two searches of RingOps.
ASSUME SearchAssumption ==
  \A s \in Scenarios : \A n \in 0 .. s.maxIds : \A arr \in [1 .. n -> Ids], target \in Ids :
    /\ Locates(arr, target, IndexFor(arr, target))
    /\ Routes(arr, target, ClosestTo(arr, target))

VARIABLES
  running,  \* FALSE once the runtime or a failed start-up has ended the process
  mu,       \* the process that holds the mutex, or NoProc
  ids,      \* h.ids
  nodes,    \* the keys of the map h.nodes
  toLoad,   \* the addresses LoadNodesFromList has still to add
  pc,
  id,       \* the id being added or removed, or the one a lookup found
  newIds,   \* insertId's local slice
  index,    \* RemoveNode's local index
  scenario  \* the one of Scenarios that this is

state == <<running, mu, ids, nodes, toLoad, pc, id, newIds, index>>
vars == <<state, scenario>>
ring == <<ids, nodes>>

ConfigNodes == scenario.config      \* loaded before serving
SyncedNodes == scenario.synced      \* sent by a peer, loaded while serving
NewNames == scenario.adds
RemovedNames == scenario.removals
Keys == scenario.lookups
MaxIds == scenario.maxIds           \* bound on the length of the id slice

-----------------------------------------------------------------------------

\* Deviation: the elements after the new id start one too early.
InsertIdOverlap(arr, x) ==
  IF arr = <<>> THEN <<x>>
  ELSE LET newIdPos == IndexFor(arr, x) + 1
       IN  SubSeq(arr, 1, newIdPos) \o <<x>> \o SubSeq(arr, newIdPos, Len(arr))

\* Deviation: the new id is placed before the position found.
InsertIdBefore(arr, x) ==
  IF arr = <<>> THEN <<x>>
  ELSE LET newIdPos == IndexFor(arr, x)
       IN  SubSeq(arr, 1, newIdPos) \o <<x>> \o SubSeq(arr, newIdPos + 1, Len(arr))

InsertId(arr, x) ==
  IF arr = <<>> THEN <<x>>
  ELSE LET newIdPos == IndexFor(arr, x) + 1
       IN  SubSeq(arr, 1, newIdPos) \o <<x>> \o SubSeq(arr, newIdPos + 1, Len(arr))

\* append(arr[:i], arr[i+1:]...)
CutAt(arr, i) == SubSeq(arr, 1, i) \o SubSeq(arr, i + 2, Len(arr))

\* The map write a process is about to finish.
WritesMap(p) == pc[p] \in {"addPut", "rmDelete"}

Critical(p) == pc[p] \in {"addStore", "addPut", "rmDelete", "rmCut"}

\* Processes whose add is still to lengthen the slice.
Adding == {p \in Procs : pc[p] \in {"addLock", "addStore"}}

\* What a read of h.ids without the mutex may find.  The slice's pointer and
\* length are two words, so a read beside the store of a new slice may pair
\* either with either; a removal shifts the elements one after the other.
TornStores(p) ==
  {newIds[p], SubSeq(newIds[p], 1, Len(ids))} \cup {Append(ids, w) : w \in StaleWords}

\* Deviation: a removal clears the place it shifts the next element to.
ShiftsCleared(p) ==
  {[k \in 1 .. Len(ids) |-> IF k = j THEN 0 ELSE IF index[p] < k /\ k < j THEN ids[k + 1] ELSE ids[k]] :
     j \in index[p] + 1 .. Len(ids)}

PartialShifts(p) ==
  {[k \in 1 .. Len(ids) |-> IF index[p] < k /\ k < j THEN ids[k + 1] ELSE ids[k]] :
     j \in 1 .. Len(ids)}

VisibleIds ==
  {ids} \cup UNION {IF pc[p] = "addStore" THEN TornStores(p)
                    ELSE IF pc[p] = "rmCut" THEN PartialShifts(p) ELSE {} : p \in Procs}

\* The server serves once the configuration's nodes are in the ring.
Serving ==
  /\ running
  /\ \/ Len(toLoad) < Len(SyncedNodes)
     \/ Len(toLoad) = Len(SyncedNodes) /\ pc[Loader] = "idle"

\* The bound: as many adds may be under way as the slice has room for.
RoomForOne == Len(ids) + Cardinality(Adding) + Len(toLoad) < MaxIds

Goto(p, label) == pc' = [pc EXCEPT ![p] = label]

-----------------------------------------------------------------------------

Init ==
  /\ scenario \in Scenarios
  /\ running = TRUE
  /\ mu = NoProc
  /\ ids = <<>>
  /\ nodes = {}
  /\ toLoad = ConfigNodes \o SyncedNodes
  /\ pc = [p \in Procs |-> "idle"]
  /\ id = [p \in Procs |-> 0]
  /\ newIds = [p \in Procs |-> <<>>]
  /\ index = [p \in Procs |-> 0]

FromConfig == Len(toLoad) > Len(SyncedNodes)

\* The next address of a list: nothing checks whether it is in the ring, and
\* one of the configuration is added even when it does not resolve (the error
\* is logged once the list is through).
LoadNext ==
  /\ running
  /\ pc[Loader] = "idle"
  /\ toLoad # <<>>
  /\ FromConfig \/ Resolve[Head(toLoad)] # NilAddr
  /\ Goto(Loader, "addLock")
  /\ id' = [id EXCEPT ![Loader] = HashKey[Resolve[Head(toLoad)]]]
  /\ toLoad' = Tail(toLoad)
  /\ UNCHANGED <<running, mu, ids, nodes, newIds, index>>

\* One that a peer sent panics the process, which is serving by then.
LoadFails ==
  /\ running
  /\ pc[Loader] = "idle"
  /\ toLoad # <<>>
  /\ ~FromConfig
  /\ Resolve[Head(toLoad)] = NilAddr
  /\ running' = FALSE
  /\ UNCHANGED <<mu, ids, nodes, toLoad, pc, id, newIds, index>>

\* NodeExists hashes the address as it was sent, AddNode its resolved form.
\* A request refused (AlreadyExists, Internal) leaves everything unchanged.
AnnounceNewNode(p, name) ==
  /\ Serving
  /\ pc[p] = "idle"
  /\ RoomForOne
  /\ HashKey[name] \notin nodes
  /\ Resolve[name] # NilAddr
  /\ Goto(p, "addLock")
  /\ id' = [id EXCEPT ![p] = HashKey[Resolve[name]]]
  /\ UNCHANGED <<running, mu, ids, nodes, toLoad, newIds, index>>

\* Deviation: the new slice is built without waiting for the mutex.
AddLockUnguarded(p) ==
  /\ running
  /\ pc[p] = "addLock"
  /\ mu' = p
  /\ newIds' = [newIds EXCEPT ![p] = InsertId(ids, id[p])]
  /\ Goto(p, "addStore")
  /\ UNCHANGED <<running, ids, nodes, toLoad, id, index>>

\* AddNode takes the mutex; insertId builds the new slice.
AddLock(p) ==
  /\ running
  /\ pc[p] = "addLock"
  /\ mu = NoProc
  /\ mu' = p
  /\ newIds' = [newIds EXCEPT ![p] = InsertId(ids, id[p])]
  /\ Goto(p, "addStore")
  /\ UNCHANGED <<running, ids, nodes, toLoad, id, index>>

AddStore(p) ==
  /\ running
  /\ pc[p] = "addStore"
  /\ ids' = newIds[p]
  /\ newIds' = [newIds EXCEPT ![p] = <<>>]
  /\ Goto(p, "addPut")
  /\ UNCHANGED <<running, mu, nodes, toLoad, id, index>>

AddPut(p) ==
  /\ running
  /\ pc[p] = "addPut"
  /\ nodes' = nodes \cup {id[p]}
  /\ mu' = NoProc
  /\ Goto(p, "idle")
  /\ UNCHANGED <<running, ids, toLoad, id, newIds, index>>

\* Deviation: the check that the node is in the ring is dropped.
AnnounceRemoveNodeUnchecked(p, name) ==
  /\ Serving
  /\ pc[p] = "idle"
  /\ Resolve[name] # NilAddr
  /\ Goto(p, "rmIndex")
  /\ id' = [id EXCEPT ![p] = HashKey[Resolve[name]]]
  /\ UNCHANGED <<running, mu, ids, nodes, toLoad, newIds, index>>

\* A request refused (NotFound, Internal) leaves everything unchanged.
AnnounceRemoveNode(p, name) ==
  /\ Serving
  /\ pc[p] = "idle"
  /\ HashKey[name] \in nodes
  /\ Resolve[name] # NilAddr
  /\ Goto(p, "rmIndex")
  /\ id' = [id EXCEPT ![p] = HashKey[Resolve[name]]]
  /\ UNCHANGED <<running, mu, ids, nodes, toLoad, newIds, index>>

\* RemoveNode searches the slice before it takes the mutex.
RmIndex(p) ==
  /\ running
  /\ pc[p] = "rmIndex"
  /\ \E view \in VisibleIds :
       index' = [index EXCEPT ![p] = IndexFor(view, id[p])]
  /\ Goto(p, "rmLock")
  /\ UNCHANGED <<running, mu, ids, nodes, toLoad, id, newIds>>

\* Deviation: a removal takes over the mutex that a panic left locked.
RmLockTakesOver(p) ==
  /\ running
  /\ pc[p] = "rmLock"
  /\ mu # NoProc => ~Critical(mu)
  /\ mu' = p
  /\ Goto(p, "rmDelete")
  /\ UNCHANGED <<running, ids, nodes, toLoad, id, newIds, index>>

RmLock(p) ==
  /\ running
  /\ pc[p] = "rmLock"
  /\ mu = NoProc
  /\ mu' = p
  /\ Goto(p, "rmDelete")
  /\ UNCHANGED <<running, ids, nodes, toLoad, id, newIds, index>>

RmDelete(p) ==
  /\ running
  /\ pc[p] = "rmDelete"
  /\ nodes' = nodes \ {id[p]}
  /\ Goto(p, "rmCut")
  /\ UNCHANGED <<running, mu, ids, toLoad, id, newIds, index>>

\* Deviation: the id at the index is kept and the one above it cut.
RmCutNext(p) ==
  /\ running
  /\ pc[p] = "rmCut"
  /\ index[p] < Len(ids)
  /\ ids' = CutAt(ids, index[p] + 1)
  /\ mu' = NoProc
  /\ Goto(p, "idle")
  /\ UNCHANGED <<running, nodes, toLoad, id, newIds, index>>

RmCut(p) ==
  /\ running
  /\ pc[p] = "rmCut"
  /\ index[p] < Len(ids)
  /\ ids' = CutAt(ids, index[p])
  /\ mu' = NoProc
  /\ Goto(p, "idle")
  /\ UNCHANGED <<running, nodes, toLoad, id, newIds, index>>

\* Deviation: instead of panicking, a removal waits until the slice has grown.
RmPanicWaits(p) ==
  /\ running
  /\ pc[p] = "rmCut"
  /\ index[p] >= Len(ids)
  /\ UNCHANGED state

\* The slice has become too short for the index: the expression panics, the
\* recovery interceptor answers Internal, and nobody unlocks the mutex.
RmPanic(p) ==
  /\ running
  /\ pc[p] = "rmCut"
  /\ index[p] >= Len(ids)
  /\ Goto(p, "idle")
  /\ UNCHANGED <<running, mu, ids, nodes, toLoad, id, newIds, index>>

\* GetNodeForKey: the search, then the map, both without the mutex.
LookupId(p, key) ==
  /\ Serving
  /\ pc[p] = "idle"
  /\ \E view \in VisibleIds :
       id' = [id EXCEPT ![p] = ClosestTo(view, HashKey[key])]
  /\ Goto(p, "lookup")
  /\ UNCHANGED <<running, mu, ids, nodes, toLoad, newIds, index>>

\* The answer is the node of that id, or an error when the map has none.
LookupNode(p) ==
  /\ running
  /\ pc[p] = "lookup"
  /\ Goto(p, "idle")
  /\ UNCHANGED <<running, mu, ids, nodes, toLoad, id, newIds, index>>

\* The runtime may catch a map read (NodeExists, or the second half of a
\* lookup) beside a map write: that is fatal, and no handler recovers from it.
FatalMapRace(p) ==
  /\ \/ Serving /\ pc[p] = "idle" /\ NewNames \cup RemovedNames # {}
     \/ running /\ pc[p] = "lookup"
  /\ \E q \in Procs : WritesMap(q)
  /\ running' = FALSE
  /\ UNCHANGED <<mu, ids, nodes, toLoad, pc, id, newIds, index>>

Load == LoadNext \/ LoadFails

Lock(p) == AddLock(p) \/ RmLock(p)

Continue(p) ==
  AddStore(p) \/ AddPut(p) \/ RmIndex(p) \/ RmDelete(p) \/ RmCut(p)
    \/ RmPanic(p) \/ LookupNode(p)

Request(p) ==
  \/ \E name \in NewNames : AnnounceNewNode(p, name)
  \/ \E name \in RemovedNames : AnnounceRemoveNode(p, name)
  \/ \E key \in Keys : LookupId(p, key)
  \/ FatalMapRace(p)

Next ==
  /\ UNCHANGED scenario
  /\ \/ Load
     \/ \E p \in Procs : Lock(p) \/ Continue(p)
     \/ \E p \in scenario.handlers : Request(p)

Spec == Init /\ [][Next]_vars

\* A goroutine that can run does run, and sync.Mutex hands itself over to a
\* waiter that has been passed by for a millisecond, so no waiter starves.
FairSpec ==
  /\ Spec
  /\ WF_state(Load)
  /\ \A p \in Procs : WF_state(Continue(p)) /\ SF_state(Lock(p))

-----------------------------------------------------------------------------
(* Properties *)

IdSet == Elements(ids)

AddsOnly == RemovedNames = {}

OneHandler == Cardinality(scenario.handlers) = 1 /\ SyncedNodes = <<>>

Sorted == Ascending(ids)

NoDuplicateIds == \A j, k \in 1 .. Len(ids) : j # k => ids[j] # ids[k]

TypeOK ==
  /\ scenario \in Scenarios
  /\ running \in BOOLEAN
  /\ mu \in Procs \cup {NoProc}
  /\ ids \in Seq(Ids) /\ Len(ids) + Cardinality(Adding) + Len(toLoad) <= MaxIds
  /\ nodes \subseteq Ids
  /\ toLoad \in Seq(Strings)
  /\ pc \in [Procs -> {"idle", "addLock", "addStore", "addPut", "rmIndex", "rmLock",
                       "rmDelete", "rmCut", "lookup"}]
  /\ id \in [Procs -> Ids \cup 0 .. MaxIds]
  /\ newIds \in [Procs -> Seq(Ids)]
  /\ index \in [Procs -> Nat]

\* The ring is written by one process at a time, the one that holds the mutex,
\* whatever else adds, removes, looks up or loads at the same moment.
LockDiscipline == \A p \in Procs : Critical(p) => mu = p

\* As long as no node is removed, the slice and the map name the same nodes,
\* whoever adds at the same time, but for the one node AddNode has listed and
\* not yet stored: no add is lost, and an id found has a node behind it.
IdsMatchNodes ==
  AddsOnly => IdSet = nodes \cup {id[p] : p \in {q \in Procs : pc[q] = "addPut"}}

\* What insertId makes of the slice instead of a sorted one: the id added first
\* stays in front of all others, those below it come next, and only those above
\* it, at the end, are in ascending order.
RingShape ==
  AddsOnly /\ NoDuplicateIds =>
    \A j, k \in 2 .. Len(ids) : j < k =>
      /\ ids[k] < ids[1] => ids[j] < ids[1]
      /\ ids[j] > ids[1] => ids[j] < ids[k]

\* Whatever order the slice is in, every search of GetNodeForKey that no store of
\* a new slice disturbs ends at an id of the ring, for a key whose hash is not an
\* id itself -- also one beside a removal that is shifting the elements.
LookupFindsAnId ==
  [][\A p \in Handlers : \A key \in Keys :
       /\ LookupId(p, key)
       /\ ids # <<>> /\ HashKey[key] \notin IdSet
       /\ \A q \in Procs : pc[q] # "addStore"
       => id'[p] \in IdSet]_vars

\* A goroutine that has left AddNode or RemoveNode has released the mutex.
MutexReleased == mu # NoProc => Critical(mu)

\* One request at a time: no removal panics with the mutex locked.  The slice is
\* never shorter than the map, so whatever has been added, removed and added
\* again under an alias, a removal finds something to cut.
NoLeakAlone == OneHandler => MutexReleased

\* One request at a time, and at most four ids in order, the removed one among
\* them: RemoveNode cuts the id of the node it takes out of the map, no other.
RemovalExact ==
  [][\A p \in Procs :
       /\ OneHandler
       /\ pc[p] = "rmCut" /\ pc'[p] = "idle"
       /\ Sorted /\ Len(ids) <= 4 /\ id[p] \in IdSet
       => IdSet' = IdSet \ {id[p]}]_vars

\* The mutex a panic leaves locked freezes the ring: no add, no removal and no
\* loading ever changes it again.
LeakFreezesRing ==
  [][~MutexReleased => ~MutexReleased' /\ UNCHANGED ring]_vars

\* Every request returns, and so does every load, unless the process dies or a
\* panic has left the mutex locked.
EveryCallReturns ==
  \A p \in Procs : pc[p] # "idle" ~> pc[p] = "idle" \/ ~running \/ ~MutexReleased

\* TestInsertId: an id goes to its place in the order of the slice.
IdsSorted == NoDuplicateIds => Sorted
=============================================================================
