-------------------------- MODULE SerialRingProofs --------------------------
(***************************************************************************)
(* The ring of a node whose requests come one at a time (OneHandler): what *)
(* a removal found is still so when it cuts the slice, so it never panics  *)
(* with the mutex locked.                                                  *)
(***************************************************************************)
EXTENDS HashRingProofs

\* The addresses a node of the ring may come from, and their ids.
Given == NewNames \cup Elements(ConfigNodes) \cup Elements(SyncedNodes)
GivenIds == {HashKey[Resolve[name]] : name \in Given}

\* Every id in the map, or on its way there, is that of an address given.
Origin ==
  /\ nodes \subseteq GivenIds
  /\ Elements(toLoad) \subseteq Given
  /\ \A p \in Procs : pc[p] \in {"addLock", "addStore", "addPut"} => id[p] \in GivenIds

\* With one handler and nothing to load while it serves, one process is in the
\* ring at a time: the handler starts when the loader has finished for good.
Alone ==
  \A p \in Procs : pc[p] # "idle" =>
    p = Loader \/ (p \in scenario.handlers /\ toLoad = <<>> /\ pc[Loader] = "idle")

\* What a removal has established stays so until it cuts the slice.
Fresh ==
  \A p \in Procs :
    /\ pc[p] \in {"rmIndex", "rmLock", "rmDelete"} => id[p] \in nodes
    /\ pc[p] \in {"rmLock", "rmDelete", "rmCut"} =>
         id[p] \in Ids /\ index[p] = IndexFor(ids, id[p])

\* The map never has more nodes than the slice has ids, and one less between the
\* two halves of an add and of a removal.
Balanced ==
  /\ IsFiniteSet(nodes) /\ Cardinality(nodes) <= Len(ids)
  /\ \A p \in Procs : pc[p] \in {"addPut", "rmCut"} => Cardinality(nodes) < Len(ids)

Serial == OneHandler => Alone /\ Fresh /\ Balanced /\ MutexReleased

-----------------------------------------------------------------------------
(* One process at a time *)

LEMMA OneServes ==
  ASSUME TypeOK, OneHandler, NEW p \in scenario.handlers, NEW q \in scenario.handlers
  PROVE  p = q
<1>1. IsFiniteSet(scenario.handlers)
  BY ServingHandlers, ProcsAssumption, FS_Subset
<1>2. PICK h : scenario.handlers = {h}
  BY <1>1, FS_Singleton DEF OneHandler
<1> QED BY <1>2

LEMMA OthersIdle ==
  ASSUME TypeOK, OneHandler, Alone, NEW p \in Procs, pc[p] # "idle"
  PROVE  \A q \in Procs : q # p => pc[q] = "idle"
BY OneServes DEF Alone

LEMMA ServedAlone ==
  ASSUME TypeOK, OneHandler, Alone, Serving, NEW p \in scenario.handlers, pc[p] = "idle"
  PROVE  toLoad = <<>> /\ pc[Loader] = "idle" /\ \A q \in Procs : pc[q] = "idle"
<1>1. Len(SyncedNodes) = 0 /\ Len(toLoad) \in Nat
  BY DEF OneHandler, TypeOK
<1>2. Len(toLoad) = 0 /\ pc[Loader] = "idle"
  BY <1>1 DEF Serving
<1>3. toLoad = <<>>
  BY <1>2 DEF TypeOK
<1> QED BY <1>2, <1>3, OneServes DEF Alone

\* A process in the ring moves itself and nobody else.
LEMMA BusyStep ==
  ASSUME TypeOK, NEW p \in Procs, Lock(p) \/ Continue(p)
  PROVE  /\ pc[p] # "idle" /\ toLoad' = toLoad
         /\ \A q \in Procs : q # p => pc'[q] = pc[q]
<1> USE DEF TypeOK, Goto
<1>1. CASE Lock(p)
  BY <1>1 DEF Lock, AddLock, RmLock
<1>2. CASE AddStore(p) \/ AddPut(p)
  BY <1>2 DEF AddStore, AddPut
<1>3. CASE RmIndex(p) \/ RmDelete(p)
  BY <1>3 DEF RmIndex, RmDelete
<1>4. CASE RmCut(p) \/ RmPanic(p)
  BY <1>4 DEF RmCut, RmPanic
<1>5. CASE LookupNode(p)
  BY <1>5 DEF LookupNode
<1> QED BY <1>1, <1>2, <1>3, <1>4, <1>5 DEF Continue

\* A request served starts an add, a removal or a lookup, or ends the process.
LEMMA RequestStep ==
  ASSUME TypeOK, OneHandler, Alone, NEW p \in scenario.handlers, Request(p)
  PROVE  /\ p \in Procs /\ UNCHANGED <<mu, ids, nodes, toLoad, index>>
         /\ \/ UNCHANGED <<pc, id>>
            \/ /\ toLoad = <<>> /\ \A q \in Procs : pc[q] = "idle"
               /\ \E label \in {"addLock", "rmIndex", "lookup"} :
                    pc' = [pc EXCEPT ![p] = label]
<1>1. p \in Procs
  BY ServingHandlers DEF Procs
<1>2. CASE FatalMapRace(p)
  BY <1>1, <1>2 DEF FatalMapRace
<1>3. ASSUME NEW name \in NewNames, AnnounceNewNode(p, name)
      PROVE  /\ Serving /\ pc[p] = "idle" /\ pc' = [pc EXCEPT ![p] = "addLock"]
             /\ UNCHANGED <<mu, ids, nodes, toLoad, index>>
  BY <1>3 DEF AnnounceNewNode, Goto
<1>4. ASSUME NEW name \in RemovedNames, AnnounceRemoveNode(p, name)
      PROVE  /\ Serving /\ pc[p] = "idle" /\ pc' = [pc EXCEPT ![p] = "rmIndex"]
             /\ UNCHANGED <<mu, ids, nodes, toLoad, index>>
  BY <1>4 DEF AnnounceRemoveNode, Goto
<1>5. ASSUME NEW key \in Keys, LookupId(p, key)
      PROVE  /\ Serving /\ pc[p] = "idle" /\ pc' = [pc EXCEPT ![p] = "lookup"]
             /\ UNCHANGED <<mu, ids, nodes, toLoad, index>>
  BY <1>5 DEF LookupId, Goto
<1>6. Serving /\ pc[p] = "idle" => toLoad = <<>> /\ \A q \in Procs : pc[q] = "idle"
  BY ServedAlone
<1> QED BY <1>1, <1>2, <1>3, <1>4, <1>5, <1>6 DEF Request

\* The loader starts an add when nobody is in the ring.
LEMMA LoadStep ==
  ASSUME TypeOK, Alone, Load
  PROVE  /\ UNCHANGED <<mu, ids, nodes, index>>
         /\ \A q \in Procs : pc[q] = "idle"
         /\ UNCHANGED <<pc, toLoad>> \/ pc' = [pc EXCEPT ![Loader] = "addLock"]
<1>1. pc[Loader] = "idle" /\ toLoad # <<>>
  BY DEF Load, LoadNext, LoadFails
<1>2. \A q \in Procs : pc[q] = "idle"
  BY <1>1 DEF Alone
<1> QED BY <1>2 DEF Load, LoadNext, LoadFails, Goto

LEMMA AloneStep ==
  ASSUME TypeOK, OneHandler, Alone, [Next]_vars
  PROVE  Alone'
<1>0. scenario' = scenario
  BY GivenStays
<1> SUFFICES ASSUME NEW q \in Procs, pc'[q] # "idle"
             PROVE  q = Loader \/ (q \in scenario.handlers /\ toLoad' = <<>> /\ pc'[Loader] = "idle")
  BY <1>0 DEF Alone
<1>1. CASE Load
  <2>1. UNCHANGED <<pc, toLoad>> \/ pc' = [pc EXCEPT ![Loader] = "addLock"]
    BY <1>1, LoadStep
  <2>2. \A r \in Procs : pc[r] = "idle"
    BY <1>1, LoadStep
  <2> QED BY <2>1, <2>2, ProcFacts DEF TypeOK
<1>2. ASSUME NEW p \in Procs, Lock(p) \/ Continue(p)
      PROVE  q = Loader \/ (q \in scenario.handlers /\ toLoad' = <<>> /\ pc'[Loader] = "idle")
  <2>1. /\ pc[p] # "idle" /\ toLoad' = toLoad
        /\ \A r \in Procs : r # p => pc'[r] = pc[r] /\ pc[r] = "idle"
    BY <1>2, BusyStep, OthersIdle
  <2>2. q = p
    BY <2>1
  <2> QED BY <2>1, <2>2, ProcFacts DEF Alone
<1>3. ASSUME NEW p \in scenario.handlers, Request(p)
      PROVE  q = Loader \/ (q \in scenario.handlers /\ toLoad' = <<>> /\ pc'[Loader] = "idle")
  <2>1. p \in Procs /\ toLoad' = toLoad /\ p # Loader
    BY <1>3, RequestStep, ServingHandlers, ProcsAssumption
  <2>2. CASE UNCHANGED <<pc, id>>
    BY <2>1, <2>2 DEF Alone
  <2>3. CASE /\ toLoad = <<>> /\ \A r \in Procs : pc[r] = "idle"
             /\ \E label \in {"addLock", "rmIndex", "lookup"} : pc' = [pc EXCEPT ![p] = label]
    BY <2>1, <2>3, ProcFacts DEF TypeOK
  <2> QED BY <1>3, <2>2, <2>3, RequestStep
<1>4. CASE UNCHANGED vars
  BY <1>4 DEF vars, state, Alone
<1> QED BY <1>1, <1>2, <1>3, <1>4 DEF Next

-----------------------------------------------------------------------------
(* Where the ids in the map come from *)

LEMMA OriginInit == Init => Origin
<1> SUFFICES ASSUME Init PROVE Origin
  OBVIOUS
<1>1. ConfigNodes \in Seq(Strings) /\ SyncedNodes \in Seq(Strings) /\ toLoad = ConfigNodes \o SyncedNodes
  BY GivenTyped DEF Init
<1>2. ASSUME NEW k \in 1 .. Len(toLoad) PROVE toLoad[k] \in Given
  <2>1. CASE k <= Len(ConfigNodes)
    <3>1. toLoad[k] = ConfigNodes[k] /\ k \in 1 .. Len(ConfigNodes)
      BY <1>1, <2>1
    <3> QED BY <3>1 DEF Given, Elements
  <2>2. CASE ~ (k <= Len(ConfigNodes))
    <3> DEFINE i == k - Len(ConfigNodes)
    <3>1. toLoad[k] = SyncedNodes[i] /\ i \in 1 .. Len(SyncedNodes)
      BY <1>1, <2>2
    <3> HIDE DEF i
    <3> QED BY <3>1 DEF Given, Elements
  <2> QED BY <2>1, <2>2
<1>3. Elements(toLoad) \subseteq Given
  BY <1>2 DEF Elements
<1> QED BY <1>3 DEF Init, Origin

LEMMA OriginStep ==
  ASSUME TypeOK, Origin, [Next]_vars
  PROVE  Origin'
<1>0. Given' = Given /\ GivenIds' = GivenIds
  <2>1. scenario' = scenario
    BY GivenStays
  <2> QED BY <2>1 DEF Given, GivenIds, NewNames, ConfigNodes, SyncedNodes
<1> USE <1>0
<1> USE DEF Goto
<1>1. ASSUME nodes' \subseteq GivenIds, toLoad' = toLoad,
             \A q \in Procs : pc'[q] \in {"addLock", "addStore", "addPut"} =>
               id'[q] \in GivenIds
      PROVE  Origin'
  BY <1>1 DEF Origin
<1>2. CASE LoadNext
  <2>1. toLoad \in Seq(Strings) /\ toLoad # <<>>
    BY <1>2 DEF LoadNext, TypeOK
  <2>2. Head(toLoad) \in Elements(toLoad) /\ Elements(Tail(toLoad)) \subseteq Elements(toLoad)
    <3>1. Head(toLoad) = toLoad[1] /\ 1 \in 1 .. Len(toLoad)
      BY <2>1
    <3>2. Len(Tail(toLoad)) = Len(toLoad) - 1 /\ Len(toLoad) \in Nat
      BY <2>1
    <3>3. ASSUME NEW k \in 1 .. Len(Tail(toLoad))
          PROVE  Tail(toLoad)[k] = toLoad[k + 1] /\ k + 1 \in 1 .. Len(toLoad)
      BY <2>1, <3>2
    <3> QED BY <3>1, <3>3 DEF Elements
  <2>3. HashKey[Resolve[Head(toLoad)]] \in GivenIds
    BY <2>2 DEF Origin, GivenIds
  <2>4. Elements(toLoad') \subseteq Given /\ nodes' = nodes
    BY <1>2, <2>2 DEF LoadNext, Origin
  <2>5. \A q \in Procs : pc'[q] \in {"addLock", "addStore", "addPut"} => id'[q] \in GivenIds
    BY <1>2, <2>3 DEF LoadNext, Origin, TypeOK
  <2> QED BY <2>4, <2>5 DEF Origin
<1>3. CASE LoadFails
  BY <1>1, <1>3 DEF LoadFails, Origin
<1>4. ASSUME NEW p \in Procs, Lock(p) PROVE Origin'
  BY <1>1, <1>4 DEF Lock, AddLock, RmLock, Origin, TypeOK
<1>5. ASSUME NEW p \in Procs, AddStore(p) PROVE Origin'
  BY <1>1, <1>5 DEF AddStore, Origin, TypeOK
<1>6. ASSUME NEW p \in Procs, AddPut(p) PROVE Origin'
  BY <1>1, <1>6 DEF AddPut, Origin, TypeOK
<1>7. ASSUME NEW p \in Procs, RmIndex(p) \/ RmDelete(p) PROVE Origin'
  BY <1>1, <1>7 DEF RmIndex, RmDelete, Origin, TypeOK
<1>8. ASSUME NEW p \in Procs, RmCut(p) \/ RmPanic(p) \/ LookupNode(p) PROVE Origin'
  BY <1>1, <1>8 DEF RmCut, RmPanic, LookupNode, Origin, TypeOK
<1>9. ASSUME NEW p \in Handlers, NEW name \in NewNames, AnnounceNewNode(p, name) PROVE Origin'
  <2>1. p \in Procs /\ HashKey[Resolve[name]] \in GivenIds
    BY DEF Procs, GivenIds, Given
  <2> QED BY <1>1, <1>9, <2>1 DEF AnnounceNewNode, Origin, TypeOK
<1>10. ASSUME NEW p \in Handlers, NEW name \in RemovedNames, AnnounceRemoveNode(p, name)
       PROVE  Origin'
  BY <1>1, <1>10 DEF AnnounceRemoveNode, Origin, TypeOK, Procs
<1>11. ASSUME NEW p \in Handlers, NEW key \in Keys, LookupId(p, key) PROVE Origin'
  BY <1>1, <1>11 DEF LookupId, Origin, TypeOK, Procs
<1>12. ASSUME NEW p \in Handlers, FatalMapRace(p) PROVE Origin'
  BY <1>1, <1>12 DEF FatalMapRace, Origin
<1>13. CASE UNCHANGED vars
  BY <1>1, <1>13 DEF vars, state, Origin
<1> QED
  BY ServingHandlers, <1>2, <1>3, <1>4, <1>5, <1>6, <1>7, <1>8, <1>9, <1>10, <1>11, <1>12, <1>13
  DEF Next, Load, Continue, Request

-----------------------------------------------------------------------------
(* What a removal has established, and what it will find to cut *)

\* The node a request names is the node RemoveNode removes.
LEMMA RemovedIsListed ==
  ASSUME TypeOK, Origin, NEW name \in RemovedNames,
         HashKey[name] \in nodes, Resolve[name] # NilAddr
  PROVE  HashKey[Resolve[name]] \in nodes
<1>1. PICK given \in Given : HashKey[name] = HashKey[Resolve[given]]
  BY DEF Origin, GivenIds
<1>2. HashKey[Resolve[name]] = HashKey[name]
  BY <1>1, AddressAssumption DEF TypeOK, Given, NewNames, ConfigNodes, SyncedNodes, RemovedNames
<1> QED BY <1>2

LEMMA FreshStep ==
  ASSUME TypeOK, IdTyped, Origin, OneHandler, Alone, Fresh, [Next]_vars
  PROVE  Fresh'
<1> USE DEF Goto
<1>1. ASSUME NEW q \in Procs, \A r \in Procs : r # q => pc'[r] = "idle",
             pc'[q] \in {"rmIndex", "rmLock", "rmDelete"} => id'[q] \in nodes',
             pc'[q] \in {"rmLock", "rmDelete", "rmCut"} =>
               id'[q] \in Ids /\ index'[q] = IndexFor(ids', id'[q])
      PROVE  Fresh'
  BY <1>1 DEF Fresh
<1>2. CASE Load
  <2>1. /\ \A q \in Procs : pc[q] = "idle"
        /\ UNCHANGED <<pc, toLoad>> \/ pc' = [pc EXCEPT ![Loader] = "addLock"]
    BY <1>2, LoadStep
  <2> QED BY <2>1, ProcFacts DEF Fresh, TypeOK
<1>3. ASSUME NEW p \in Procs, Lock(p) \/ Continue(p) PROVE Fresh'
  <2>1. \A q \in Procs : q # p => pc[q] = "idle" /\ pc'[q] = "idle"
    BY <1>3, BusyStep, OthersIdle
  <2>2. CASE AddLock(p) \/ AddStore(p)
    BY <1>1, <2>1, <2>2 DEF AddLock, AddStore, TypeOK
  <2>3. CASE AddPut(p) \/ LookupNode(p)
    BY <1>1, <2>1, <2>3 DEF AddPut, LookupNode, TypeOK
  <2>4. CASE RmIndex(p)
    <3>1. \A q \in Procs : pc[q] \notin {"addStore", "rmCut"}
      BY <2>1, <2>4 DEF RmIndex
    <3>2. VisibleIds = {ids}
      BY <3>1 DEF VisibleIds
    <3>3. index'[p] = IndexFor(ids, id[p])
      BY <2>4, <3>2 DEF RmIndex, TypeOK
    <3>4. id[p] \in nodes /\ id[p] \in Ids /\ UNCHANGED <<ids, nodes, id>>
      BY <2>4 DEF RmIndex, Fresh, IdTyped
    <3> QED BY <1>1, <2>1, <3>3, <3>4
  <2>5. CASE RmLock(p)
    BY <1>1, <2>1, <2>5 DEF RmLock, Fresh, TypeOK
  <2>6. CASE RmDelete(p)
    BY <1>1, <2>1, <2>6 DEF RmDelete, Fresh, TypeOK
  <2>7. CASE RmCut(p) \/ RmPanic(p)
    BY <1>1, <2>1, <2>7 DEF RmCut, RmPanic, TypeOK
  <2> QED BY <1>3, <2>2, <2>3, <2>4, <2>5, <2>6, <2>7 DEF Lock, Continue
<1>4. ASSUME NEW p \in scenario.handlers, Request(p) PROVE Fresh'
  <2>1. /\ p \in Procs /\ UNCHANGED <<ids, nodes, index>>
        /\ \/ UNCHANGED <<pc, id>>
           \/ \A q \in Procs : pc[q] = "idle"
    BY <1>4, RequestStep
  <2>2. CASE UNCHANGED <<pc, id>>
    BY <2>1, <2>2 DEF Fresh
  <2>3. ASSUME \A q \in Procs : pc[q] = "idle",
               NEW label, pc' = [pc EXCEPT ![p] = label], label \notin {"rmLock", "rmDelete", "rmCut"},
               label = "rmIndex" => id'[p] \in nodes
        PROVE  Fresh'
    BY <1>1, <2>1, <2>3 DEF TypeOK
  <2>4. ASSUME NEW name \in NewNames, AnnounceNewNode(p, name),
               \A q \in Procs : pc[q] = "idle"
        PROVE  Fresh'
    BY <2>3, <2>4 DEF AnnounceNewNode
  <2>5. ASSUME NEW name \in RemovedNames, AnnounceRemoveNode(p, name),
               \A q \in Procs : pc[q] = "idle"
        PROVE  Fresh'
    <3>1. HashKey[Resolve[name]] \in nodes
      BY <2>5, RemovedIsListed DEF AnnounceRemoveNode
    <3>2. id'[p] = HashKey[Resolve[name]]
      BY <2>1, <2>5 DEF AnnounceRemoveNode, TypeOK
    <3> QED BY <2>3, <2>5, <3>1, <3>2 DEF AnnounceRemoveNode
  <2>6. ASSUME NEW key \in Keys, LookupId(p, key), \A q \in Procs : pc[q] = "idle"
        PROVE  Fresh'
    BY <2>3, <2>6 DEF LookupId
  <2>7. CASE FatalMapRace(p)
    BY <2>2, <2>7 DEF FatalMapRace
  <2> QED BY <1>4, <2>1, <2>2, <2>4, <2>5, <2>6, <2>7 DEF Request
<1>5. CASE UNCHANGED vars
  BY <1>5 DEF vars, state, Fresh
<1> QED BY <1>2, <1>3, <1>4, <1>5 DEF Next

LEMMA BalancedStep ==
  ASSUME TypeOK, IdTyped, InsertBuilt, OneHandler, Alone, Fresh, Balanced, [Next]_vars
  PROVE  Balanced'
<1> USE DEF Goto
<1>0. Len(ids) \in Nat /\ IsFiniteSet(nodes) /\ Cardinality(nodes) \in Nat
      /\ Cardinality(nodes) <= Len(ids)
  BY FS_CardinalityType DEF TypeOK, Balanced
<1>1. ASSUME UNCHANGED ring, \A q \in Procs : pc'[q] \in {"addPut", "rmCut"} => pc'[q] = pc[q]
      PROVE  Balanced'
  BY <1>1 DEF Balanced, ring
<1>2. ASSUME NEW p \in Procs, \A q \in Procs : q # p => pc'[q] = "idle",
             IsFiniteSet(nodes'), Cardinality(nodes') <= Len(ids'),
             pc'[p] \in {"addPut", "rmCut"} => Cardinality(nodes') < Len(ids')
      PROVE  Balanced'
  BY <1>2 DEF Balanced
<1>3. CASE Load
  <2>1. /\ UNCHANGED <<ids, nodes>>
        /\ UNCHANGED <<pc, toLoad>> \/ pc' = [pc EXCEPT ![Loader] = "addLock"]
    BY <1>3, LoadStep
  <2> QED BY <1>1, <2>1, ProcFacts DEF TypeOK, ring
<1>4. ASSUME NEW p \in Procs, Lock(p) \/ Continue(p) PROVE Balanced'
  <2>1. \A q \in Procs : q # p => pc'[q] = "idle"
    BY <1>4, BusyStep, OthersIdle
  <2>2. CASE Lock(p) \/ RmIndex(p) \/ RmPanic(p) \/ LookupNode(p)
    BY <1>1, <2>2 DEF Lock, AddLock, RmLock, RmIndex, RmPanic, LookupNode, TypeOK, ring
  <2>3. CASE AddStore(p)
    <3>1. p \in Adding
      BY <2>3 DEF AddStore, Adding
    <3>2. Cardinality(Adding) # 0
      BY <3>1, AddingFinite, FS_EmptySet
    <3>3. Len(ids) < MaxIds
      BY <3>2, AddingFinite, GivenTyped DEF TypeOK
    <3>4. Len(ids') = Len(ids) + 1
      BY <2>3, <3>3, InsertIdFacts DEF AddStore, InsertBuilt, IdTyped, TypeOK
    <3> QED BY <1>0, <1>2, <2>1, <2>3, <3>4 DEF AddStore
  <2>4. CASE AddPut(p)
    <3>1. IsFiniteSet(nodes') /\ Cardinality(nodes') <= Cardinality(nodes) + 1
      BY <1>0, <2>4, FS_AddElement DEF AddPut
    <3>2. Cardinality(nodes) < Len(ids) /\ Cardinality(nodes') \in Nat
      BY <2>4, <3>1, FS_CardinalityType DEF AddPut, Balanced
    <3> QED BY <1>0, <1>2, <2>1, <2>4, <3>1, <3>2 DEF AddPut, TypeOK
  <2>5. CASE RmDelete(p)
    <3>1. id[p] \in nodes
      BY <2>5 DEF RmDelete, Fresh
    <3>2. IsFiniteSet(nodes') /\ Cardinality(nodes') = Cardinality(nodes) - 1
      BY <1>0, <2>5, <3>1, FS_RemoveElement DEF RmDelete
    <3> QED BY <1>0, <1>2, <2>1, <2>5, <3>2 DEF RmDelete
  <2>6. CASE RmCut(p)
    <3>1. Len(ids') = Len(ids) - 1
      BY <2>6, CutAtFacts DEF RmCut, TypeOK
    <3>2. Cardinality(nodes) < Len(ids)
      BY <2>6 DEF RmCut, Balanced
    <3>3. nodes' = nodes /\ pc'[p] = "idle"
      BY <2>6 DEF RmCut, TypeOK
    <3>4. IsFiniteSet(nodes') /\ Cardinality(nodes') <= Len(ids')
      BY <1>0, <3>1, <3>2, <3>3
    <3> QED BY <1>2, <2>1, <3>3, <3>4
  <2> QED BY <1>4, <2>2, <2>3, <2>4, <2>5, <2>6 DEF Continue
<1>5. ASSUME NEW p \in scenario.handlers, Request(p) PROVE Balanced'
  <2>1. /\ p \in Procs /\ UNCHANGED <<ids, nodes>>
        /\ \/ UNCHANGED <<pc, id>>
           \/ \E label \in {"addLock", "rmIndex", "lookup"} : pc' = [pc EXCEPT ![p] = label]
    BY <1>5, RequestStep
  <2> QED BY <1>1, <2>1 DEF TypeOK, ring
<1>6. CASE UNCHANGED vars
  BY <1>1, <1>6 DEF vars, state, ring
<1> QED BY <1>3, <1>4, <1>5, <1>6 DEF Next

\* A removal always finds its index in the slice.
LEMMA CutInBounds ==
  ASSUME TypeOK, Fresh, Balanced, NEW p \in Procs, pc[p] = "rmCut"
  PROVE  index[p] < Len(ids)
<1>1. id[p] \in Ids /\ index[p] = IndexFor(ids, id[p]) /\ Cardinality(nodes) < Len(ids)
  BY DEF Fresh, Balanced
<1>2. Len(ids) \in Nat /\ Cardinality(nodes) \in Nat /\ ids \in Seq(Ids) /\ scenario \in Scenarios
  BY FS_CardinalityType DEF TypeOK, Balanced
<1>3. Len(ids) > 0 /\ Len(ids) <= MaxIds
  BY <1>1, <1>2, AddingFinite, GivenTyped DEF TypeOK
<1> QED BY <1>1, <1>2, <1>3, FindIndexRange

LEMMA MutexReleasedStep ==
  ASSUME TypeOK, LockDiscipline, OneHandler, Alone, Fresh, Balanced, MutexReleased, [Next]_vars
  PROVE  MutexReleased'
<1> USE DEF TypeOK, Critical, Goto
<1>1. ASSUME mu' = mu, \A q \in Procs : Critical(q) => pc'[q] = pc[q]
      PROVE  MutexReleased'
  BY <1>1 DEF MutexReleased
<1>2. CASE Load
  <2>1. /\ mu' = mu /\ \A q \in Procs : pc[q] = "idle"
    BY <1>2, LoadStep
  <2> QED BY <1>1, <2>1
<1>3. ASSUME NEW p \in Procs, Lock(p) PROVE MutexReleased'
  BY <1>3, ProcFacts DEF Lock, AddLock, RmLock, MutexReleased
<1>4. ASSUME NEW p \in Procs, Continue(p) PROVE MutexReleased'
  <2>1. CASE AddStore(p)
    BY <2>1 DEF AddStore, MutexReleased
  <2>2. CASE RmDelete(p)
    BY <2>2 DEF RmDelete, MutexReleased
  <2>3. CASE AddPut(p) \/ RmCut(p)
    BY <2>3 DEF AddPut, RmCut, MutexReleased
  <2>4. CASE RmIndex(p)
    BY <1>1, <2>4 DEF RmIndex
  <2>5. CASE LookupNode(p)
    BY <1>1, <2>5 DEF LookupNode
  <2>6. ~ RmPanic(p)
    <3>1. pc[p] = "rmCut" => ~ (index[p] >= Len(ids))
      <4>1. pc[p] = "rmCut" => index[p] < Len(ids)
        BY CutInBounds
      <4>2. index[p] \in Nat /\ Len(ids) \in Nat
        OBVIOUS
      <4> QED BY <4>1, <4>2
    <3> QED BY <3>1 DEF RmPanic
  <2> QED BY <1>4, <2>1, <2>2, <2>3, <2>4, <2>5, <2>6 DEF Continue
<1>5. ASSUME NEW p \in scenario.handlers, Request(p) PROVE MutexReleased'
  <2>1. /\ p \in Procs /\ mu' = mu
        /\ \/ UNCHANGED <<pc, id>>
           \/ \A q \in Procs : pc[q] = "idle"
    BY <1>5, RequestStep
  <2> QED BY <1>1, <2>1
<1>6. CASE UNCHANGED vars
  BY <1>1, <1>6 DEF vars, state
<1> QED BY <1>2, <1>3, <1>4, <1>5, <1>6 DEF Next

SInv == IInv /\ Origin /\ Serial

LEMMA SerialHolds == Spec => []SInv
<1>1. Init => Origin /\ Serial
  <2>1. Init => Origin
    BY OriginInit
  <2>2. Init => Alone /\ Fresh /\ MutexReleased
    BY DEF Init, Alone, Fresh, MutexReleased
  <2>3. Init => Balanced
    <3>1. IsFiniteSet({}) /\ Cardinality({}) = 0 /\ Len(<<>>) = 0
      BY FS_EmptySet
    <3> QED BY <3>1 DEF Init, Balanced
  <2> QED BY <2>1, <2>2, <2>3 DEF Serial
<1>2. IInv /\ Origin /\ Serial /\ [Next]_vars => Origin' /\ Serial'
  <2>1. [Next]_vars => (OneHandler' <=> OneHandler)
    BY GivenStays DEF OneHandler, SyncedNodes
  <2> QED
    BY <2>1, OriginStep, AloneStep, FreshStep, BalancedStep, MutexReleasedStep DEF IInv, Serial
<1>3. Spec => [](Origin /\ Serial)
  BY <1>1, <1>2, InvariantHolds, PTL DEF Spec
<1> QED BY <1>3, InvariantHolds, PTL DEF SInv

\* One request at a time, whatever has been added, removed and added again under
\* an alias: every removal finds its index inside the slice, so none panics with
\* the mutex locked (dht.go:51-65).
THEOREM NoLeakAloneHolds == Spec => []NoLeakAlone
<1>1. SInv => NoLeakAlone
  BY DEF SInv, Serial, NoLeakAlone
<1> QED BY <1>1, SerialHolds, PTL

-----------------------------------------------------------------------------
(* What a removal cuts *)

\* The elements that remain when the one at index k - 1 is cut.
LEMMA CutElements ==
  ASSUME NEW arr \in Seq(Ids), Ascending(arr), NEW k \in 1 .. Len(arr)
  PROVE  Elements(CutAt(arr, k - 1)) = Elements(arr) \ {arr[k]}
<1> DEFINE n == Len(arr)
           front == SubSeq(arr, 1, k - 1)
           back == SubSeq(arr, k + 1, n)
           new == front \o back
<1>1. n \in Nat /\ k \in Nat /\ 1 <= k /\ k <= n /\ (k - 1) + 2 = k + 1
  OBVIOUS
<1>2. CutAt(arr, k - 1) = new
  BY <1>1 DEF CutAt
<1>3. /\ front \in Seq(Ids) /\ Len(front) = k - 1
      /\ \A i \in 1 .. k - 1 : front[i] = arr[i]
  BY <1>1, SubSeqFacts
<1>4. /\ back \in Seq(Ids) /\ Len(back) = n - k
      /\ \A i \in 1 .. n - k : back[i] = arr[k + i]
  BY <1>1, SubSeqFacts
<1> HIDE DEF front, back
<1>5. /\ Len(new) = n - 1
      /\ \A i \in 1 .. k - 1 : new[i] = front[i]
      /\ \A i \in 1 .. n - k : new[k - 1 + i] = back[i]
  <2>1. /\ Len(new) = Len(front) + Len(back)
        /\ \A i \in 1 .. Len(front) : new[i] = front[i]
        /\ \A i \in 1 .. Len(back) : new[Len(front) + i] = back[i]
    BY <1>3, <1>4, ConcatFacts
  <2> QED BY <1>1, <1>3, <1>4, <2>1
<1> HIDE DEF new
<1>6. \A i \in 1 .. n : i # k => arr[i] # arr[k]
  <2> SUFFICES ASSUME NEW i \in 1 .. n, i # k PROVE arr[i] # arr[k]
    OBVIOUS
  <2>1. arr[i] \in Int /\ arr[k] \in Int
    <3>1. arr[i] \in Ids /\ arr[k] \in Ids
      OBVIOUS
    <3> QED BY <3>1, StringsAssumption
  <2>2. i < k \/ k < i
    BY <1>1
  <2> QED BY <2>1, <2>2 DEF Ascending
<1>7. ASSUME NEW i \in 1 .. n - 1 PROVE new[i] \in Elements(arr) \ {arr[k]}
  <2>1. CASE i < k
    <3>1. i \in 1 .. k - 1 /\ i \in 1 .. n /\ i # k
      BY <1>1, <2>1
    <3>2. new[i] = arr[i]
      BY <1>3, <1>5, <3>1
    <3> QED BY <1>6, <3>1, <3>2 DEF Elements
  <2>2. CASE ~ (i < k)
    <3> DEFINE d == (i - k) + 1
    <3>0. d \in 1 .. n - k /\ k - 1 + d = i /\ k + d = i + 1
      BY <1>1, <2>2
    <3>1. i + 1 \in 1 .. n /\ i + 1 # k
      BY <1>1, <2>2
    <3> HIDE DEF d
    <3>3. new[k - 1 + d] = arr[k + d]
      BY <1>4, <1>5, <3>0
    <3>2. new[i] = arr[i + 1]
      BY <3>0, <3>3
    <3> QED BY <1>6, <3>1, <3>2 DEF Elements
  <2> QED BY <2>1, <2>2
<1>8. ASSUME NEW i \in 1 .. n, i # k PROVE arr[i] \in Elements(new)
  <2>1. CASE i < k
    <3>1. i \in 1 .. k - 1 /\ i \in 1 .. n - 1
      BY <1>1, <2>1
    <3>2. new[i] = arr[i]
      BY <1>3, <1>5, <3>1
    <3> QED BY <1>5, <3>1, <3>2 DEF Elements
  <2>2. CASE ~ (i < k)
    <3>1. i - k \in 1 .. n - k /\ k - 1 + (i - k) = i - 1 /\ k + (i - k) = i
          /\ i - 1 \in 1 .. n - 1
      BY <1>1, <1>8, <2>2
    <3>2. new[i - 1] = arr[i]
      BY <1>4, <1>5, <3>1
    <3> QED BY <1>5, <3>1, <3>2 DEF Elements
  <2> QED BY <2>1, <2>2
<1>9. Elements(new) \subseteq Elements(arr) \ {arr[k]}
  BY <1>5, <1>7 DEF Elements
<1>10. Elements(arr) \ {arr[k]} \subseteq Elements(new)
  BY <1>8 DEF Elements
<1> QED BY <1>2, <1>9, <1>10

\* One request at a time, and at most four ids in order: RemoveNode cuts the id
\* of the node it has taken out of the map, and no other (dht.go:51-65, 103-141).
THEOREM RemovalExactHolds == Spec => RemovalExact
<1> DEFINE Exact == \A p \in Procs :
                      /\ OneHandler
                      /\ pc[p] = "rmCut" /\ pc'[p] = "idle"
                      /\ Sorted /\ Len(ids) <= 4 /\ id[p] \in IdSet
                      => IdSet' = IdSet \ {id[p]}
<1>1. SInv /\ [Next]_vars => [Exact]_vars
  <2> SUFFICES ASSUME SInv, [Next]_vars, NEW p \in Procs, OneHandler,
                      pc[p] = "rmCut", pc'[p] = "idle",
                      Sorted, Len(ids) <= 4, id[p] \in IdSet
               PROVE  IdSet' = IdSet \ {id[p]}
    OBVIOUS
  <2>1. TypeOK /\ Alone /\ Fresh /\ Balanced
    BY DEF SInv, IInv, Serial
  <2>2. RmCut(p)
    <3>1. CASE Load
      BY <2>1, <3>1, LoadStep
    <3>2. ASSUME NEW q \in Procs, Lock(q) \/ Continue(q) PROVE RmCut(p)
      <4>1. q = p
        BY <2>1, <3>2, BusyStep, OthersIdle
      <4>2. index[p] < Len(ids) /\ index[p] \in Nat /\ Len(ids) \in Nat
        BY <2>1, CutInBounds DEF TypeOK
      <4> QED
        BY <3>2, <4>1, <4>2 DEF Lock, AddLock, RmLock, Continue, AddStore, AddPut, RmIndex,
                                RmDelete, RmPanic, LookupNode
    <3>3. ASSUME NEW q \in scenario.handlers, Request(q) PROVE FALSE
      BY <2>1, <3>3, RequestStep
    <3>4. CASE UNCHANGED vars
      BY <3>4 DEF vars, state
    <3> QED BY <3>1, <3>2, <3>3, <3>4 DEF Next
  <2>3. PICK k \in 1 .. Len(ids) : ids[k] = id[p]
    BY DEF IdSet, Elements
  <2>4. id[p] \in Ids /\ index[p] = IndexFor(ids, id[p])
    BY <2>1 DEF Fresh
  <2>5. index[p] = k - 1
    <3>1. scenario \in Scenarios /\ ids \in Seq(Ids) /\ Len(ids) <= MaxIds
      BY <2>1, AddingFinite, GivenTyped DEF TypeOK
    <3>2. Locates(ids, id[p], index[p])
      BY <2>4, <3>1, SearchContracts
    <3>3. ids # <<>>
      BY <3>1
    <3> QED BY <2>3, <3>2, <3>3 DEF Locates, Sorted
  <2>6. ids' = CutAt(ids, k - 1)
    BY <2>2, <2>5 DEF RmCut
  <2> QED BY <2>1, <2>3, <2>6, CutElements DEF IdSet, Sorted, TypeOK
<1> HIDE DEF Exact
<1>2. Spec => [][Exact]_vars
  BY <1>1, SerialHolds, PTL DEF Spec
<1> QED BY <1>2 DEF RemovalExact, Exact
=============================================================================
