-------------------------- MODULE HealthCheckProofs --------------------------
(***************************************************************************)
(* Of HealthCheck: types, that a round that ends has asked every node that *)
(* was there all along, and that only a join can block it.                 *)
(***************************************************************************)
EXTENDS HealthCheck, TLAPS, FiniteSetTheorems

Environment == \E a \in Addrs : AddNode(a) \/ RemoveNode(a) \/ \E s \in States[a] : PeerChange(a, s)

\* A round starts one worker at least.
LEMMA WorkerCountPositive ==
  1 \in Workers /\ \A n \in Nat : 1 <= WorkerCount(n)
<1>1. WorkerRatio \in Nat \ {0} /\ MinWorkers \in Nat \ {0} /\ MaxWorkers \in Nat /\ MinWorkers <= MaxWorkers
  BY HealthCheckAssumption
<1>2. \A n \in Nat : n \div WorkerRatio \in Int
  BY <1>1
<1> QED BY <1>1, <1>2 DEF WorkerCount, Workers

LEMMA PresentFinite ==
  IsFiniteSet(Present) /\ Cardinality(Present) \in Nat
<1>1. IsFiniteSet(Addrs) /\ Present \in SUBSET Addrs
  BY HealthCheckAssumption DEF Present
<1>2. IsFiniteSet(Present)
  BY <1>1, FS_Subset
<1> QED BY <1>2, FS_CardinalityType

-----------------------------------------------------------------------------
(* Types *)

LEMMA TypeOKInit == Init => TypeOK
<1> SUFFICES ASSUME Init PROVE TypeOK
  OBVIOUS
<1>1. Known \subseteq Addrs /\ NoNode \notin Objects /\ MaxMade \in Nat \ {0}
  BY HealthCheckAssumption
<1>2. peer \in [Addrs -> {"up", "down", "hung"}]
  BY DEF Init
<1>3. made \in [Addrs -> 0 .. MaxMade]
  BY <1>1 DEF Init
<1>4. nodes \in [Addrs -> Objects \cup {NoNode}]
  BY <1>1 DEF Init, Objects
<1>5. \A a \in Addrs : nodes[a] \in {NoNode, <<a, made[a]>>}
  BY DEF Init
<1> QED BY <1>1, <1>2, <1>3, <1>4, <1>5 DEF Init, TypeOK, Present, InRing

\* One worker at least is started, and a worker that has ended has left no job.
Working ==
  /\ pc = "wait" => worker[1] # "off"
  /\ \A w \in Workers : worker[w] = "done" => jobs = {}

LEMMA WorkersDone ==
  ASSUME Working, EndRound
  PROVE  jobs = {}
<1>1. 1 \in Workers
  BY WorkerCountPositive
<1> QED BY <1>1 DEF Working, EndRound

LEMMA DispatchTyped ==
  ASSUME TypeOK, Working, Dispatch
  PROVE  TypeOK'
<1> USE DEF TypeOK, Present, InRing
<1>0. NoNode \notin Objects /\ Cardinality(Present) \in Nat
  BY HealthCheckAssumption, PresentFinite
<1>1. ASSUME Tick PROVE TypeOK'
  BY <1>1 DEF Tick, range, ring, channels, pool
<1>2. ASSUME MakeJobs PROVE TypeOK'
  BY <1>0, <1>2 DEF MakeJobs, range, ring, pool
<1>3. ASSUME MakeResult PROVE TypeOK'
  BY <1>0, <1>3 DEF MakeResult, ring, pool
<1>4. ASSUME NEW a \in Addrs, RangeNext(a) PROVE TypeOK'
  BY <1>0, <1>4 DEF RangeNext, ring, channels, pool
<1>5. ASSUME SendJob PROVE TypeOK'
  BY <1>0, <1>5 DEF SendJob, ring, pool
<1>6. ASSUME StartWorkers PROVE TypeOK'
  BY <1>0, <1>6 DEF StartWorkers, ring, channels
<1>7. ASSUME EndRound PROVE TypeOK'
  <2>1. jobs = {}
    BY <1>7, WorkersDone
  <2>2. \A w \in Workers : job[w] = NoNode
    BY <1>0, <1>7 DEF EndRound
  <2>3. /\ pc' = "tick" /\ pc = "wait" /\ results' = 0 /\ jobsCap' = 0 /\ resultCap' = 0 /\ grown' = FALSE /\ due' = {}
        /\ UNCHANGED <<running, nodes, made, alive, peer, left, new, next, jobs, job>>
    BY <1>7 DEF EndRound, ring, range
  <2>4. worker' \in [Workers -> {"off"}]
    BY <1>7 DEF EndRound
  <2> HIDE DEF Present, InRing
  <2>5. Present' = Present /\ InRing' = InRing
    BY <2>3 DEF Present, InRing
  <2> QED BY <1>0, <2>1, <2>2, <2>3, <2>4, <2>5
<1> QED BY <1>1, <1>2, <1>3, <1>4, <1>5, <1>6, <1>7 DEF Dispatch

LEMMA WorkTyped ==
  ASSUME TypeOK, NEW w \in Workers, Work(w)
  PROVE  TypeOK'
<1> USE DEF TypeOK, Present, InRing, Goto
<1>0. NoNode \notin Objects
  BY HealthCheckAssumption
<1>1. ASSUME Answer(w) PROVE TypeOK'
  BY <1>0, <1>1 DEF Answer, ring, channels, range
<1>2. ASSUME Put(w) PROVE TypeOK'
  BY <1>0, <1>2 DEF Put, ring, range
<1>3. ASSUME Finish(w) PROVE TypeOK'
  BY <1>0, <1>3 DEF Finish, ring, range, channels
<1>4. ASSUME NEW o \in jobs, Take(w, o) PROVE TypeOK'
  BY <1>0, <1>4 DEF Take, ring, range
<1> QED BY <1>1, <1>2, <1>3, <1>4 DEF Work

LEMMA EnvironmentTyped ==
  ASSUME TypeOK, Environment
  PROVE  TypeOK'
<1> USE DEF TypeOK, Present, InRing
<1>0. NoNode \notin Objects /\ MaxMade \in Nat \ {0}
  BY HealthCheckAssumption
<1>1. ASSUME NEW a \in Addrs, AddNode(a) PROVE TypeOK'
  BY <1>0, <1>1 DEF AddNode, Objects, range, channels, pool
<1>2. ASSUME NEW a \in Addrs, RemoveNode(a) PROVE TypeOK'
  BY <1>0, <1>2 DEF RemoveNode, channels, pool
<1>3. ASSUME NEW a \in Addrs, NEW s \in States[a], PeerChange(a, s) PROVE TypeOK'
  <2>1. s \in {"up", "down", "hung"}
    BY HealthCheckAssumption
  <2> QED BY <1>3, <2>1 DEF PeerChange, ring, range, channels, pool
<1> QED BY <1>1, <1>2, <1>3 DEF Environment

LEMMA TypeOKStep ==
  ASSUME TypeOK, Working, [Next]_vars
  PROVE  TypeOK'
<1>1. ASSUME UNCHANGED vars PROVE TypeOK'
  BY <1>1 DEF TypeOK, vars, ring, channels, range, pool, Present, InRing
<1>2. ASSUME FatalMapRace PROVE TypeOK'
  <2>1. running' \in BOOLEAN /\ UNCHANGED <<ring, alive, peer, pc, range, channels, pool, grown, due>>
    BY <1>2 DEF FatalMapRace
  <2> QED BY <2>1 DEF TypeOK, ring, channels, range, pool, Present, InRing
<1> QED BY <1>1, <1>2, DispatchTyped, WorkTyped, EnvironmentTyped DEF Next, Environment

LEMMA WorkingStep ==
  ASSUME TypeOK, Working, [Next]_vars
  PROVE  Working'
<1> USE DEF TypeOK, Working
<1>1. ASSUME UNCHANGED <<pc, jobs, worker>> PROVE Working'
  BY <1>1
<1>2. ASSUME Dispatch PROVE Working'
  <2>1. ASSUME Tick \/ MakeJobs \/ MakeResult \/ SendJob \/ \E a \in Addrs : RangeNext(a)
        PROVE  Working'
    BY <2>1 DEF Tick, MakeJobs, MakeResult, SendJob, RangeNext, channels, pool
  <2>2. ASSUME StartWorkers PROVE Working'
    BY <2>2, WorkerCountPositive, PresentFinite DEF StartWorkers
  <2>3. ASSUME EndRound PROVE Working'
    BY <2>3 DEF EndRound
  <2> QED BY <1>2, <2>1, <2>2, <2>3 DEF Dispatch
<1>3. ASSUME NEW w \in Workers, Work(w) PROVE Working'
  <2>1. /\ worker[w] # "off" /\ worker' = [worker EXCEPT ![w] = worker'[w]] /\ worker'[w] # "off"
        /\ jobs' \subseteq jobs /\ pc' = pc /\ (worker'[w] = "done" => jobs = {})
    BY <1>3 DEF Work, Answer, Put, Finish, Take, Goto, channels
  <2> QED BY <2>1, WorkerCountPositive
<1>4. ASSUME Environment \/ FatalMapRace PROVE Working'
  BY <1>1, <1>4 DEF Environment, AddNode, RemoveNode, PeerChange, FatalMapRace, channels, pool
<1> QED BY <1>1, <1>2, <1>3, <1>4 DEF Next, Environment, vars, channels, pool

LEMMA TypedAndWorking == Spec => [](TypeOK /\ Working)
<1>1. Init => TypeOK /\ Working
  BY TypeOKInit DEF Init, Working
<1>2. TypeOK /\ Working /\ [Next]_vars => (TypeOK /\ Working)'
  BY TypeOKStep, WorkingStep
<1> QED BY <1>1, <1>2, PTL DEF Spec

\* Every reachable state of the health check has the types TypeOK gives: the
\* channels are empty between rounds, workers exist only while the dispatcher
\* waits for them, and only nodes of the map count as alive.
THEOREM TypeOKHolds == Spec => []TypeOK
BY TypedAndWorking, PTL

-----------------------------------------------------------------------------
(* Complete rounds *)

\* Where the nodes are that were in the ring from the tick on and have not been
\* asked: still to be ranged over, in the dispatcher's hand, in the channel, or
\* with a worker that asks.
Covered(o) ==
  \/ pc \in {"range", "send"} /\ \E a \in left : nodes[a] = o
  \/ o \in jobs
  \/ pc = "send" /\ o = next
  \/ \E w \in Workers : worker[w] = "request" /\ job[w] = o

Cover ==
  /\ pc = "tick" => due = {}
  /\ pc \in {"jobs", "result"} => due \subseteq InRing
  /\ pc \in {"range", "send", "wait"} => \A o \in due : Covered(o)

LEMMA CoverDispatch ==
  ASSUME TypeOK, Working, Cover, Dispatch
  PROVE  Cover'
<1> USE DEF TypeOK, Cover, Covered
<1>1. ASSUME Tick PROVE Cover'
  BY <1>1 DEF Tick, InRing, Present, ring
<1>2. ASSUME MakeJobs PROVE Cover'
  BY <1>2 DEF MakeJobs, InRing, Present, ring
<1>3. ASSUME MakeResult PROVE Cover'
  BY <1>3 DEF MakeResult, InRing, Present, ring
<1>4. ASSUME NEW a \in Addrs, RangeNext(a) PROVE Cover'
  BY <1>4 DEF RangeNext, ring, channels, pool
<1>5. ASSUME SendJob PROVE Cover'
  BY <1>5 DEF SendJob, ring, pool
<1>6. ASSUME StartWorkers PROVE Cover'
  <2>1. \A o \in due : o \in jobs
    BY <1>6 DEF StartWorkers
  <2> QED BY <1>6, <2>1 DEF StartWorkers, channels
<1>7. ASSUME EndRound PROVE Cover'
  BY <1>7 DEF EndRound
<1> QED BY <1>1, <1>2, <1>3, <1>4, <1>5, <1>6, <1>7 DEF Dispatch

LEMMA CoverWork ==
  ASSUME TypeOK, Cover, NEW w \in Workers, Work(w)
  PROVE  Cover'
<1> USE DEF TypeOK, Cover, Covered, Goto
<1>0. pc = "wait" /\ pc' = pc
  BY DEF Work, Answer, Put, Finish, Take, range, channels
<1>1. ASSUME Answer(w) PROVE Cover'
  BY <1>0, <1>1 DEF Answer, channels
<1>2. ASSUME Put(w) PROVE Cover'
  BY <1>0, <1>2 DEF Put
<1>3. ASSUME Finish(w) PROVE Cover'
  BY <1>0, <1>3 DEF Finish, channels
<1>4. ASSUME NEW o \in jobs, Take(w, o) PROVE Cover'
  BY <1>0, <1>4 DEF Take
<1> QED BY <1>1, <1>2, <1>3, <1>4 DEF Work

LEMMA CoverEnvironment ==
  ASSUME TypeOK, Cover, Environment
  PROVE  Cover'
<1> USE DEF TypeOK, Cover, Covered
<1>0. NoNode \notin Objects
  BY HealthCheckAssumption
<1>1. ASSUME NEW a \in Addrs, AddNode(a) PROVE Cover'
  BY <1>0, <1>1 DEF AddNode, channels, pool, InRing, Present
<1>2. ASSUME NEW a \in Addrs, RemoveNode(a) PROVE Cover'
  BY <1>0, <1>2 DEF RemoveNode, channels, pool, InRing, Present
<1>3. ASSUME NEW a \in Addrs, NEW s \in States[a], PeerChange(a, s) PROVE Cover'
  BY <1>3 DEF PeerChange, ring, range, channels, pool, InRing, Present
<1> QED BY <1>1, <1>2, <1>3 DEF Environment

LEMMA CoverStep ==
  ASSUME TypeOK, Working, Cover, [Next]_vars
  PROVE  Cover'
<1>1. ASSUME UNCHANGED <<ring, pc, range, channels, pool, due>> PROVE Cover'
  BY <1>1 DEF Cover, Covered, ring, channels, range, pool, Present, InRing
<1>2. ASSUME FatalMapRace PROVE Cover'
  BY <1>1, <1>2 DEF FatalMapRace
<1>3. ASSUME UNCHANGED vars PROVE Cover'
  BY <1>1, <1>3 DEF vars
<1> QED BY <1>2, <1>3, CoverDispatch, CoverWork, CoverEnvironment DEF Next, Environment

\* A round that ends has asked every node that was in the ring from its tick
\* until the workers started, for any number of nodes and workers.
THEOREM RoundCompleteHolds == Spec => RoundComplete
<1>1. Init => Cover
  BY DEF Init, Cover
<1>2. TypeOK /\ Working /\ Cover /\ [Next]_vars => Cover'
  BY CoverStep
<1>3. TypeOK /\ Working /\ Cover /\ [Next]_vars => [pc = "wait" /\ pc' = "tick" => due = {}]_vars
  <2> SUFFICES ASSUME TypeOK, Working, Cover, Next, pc = "wait", pc' = "tick" PROVE due = {}
    BY DEF vars
  <2>1. EndRound
    <3>1. ~FatalMapRace
      BY DEF FatalMapRace
    <3>2. ~Environment
      BY DEF Environment, AddNode, RemoveNode, PeerChange
    <3>3. \A w \in Workers : ~Work(w)
      BY DEF Work, Answer, Put, Finish, Take
    <3>4. Dispatch
      BY <3>1, <3>2, <3>3 DEF Next, Environment
    <3> QED BY <3>4 DEF Dispatch, Tick, MakeJobs, MakeResult, SendJob, RangeNext, StartWorkers
  <2>2. jobs = {}
    BY <2>1, WorkersDone
  <2>3. \A o \in due : FALSE
    BY <2>1, <2>2 DEF EndRound, Cover, Covered
  <2> QED BY <2>3
<1> QED BY <1>1, <1>2, <1>3, TypedAndWorking, PTL DEF Spec, RoundComplete

-----------------------------------------------------------------------------
(* Room in the channels *)

Busy == {w \in Workers : worker[w] \in {"request", "put"}}

InHand == IF pc = "send" THEN 1 ELSE 0

\* Unless an address has joined since the sizing: what may still be put into a
\* channel fits.
Room ==
  grown = FALSE =>
    /\ pc = "result" => Cardinality(Present) <= jobsCap
    /\ pc \in {"range", "send"} =>
         /\ new = {}
         /\ Cardinality(jobs) + Cardinality(left) + InHand <= jobsCap
         /\ Cardinality(jobs) + Cardinality(left) + InHand <= resultCap
    /\ pc = "wait" => results + Cardinality(jobs) + Cardinality(Busy) <= resultCap

LEMMA ChannelsFinite ==
  ASSUME TypeOK
  PROVE  /\ IsFiniteSet(jobs) /\ Cardinality(jobs) \in Nat
         /\ IsFiniteSet(left) /\ Cardinality(left) \in Nat
         /\ IsFiniteSet(Busy) /\ Cardinality(Busy) \in Nat
<1>1. IsFiniteSet(1 .. MaxMade) /\ IsFiniteSet(Addrs) /\ IsFiniteSet(Workers)
  BY HealthCheckAssumption, FS_Interval DEF Workers
<1>2. IsFiniteSet(Objects)
  BY <1>1, FS_Product DEF Objects
<1>3. IsFiniteSet(jobs) /\ IsFiniteSet(left) /\ IsFiniteSet(Busy)
  <2>1. jobs \in SUBSET Objects /\ left \in SUBSET Addrs /\ Busy \in SUBSET Workers
    BY DEF TypeOK, Present, Busy
  <2> QED BY <1>1, <1>2, <2>1, FS_Subset
<1> QED BY <1>3, FS_CardinalityType

LEMMA RoomDispatch ==
  ASSUME TypeOK, Working, Room, Dispatch
  PROVE  Room'
<1>0. /\ IsFiniteSet(jobs) /\ Cardinality(jobs) \in Nat
      /\ IsFiniteSet(left) /\ Cardinality(left) \in Nat
      /\ Cardinality(Present) \in Nat /\ jobsCap \in Nat /\ resultCap \in Nat
      /\ Cardinality({}) = 0
  BY ChannelsFinite, PresentFinite, FS_EmptySet DEF TypeOK
<1>1. ASSUME Tick PROVE Room'
  BY <1>1 DEF Tick, Room
<1>2. ASSUME MakeJobs PROVE Room'
  <2>1. Present' = Present
    BY <1>2 DEF MakeJobs, ring, Present
  <2> QED BY <1>0, <1>2, <2>1 DEF MakeJobs, Room
<1>3. ASSUME MakeResult PROVE Room'
  <2>1. jobs' = {} /\ new' = {}
    BY <1>3 DEF MakeResult, TypeOK
  <2> QED BY <1>0, <1>3, <2>1 DEF MakeResult, Room, InHand
<1>4. ASSUME NEW a \in Addrs, RangeNext(a) PROVE Room'
  <2> SUFFICES ASSUME grown = FALSE PROVE Room'
    BY <1>4 DEF RangeNext, Room
  <2>1. a \in left /\ new' = {}
    BY <1>4 DEF RangeNext, Room
  <2>2. Cardinality(left') = Cardinality(left) - 1
    BY <1>0, <1>4, <2>1, FS_RemoveElement DEF RangeNext
  <2> QED BY <1>0, <1>4, <2>1, <2>2 DEF RangeNext, Room, channels, InHand
<1>5. ASSUME SendJob PROVE Room'
  <2>1. Cardinality(jobs') <= Cardinality(jobs) + 1 /\ Cardinality(jobs') \in Nat
    <3>1. jobs' = jobs \cup {next}
      BY <1>5 DEF SendJob
    <3>2. IsFiniteSet(jobs') /\ Cardinality(jobs') = IF next \in jobs THEN Cardinality(jobs) ELSE Cardinality(jobs) + 1
      BY <1>0, <3>1, FS_AddElement
    <3> QED BY <1>0, <3>2
  <2> QED BY <1>0, <1>5, <2>1 DEF SendJob, Room, InHand
<1>6. ASSUME StartWorkers PROVE Room'
  <2>1. Busy' = {} /\ results' = 0
    BY <1>6 DEF StartWorkers, Busy, TypeOK, channels
  <2> QED BY <1>0, <1>6, <2>1 DEF StartWorkers, Room, InHand, channels
<1>7. ASSUME EndRound PROVE Room'
  BY <1>7 DEF EndRound, Room
<1> QED BY <1>1, <1>2, <1>3, <1>4, <1>5, <1>6, <1>7 DEF Dispatch

LEMMA RoomWork ==
  ASSUME TypeOK, Room, NEW w \in Workers, Work(w)
  PROVE  Room'
<1>0. /\ IsFiniteSet(jobs) /\ Cardinality(jobs) \in Nat
      /\ IsFiniteSet(Busy) /\ Cardinality(Busy) \in Nat
      /\ resultCap \in Nat /\ results \in Nat
  BY ChannelsFinite DEF TypeOK
<1>1. pc = "wait" /\ pc' = pc /\ grown' = grown
  BY DEF Work, Answer, Put, Finish, Take, range, channels, TypeOK
<1> SUFFICES ASSUME grown = FALSE
             PROVE  results' + Cardinality(jobs') + Cardinality(Busy') <= resultCap'
  BY <1>1 DEF Room
<1>2. results + Cardinality(jobs) + Cardinality(Busy) <= resultCap
  BY <1>1 DEF Room
<1>3. ASSUME Answer(w) PROVE results' + Cardinality(jobs') + Cardinality(Busy') <= resultCap'
  <2>1. Busy' = Busy
    BY <1>3 DEF Answer, Goto, Busy, TypeOK
  <2> QED BY <1>2, <1>3, <2>1 DEF Answer, channels
<1>4. ASSUME Put(w) PROVE results' + Cardinality(jobs') + Cardinality(Busy') <= resultCap'
  <2>1. Busy' = Busy \ {w} /\ w \in Busy
    BY <1>4 DEF Put, Goto, Busy, TypeOK
  <2>2. Cardinality(Busy') = Cardinality(Busy) - 1
    BY <1>0, <2>1, FS_RemoveElement
  <2> QED BY <1>0, <1>2, <1>4, <2>2 DEF Put
<1>5. ASSUME Finish(w) PROVE results' + Cardinality(jobs') + Cardinality(Busy') <= resultCap'
  <2>1. Busy' = Busy
    BY <1>5 DEF Finish, Goto, Busy, TypeOK
  <2> QED BY <1>2, <1>5, <2>1 DEF Finish, channels
<1>6. ASSUME NEW o \in jobs, Take(w, o)
      PROVE  results' + Cardinality(jobs') + Cardinality(Busy') <= resultCap'
  <2>1. Busy' = Busy \cup {w} /\ w \notin Busy
    BY <1>6 DEF Take, Goto, Busy, TypeOK
  <2>2. Cardinality(Busy') = Cardinality(Busy) + 1
    BY <1>0, <2>1, FS_AddElement
  <2>3. Cardinality(jobs') = Cardinality(jobs) - 1
    BY <1>0, <1>6, FS_RemoveElement DEF Take
  <2> QED BY <1>0, <1>2, <1>6, <2>2, <2>3 DEF Take
<1> QED BY <1>3, <1>4, <1>5, <1>6 DEF Work

LEMMA RoomEnvironment ==
  ASSUME TypeOK, Room, Environment
  PROVE  Room'
<1>0. /\ IsFiniteSet(Present) /\ Cardinality(Present) \in Nat
      /\ IsFiniteSet(left) /\ Cardinality(left) \in Nat /\ Cardinality(jobs) \in Nat
      /\ jobsCap \in Nat /\ resultCap \in Nat
  BY ChannelsFinite, PresentFinite DEF TypeOK
<1> SUFFICES ASSUME grown' = FALSE PROVE Room'
  BY DEF Room
<1>1. /\ Busy' = Busy /\ InHand' = InHand
      /\ UNCHANGED <<pc, jobs, results, jobsCap, resultCap>>
  BY DEF Environment, AddNode, RemoveNode, PeerChange, range, channels, pool, Busy, InHand
<1>2. ASSUME NEW a \in Addrs, AddNode(a) PROVE Room'
  <2>1. grown = FALSE /\ (Sized => nodes[a] # NoNode)
    BY <1>2 DEF AddNode, TypeOK
  <2>2. Sized => Present' = Present /\ new' = new
    <3> SUFFICES ASSUME Sized PROVE Present' = Present /\ new' = new
      OBVIOUS
    <3>1. <<a, made[a] + 1>> # NoNode
      BY <1>2, HealthCheckAssumption DEF AddNode, TypeOK, Objects
    <3> QED BY <1>2, <2>1, <3>1 DEF AddNode, TypeOK, Present
  <2>3. left' = left
    BY <1>2 DEF AddNode
  <2> QED BY <1>1, <2>1, <2>2, <2>3 DEF Room, Sized
<1>3. ASSUME NEW a \in Addrs, RemoveNode(a) PROVE Room'
  <2>1. grown = FALSE
    BY <1>3 DEF RemoveNode
  <2>2. Present' \in SUBSET Present /\ left' = left \ {a} /\ new' = new \ {a}
    BY <1>3 DEF RemoveNode, Present, TypeOK
  <2>3. Cardinality(Present') <= Cardinality(Present) /\ Cardinality(Present') \in Nat
    BY <1>0, <2>2, FS_Subset, FS_CardinalityType
  <2>4. Cardinality(left') <= Cardinality(left) /\ Cardinality(left') \in Nat
    <3>1. left' \in SUBSET left
      BY <2>2
    <3> QED BY <1>0, <3>1, FS_Subset, FS_CardinalityType
  <2>5. InHand \in Nat
    BY DEF InHand
  <2> QED BY <1>0, <1>1, <2>1, <2>2, <2>3, <2>4, <2>5 DEF Room
<1>4. ASSUME NEW a \in Addrs, NEW s \in States[a], PeerChange(a, s) PROVE Room'
  <2>1. UNCHANGED <<grown, left, new>> /\ Present' = Present
    BY <1>4 DEF PeerChange, ring, range, Present
  <2> QED BY <1>1, <2>1 DEF Room
<1> QED BY <1>2, <1>3, <1>4 DEF Environment

LEMMA RoomStep ==
  ASSUME TypeOK, Working, Room, [Next]_vars
  PROVE  Room'
<1>1. ASSUME UNCHANGED <<ring, pc, range, channels, pool, grown>> PROVE Room'
  BY <1>1 DEF Room, ring, channels, range, pool, Present, Busy, InHand
<1>2. ASSUME FatalMapRace PROVE Room'
  BY <1>1, <1>2 DEF FatalMapRace
<1>3. ASSUME UNCHANGED vars PROVE Room'
  BY <1>1, <1>3 DEF vars
<1> QED BY <1>2, <1>3, RoomDispatch, RoomWork, RoomEnvironment DEF Next, Environment

\* Only a node that joins after the channels were sized can block the dispatcher
\* or a worker, for any number of nodes and workers, and any ratio of the two.
THEOREM BlockedOnlyByJoinHolds == Spec => []BlockedOnlyByJoin
<1>1. Init => Room
  BY DEF Init, Room
<1>2. TypeOK /\ Working /\ Room /\ [Next]_vars => Room'
  BY RoomStep
<1>3. ASSUME TypeOK, Room PROVE BlockedOnlyByJoin
  <2> SUFFICES ASSUME grown = FALSE PROVE ~Blocked
    BY <1>3 DEF BlockedOnlyByJoin, TypeOK
  <2>0. /\ Cardinality(jobs) \in Nat /\ Cardinality(left) \in Nat /\ Cardinality(Busy) \in Nat
        /\ IsFiniteSet(Busy) /\ jobsCap \in Nat /\ resultCap \in Nat /\ results \in Nat
    BY <1>3, ChannelsFinite DEF TypeOK
  <2>1. ~DispatcherBlocked
    BY <1>3, <2>0 DEF Room, DispatcherBlocked, InHand
  <2>2. ASSUME NEW w \in Workers PROVE ~WorkerBlocked(w)
    <3> SUFFICES ASSUME worker[w] = "put" PROVE results < resultCap
      BY <2>0 DEF WorkerBlocked
    <3>1. pc = "wait"
      BY <1>3 DEF TypeOK
    <3>2. Cardinality(Busy) # 0
      <4>1. w \in Busy
        BY DEF Busy
      <4> QED BY <2>0, <4>1, FS_EmptySet
    <3> QED BY <1>3, <2>0, <3>1, <3>2 DEF Room
  <2> QED BY <2>1, <2>2 DEF Blocked
<1>4. TypeOK /\ Room => BlockedOnlyByJoin
  BY <1>3
<1> QED BY <1>1, <1>2, <1>4, TypedAndWorking, PTL DEF Spec
=============================================================================
