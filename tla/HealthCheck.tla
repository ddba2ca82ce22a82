----------------------------- MODULE HealthCheck -----------------------------
(***************************************************************************)
(* The health check of one node (internal/sender/client.go): a goroutine   *)
(* that, tick by tick, puts every node of the ring into a channel, starts  *)
(* workers that ask each node and note in it whether it is alive, and      *)
(* waits for them.  It ranges over the map that the handlers of            *)
(* announcements and removals write, and sizes its channels before.        *)
(*                                                                         *)
(* HashRing has the steps of a handler; here each changes the map at once. *)
(* A node of the map is the Node object that AddNode put there: the one    *)
(* made k-th for its address.                                              *)
(***************************************************************************)
EXTENDS Naturals, FiniteSets

CONSTANTS
  Addrs,
  Known,        \* the addresses in the ring at the start
  States,       \* address -> what its process may be: "up", "down" or "hung"
  NoNode,
  WorkerRatio, MinWorkers, MaxWorkers,  \* workerRatio, minWorkerCount, maxWorkerCount
  MaxMade       \* bound on the Node objects made for an address

Objects == Addrs \X (1 .. MaxMade)
Workers == 1 .. MaxWorkers

ASSUME HealthCheckAssumption ==
  /\ IsFiniteSet(Addrs) /\ Known \subseteq Addrs
  /\ States \in [Addrs -> SUBSET {"up", "down", "hung"}]
  /\ \A a \in Addrs : States[a] # {}
  /\ NoNode \notin Objects
  /\ WorkerRatio \in Nat \ {0} /\ MinWorkers \in Nat \ {0} /\ MaxWorkers \in Nat
  /\ MinWorkers <= MaxWorkers
  /\ MaxMade \in Nat \ {0}

VARIABLES
  running,   \* FALSE once the runtime has ended the process
  nodes,     \* address -> its node in the map, or NoNode
  made,      \* address -> how many nodes have been made for it
  alive,     \* the nodes of the map whose Alive is true
  peer,      \* address -> what the process there is
  pc,        \* of the dispatcher
  left, new, \* addresses the range must still produce, and those it may
  next,      \* the node it has produced
  jobs,      \* the nodes in the channel of jobs
  results,   \* how many there are in the other, which nobody reads
  jobsCap, resultCap,   \* their capacities
  worker,    \* worker -> "off", "ready", "request", "put" or "done"
  job,       \* worker -> the node it asks
  grown,     \* whether an address has come into the ring since the sizing
  due        \* nodes in the ring from the tick to the end of the range, not asked yet

ring == <<nodes, made>>
channels == <<jobs, results, jobsCap, resultCap>>
range == <<left, new, next>>
pool == <<worker, job>>
vars == <<running, ring, alive, peer, pc, range, channels, pool, grown, due>>

-----------------------------------------------------------------------------

Present == {a \in Addrs : nodes[a] # NoNode}
InRing == {nodes[a] : a \in Present}

\* The jobs channel has its size, and not yet all its jobs.
Sized == pc \in {"result", "range", "send"}

Init ==
  /\ running = TRUE
  /\ nodes = [a \in Addrs |-> IF a \in Known THEN <<a, 1>> ELSE NoNode]
  /\ made = [a \in Addrs |-> IF a \in Known THEN 1 ELSE 0]
  /\ alive = {}
  /\ peer \in {f \in [Addrs -> {"up", "down", "hung"}] : \A a \in Addrs : f[a] \in States[a]}
  /\ pc = "tick"
  /\ left = {} /\ new = {} /\ next = NoNode
  /\ jobs = {} /\ results = 0 /\ jobsCap = 0 /\ resultCap = 0
  /\ worker = [w \in Workers |-> "off"] /\ job = [w \in Workers |-> NoNode]
  /\ grown = FALSE /\ due = {}

-----------------------------------------------------------------------------
(* The dispatcher *)

\* A tick that finds the ring empty is skipped.
Tick ==
  /\ pc = "tick"
  /\ Present # {}
  /\ pc' = "jobs"
  /\ due' = InRing
  /\ UNCHANGED <<running, ring, alive, peer, range, channels, pool, grown>>

MakeJobs ==
  /\ pc = "jobs"
  /\ jobsCap' = Cardinality(Present)
  /\ pc' = "result"
  /\ UNCHANGED <<running, ring, alive, peer, range, jobs, results, resultCap, pool, grown, due>>

\* Deviation: one place short.
MakeResultShort ==
  /\ pc = "result"
  /\ resultCap' = IF Present = {} THEN 0 ELSE Cardinality(Present) - 1
  /\ left' = Present
  /\ pc' = "range"
  /\ UNCHANGED <<running, ring, alive, peer, new, next, jobs, results, jobsCap, pool, grown, due>>

\* The range begins right after.
MakeResult ==
  /\ pc = "result"
  /\ resultCap' = Cardinality(Present)
  /\ left' = Present
  /\ pc' = "range"
  /\ UNCHANGED <<running, ring, alive, peer, new, next, jobs, results, jobsCap, pool, grown, due>>

\* Go's range: what is in the map throughout is produced, what is removed
\* before is not, what is added may be.
RangeNext(a) ==
  /\ pc = "range"
  /\ a \in left \cup new
  /\ next' = nodes[a]
  /\ left' = left \ {a} /\ new' = new \ {a}
  /\ pc' = "send"
  /\ UNCHANGED <<running, ring, alive, peer, channels, pool, grown, due>>

\* No worker has started: a channel that is full blocks for ever.
SendJob ==
  /\ pc = "send"
  /\ Cardinality(jobs) < jobsCap
  /\ jobs' = jobs \cup {next}
  /\ next' = NoNode
  /\ pc' = "range"
  /\ UNCHANGED <<running, ring, alive, peer, left, new, results, jobsCap, resultCap, pool, grown,
                 due>>

\* The runtime may catch the range beside a write of the map.
FatalMapRace ==
  /\ pc = "range"
  /\ Present # {} \/ \E a \in Addrs : made[a] < MaxMade
  /\ running' = FALSE
  /\ UNCHANGED <<ring, alive, peer, pc, range, channels, pool, grown, due>>

WorkerCount(n) ==
  IF n \div WorkerRatio > MaxWorkers THEN MaxWorkers
  ELSE IF n \div WorkerRatio < MinWorkers THEN MinWorkers ELSE n \div WorkerRatio

StartWorkers ==
  /\ pc = "range"
  /\ left = {}
  /\ worker' = [w \in Workers |-> IF w <= WorkerCount(Cardinality(Present)) THEN "ready" ELSE "off"]
  /\ new' = {}
  /\ pc' = "wait"
  /\ UNCHANGED <<running, ring, alive, peer, left, next, channels, job, grown, due>>

\* Deviation: waits for as many workers as there can be.
EndRoundAllWorkers ==
  /\ pc = "wait"
  /\ \A w \in Workers : worker[w] = "done"
  /\ worker' = [w \in Workers |-> "off"]
  /\ results' = 0 /\ jobsCap' = 0 /\ resultCap' = 0
  /\ pc' = "tick"
  /\ grown' = FALSE /\ due' = {}
  /\ UNCHANGED <<running, ring, alive, peer, range, jobs, job>>

EndRound ==
  /\ pc = "wait"
  /\ \A w \in Workers : worker[w] \in {"off", "done"}
  /\ worker' = [w \in Workers |-> "off"]
  /\ results' = 0 /\ jobsCap' = 0 /\ resultCap' = 0
  /\ pc' = "tick"
  /\ grown' = FALSE /\ due' = {}
  /\ UNCHANGED <<running, ring, alive, peer, range, jobs, job>>

-----------------------------------------------------------------------------
(* The workers *)

Goto(w, label) == worker' = [worker EXCEPT ![w] = label]

Take(w, o) ==
  /\ worker[w] = "ready"
  /\ o \in jobs
  /\ jobs' = jobs \ {o}
  /\ job' = [job EXCEPT ![w] = o]
  /\ Goto(w, "request")
  /\ UNCHANGED <<running, ring, alive, peer, pc, range, results, jobsCap, resultCap, grown, due>>

\* Deviation: a node that does not answer is left as it is.
AnswerOnlyUp(w) ==
  /\ worker[w] = "request"
  /\ peer[job[w][1]] # "hung"
  /\ alive' = alive \cup {o \in InRing \cap {job[w]} : peer[job[w][1]] = "up"}
  /\ due' = due \ {job[w]}
  /\ Goto(w, "put")
  /\ UNCHANGED <<running, ring, peer, pc, range, channels, job, grown>>

\* Deviation: a worker returns at the first error.
AnswerOrReturn(w) ==
  /\ worker[w] = "request"
  /\ peer[job[w][1]] # "hung"
  /\ alive' = IF peer[job[w][1]] = "up" THEN alive \cup (InRing \cap {job[w]}) ELSE alive \ {job[w]}
  /\ due' = due \ {job[w]}
  /\ job' = IF peer[job[w][1]] = "up" THEN job ELSE [job EXCEPT ![w] = NoNode]
  /\ Goto(w, IF peer[job[w][1]] = "up" THEN "put" ELSE "done")
  /\ UNCHANGED <<running, ring, peer, pc, range, channels, grown>>

\* A process that is down refuses the call; one that hangs is waited for, as
\* the request has no deadline.  Nobody reads what is noted in a node that has
\* left the map.
Answer(w) ==
  /\ worker[w] = "request"
  /\ peer[job[w][1]] # "hung"
  /\ alive' = IF peer[job[w][1]] = "up" THEN alive \cup (InRing \cap {job[w]}) ELSE alive \ {job[w]}
  /\ due' = due \ {job[w]}
  /\ Goto(w, "put")
  /\ UNCHANGED <<running, ring, peer, pc, range, channels, job, grown>>

Put(w) ==
  /\ worker[w] = "put"
  /\ results < resultCap
  /\ results' = results + 1
  /\ job' = [job EXCEPT ![w] = NoNode]
  /\ Goto(w, "ready")
  /\ UNCHANGED <<running, ring, alive, peer, pc, range, jobs, jobsCap, resultCap, grown, due>>

Finish(w) ==
  /\ worker[w] = "ready"
  /\ jobs = {}
  /\ Goto(w, "done")
  /\ UNCHANGED <<running, ring, alive, peer, pc, range, channels, job, grown, due>>

-----------------------------------------------------------------------------
(* Beside the health check *)

\* The reply to a request whose key leads to an address.
GetDestination(a) ==
  IF nodes[a] = NoNode THEN "not_found" ELSE IF nodes[a] \in alive THEN "ok" ELSE "unavailable"

\* A new node is dead until it has been asked.  One that another announcement
\* of its address has put there before is replaced.
AddNode(a) ==
  /\ made[a] < MaxMade
  /\ made' = [made EXCEPT ![a] = @ + 1]
  /\ nodes' = [nodes EXCEPT ![a] = <<a, made[a] + 1>>]
  /\ new' = IF pc \in {"range", "send"} /\ nodes[a] = NoNode THEN new \cup {a} ELSE new
  /\ grown' = (grown \/ (Sized /\ nodes[a] = NoNode))
  /\ due' = IF pc = "wait" THEN due ELSE due \ {nodes[a]}
  /\ alive' = alive \ {nodes[a]}
  /\ UNCHANGED <<running, peer, pc, left, next, channels, pool>>

RemoveNode(a) ==
  /\ nodes[a] # NoNode
  /\ nodes' = [nodes EXCEPT ![a] = NoNode]
  /\ left' = left \ {a} /\ new' = new \ {a}
  /\ due' = IF pc = "wait" THEN due ELSE due \ {nodes[a]}
  /\ alive' = alive \ {nodes[a]}
  /\ UNCHANGED <<running, made, peer, pc, next, channels, pool, grown>>

\* A process starts, dies, hangs or recovers.
PeerChange(a, state) ==
  /\ peer' = [peer EXCEPT ![a] = state]
  /\ UNCHANGED <<running, ring, alive, pc, range, channels, pool, grown, due>>

Dispatch ==
  \/ Tick \/ MakeJobs \/ MakeResult \/ SendJob \/ StartWorkers \/ EndRound
  \/ \E a \in Addrs : RangeNext(a)

Work(w) == Answer(w) \/ Put(w) \/ Finish(w) \/ \E o \in jobs : Take(w, o)

Next ==
  /\ running
  /\ \/ Dispatch
     \/ \E w \in Workers : Work(w)
     \/ \E a \in Addrs : AddNode(a) \/ RemoveNode(a) \/ \E s \in States[a] : PeerChange(a, s)
     \/ FatalMapRace

Spec == Init /\ [][Next]_vars

\* The ticker ticks, goroutines that can run do, and a process that is not
\* hung answers or refuses.
FairSpec ==
  /\ Spec
  /\ WF_vars(running /\ Dispatch)
  /\ \A w \in Workers : WF_vars(running /\ Work(w))

-----------------------------------------------------------------------------
(* Properties *)

TypeOK ==
  /\ running \in BOOLEAN
  /\ made \in [Addrs -> 0 .. MaxMade]
  /\ nodes \in [Addrs -> Objects \cup {NoNode}]
  /\ \A a \in Addrs : nodes[a] \in {NoNode, <<a, made[a]>>}
  /\ alive \subseteq InRing
  /\ peer \in [Addrs -> {"up", "down", "hung"}]
  /\ pc \in {"tick", "jobs", "result", "range", "send", "wait"}
  /\ left \subseteq Present /\ new \subseteq Present
  /\ pc \notin {"range", "send"} => left = {} /\ new = {}
  /\ next \in Objects \cup {NoNode} /\ (pc = "send" <=> next # NoNode)
  /\ jobs \subseteq Objects /\ (pc \in {"tick", "jobs", "result"} => jobs = {})
  /\ results \in Nat /\ (pc # "wait" => results = 0)
  /\ jobsCap \in Nat /\ resultCap \in Nat
  /\ worker \in [Workers -> {"off", "ready", "request", "put", "done"}]
  /\ pc # "wait" => \A w \in Workers : worker[w] = "off"
  /\ job \in [Workers -> Objects \cup {NoNode}]
  /\ \A w \in Workers : job[w] # NoNode <=> worker[w] \in {"request", "put"}
  /\ grown \in BOOLEAN
  /\ due \subseteq Objects

DispatcherBlocked == pc = "send" /\ Cardinality(jobs) >= jobsCap
WorkerBlocked(w) == worker[w] = "put" /\ results >= resultCap
Blocked == DispatcherBlocked \/ \E w \in Workers : WorkerBlocked(w)

\* The channels have room for everything, whatever is removed, replaced, found
\* dead or hanging during a round: only a node that joins after their sizing
\* can block the dispatcher or a worker for ever.
BlockedOnlyByJoin == Blocked => grown

\* However the ring changes meanwhile, a round that ends has asked every node
\* that was in it from the tick until the workers started.
RoundComplete == [][pc = "wait" /\ pc' = "tick" => due = {}]_vars

\* A round ends, and another one begins, unless a join has blocked it, the
\* process asked hangs, or the runtime has ended this one.
RoundsEnd ==
  pc # "tick" ~>
    pc = "tick" \/ ~running \/ Blocked \/ \E w \in Workers : worker[w] = "request" /\ peer[job[w][1]] = "hung"

\* What requests are told of a node becomes true: one that stays in the ring,
\* and whose process stays up or stays down, is given or refused as a
\* destination accordingly, for good, as long as rounds go on.
AliveConverges ==
  \A a \in Addrs : \A s \in {"up", "down"} :
    <>[](nodes[a] # NoNode /\ peer[a] = s) /\ []<>(pc = "tick") /\ []running
      => <>[](GetDestination(a) = IF s = "up" THEN "ok" ELSE "unavailable")
=============================================================================
