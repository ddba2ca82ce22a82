--------------------------- MODULE MembershipProofs ---------------------------
(***************************************************************************)
(* Of Membership: a process that was announced before and is known still   *)
(* does not become ready again.                                            *)
(***************************************************************************)
EXTENDS Membership, TLAPS

Phases == {"off", "sync", "stream", "announce", "range", "add", "error", "ready"}

\* Of the types, what the argument needs; a process that is off has no ring.
Typed ==
  /\ phase \in [Procs -> Phases]
  /\ ring \in [Procs -> SUBSET Addrs]
  /\ left \in [Procs -> SUBSET Addrs] /\ got \in [Procs -> SUBSET Addrs]
  /\ at \in [Procs -> Addrs \cup {None}]
  /\ mutual \in [Procs -> SUBSET Procs]
  /\ \A p \in Procs :
       /\ phase[p] = "off" => ring[p] = {}
       /\ phase[p] = "add" => at[p] \in Addrs

LEMMA OwnAddrType ==
  ASSUME NEW p \in Procs
  PROVE  OwnAddr(p) \in Addrs
BY DEF OwnAddr, Addrs

LEMMA TypedInit == Init => Typed
BY DEF Init, Typed, Phases

LEMMA EndsTyped ==
  ASSUME Typed, NEW p \in Procs, Ends(p)
  PROVE  Typed'
BY DEF Typed, Ends, Phases

LEMMA TypedStep ==
  ASSUME Typed, [Next]_vars
  PROVE  Typed'
<1> USE DEF Typed, Phases
<1>1. ASSUME NEW p \in Procs, Start(p) PROVE Typed'
  <2>1. AfterSync(p) \in {"announce", "ready"} /\ Config[p] \subseteq Addrs
    BY MembershipAssumption DEF AfterSync
  <2> QED BY <1>1, <2>1 DEF Start, start
<1>2. ASSUME NEW p \in Procs, SyncNodes(p) PROVE Typed'
  <2>1. SyncNode(p) \in Procs
    BY <1>2 DEF SyncNodes, Serving
  <2> QED BY <1>2, <2>1 DEF SyncNodes
<1>3. ASSUME NEW p \in Procs, NEW a \in Addrs, Receive(p, a) PROVE Typed'
  BY <1>3 DEF Receive
<1>4. ASSUME NEW p \in Procs, AnnounceNewNode(p) PROVE Typed'
  BY <1>4 DEF AnnounceNewNode
<1>5. ASSUME NEW p \in Procs, NEW a \in Addrs, RequestAccepted(p, a) PROVE Typed'
  BY <1>5 DEF RequestAccepted
<1>6. ASSUME NEW p \in Procs, Added(p) PROVE Typed'
  BY <1>6, OwnAddrType DEF Added, Serving
<1>7. ASSUME NEW p \in Procs, Announced(p) PROVE Typed'
  BY <1>7 DEF Announced, Ready
<1>8. ASSUME NEW p \in Procs, ReplyLost(p) PROVE Typed'
  BY <1>8, OwnAddrType DEF ReplyLost, Serving
<1>9. ASSUME NEW p \in Procs, NEW a \in Addrs, OperatorRemoves(p, a) PROVE Typed'
  BY <1>9 DEF OperatorRemoves
<1>10. ASSUME NEW p \in Procs, Load(p) PROVE Typed'
  BY <1>10 DEF Load, AfterSync
<1>11. ASSUME NEW p \in Procs, Hang(p) \/ Resume(p) PROVE Typed'
  BY <1>11 DEF Hang, Resume, start
<1>12. ASSUME UNCHANGED vars PROVE Typed'
  BY <1>12 DEF vars, start
<1> HIDE DEF Typed, Phases
<1> QED
  BY <1>1, <1>2, <1>3, <1>4, <1>5, <1>6, <1>7, <1>8, <1>9, <1>10, <1>11, <1>12, EndsTyped
     DEF Next, Serve, SyncFails, NobodyToTell, RequestFails, Exit

\* What a process that announces itself still has before it: those it knows and
\* that know it already, each at an address it has not come to.
Before(p, q) == OwnAddr(p) \in ring[q] /\ \E a \in left[p] : Target(p, a) = q

Ahead ==
  \A p \in Procs :
    /\ phase[p] \in {"range", "add"} => \A q \in mutual[p] : Before(p, q)
    /\ phase[p] = "add" => Target(p, at[p]) \notin mutual[p]

LEMMA AheadStep ==
  ASSUME Typed, Ahead, [Next]_vars
  PROVE  Ahead'
<1> DEFINE Good(p) ==
      /\ phase'[p] \in {"range", "add"} => \A q \in mutual'[p] : Before(p, q)'
      /\ phase'[p] = "add" => Target(p, at'[p]) \notin mutual'[p]
\* Rings only grow, and of the announcing processes none but p goes on.
<1>1. ASSUME NEW p \in Procs, Good(p), \A q \in Procs : ring[q] \subseteq ring'[q],
             \A q \in Procs \ {p} :
               phase'[q] = phase[q] /\ at'[q] = at[q] /\ mutual'[q] = mutual[q] /\ left'[q] = left[q]
      PROVE  Ahead'
  <2>1. ASSUME NEW q \in Procs, q # p PROVE Good(q)
    <3>1. \A r \in Procs : Before(q, r) => Before(q, r)'
      BY <1>1, <2>1 DEF Before
    <3>2. mutual[q] \subseteq Procs
      BY DEF Typed
    <3> QED BY <1>1, <2>1, <3>1, <3>2 DEF Ahead
  <2> QED BY <1>1, <2>1 DEF Ahead
<1>2. ASSUME NEW p \in Procs, Start(p) PROVE Ahead'
  <2>1. phase[p] = "off" /\ ring' = [ring EXCEPT ![p] = Config[p]] /\ UNCHANGED <<left, at, mutual>>
        /\ phase' = [phase EXCEPT ![p] = IF Sync[p] = None THEN AfterSync(p) ELSE "sync"]
    BY <1>2 DEF Start, start
  <2>2. \A q \in Procs : ring[q] \subseteq ring'[q]
    BY <2>1 DEF Typed
  <2>3. phase'[p] \in {"announce", "ready", "sync"} /\ \A q \in Procs \ {p} : phase'[q] = phase[q]
    BY <2>1 DEF Typed, AfterSync
  <2> QED BY <1>1, <2>1, <2>2, <2>3
<1>3. ASSUME NEW p \in Procs, SyncNodes(p) \/ Load(p) PROVE Ahead'
  <2>1. /\ phase'[p] \notin {"range", "add"} /\ \A q \in Procs : ring[q] \subseteq ring'[q]
        /\ \A q \in Procs \ {p} :
             phase'[q] = phase[q] /\ at'[q] = at[q] /\ mutual'[q] = mutual[q] /\ left'[q] = left[q]
    BY <1>3 DEF SyncNodes, Load, AfterSync, Typed
  <2> QED BY <1>1, <2>1
<1>4. ASSUME NEW p \in Procs, NEW a \in Addrs, Receive(p, a) PROVE Ahead'
  <2>1. /\ phase'[p] \notin {"range", "add"} /\ ring' = ring
        /\ \A q \in Procs \ {p} :
             phase'[q] = phase[q] /\ at'[q] = at[q] /\ mutual'[q] = mutual[q] /\ left'[q] = left[q]
    BY <1>4 DEF Receive, Typed
  <2> QED BY <1>1, <2>1
<1>5. ASSUME NEW p \in Procs, AnnounceNewNode(p) PROVE Ahead'
  <2>1. /\ ring' = ring /\ phase'[p] = "range" /\ left'[p] = ring[p]
        /\ mutual'[p] = {q \in Procs : Knows(p, q) /\ OwnAddr(p) \in ring[q]}
        /\ \A q \in Procs \ {p} :
             phase'[q] = phase[q] /\ at'[q] = at[q] /\ mutual'[q] = mutual[q] /\ left'[q] = left[q]
    BY <1>5 DEF AnnounceNewNode, Typed
  <2>2. Good(p)
    BY <2>1 DEF Before, Knows
  <2> QED BY <1>1, <2>1, <2>2
<1>6. ASSUME NEW p \in Procs, NEW a \in Addrs, RequestAccepted(p, a) PROVE Ahead'
  <2>1. /\ phase[p] = "range" /\ OwnAddr(p) \notin ring[Target(p, a)]
        /\ phase'[p] = "add" /\ at'[p] = a /\ UNCHANGED <<ring, left, mutual>>
        /\ \A q \in Procs \ {p} : phase'[q] = phase[q] /\ at'[q] = at[q]
    BY <1>6 DEF RequestAccepted, Pick, Typed
  <2>2. \A q \in mutual[p] : Before(p, q)
    BY <2>1 DEF Ahead
  <2>3. Good(p)
    BY <2>1, <2>2 DEF Before
  <2> QED BY <1>1, <2>1, <2>3
<1>7. ASSUME NEW p \in Procs, Added(p) PROVE Ahead'
  <2>1. /\ phase[p] = "add" /\ Target(p, at[p]) \in Procs
        /\ ring' = [ring EXCEPT ![Target(p, at[p])] = @ \cup {OwnAddr(p)}]
        /\ left' = [left EXCEPT ![p] = @ \ {at[p]}]
        /\ phase' = [phase EXCEPT ![p] = "range"] /\ at' = [at EXCEPT ![p] = None] /\ mutual' = mutual
    BY <1>7 DEF Added, Serving
  <2>2. /\ \A q \in Procs : ring[q] \subseteq ring'[q]
        /\ \A q \in Procs \ {p} : phase'[q] = phase[q] /\ at'[q] = at[q] /\ left'[q] = left[q]
        /\ left'[p] = left[p] \ {at[p]} /\ phase'[p] = "range"
    BY <2>1 DEF Typed
  <2>3. ASSUME NEW q \in mutual[p] PROVE Before(p, q)'
    <3>1. Before(p, q) /\ q # Target(p, at[p]) /\ q \in Procs
      BY <2>1 DEF Ahead, Typed
    <3> QED BY <2>2, <3>1 DEF Before
  <2> QED BY <1>1, <2>1, <2>2, <2>3
<1>8. ASSUME NEW p \in Procs, Announced(p) \/ ReplyLost(p) PROVE Ahead'
  <2>1. /\ phase'[p] \notin {"range", "add"} /\ \A q \in Procs : ring[q] \subseteq ring'[q]
        /\ \A q \in Procs \ {p} :
             phase'[q] = phase[q] /\ at'[q] = at[q] /\ mutual'[q] = mutual[q] /\ left'[q] = left[q]
    BY <1>8 DEF Announced, Ready, ReplyLost, Typed
  <2> QED BY <1>1, <2>1
<1>9. ASSUME NEW p \in Procs, Ends(p) PROVE Ahead'
  <2>1. /\ phase'[p] = "off" /\ \A q \in Procs \ {p} : phase'[q] \in {phase[q], "error"}
        /\ \A q \in Procs \ {p} :
             at'[q] = at[q] /\ mutual'[q] = mutual[q] \ {p} /\ left'[q] = left[q] /\ ring'[q] = ring[q]
    BY <1>9 DEF Ends, Typed
  <2>2. ASSUME NEW q \in Procs, q # p, phase'[q] \in {"range", "add"} PROVE Good(q)
    <3>1. phase'[q] = phase[q]
      BY <2>1, <2>2
    <3>2. ASSUME NEW r \in mutual'[q] PROVE Before(q, r)'
      <4>1. r \in mutual[q] /\ r # p /\ r \in Procs
        BY <2>1, <2>2, <3>2 DEF Typed
      <4> QED BY <2>1, <2>2, <3>1, <4>1 DEF Ahead, Before
    <3> QED BY <2>1, <2>2, <3>1, <3>2 DEF Ahead
  <2> QED BY <2>1, <2>2 DEF Ahead
<1>10. ASSUME NEW p \in Procs, NEW a \in Addrs, OperatorRemoves(p, a) PROVE Ahead'
  <2>1. /\ UNCHANGED <<phase, at>> /\ ring' = [ring EXCEPT ![p] = @ \ {a}]
        /\ left' = [q \in Procs |-> IF Ranged(q) = p THEN left[q] \ {a} ELSE left[q]]
        /\ mutual' = [q \in Procs |-> {r \in mutual[q] : (q = p => r # Target(p, a))
                                                        /\ (r = p => OwnAddr(q) # a)}]
    BY <1>10 DEF OperatorRemoves
  <2>2. ASSUME NEW q \in Procs, phase'[q] \in {"range", "add"}, NEW r \in mutual'[q]
        PROVE  Before(q, r)'
    <3>1. /\ r \in mutual[q] /\ r \in Procs /\ phase[q] \in {"range", "add"}
          /\ q = p => r # Target(p, a)
          /\ r = p => OwnAddr(q) # a
      BY <2>1, <2>2 DEF Typed
    <3>2. OwnAddr(q) \in ring[r]
      BY <3>1 DEF Ahead, Before
    <3>3. PICK b \in left[q] : Target(q, b) = r
      BY <3>1 DEF Ahead, Before
    <3>4. Ranged(q) = q
      BY <3>1 DEF Ranged
    <3>5. b \in left'[q]
      <4>1. q = p => b # a
        BY <3>1, <3>3
      <4> QED BY <2>1, <3>3, <3>4, <4>1
    <3>6. OwnAddr(q) \in ring'[r]
      BY <2>1, <3>1, <3>2 DEF Typed
    <3> QED BY <3>3, <3>5, <3>6 DEF Before
  <2> QED BY <2>1, <2>2 DEF Ahead
<1>11. ASSUME UNCHANGED <<phase, ring, start>> PROVE Ahead'
  BY <1>11 DEF Ahead, Before, start
<1> HIDE DEF Good
<1> QED
  BY <1>2, <1>3, <1>4, <1>5, <1>6, <1>7, <1>8, <1>9, <1>10, <1>11
     DEF Next, Serve, SyncFails, NobodyToTell, RequestFails, Exit, Hang, Resume, vars

LEMMA Invariants == Spec => [](Typed /\ Ahead)
<1>1. Init => Ahead
  BY DEF Init, Ahead
<1> QED BY <1>1, TypedInit, TypedStep, AheadStep, PTL DEF Spec

\* A process is refused by the first that knows it already, so it becomes ready
\* only when none of those it knows does any more, for any number of processes,
\* any configuration and any faults.
THEOREM RejoinNeedsRemovalHolds == Spec => RejoinNeedsRemoval
<1> DEFINE A == \A p \in Procs : phase[p] = "range" /\ phase'[p] = "ready" => mutual[p] = {}
<1>1. ASSUME Typed, Ahead, [Next]_vars PROVE A
  <2> SUFFICES ASSUME NEW p \in Procs, phase[p] = "range", phase'[p] = "ready" PROVE mutual[p] = {}
    OBVIOUS
  <2> USE DEF Typed
  <2>1. ASSUME NEW q \in Procs, Ends(q) PROVE FALSE
    BY <1>1, <2>1 DEF Ends
  <2>2. ASSUME NEW q \in Procs, q # p \/ phase[q] # "range",
               \A r \in Procs \ {q} : phase'[r] = phase[r]
        PROVE  FALSE
    BY <2>2
  <2>3. ASSUME NEW q \in Procs, Announced(q) PROVE mutual[p] = {}
    <3>1. q = p /\ left[p] = {}
      BY <1>1, <2>3 DEF Announced, Ready
    <3> QED BY <1>1, <3>1 DEF Ahead, Before
  <2>4. ASSUME NEW q \in Procs, NEW a \in Addrs, Receive(q, a) \/ RequestAccepted(q, a) PROVE FALSE
    BY <1>1, <2>4 DEF Receive, RequestAccepted
  <2>5. ASSUME NEW q \in Procs, Start(q) \/ SyncNodes(q) \/ Load(q) \/ AnnounceNewNode(q) PROVE FALSE
    <3>1. phase[q] # "range" /\ \A r \in Procs \ {q} : phase'[r] = phase[r]
      BY <1>1, <2>5 DEF Start, SyncNodes, Load, AnnounceNewNode
    <3> QED BY <2>2, <3>1
  <2>6. ASSUME NEW q \in Procs, Added(q) \/ ReplyLost(q) PROVE FALSE
    <3>1. phase[q] # "range" /\ \A r \in Procs \ {q} : phase'[r] = phase[r]
      BY <1>1, <2>6 DEF Added, ReplyLost
    <3> QED BY <2>2, <3>1
  <2>7. ASSUME phase' = phase PROVE FALSE
    BY <2>7
  <2> HIDE DEF Typed
  <2> QED
    BY <1>1, <2>1, <2>3, <2>4, <2>5, <2>6, <2>7
       DEF Next, Serve, SyncFails, NobodyToTell, RequestFails, Exit, Hang, Resume, OperatorRemoves, vars
<1>2. Typed /\ Ahead /\ [Next]_vars => [A]_vars
  BY <1>1
<1> QED BY <1>2, Invariants, PTL DEF Spec, RejoinNeedsRemoval

-----------------------------------------------------------------------------

\* The host and the port tell the processes apart.
LEMMA TargetIs ==
  ASSUME NEW p \in Procs, NEW a \in Addrs, NEW q \in Procs, Leads(p, a, q)
  PROVE  Target(p, a) = q
<1>1. \A r \in Procs : Leads(p, a, r) => r = q
  BY MembershipAssumption DEF Leads
<1>2. (CHOOSE r \in Procs : Leads(p, a, r)) = q
  BY <1>1
<1> QED BY <1>2 DEF Target, Targets

LEMMA TargetLeads ==
  ASSUME NEW p \in Procs, NEW a \in Addrs, Target(p, a) \in Procs
  PROVE  Leads(p, a, Target(p, a))
<1>1. Target(p, a) = IF \E q \in Procs : Leads(p, a, q)
                     THEN CHOOSE q \in Procs : Leads(p, a, q) ELSE None
  BY DEF Target, Targets
<1>2. \E q \in Procs : Leads(p, a, q)
  BY <1>1, MembershipAssumption
<1> QED BY <1>1, <1>2

\* On one host, an address is of the same process for all that use it, and a
\* process is found under the address it announces.
LEMMA SameTarget ==
  ASSUME OneHost, NEW p \in Procs, NEW q \in Procs, NEW a \in Addrs, Target(p, a) \in Procs
  PROVE  Target(q, a) = Target(p, a)
<1>1. Leads(q, a, Target(p, a))
  BY TargetLeads DEF Leads, OneHost
<1> QED BY <1>1, TargetIs

LEMMA OwnTarget ==
  ASSUME OneHost, NEW p \in Procs, NEW q \in Procs
  PROVE  Target(q, OwnAddr(p)) = p
<1>1. Leads(q, OwnAddr(p), p)
  BY DEF Leads, OneHost, OwnAddr
<1> QED BY <1>1, TargetIs, OwnAddrType

\* Nothing has failed, no ring has been edited, and the processes have started
\* one after the other.
Calm == ~disturbed /\ ~overlapped

\* A step of p after which that is still so.
CalmStep(p) ==
  \/ Start(p) /\ \A q \in Procs \ {p} : ~Starting(q)
  \/ SyncNodes(p) \/ Load(p) \/ AnnounceNewNode(p) \/ Added(p) \/ Announced(p)
  \/ \E a \in Addrs : Receive(p, a) \/ RequestAccepted(p, a)

LEMMA CalmSteps ==
  ASSUME [Next]_vars, Calm'
  PROVE  Calm /\ ((\E p \in Procs : CalmStep(p)) \/ UNCHANGED <<phase, ring, start>>)
<1>1. ASSUME NEW p \in Procs,
             SyncFails(p) \/ NobodyToTell(p) \/ RequestFails(p) \/ Exit(p) \/ ReplyLost(p) \/ Hang(p)
               \/ \E a \in Addrs : OperatorRemoves(p, a)
      PROVE  FALSE
  BY <1>1 DEF SyncFails, NobodyToTell, RequestFails, Exit, ReplyLost, Hang, OperatorRemoves,
              Ends, Fault, Edit, Calm
<1>2. ASSUME NEW p \in Procs, Start(p)
      PROVE  Calm /\ \A q \in Procs \ {p} : ~Starting(q)
  BY <1>2 DEF Start, Calm
<1>3. ASSUME NEW p \in Procs,
             SyncNodes(p) \/ Load(p) \/ AnnounceNewNode(p) \/ Added(p) \/ Announced(p)
               \/ \E a \in Addrs : Receive(p, a) \/ RequestAccepted(p, a)
      PROVE  Calm
  BY <1>3 DEF SyncNodes, Load, AnnounceNewNode, Added, Announced, Ready, Receive, RequestAccepted,
              Calm
<1>4. ASSUME NEW p \in Procs, Resume(p) PROVE Calm /\ UNCHANGED <<phase, ring, start>>
  BY <1>4 DEF Resume, Calm
<1>5. ASSUME UNCHANGED vars PROVE Calm /\ UNCHANGED <<phase, ring, start>>
  BY <1>5 DEF vars, Calm
<1> QED BY <1>1, <1>2, <1>3, <1>4, <1>5 DEF Next, Serve, CalmStep

\* Then one process starts at a time, and the seed has started first.
InTurn(seed) ==
  /\ \A p, q \in Procs : Starting(p) /\ Starting(q) => p = q
  /\ \A p \in Procs : phase[p] # "error" /\ (phase[p] # "off" => Config[p] \subseteq ring[p])
  /\ phase[seed] \notin {"sync", "stream"}
  /\ \A p \in Procs \ {seed} : phase[p] \notin {"off", "sync"} => phase[seed] = "ready"

\* What a process knows: once it has its list, all that are ready, and those
\* that it has not come to yet are before it.
Meeting ==
  /\ \A p \in Procs : phase[p] = "stream" =>
       phase[SyncNode(p)] = "ready" /\ ring[SyncNode(p)] \subseteq left[p] \cup got[p]
  /\ \A p \in Procs, q \in Procs :
       p # q /\ phase[q] = "ready" =>
         /\ phase[p] \in {"announce", "range", "add", "ready"} => Knows(p, q)
         /\ phase[p] \in {"range", "add"} => Knows(q, p) \/ \E a \in left[p] : Target(p, a) = q

\* What a calm step does to the phases and the rings.
LEMMA CalmStepFacts ==
  ASSUME Typed, NEW p \in Procs, CalmStep(p)
  PROVE  /\ \A q \in Procs \ {p} : phase'[q] = phase[q] /\ left'[q] = left[q] /\ got'[q] = got[q]
         /\ phase[p] # "off" => Starting(p) /\ \A q \in Procs : ring[q] \subseteq ring'[q]
         /\ phase[p] = "off" => Start(p)
<1>1. phase[p] = "off" \/ Starting(p)
  BY DEF CalmStep, Start, SyncNodes, Load, AnnounceNewNode, Added, Announced, Receive,
         RequestAccepted, Pick, Starting
<1>2. \A q \in Procs \ {p} : phase'[q] = phase[q] /\ left'[q] = left[q] /\ got'[q] = got[q]
  BY DEF Typed, CalmStep, Start, SyncNodes, Load, AnnounceNewNode, Added, Announced, Ready, Receive,
         RequestAccepted, start
<1>3. phase[p] # "off" => \A q \in Procs : ring[q] \subseteq ring'[q]
  BY DEF Typed, CalmStep, Start, SyncNodes, Load, AnnounceNewNode, Added, Announced, Ready, Receive,
         RequestAccepted, Serving
<1>4. phase[p] = "off" => Start(p)
  BY DEF CalmStep, SyncNodes, Load, AnnounceNewNode, Added, Announced, Receive,
         RequestAccepted, Pick
<1> QED BY <1>1, <1>2, <1>3, <1>4 DEF Starting

LEMMA InTurnStep ==
  ASSUME NEW seed, Seeded(seed), Typed, InTurn(seed), NEW p \in Procs, CalmStep(p)
  PROVE  InTurn(seed)'
<1> USE DEF Seeded
<1>1. CASE phase[p] = "off"
  <2>1. Start(p) /\ \A q \in Procs \ {p} : ~Starting(q)
    BY <1>1 DEF CalmStep, SyncNodes, Load, AnnounceNewNode, Added, Announced, Receive,
                RequestAccepted, Pick
  <2>2. /\ \A q \in Procs \ {p} : phase'[q] = phase[q] /\ ring'[q] = ring[q]
        /\ phase'[p] \in {"sync", "announce", "ready"} /\ ring'[p] = Config[p]
        /\ phase'[p] = "sync" <=> Sync[p] # None
    BY <2>1 DEF Start, Typed, AfterSync
  <2>3. p = seed => \A q \in Procs \ {seed} : phase[q] = "off"
    BY <1>1, <2>1 DEF InTurn, Starting
  <2> QED BY <1>1, <2>1, <2>2, <2>3 DEF InTurn, Starting
<1>2. CASE phase[p] # "off"
  <2>1. /\ Starting(p) /\ \A q \in Procs : ring[q] \subseteq ring'[q]
        /\ \A q \in Procs \ {p} : phase'[q] = phase[q]
    BY <1>2, CalmStepFacts
  <2>2. phase'[p] \notin {"off", "error", "sync"}
        /\ (phase'[p] = "stream" => phase[p] \in {"sync", "stream"})
    BY <1>2 DEF Typed, CalmStep, Start, SyncNodes, Load, AnnounceNewNode, Added, Announced, Ready,
                Receive, RequestAccepted, Pick, AfterSync
  <2>3. p # seed => phase[seed] = "ready"
    <3>1. CASE phase[p] # "sync"
      BY <1>2, <3>1 DEF InTurn
    <3>2. CASE phase[p] = "sync" /\ p # seed
      <4>1. SyncNode(p) \in Procs \ {p} /\ phase[SyncNode(p)] # "off"
        BY <3>2 DEF CalmStep, Start, SyncNodes, Load, AnnounceNewNode, Added, Announced, Receive,
                    RequestAccepted, Pick, Serving
      <4>2. ~Starting(SyncNode(p))
        BY <2>1, <4>1 DEF InTurn
      <4> QED BY <4>1, <4>2 DEF InTurn, Starting
    <3> QED BY <3>1, <3>2
  <2>4. \A q \in Procs : Starting(q)' => q = p
    BY <2>1 DEF InTurn, Starting
  <2>5. \A q \in Procs : phase'[q] # "error" /\ (phase'[q] # "off" => Config[q] \subseteq ring'[q])
    BY <1>2, <2>1, <2>2 DEF InTurn
  <2>6. phase'[seed] \notin {"sync", "stream"}
    BY <2>1, <2>2 DEF InTurn
  <2>7. \A q \in Procs \ {seed} : phase'[q] \notin {"off", "sync"} => phase'[seed] = "ready"
    <3>1. CASE p # seed
      BY <2>1, <2>3, <3>1
    <3>2. CASE p = seed
      BY <2>1, <3>2 DEF InTurn, Starting
    <3> QED BY <3>1, <3>2
  <2> QED BY <2>4, <2>5, <2>6, <2>7 DEF InTurn
<1> QED BY <1>1, <1>2

LEMMA KnowsGrows ==
  ASSUME NEW p, NEW q, ring[p] \subseteq ring'[p], Knows(p, q)
  PROVE  Knows(p, q)'
BY DEF Knows

\* The processes other than p that are ready are so before and after its step, 
\* and what they know of each other stays.
LEMMA OthersMeet ==
  ASSUME NEW p \in Procs, Meeting,
         \A q \in Procs \ {p} : phase'[q] = phase[q] /\ ring[q] \subseteq ring'[q],
         \A q \in Procs \ {p} : phase[q] \in {"off", "ready"},
         phase'[p] = "stream" =>
           phase'[SyncNode(p)] = "ready" /\ ring'[SyncNode(p)] \subseteq left'[p] \cup got'[p],
         ASSUME NEW q \in Procs \ {p}, phase[q] = "ready"
         PROVE  /\ phase'[p] \in {"announce", "range", "add", "ready"} => Knows(p, q)'
                /\ phase'[p] \in {"range", "add"} =>
                     Knows(q, p)' \/ \E a \in left'[p] : Target(p, a) = q
                /\ phase'[p] = "ready" => Knows(q, p)'
  PROVE  Meeting'
<1>1. \A q \in Procs \ {p}, r \in Procs \ {p} :
        q # r /\ phase[q] = "ready" /\ phase[r] = "ready" => Knows(q, r)'
  BY KnowsGrows DEF Meeting
<1>2. \A q \in Procs : phase'[q] = "stream" => q = p
  OBVIOUS
<1>3. \A q \in Procs, r \in Procs :
       q # r /\ phase'[r] = "ready" =>
         /\ phase'[q] \in {"announce", "range", "add", "ready"} => Knows(q, r)'
         /\ phase'[q] \in {"range", "add"} => Knows(r, q)' \/ \E a \in left'[q] : Target(q, a) = r
  BY <1>1
<1> QED BY <1>2, <1>3 DEF Meeting

LEMMA MeetingStep ==
  ASSUME OneHost, NEW seed, Seeded(seed), Typed, InTurn(seed), Meeting, NEW p \in Procs, CalmStep(p)
  PROVE  Meeting'
<1> USE DEF Typed
<1>0. ASSUME phase[p] # "off"
      PROVE  /\ Starting(p)
             /\ \A q \in Procs \ {p} : phase'[q] = phase[q] /\ ring[q] \subseteq ring'[q]
             /\ \A q \in Procs \ {p} : phase[q] \in {"off", "ready"}
  BY <1>0, CalmStepFacts DEF InTurn, Starting
<1> DEFINE Met(q) == Knows(p, q) /\ (Knows(q, p) \/ \E a \in left[p] : Target(p, a) = q)
<1>1. ASSUME Start(p), \A q \in Procs \ {p} : ~Starting(q) PROVE Meeting'
  <2>1. /\ phase[p] = "off" /\ \A q \in Procs \ {p} : phase'[q] = phase[q] /\ ring'[q] = ring[q]
        /\ phase'[p] = IF p = seed THEN AfterSync(p) ELSE "sync"
    BY <1>1 DEF Start, Seeded
  <2>2. \A q \in Procs \ {p} : phase[q] \in {"off", "ready"}
    BY <1>1 DEF Starting
  <2>3. p = seed => \A q \in Procs \ {p} : phase[q] # "ready"
    BY <2>1 DEF InTurn
  <2>4. phase'[p] # "stream" /\ (p # seed => phase'[p] \notin {"announce", "range", "add", "ready"})
    BY <2>1 DEF AfterSync
  <2> QED BY <2>1, <2>2, <2>3, <2>4, OthersMeet
<1>2. ASSUME SyncNodes(p) PROVE Meeting'
  <2>1. /\ phase[p] = "sync" /\ phase'[p] = "stream" /\ p # seed
        /\ Serving(SyncNode(p)) /\ left'[p] = ring[SyncNode(p)] /\ ring' = ring
    BY <1>2 DEF SyncNodes, InTurn
  <2>2. SyncNode(p) \in Procs \ {p} /\ phase'[SyncNode(p)] = "ready"
    BY <1>0, <2>1 DEF Seeded, Serving
  <2> QED BY <1>0, <2>1, <2>2, OthersMeet
<1>3. ASSUME NEW a \in Addrs, Receive(p, a) PROVE Meeting'
  <2>1. /\ phase[p] = "stream" /\ phase'[p] = "stream" /\ p # seed /\ ring' = ring
        /\ left'[p] = left[p] \ {a} /\ got'[p] = got[p] \cup {a}
    BY <1>3 DEF Receive, InTurn
  <2>2. SyncNode(p) \in Procs \ {p} /\ phase'[SyncNode(p)] = "ready"
        /\ ring'[SyncNode(p)] \subseteq left'[p] \cup got'[p]
    BY <1>0, <2>1 DEF Seeded, Meeting
  <2> QED BY <1>0, <2>1, <2>2, OthersMeet
<1>4. ASSUME Load(p) PROVE Meeting'
  <2>1. /\ phase[p] = "stream" /\ p # seed /\ left[p] = {} /\ ring'[p] = ring[p] \cup got[p]
        /\ phase'[p] = "announce"
    BY <1>4 DEF Load, InTurn, Seeded, AfterSync
  <2> DEFINE s == SyncNode(p)
  <2>2. s \in Procs \ {p} /\ phase[s] = "ready" /\ ring[s] \subseteq ring'[p]
    BY <2>1 DEF Seeded, Meeting
  <2>3. ASSUME NEW q \in Procs \ {p}, phase[q] = "ready" PROVE Knows(p, q)'
    <3>1. CASE q = s
      <4>1. PICK r \in {p, s} : \E a \in Config[r] : Target(r, a) = s
        BY <2>1 DEF Seeded
      <4>2. PICK a \in Config[r] : Target(r, a) = s
        BY <4>1
      <4>3. r \in Procs /\ a \in Addrs /\ Config[r] \subseteq ring[r]
        BY <2>1, <2>2, <4>1, MembershipAssumption DEF InTurn
      <4>4. a \in ring'[p] /\ Target(p, a) = s
        BY <2>1, <2>2, <4>2, <4>3, SameTarget
      <4> QED BY <3>1, <4>4 DEF Knows
    <3>2. CASE q # s
      <4>1. PICK a \in ring[s] : Target(s, a) = q
        BY <2>2, <2>3, <3>2 DEF Meeting, Knows
      <4>2. a \in Addrs /\ a \in ring'[p]
        BY <2>2, <4>1
      <4>3. Target(p, a) = q
        BY <2>2, <2>3, <4>1, <4>2, SameTarget
      <4> QED BY <4>2, <4>3 DEF Knows
    <3> QED BY <3>1, <3>2
  <2> QED BY <1>0, <2>1, <2>3, OthersMeet
<1>5. ASSUME AnnounceNewNode(p) PROVE Meeting'
  <2>1. phase[p] = "announce" /\ phase'[p] = "range" /\ ring' = ring /\ left'[p] = ring[p]
    BY <1>5 DEF AnnounceNewNode
  <2>2. ASSUME NEW q \in Procs \ {p}, phase[q] = "ready"
        PROVE  Knows(p, q)' /\ \E a \in left'[p] : Target(p, a) = q
    BY <2>1, <2>2 DEF Meeting, Knows
  <2> QED BY <1>0, <2>1, <2>2, OthersMeet
<1>6. ASSUME NEW a \in Addrs, RequestAccepted(p, a) PROVE Meeting'
  <2>1. phase[p] = "range" /\ phase'[p] = "add" /\ ring' = ring /\ left' = left
    BY <1>6 DEF RequestAccepted, Pick
  <2>2. ASSUME NEW q \in Procs \ {p}, phase[q] = "ready"
        PROVE  Knows(p, q)' /\ (Knows(q, p)' \/ \E b \in left'[p] : Target(p, b) = q)
    BY <2>1, <2>2 DEF Meeting, Knows
  <2> QED BY <1>0, <2>1, <2>2, OthersMeet
<1>7. ASSUME Added(p) PROVE Meeting'
  <2> DEFINE t == Target(p, at[p])
  <2>1. /\ phase[p] = "add" /\ phase'[p] = "range" /\ t \in Procs
        /\ ring' = [ring EXCEPT ![t] = @ \cup {OwnAddr(p)}]
        /\ left'[p] = left[p] \ {at[p]} /\ ring[p] \subseteq ring'[p]
    BY <1>7 DEF Added, Serving
  <2>2. ASSUME NEW q \in Procs \ {p}, phase[q] = "ready"
        PROVE  Knows(p, q)' /\ (Knows(q, p)' \/ \E a \in left'[p] : Target(p, a) = q)
    <3>1. Knows(p, q)'
      BY <2>1, <2>2, KnowsGrows DEF Meeting
    <3>2. CASE q = t
      <4>1. OwnAddr(p) \in ring'[q] /\ Target(q, OwnAddr(p)) = p
        BY <2>1, <3>2, OwnTarget
      <4> QED BY <3>1, <4>1 DEF Knows
    <3>3. CASE q # t
      <4>1. Knows(q, p) \/ \E a \in left[p] : Target(p, a) = q
        BY <2>1, <2>2 DEF Meeting
      <4>2. Knows(q, p) => Knows(q, p)'
        BY <1>0, <2>1, KnowsGrows
      <4> QED BY <2>1, <3>1, <3>3, <4>1, <4>2
    <3> QED BY <3>2, <3>3
  <2> QED BY <1>0, <2>1, <2>2, OthersMeet
<1>8. ASSUME Announced(p) PROVE Meeting'
  <2>1. phase[p] = "range" /\ phase'[p] = "ready" /\ ring' = ring /\ left[p] = {}
    BY <1>8 DEF Announced, Ready
  <2>2. ASSUME NEW q \in Procs \ {p}, phase[q] = "ready" PROVE Knows(p, q)' /\ Knows(q, p)'
    BY <2>1, <2>2 DEF Meeting, Knows
  <2> QED BY <1>0, <2>1, <2>2, OthersMeet
<1> QED BY <1>1, <1>2, <1>3, <1>4, <1>5, <1>6, <1>7, <1>8 DEF CalmStep

\* Processes of one host that have started one after the other, a seed first,
\* all know each other, however many they are and whomever of those before it
\* each has asked, as long as nothing fails and no ring is edited.
THEOREM MeshCompleteHolds ==
  ASSUME OneHost, NEW seed, Seeded(seed)
  PROVE  Spec => []MeshComplete
<1> DEFINE I == Calm => InTurn(seed) /\ Meeting
<1>1. Init => I
  BY DEF Init, InTurn, Meeting, Starting, Seeded
<1>2. Typed /\ I /\ [Next]_vars => I'
  <2> SUFFICES ASSUME Typed, I, [Next]_vars, Calm' PROVE (InTurn(seed) /\ Meeting)'
    OBVIOUS
  <2>1. InTurn(seed) /\ Meeting
    BY CalmSteps
  <2>2. CASE \E p \in Procs : CalmStep(p)
    BY <2>1, <2>2, InTurnStep, MeetingStep
  <2>3. CASE UNCHANGED <<phase, ring, start>>
    BY <2>1, <2>3 DEF InTurn, Meeting, Starting, Knows, start
  <2> QED BY <2>2, <2>3, CalmSteps
<1>3. I => MeshComplete
  BY DEF MeshComplete, Calm, Meeting
<1> HIDE DEF I
<1> QED BY <1>1, <1>2, <1>3, Invariants, PTL DEF Spec

-----------------------------------------------------------------------------

\* Whom the rings of a calm system name: processes that announce themselves or
\* are ready, the process itself, or the one it is about to ask.  A process that
\* announces itself is known only to those that it has come to.
NamesInTurn(name) ==
  /\ hung = {}
  /\ \A p \in Procs : \A a \in ring[p] \cup got[p] : \E t \in Procs : a = name[t]
  /\ \A p \in Procs, t \in Procs : name[t] \in ring[p] =>
       \/ phase[t] \in {"range", "add", "ready"} /\ ~(t = p /\ Announce[p])
       \/ t = p /\ ~Announce[p]
       \/ phase[p] = "sync" /\ t = SyncNode(p)
  /\ \A p \in Procs, t \in Procs :
       phase[p] = "stream" /\ name[t] \in got[p] => phase[t] = "ready"
  /\ \A p \in Procs : phase[p] \in {"announce", "range", "add"} => Announce[p]
  /\ \A p \in Procs, t \in Procs :
       phase[p] \in {"range", "add"} /\ name[p] \in ring[t] /\ name[t] \in ring[p] =>
         name[t] \in got[p]
  /\ \A p \in Procs : phase[p] = "add" => at[p] \in ring[p]
  /\ \A p \in Procs : phase[p] \in {"off", "sync"} => got[p] = {}
LEMMA CalmHung ==
  ASSUME [Next]_vars, Calm', hung = {}
  PROVE  hung' = {}
<1>1. ASSUME NEW p \in Procs, Ends(p) \/ ReplyLost(p) \/ Hang(p) PROVE FALSE
  BY <1>1 DEF Ends, ReplyLost, Hang, Fault, Calm
<1>2. ASSUME NEW p \in Procs,
             Start(p) \/ SyncNodes(p) \/ Load(p) \/ AnnounceNewNode(p) \/ Added(p) \/ Announced(p)
               \/ (\E a \in Addrs : Receive(p, a) \/ RequestAccepted(p, a) \/ OperatorRemoves(p, a))
      PROVE  hung' = {}
  BY <1>2 DEF Start, SyncNodes, Load, AnnounceNewNode, Added, Announced, Ready, Receive,
              RequestAccepted, OperatorRemoves
<1>3. ASSUME NEW p \in Procs, Resume(p) PROVE hung' = {}
  BY <1>3 DEF Resume
<1>4. ASSUME UNCHANGED vars PROVE hung' = {}
  BY <1>4 DEF vars
<1> QED BY <1>1, <1>2, <1>3, <1>4 DEF Next, Serve, SyncFails, NobodyToTell, RequestFails, Exit

LEMMA NamesDiffer ==
  ASSUME NEW name, Named(name), NEW p \in Procs, NEW q \in Procs, name[p] = name[q]
  PROVE  p = q
BY DEF Named

\* Whoever is known to a process that is past its request to the one it asks.
LEMMA KnownStarted ==
  ASSUME NEW name, Named(name), NEW seed, Seeded(seed), Typed, InTurn(seed), NamesInTurn(name),
         NEW p \in Procs, NEW t \in Procs, name[t] \in ring[p], phase[p] # "sync"
  PROVE  /\ phase[t] \in {"range", "add", "ready"} \/ t = p
         /\ Announce[t] => t # p /\ phase[t] \in {"range", "add", "ready"}
BY DEF NamesInTurn

LEMMA NamesInTurnStep ==
  ASSUME NEW name, Named(name), NEW seed, Seeded(seed), Typed, InTurn(seed), Meeting,
         NamesInTurn(name), NEW p \in Procs, CalmStep(p), hung' = {}
  PROVE  NamesInTurn(name)'
<1> USE DEF Typed
<1> DEFINE
      Names == \A q \in Procs : \A a \in ring[q] \cup got[q] : \E t \in Procs : a = name[t]
      Rings(q, t) ==
        name[t] \in ring[q] =>
          \/ phase[t] \in {"range", "add", "ready"} /\ ~(t = q /\ Announce[q])
          \/ t = q /\ ~Announce[q]
          \/ phase[q] = "sync" /\ t = SyncNode(q)
      Lists(q, t) == phase[q] = "stream" /\ name[t] \in got[q] => phase[t] = "ready"
      Tells(q, t) ==
        phase[q] \in {"range", "add"} /\ name[q] \in ring[t] /\ name[t] \in ring[q] =>
          name[t] \in got[q]
      Announcing(q) == phase[q] \in {"announce", "range", "add"} => Announce[q]
      Adding(q) == phase[q] = "add" => at[q] \in ring[q]
      Empty(q) == phase[q] \in {"off", "sync"} => got[q] = {}
<1>0. /\ Names
      /\ \A q, t \in Procs : Rings(q, t) /\ Lists(q, t) /\ Tells(q, t)
      /\ \A q \in Procs : Announcing(q) /\ Adding(q) /\ Empty(q)
  BY DEF NamesInTurn
<1>a. /\ \A q \in Procs \ {p} : phase'[q] = phase[q] /\ left'[q] = left[q] /\ got'[q] = got[q]
      /\ phase[p] # "off" => Starting(p)
  BY CalmStepFacts
<1>b. SUFFICES /\ Names'
               /\ \A q, t \in Procs : Rings(q, t)' /\ Lists(q, t)' /\ Tells(q, t)'
               /\ \A q \in Procs : Announcing(q)' /\ Adding(q)' /\ Empty(q)'
  <2> HIDE DEF Rings, Lists, Tells
  <2>1. /\ \A q, t \in Procs : Rings(q, t)'
        /\ \A q, t \in Procs : Lists(q, t)'
        /\ \A q, t \in Procs : Tells(q, t)'
    BY <1>b
  <2> USE DEF Rings, Lists, Tells
  <2> QED BY <1>b, <2>1 DEF NamesInTurn, SyncNode
\* The others are off or ready.
<1>c. \A q \in Procs \ {p} : phase[q] \in {"off", "ready"}
  <2>1. CASE phase[p] = "off"
    BY <2>1 DEF CalmStep, Start, SyncNodes, Load, AnnounceNewNode, Added, Announced, Receive,
                RequestAccepted, Pick, Starting
  <2>2. CASE phase[p] # "off"
    BY <2>2, <1>a DEF InTurn, Starting
  <2> QED BY <2>1, <2>2
<1> DEFINE Goal ==
      /\ Names'
      /\ \A q, t \in Procs : Rings(q, t)' /\ Lists(q, t)' /\ Tells(q, t)'
      /\ \A q \in Procs : Announcing(q)' /\ Adding(q)' /\ Empty(q)'
<1>1. ASSUME Start(p) PROVE Goal
  <2>1. /\ phase[p] = "off" /\ ring' = [ring EXCEPT ![p] = Config[p]] /\ UNCHANGED <<got, at>>
        /\ phase'[p] = IF Sync[p] = None THEN AfterSync(p) ELSE "sync"
    BY <1>1 DEF Start, start
  <2>2. \A a \in Config[p] : (a = name[p] /\ ~Announce[p])
                               \/ (SyncNode(p) \in Procs /\ a = name[SyncNode(p)])
    BY DEF Named
  <2>3. SyncNode(p) \in Procs => phase'[p] = "sync"
    BY <2>1, MembershipAssumption DEF SyncNode
  <2>4. ASSUME NEW t \in Procs PROVE Rings(p, t)'
    <3>1. ring'[p] = Config[p]
      BY <2>1
    <3>2. name[t] \in Config[p] => (t = p /\ ~Announce[p]) \/ (SyncNode(p) \in Procs /\ t = SyncNode(p))
      BY <2>2, NamesDiffer
    <3> QED BY <2>3, <3>1, <3>2
  <2>5. ASSUME NEW q \in Procs \ {p}, NEW t \in Procs PROVE Rings(q, t)'
    BY <1>0, <1>a, <2>1, <2>5
  <2>6. phase'[p] \in {"sync", "announce", "ready"} /\ (phase'[p] = "announce" => Announce[p])
    BY <2>1 DEF AfterSync
  <2>7. Names'
    BY <1>0, <2>1, <2>2
  <2>8. \A q, t \in Procs : Lists(q, t)' /\ Tells(q, t)'
    BY <1>a, <1>c, <2>6
  <2>9. \A q \in Procs : Announcing(q)' /\ Adding(q)' /\ Empty(q)'
    BY <1>0, <1>a, <1>c, <2>1, <2>6
  <2> QED BY <2>4, <2>5, <2>7, <2>8, <2>9
<1>2. ASSUME SyncNodes(p) PROVE Goal
  <2>1. /\ phase[p] = "sync" /\ phase'[p] = "stream" /\ UNCHANGED <<ring, got, at>>
        /\ Serving(SyncNode(p)) /\ p # seed
    BY <1>2 DEF SyncNodes, InTurn
  <2>2. SyncNode(p) \in Procs \ {p} /\ phase[SyncNode(p)] = "ready"
    BY <1>c, <2>1 DEF Seeded, Serving
  <2>3. \A q, t \in Procs : Rings(q, t)'
    BY <1>0, <1>a, <1>c, <2>1, <2>2
  <2>4. \A q, t \in Procs : Lists(q, t)' /\ Tells(q, t)'
    BY <1>0, <1>a, <1>c, <2>1
  <2>5. \A q \in Procs : Announcing(q)' /\ Adding(q)' /\ Empty(q)'
    BY <1>0, <1>a, <1>c, <2>1
  <2> QED BY <1>0, <2>1, <2>3, <2>4, <2>5
<1>3. ASSUME NEW a \in Addrs, Receive(p, a) PROVE Goal
  <2> DEFINE s == SyncNode(p)
  <2>1. /\ phase[p] = "stream" /\ UNCHANGED <<phase, ring, at>> /\ p # seed /\ a \in ring[s]
        /\ got' = [got EXCEPT ![p] = @ \cup {a}]
    BY <1>3 DEF Receive, InTurn
  <2>2. s \in Procs \ {p} /\ phase[s] = "ready"
    BY <2>1 DEF Seeded, Meeting
  <2>3. PICK u \in Procs : a = name[u]
    BY <1>0, <2>1, <2>2
  <2>4. phase[u] = "ready"
    <3>1. phase[u] \in {"range", "add", "ready"} \/ u = s
      BY <1>0, <2>1, <2>2, <2>3
    <3> QED BY <1>c, <2>1, <2>2, <3>1
  <2>5. \A t \in Procs : name[t] = a => t = u
    BY <2>3, NamesDiffer
  <2>6. \A q, t \in Procs : Lists(q, t)'
    BY <1>0, <1>a, <2>1, <2>4, <2>5
  <2>7. \A q, t \in Procs : Rings(q, t)' /\ Tells(q, t)'
    BY <1>0, <2>1, <1>c
  <2>8. \A q \in Procs : Announcing(q)' /\ Adding(q)' /\ Empty(q)'
    BY <1>0, <1>a, <2>1
  <2>9. Names'
    BY <1>0, <2>1, <2>3
  <2> QED BY <2>6, <2>7, <2>8, <2>9
<1>4. ASSUME Load(p) PROVE Goal
  <2>1. /\ phase[p] = "stream" /\ p # seed /\ ring' = [ring EXCEPT ![p] = @ \cup got[p]]
        /\ got' = [got EXCEPT ![p] = {}] /\ phase'[p] = "announce" /\ Announce[p]
    BY <1>4 DEF Load, InTurn, Seeded, AfterSync
  <2>2. ASSUME NEW t \in Procs PROVE Rings(p, t)'
    <3>1. name[t] \in got[p] => phase[t] = "ready" /\ t # p
      BY <1>0, <2>1
    <3>2. name[t] \in ring[p] => phase[t] \in {"range", "add", "ready"} /\ t # p
      BY <1>0, <2>1
    <3> QED BY <1>a, <2>1, <3>1, <3>2
  <2>3. ASSUME NEW q \in Procs \ {p}, NEW t \in Procs PROVE Rings(q, t)'
    BY <1>0, <1>a, <2>1, <2>3
  <2>4. \A q, t \in Procs : Lists(q, t)' /\ Tells(q, t)'
    BY <1>a, <1>c, <2>1
  <2>5. \A q \in Procs : Announcing(q)' /\ Adding(q)' /\ Empty(q)'
    BY <1>0, <1>a, <1>c, <2>1
  <2>6. Names'
    BY <1>0, <2>1
  <2> QED BY <2>2, <2>3, <2>4, <2>5, <2>6
<1>5. ASSUME AnnounceNewNode(p) PROVE Goal
  <2>1. phase[p] = "announce" /\ phase'[p] = "range" /\ UNCHANGED <<ring, got, at>>
    BY <1>5 DEF AnnounceNewNode
  <2>2. Announce[p] /\ \A t \in Procs : name[p] \notin ring[t]
    BY <1>0, <1>c, <2>1
  <2>3. \A q, t \in Procs : Rings(q, t)'
    BY <1>0, <1>a, <1>c, <2>1
  <2>4. \A q, t \in Procs : Lists(q, t)' /\ Tells(q, t)'
    BY <1>a, <1>c, <2>1, <2>2
  <2>5. \A q \in Procs : Announcing(q)' /\ Adding(q)' /\ Empty(q)'
    BY <1>0, <1>a, <1>c, <2>1
  <2> QED BY <1>0, <2>1, <2>3, <2>4, <2>5
<1>6. ASSUME NEW a \in Addrs, RequestAccepted(p, a) PROVE Goal
  <2>1. /\ phase[p] = "range" /\ phase'[p] = "add" /\ UNCHANGED <<ring, got>>
        /\ a \in ring[p] /\ at'[p] = a
    BY <1>6 DEF RequestAccepted, Pick
  <2>2. \A q, t \in Procs : Rings(q, t)'
    BY <1>0, <1>a, <1>c, <2>1
  <2>3. \A q, t \in Procs : Lists(q, t)' /\ Tells(q, t)'
    BY <1>0, <1>a, <1>c, <2>1
  <2>4. \A q \in Procs : Announcing(q)' /\ Adding(q)' /\ Empty(q)'
    BY <1>0, <1>a, <1>c, <2>1
  <2> QED BY <1>0, <2>1, <2>2, <2>3, <2>4
<1>7. ASSUME Added(p) PROVE Goal
  <2> DEFINE u == Target(p, at[p])
  <2>1. /\ phase[p] = "add" /\ phase'[p] = "range" /\ u \in Procs
        /\ ring' = [ring EXCEPT ![u] = @ \cup {OwnAddr(p)}]
        /\ got' = [got EXCEPT ![p] = @ \cup {at[p]}]
    BY <1>7 DEF Added, Serving
  <2>2. Announce[p] /\ at[p] \in ring[p] /\ OwnAddr(p) = name[p]
    BY <1>0, <2>1 DEF Named
  <2>3. at[p] = name[u]
    <3>1. PICK v \in Procs : at[p] = name[v]
      BY <1>0, <2>2
    <3>2. Target(p, name[v]) = v
      BY DEF Named
    <3> QED BY <3>1, <3>2
  <2>4. u # p
    BY <1>0, <2>1, <2>2, <2>3
  <2>5. ASSUME NEW q \in Procs, NEW t \in Procs PROVE Rings(q, t)'
    <3>1. CASE name[t] \in ring[q]
      BY <1>0, <1>a, <2>1, <3>1
    <3>2. CASE name[t] \notin ring[q]
      <4>1. name[t] \in ring'[q] => q = u /\ name[t] = name[p]
        BY <2>1, <2>2, <3>2
      <4>2. name[t] \in ring'[q] => q = u /\ t = p
        BY <4>1, NamesDiffer
      <4> QED BY <2>1, <2>4, <4>2
    <3> QED BY <3>1, <3>2
  <2>6. ASSUME NEW q \in Procs, NEW t \in Procs PROVE Tells(q, t)'
    <3>1. CASE q # p
      BY <1>a, <1>c, <3>1
    <3>2. CASE q = p /\ t = u
      BY <2>1, <2>3, <3>2
    <3>3. CASE q = p /\ t # u
      <4>1. ring'[p] = ring[p] /\ ring'[t] = ring[t] /\ got[p] \subseteq got'[p]
        BY <2>1, <2>4, <3>3
      <4> QED BY <1>0, <2>1, <3>3, <4>1
    <3> QED BY <3>1, <3>2, <3>3
  <2>7. \A q, t \in Procs : Lists(q, t)'
    BY <1>a, <1>c, <2>1
  <2>8. \A q \in Procs : Announcing(q)' /\ Adding(q)' /\ Empty(q)'
    BY <1>0, <1>a, <1>c, <2>1, <2>2
  <2>9. Names'
    <3>1. ASSUME NEW q \in Procs, NEW b \in ring'[q] \cup got'[q] PROVE \E t \in Procs : b = name[t]
      <4>1. b \in ring[q] \cup got[q] \/ b = name[p] \/ b = name[u]
        BY <2>1, <2>2, <2>3, <3>1
      <4> QED BY <1>0, <2>1, <4>1
    <3> QED BY <3>1
  <2> QED BY <2>5, <2>6, <2>7, <2>8, <2>9
<1>8. ASSUME Announced(p) PROVE Goal
  <2>1. /\ phase[p] = "range" /\ phase'[p] = "ready" /\ UNCHANGED <<ring, at>>
        /\ got' = [got EXCEPT ![p] = {}]
    BY <1>8 DEF Announced, Ready
  <2>2. \A q, t \in Procs : Rings(q, t)'
    BY <1>0, <1>a, <1>c, <2>1
  <2>3. \A q, t \in Procs : Lists(q, t)' /\ Tells(q, t)'
    BY <1>0, <1>a, <1>c, <2>1
  <2>4. \A q \in Procs : Announcing(q)' /\ Adding(q)' /\ Empty(q)'
    BY <1>0, <1>a, <1>c, <2>1
  <2>5. Names'
    BY <1>0, <2>1
  <2> QED BY <2>2, <2>3, <2>4, <2>5
<1> HIDE DEF Rings, Lists, Tells, Announcing, Adding, Empty
<1> QED BY <1>1, <1>2, <1>3, <1>4, <1>5, <1>6, <1>7, <1>8 DEF CalmStep

\* Processes that start one after the other, a seed first, under one name each:
\* a start fails by itself only when the process it asks is not there.
THEOREM StartsSucceedHolds ==
  ASSUME OneHost, NEW seed, Seeded(seed), NEW name, Named(name)
  PROVE  Spec => StartsSucceed
<1> DEFINE
      I == Calm => InTurn(seed) /\ Meeting /\ NamesInTurn(name)
      A == ~disturbed /\ ~overlapped /\ faults' = faults =>
             \A p \in Procs : Starting(p) /\ phase'[p] = "off" =>
               \/ ~Serving(SyncNode(p))
               \/ \E a \in Config[p] : ~Serving(Target(p, a))
<1>1. Init => I
  BY DEF Init, InTurn, Meeting, NamesInTurn, Starting, Seeded
<1>2. Typed /\ I /\ [Next]_vars => I'
  <2> SUFFICES ASSUME Typed, I, [Next]_vars, Calm'
               PROVE  (InTurn(seed) /\ Meeting /\ NamesInTurn(name))'
    OBVIOUS
  <2>1. InTurn(seed) /\ Meeting /\ NamesInTurn(name)
    BY CalmSteps
  <2>2. hung' = {}
    BY <2>1, CalmHung DEF NamesInTurn
  <2>3. CASE \E p \in Procs : CalmStep(p)
    BY <2>1, <2>2, <2>3, InTurnStep, MeetingStep, NamesInTurnStep
  <2>4. CASE UNCHANGED <<phase, ring, start>>
    BY <2>1, <2>2, <2>4 DEF InTurn, Meeting, NamesInTurn, Starting, Knows, SyncNode, start
  <2> QED BY <2>3, <2>4, CalmSteps
<1>3. ASSUME Typed, I, faults \in Nat, [Next]_vars PROVE A
  <2> SUFFICES ASSUME Calm, faults' = faults, NEW p \in Procs, Starting(p), phase'[p] = "off",
                      Serving(SyncNode(p))
               PROVE  FALSE
    BY DEF Calm
  <2> USE <1>3 DEF Typed
  <2>0. InTurn(seed) /\ Meeting /\ NamesInTurn(name)
    OBVIOUS
  <2>1. p # seed
    BY MembershipAssumption DEF Serving, Seeded, SyncNode
  <2>2. ~SyncFails(p)
    BY <2>0 DEF SyncFails, NamesInTurn, Serving
  <2>3. ~NobodyToTell(p)
    <3>1. phase[p] = "announce" => phase[seed] = "ready"
      BY <2>0, <2>1 DEF InTurn
    <3>2. phase[p] = "announce" => Knows(p, seed)
      BY <2>0, <2>1, <3>1 DEF Meeting, Seeded
    <3> QED BY <3>2 DEF NobodyToTell, Knows
  <2>4. ASSUME NEW a \in Addrs, Pick(p, a)
        PROVE  Serving(Target(p, a)) /\ OwnAddr(p) \notin ring[Target(p, a)]
    <3>1. phase[p] = "range" /\ a \in ring[p] /\ a \notin got[p]
      BY <2>4 DEF Pick
    <3>2. PICK t \in Procs : a = name[t]
      BY <2>0, <3>1 DEF NamesInTurn
    <3>3. Target(p, a) = t /\ Announce[p] /\ OwnAddr(p) = name[p]
      BY <2>0, <3>1, <3>2 DEF Named, NamesInTurn
    <3>4. phase[t] \in {"range", "add", "ready"}
      BY <2>0, <3>1, <3>2, <3>3 DEF NamesInTurn
    <3>5. name[p] \notin ring[t]
      BY <2>0, <3>1, <3>2 DEF NamesInTurn
    <3> QED BY <2>0, <3>3, <3>4, <3>5 DEF Serving, NamesInTurn
  <2>5. ~RequestFails(p)
    BY <2>0, <2>4 DEF RequestFails, Unanswered, NamesInTurn, InTurn
  <2>6. ASSUME NEW q \in Procs, Exit(q) \/ ReplyLost(q) \/ Hang(q) PROVE FALSE
    BY <2>6 DEF Exit, ReplyLost, Hang, Fault
  <2>7. ASSUME NEW q \in Procs, Ends(q) PROVE q = p
    BY <2>7 DEF Ends, Starting
  <2>8. ASSUME NEW q \in Procs, CalmStep(q) \/ Resume(q) \/ \E a \in Addrs : OperatorRemoves(q, a)
        PROVE  FALSE
    <3>1. phase[p] # "off" /\ (phase'[p] = phase[p] \/ p = q)
      BY <2>8, CalmStepFacts DEF Resume, OperatorRemoves, Starting
    <3>2. p = q => phase'[p] # "off"
      BY <2>8, <3>1 DEF CalmStep, Start, SyncNodes, Load, AnnounceNewNode, Added, Announced, Ready,
                        Receive, RequestAccepted, AfterSync, Resume, OperatorRemoves
    <3> QED BY <3>1, <3>2
  <2>9. ASSUME NEW q \in Procs, Start(q) PROVE FALSE
    BY <2>9 DEF Start, Starting
  <2>10. ASSUME UNCHANGED vars PROVE FALSE
    BY <2>10 DEF vars, Starting
  <2>11. PICK q \in Procs :
           \/ Start(q) \/ CalmStep(q) \/ Resume(q)
           \/ Exit(q) \/ ReplyLost(q) \/ Hang(q) \/ \E a \in Addrs : OperatorRemoves(q, a)
           \/ SyncFails(q) \/ NobodyToTell(q) \/ RequestFails(q)
    BY <1>3, <2>10 DEF Next, Serve, CalmStep
  <2>12. SyncFails(q) \/ NobodyToTell(q) \/ RequestFails(q)
    BY <2>6, <2>8, <2>9, <2>11
  <2>13. q = p
    BY <2>7, <2>12 DEF SyncFails, NobodyToTell, RequestFails
  <2> QED BY <2>2, <2>3, <2>5, <2>12, <2>13
<1>4. Init => faults \in Nat
  BY DEF Init
<1>5. faults \in Nat /\ [Next]_vars => (faults \in Nat)'
  <2> SUFFICES ASSUME faults \in Nat, [Next]_vars PROVE faults' \in {faults, faults + 1}
    OBVIOUS
  <2>1. ASSUME NEW p \in Procs, Exit(p) \/ ReplyLost(p) \/ Hang(p) PROVE faults' = faults + 1
    BY <2>1 DEF Exit, ReplyLost, Hang, Fault
  <2>2. ASSUME NEW p \in Procs, Start(p) \/ Serve(p) \/ Resume(p) \/ \E a \in Addrs : OperatorRemoves(p, a)
        PROVE  faults' = faults
    BY <2>2 DEF Start, Serve, SyncNodes, Load, SyncFails, AnnounceNewNode, NobodyToTell, Added,
                Announced, Ready, RequestFails, Receive, RequestAccepted, Resume, OperatorRemoves
  <2> QED BY <2>1, <2>2 DEF Next, vars
<1>6. Typed /\ I /\ faults \in Nat /\ [Next]_vars => [A]_vars
  BY <1>3
<1> HIDE DEF I
<1> QED BY <1>1, <1>2, <1>4, <1>5, <1>6, Invariants, PTL DEF Spec, StartsSucceed
=============================================================================
