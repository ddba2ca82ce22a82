------------------------------ MODULE Membership ------------------------------
(***************************************************************************)
(* How the processes of a system learn of each other: a process starts     *)
(* with the addresses of its configuration, asks its synchronization node  *)
(* for more and announces itself to all it knows (cmd/server/main.go,      *)
(* internal/app/app.go, internal/sender/client.go), while it answers the   *)
(* requests of others (internal/grpc/transporter/server.go).               *)
(*                                                                         *)
(* A ring is the set of its addresses; HashRing has what lies beneath an   *)
(* addition and a removal.  A process announces itself as ":port": an      *)
(* address without a host, which leads every process to its own host.      *)
(***************************************************************************)
EXTENDS Naturals, FiniteSets

CONSTANTS
  Procs,
  Hosts, Local,       \* Local: no host
  HostOf, PortOf,     \* of the processes
  Config, Sync, Announce,   \* what each is started with: Nodes, SyncNode, AnnounceNewNode
  None,
  MaxFaults, MaxEdits \* bounds

Addrs == [host : Hosts \cup {Local}, port : {PortOf[p] : p \in Procs}]

ASSUME MembershipAssumption ==
  /\ Local \notin Hosts
  /\ HostOf \in [Procs -> Hosts]
  /\ \A p, q \in Procs : HostOf[p] = HostOf[q] /\ PortOf[p] = PortOf[q] => p = q
  /\ Config \in [Procs -> SUBSET Addrs]
  /\ Sync \in [Procs -> Addrs \cup {None}] /\ None \notin Addrs /\ None \notin Procs
  /\ Announce \in [Procs -> BOOLEAN]
  /\ MaxFaults \in Nat /\ MaxEdits \in Nat

VARIABLES
  phase,      \* of a process: "off", "sync", "stream", "announce", "range", "add",
              \* "error" or "ready"; it answers requests in all but the first
  hung,       \* the processes that do not answer
  ring,       \* process -> the addresses of its ring
  left, got,  \* of the range over a ring that a process is about: what it must
              \* still produce, and what it has produced
  at,         \* the address whose process is adding the announced one
  mutual,     \* those that it and that have known it since it began to announce itself
  overlapped, \* whether two processes have been starting at once ...
  disturbed,  \* ... and whether one has ended or hung, or a ring has been edited
  faults, edits

start == <<left, got, at, mutual>>
vars == <<phase, hung, ring, start, overlapped, disturbed, faults, edits>>

-----------------------------------------------------------------------------

Init ==
  /\ phase = [p \in Procs |-> "off"]
  /\ hung = {}
  /\ ring = [p \in Procs |-> {}]
  /\ left = [p \in Procs |-> {}] /\ got = [p \in Procs |-> {}]
  /\ at = [p \in Procs |-> None]
  /\ mutual = [p \in Procs |-> {}]
  /\ overlapped = FALSE /\ disturbed = FALSE
  /\ faults = 0 /\ edits = 0

Starting(p) == phase[p] \notin {"off", "ready"}
Serving(p) == p \in Procs /\ phase[p] # "off" /\ p \notin hung

\* The process that p reaches at an address.
Leads(p, a, q) ==
  /\ HostOf[q] = IF a.host = Local THEN HostOf[p] ELSE a.host
  /\ PortOf[q] = a.port

Targets ==
  [p \in Procs |-> [a \in Addrs |->
     IF \E q \in Procs : Leads(p, a, q) THEN CHOOSE q \in Procs : Leads(p, a, q) ELSE None]]

Target(p, a) == Targets[p][a]

SyncNode(p) == IF Sync[p] = None THEN None ELSE Target(p, Sync[p])

Knows(p, q) == \E a \in ring[p] : Target(p, a) = q

\* The address under which p announces itself.
OwnAddr(p) == [host |-> Local, port |-> PortOf[p]]

\* The process whose ring the range of p goes over.
Ranged(p) == IF phase[p] = "stream" THEN SyncNode(p) ELSE p

Fault ==
  /\ faults < MaxFaults
  /\ faults' = faults + 1
  /\ disturbed' = TRUE

-----------------------------------------------------------------------------
(* The start of process p *)

AfterSync(p) == IF Announce[p] THEN "announce" ELSE "ready"

\* The ring has the configured addresses before the server listens, and the
\* server listens before the sender starts.
Start(p) ==
  /\ phase[p] = "off"
  /\ phase' = [phase EXCEPT ![p] = IF Sync[p] = None THEN AfterSync(p) ELSE "sync"]
  /\ ring' = [ring EXCEPT ![p] = Config[p]]
  /\ overlapped' = (overlapped \/ \E q \in Procs \ {p} : Starting(q))
  /\ UNCHANGED <<hung, start, disturbed, faults, edits>>

SyncNodes(p) ==
  /\ phase[p] = "sync"
  /\ Serving(SyncNode(p))
  /\ phase' = [phase EXCEPT ![p] = "stream"]
  /\ left' = [left EXCEPT ![p] = ring[SyncNode(p)]]
  /\ UNCHANGED <<hung, ring, got, at, mutual, overlapped, disturbed, faults, edits>>

\* The handler ranges over its live map: what is added meanwhile may come too.
Receive(p, a) ==
  /\ phase[p] = "stream"
  /\ Serving(SyncNode(p))
  /\ a \in ring[SyncNode(p)] \ got[p]
  /\ left' = [left EXCEPT ![p] = @ \ {a}]
  /\ got' = [got EXCEPT ![p] = @ \cup {a}]
  /\ UNCHANGED <<phase, hung, ring, at, mutual, overlapped, disturbed, faults, edits>>

\* Deviation: the list replaces the ring.
LoadReplaces(p) ==
  /\ phase[p] = "stream"
  /\ Serving(SyncNode(p))
  /\ left[p] = {}
  /\ ring' = [ring EXCEPT ![p] = got[p]]
  /\ got' = [got EXCEPT ![p] = {}]
  /\ phase' = [phase EXCEPT ![p] = AfterSync(p)]
  /\ UNCHANGED <<hung, left, at, mutual, overlapped, disturbed, faults, edits>>

\* Deviation: the process puts itself into its ring as well.
LoadWithOwn(p) ==
  /\ phase[p] = "stream"
  /\ Serving(SyncNode(p))
  /\ left[p] = {}
  /\ ring' = [ring EXCEPT ![p] = @ \cup got[p] \cup {OwnAddr(p)}]
  /\ got' = [got EXCEPT ![p] = {}]
  /\ phase' = [phase EXCEPT ![p] = AfterSync(p)]
  /\ UNCHANGED <<hung, left, at, mutual, overlapped, disturbed, faults, edits>>

\* LoadNodesFromList, after the stream has ended.
Load(p) ==
  /\ phase[p] = "stream"
  /\ Serving(SyncNode(p))
  /\ left[p] = {}
  /\ ring' = [ring EXCEPT ![p] = @ \cup got[p]]
  /\ got' = [got EXCEPT ![p] = {}]
  /\ phase' = [phase EXCEPT ![p] = AfterSync(p)]
  /\ UNCHANGED <<hung, left, at, mutual, overlapped, disturbed, faults, edits>>

AnnounceNewNode(p) ==
  /\ phase[p] = "announce"
  /\ ring[p] # {}
  /\ phase' = [phase EXCEPT ![p] = "range"]
  /\ left' = [left EXCEPT ![p] = ring[p]]
  /\ mutual' = [mutual EXCEPT ![p] = {q \in Procs : Knows(p, q) /\ OwnAddr(p) \in ring[q]}]
  /\ UNCHANGED <<hung, ring, got, at, overlapped, disturbed, faults, edits>>

Pick(p, a) == phase[p] = "range" /\ a \in ring[p] \ got[p]

\* newNodeRequest: the handler looks whether it has the address ...
RequestAccepted(p, a) ==
  /\ Pick(p, a)
  /\ Serving(Target(p, a))
  /\ OwnAddr(p) \notin ring[Target(p, a)]
  /\ phase' = [phase EXCEPT ![p] = "add"]
  /\ at' = [at EXCEPT ![p] = a]
  /\ UNCHANGED <<hung, ring, left, got, mutual, overlapped, disturbed, faults, edits>>

\* ... and adds it.
Added(p) ==
  /\ phase[p] = "add"
  /\ Serving(Target(p, at[p]))
  /\ ring' = [ring EXCEPT ![Target(p, at[p])] = @ \cup {OwnAddr(p)}]
  /\ left' = [left EXCEPT ![p] = @ \ {at[p]}]
  /\ got' = [got EXCEPT ![p] = @ \cup {at[p]}]
  /\ at' = [at EXCEPT ![p] = None]
  /\ phase' = [phase EXCEPT ![p] = "range"]
  /\ UNCHANGED <<hung, mutual, overlapped, disturbed, faults, edits>>

Ready(p) ==
  /\ phase' = [phase EXCEPT ![p] = "ready"]
  /\ left' = [left EXCEPT ![p] = {}]
  /\ got' = [got EXCEPT ![p] = {}]
  /\ mutual' = [mutual EXCEPT ![p] = {}]
  /\ UNCHANGED <<hung, ring, at, overlapped, disturbed, faults, edits>>

Announced(p) ==
  /\ phase[p] = "range"
  /\ left[p] = {}
  /\ Ready(p)

\* The process at p ends; a stream or a request it was answering breaks, and
\* nothing remains of its ring.
Ends(p) ==
  /\ phase' = [q \in Procs |->
       IF q = p THEN "off"
       ELSE IF \/ phase[q] = "stream" /\ SyncNode(q) = p
               \/ phase[q] = "add" /\ Target(q, at[q]) = p
            THEN "error" ELSE phase[q]]
  /\ hung' = hung \ {p}
  /\ ring' = [ring EXCEPT ![p] = {}]
  /\ left' = [left EXCEPT ![p] = {}]
  /\ got' = [got EXCEPT ![p] = {}]
  /\ at' = [at EXCEPT ![p] = None]
  /\ mutual' = [q \in Procs |-> IF q = p THEN {} ELSE mutual[q] \ {p}]
  /\ disturbed' = TRUE
  /\ UNCHANGED <<overlapped, edits>>

SyncFails(p) ==
  /\ \/ phase[p] = "sync" /\ ~Serving(SyncNode(p))
     \/ phase[p] = "stream" /\ SyncNode(p) \in hung
  /\ Ends(p)
  /\ UNCHANGED faults

NobodyToTell(p) ==
  /\ phase[p] = "announce"
  /\ ring[p] = {}
  /\ Ends(p)
  /\ UNCHANGED faults

Unanswered(p) ==
  \/ \E a \in Addrs : Pick(p, a) /\ ~Serving(Target(p, a))
  \/ phase[p] = "add" /\ Target(p, at[p]) \in hung

\* Deviation: requests have no deadline.
RequestFailsWithoutDeadline(p) ==
  /\ \/ \E a \in Addrs :
          Pick(p, a) /\ Target(p, a) \notin hung /\ ~Serving(Target(p, a))
     \/ \E a \in Addrs :
          Pick(p, a) /\ Serving(Target(p, a)) /\ OwnAddr(p) \in ring[Target(p, a)]
     \/ phase[p] = "error"
  /\ Ends(p)
  /\ UNCHANGED faults

\* Deviation: a node that is known already counts as told.
KnownCountsAsTold(p) ==
  \/ /\ Unanswered(p) \/ phase[p] = "error"
     /\ Ends(p)
     /\ UNCHANGED faults
  \/ \E a \in Addrs :
       /\ Pick(p, a) /\ Serving(Target(p, a)) /\ OwnAddr(p) \in ring[Target(p, a)]
       /\ left' = [left EXCEPT ![p] = @ \ {a}]
       /\ got' = [got EXCEPT ![p] = @ \cup {a}]
       /\ UNCHANGED <<phase, hung, ring, at, mutual, overlapped, disturbed, faults, edits>>

\* Serve returns the error of the first request that fails: nobody is there,
\* five seconds are over, or the address is known already.  MustRun panics.
RequestFails(p) ==
  /\ \/ Unanswered(p)
     \/ \E a \in Addrs :
          Pick(p, a) /\ Serving(Target(p, a)) /\ OwnAddr(p) \in ring[Target(p, a)]
     \/ phase[p] = "error"
  /\ Ends(p)
  /\ UNCHANGED faults

\* The address has been added and the reply is lost.
ReplyLost(p) ==
  /\ phase[p] = "add"
  /\ Serving(Target(p, at[p])) /\ Target(p, at[p]) # p
  /\ Fault
  /\ phase' = [phase EXCEPT ![p] = "error"]
  /\ ring' = [ring EXCEPT ![Target(p, at[p])] = @ \cup {OwnAddr(p)}]
  /\ at' = [at EXCEPT ![p] = None]
  /\ UNCHANGED <<hung, left, got, mutual, overlapped, edits>>

-----------------------------------------------------------------------------
(* What else happens to process p *)

\* A crash, a stop, or the runtime's check of maps that are ranged over beside
\* a write.
Exit(p) ==
  /\ phase[p] # "off"
  /\ Fault
  /\ Ends(p)

Hang(p) ==
  /\ Serving(p)
  /\ Fault
  /\ hung' = hung \cup {p}
  /\ UNCHANGED <<phase, ring, start, overlapped, edits>>

Resume(p) ==
  /\ p \in hung
  /\ hung' = hung \ {p}
  /\ UNCHANGED <<phase, ring, start, overlapped, disturbed, faults, edits>>

Edit ==
  /\ edits < MaxEdits
  /\ edits' = edits + 1
  /\ disturbed' = TRUE

\* AnnounceRemoveNode, which only an operator calls: a range that goes on does not
\* produce what is removed before.
OperatorRemoves(p, a) ==
  /\ Serving(p) /\ a \in ring[p]
  /\ Edit
  /\ ring' = [ring EXCEPT ![p] = @ \ {a}]
  /\ left' = [q \in Procs |-> IF Ranged(q) = p THEN left[q] \ {a} ELSE left[q]]
  /\ mutual' = [q \in Procs |-> {r \in mutual[q] : (q = p => r # Target(p, a))
                                                  /\ (r = p => OwnAddr(q) # a)}]
  /\ UNCHANGED <<phase, hung, got, at, overlapped, faults>>

Serve(p) ==
  /\ p \notin hung
  /\ \/ SyncNodes(p) \/ Load(p) \/ SyncFails(p)
     \/ AnnounceNewNode(p) \/ NobodyToTell(p)
     \/ Added(p) \/ Announced(p) \/ RequestFails(p)
     \/ \E a \in Addrs : Receive(p, a) \/ RequestAccepted(p, a)

Next ==
  \E p \in Procs :
    \/ Start(p) \/ Serve(p)
    \/ ReplyLost(p) \/ Exit(p) \/ Hang(p) \/ Resume(p)
    \/ \E a \in Addrs : OperatorRemoves(p, a)

Spec == Init /\ [][Next]_vars

\* A process that does not hang goes on: its requests are answered or time out.
FairSpec == Spec /\ \A p \in Procs : WF_vars(Serve(p))

-----------------------------------------------------------------------------
(* Properties *)

TypeOK ==
  /\ phase \in [Procs -> {"off", "sync", "stream", "announce", "range", "add", "error", "ready"}]
  /\ hung \subseteq {p \in Procs : phase[p] # "off"}
  /\ ring \in [Procs -> SUBSET Addrs]
  /\ left \in [Procs -> SUBSET Addrs] /\ got \in [Procs -> SUBSET Addrs]
  /\ at \in [Procs -> Addrs \cup {None}]
  /\ mutual \in [Procs -> SUBSET Procs]
  /\ \A p \in Procs :
       /\ phase[p] = "off" => ring[p] = {}
       /\ phase[p] \in {"off", "sync", "announce", "ready"} => left[p] = {} /\ got[p] = {}
       /\ phase[p] = "stream" => Serving(SyncNode(p)) \/ SyncNode(p) \in hung
       /\ phase[p] = "add" => at[p] # None /\ Target(p, at[p]) \in Procs
       /\ phase[p] \in {"stream", "range", "add"} => left[p] \subseteq ring[Ranged(p)] \ got[p]
  /\ overlapped \in BOOLEAN /\ disturbed \in BOOLEAN
  /\ faults \in 0 .. MaxFaults /\ edits \in 0 .. MaxEdits

\* What MeshComplete needs of the configuration to hold for any number of
\* processes: all run on one host, so that an address leads each of
\* them to the same process ...
OneHost == \A p, q \in Procs : HostOf[p] = HostOf[q]

\* ... and all but one, the seed, ask another process for nodes, which either
\* of the two lists, and announce themselves.
Seeded(seed) ==
  /\ seed \in Procs /\ Sync[seed] = None
  /\ \A p \in Procs \ {seed} :
       /\ Sync[p] # None /\ SyncNode(p) \in Procs \ {p}
       /\ Announce[p]
       /\ \E q \in {p, SyncNode(p)} : \E a \in Config[q] : Target(q, a) = SyncNode(p)

\* Starts need more: a process goes by one name, which is the address it announces
\* if it does, and lists no process but the one that it asks and, if it does not
\* announce itself, itself.
Named(name) ==
  /\ name \in [Procs -> Addrs]
  /\ \A p, q \in Procs : Target(p, name[q]) = q
  /\ \A p \in Procs : Announce[p] => name[p] = OwnAddr(p)
  /\ \A p \in Procs : \A a \in Config[p] :
       \/ a = name[p] /\ ~Announce[p]
       \/ SyncNode(p) \in Procs /\ a = name[SyncNode(p)]

\* internal/config/config.go on AnnounceNewNode: it broadcasts the new node's
\* presence to the others.  Processes that have started one after the other all
\* know each other, as long as nothing fails and no ring is edited.
MeshComplete ==
  ~disturbed /\ ~overlapped =>
    \A p, q \in Procs : p # q /\ phase[p] = "ready" /\ phase[q] = "ready" => Knows(p, q)

\* A start by itself fails only because a process that it has been configured
\* with is not there.
StartsSucceed ==
  [][~disturbed /\ ~overlapped /\ faults' = faults =>
       \A p \in Procs : Starting(p) /\ phase'[p] = "off" =>
         \/ ~Serving(SyncNode(p))
         \/ \E a \in Config[p] : ~Serving(Target(p, a))]_vars

\* A process that was announced before, and crashed or failed to start, is
\* ready again only when those it knows have lost its address: it is refused
\* by the first that has not.
RejoinNeedsRemoval ==
  [][\A p \in Procs : phase[p] = "range" /\ phase'[p] = "ready" => mutual[p] = {}]_vars

\* A start ends, with a process that is ready or with none, although others may
\* hang; unless it hangs itself.
StartsEnd == \A p \in Procs : Starting(p) ~> ~Starting(p) \/ p \in hung
=============================================================================
