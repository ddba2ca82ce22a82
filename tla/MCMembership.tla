---------------------------- MODULE MCMembership ----------------------------
(* A seed that lists itself, a process that asks it for nodes, and one that *)
(* lists the second and asks it.                                           *)
EXTENDS Membership

MCProcs == {"s", "j", "k"}
AllOnOneHost == [p \in MCProcs |-> "h1"]
TwoHosts == [s |-> "h1", j |-> "h2", k |-> "h1"]
MCPortOf == [s |-> 1, j |-> 2, k |-> 3]

At(h, port) == [host |-> h, port |-> port]
SeedListed == [s |-> {At("h1", 1)}, j |-> {}, k |-> {At(Local, 2)}]
Chain == [s |-> None, j |-> At("h1", 1), k |-> At(Local, 2)]
Joiners == [s |-> FALSE, j |-> TRUE, k |-> TRUE]

\* The names the processes go by; on one host, this is a system for which the
\* processes' mesh and the success of their starts are proved.
Names == [s |-> At("h1", 1), j |-> At(Local, 2), k |-> At(Local, 3)]
ASSUME ConfigAssumption == OneHost => Seeded("s") /\ Named(Names)
=============================================================================
