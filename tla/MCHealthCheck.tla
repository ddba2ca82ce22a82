---------------------------- MODULE MCHealthCheck ----------------------------
(* Two addresses, one of them in the ring at the start.                    *)
EXTENDS HealthCheck

MCAddrs == {"a", "b"}
KnownA == {"a"}

\* One that goes down and comes back, one that hangs and recovers.
UpDownHung == [a |-> {"up", "down"}, b |-> {"up", "hung"}]
=============================================================================
