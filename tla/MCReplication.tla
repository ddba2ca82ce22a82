---------------------------- MODULE MCReplication ----------------------------
(* Three nodes, one of them under two addresses; two uploads that ask for  *)
(* replication at one node, and one of the same content at another.        *)
EXTENDS Replication

MCNodes == {"a", "b", "c"}
MCAddrs == {"a", "b", "c", "b2"}
MCNodeAt == [a |-> "a", b |-> "b", c |-> "c", b2 |-> "b"]

U(n, k, h, replicate) == [node |-> n, key |-> k, hash |-> h, replicate |-> replicate]
TwoAndOne == {U("a", "k", 1, TRUE), U("a", "k", 2, TRUE), U("b", "l", 1, FALSE)}

\* The first two replica keys lead to one node, the third to another.
Spread == [x \in {"k", "l"} \X (0 .. 4) |-> CASE x[2] \in {0, 4} -> "a" [] x[2] \in {1, 2} -> "b" [] OTHER -> "c"]

\* A replica key that comes to lead to a node under its other address, or
\* nowhere, a key that moves, and a replica key that moves while more replicas
\* are sent under it.
Changes == {<<"a", <<"k", 1>>, "b2">>, <<"a", <<"k", 3>>, None>>,
            <<"a", <<"k", 0>>, "c">>, <<"b", <<"k", 1>>, "c">>}
=============================================================================
