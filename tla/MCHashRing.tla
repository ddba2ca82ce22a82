----------------------------- MODULE MCHashRing -----------------------------
(* Addresses "a1" to "a6" in the order of their hashes, an alias of one of  *)
(* them, an address that does not resolve, and keys around them.            *)
EXTENDS HashRing

Ops == INSTANCE RingOps WITH HalfRange <- 5

MCFindIndex(arr, target) == Ops!FindIndex(arr, target)
MCFindClosestElement(arr, target) == Ops!FindClosestElement(arr, target)

MCIds == -4 .. 4

MCHashKey ==
  [a1 |-> -3, a2 |-> -1, a3 |-> 1, a4 |-> 3, a5 |-> 4, localhost |-> 2, unknown |-> -4,
   low |-> -4, middle |-> 0, high |-> 2, nil |-> -2]

MCStrings == DOMAIN MCHashKey \ {"nil"}

MCResolve ==
  [s \in MCStrings |->
     CASE s = "localhost" -> "a3" [] s = "unknown" -> "nil" [] OTHER -> s]

AllNames == {"a1", "a2", "a3", "a4", "localhost", "unknown"}
Addresses4 == {"a1", "a2", "a3", "a4"}
Addresses2 == {"a2", "a3"}
AllKeys == {"low", "middle", "high"}

Stale == {-2}

\* Two handlers announce nodes and look up keys, while the start-up loads an
\* address that does not resolve and a list that panics it.
Adds ==
  [config |-> <<"unknown", "a3">>, synced |-> <<"a1", "unknown">>, handlers |-> {"h1", "h2"},
   adds |-> Addresses4, removals |-> {}, lookups |-> AllKeys, maxIds |-> 6]

\* One handler adds, removes and looks up nodes, aliases included.
Serial ==
  [config |-> <<"a1", "a2">>, synced |-> <<>>, handlers |-> {"h1"},
   adds |-> AllNames, removals |-> AllNames, lookups |-> AllKeys, maxIds |-> 5]

\* Two handlers add and remove nodes beside each other and a loading list.
Full ==
  [config |-> <<"a2", "a1">>, synced |-> <<"a2">>, handlers |-> {"h1", "h2"},
   adds |-> Addresses2, removals |-> Addresses2, lookups |-> {}, maxIds |-> 3]

\* Two handlers remove nodes beside each other and look up keys meanwhile, while
\* the elements behind the removed id shift.
Shifting ==
  [config |-> <<"a2", "a1", "a3", "a4">>, synced |-> <<>>, handlers |-> {"h1", "h2"},
   adds |-> {}, removals |-> {"a1", "a2", "a3"}, lookups |-> AllKeys, maxIds |-> 4]

\* One handler announces two nodes; two handlers remove nodes.
Announcing ==
  [config |-> <<>>, synced |-> <<>>, handlers |-> {"h1"},
   adds |-> Addresses2, removals |-> {}, lookups |-> {}, maxIds |-> 4]
Removing ==
  [config |-> <<"a1", "a2">>, synced |-> <<>>, handlers |-> {"h1", "h2"},
   adds |-> {}, removals |-> Addresses4, lookups |-> {}, maxIds |-> 4]

AllScenarios == {Adds, Serial, Full, Shifting}
AnnouncingOnly == {Announcing}
RemovingOnly == {Removing}
=============================================================================
