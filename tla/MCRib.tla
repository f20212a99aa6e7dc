------------------------------- MODULE MCRib -------------------------------
(* Model checking Rib: the neighbors of each run and what they announce.    *)
EXTENDS Rib

A(lp, ases, tag) == [lp |-> lp, ases |-> ases, mine |-> FALSE, cluster |-> FALSE, tag |-> tag]
Own(ases) == [A(100, ases, "a") EXCEPT !.mine = TRUE]

\* AS 1 and 2 are external, AS 5 is ours.
MCPeerAs == [p \in Peers |-> CASE p = "e1" -> 1 [] p = "e2" -> 2 [] OTHER -> 5]
MCRouterId == [p \in Peers |-> CASE p = "i1" -> 1 [] p = "i2" -> 2 [] OTHER -> 3]

\* No neighbor announces a path through another one.
MeshRoutes == [s \in Peers \cup {Local} |->
  CASE s = "e1"  -> {A(100, {1}, "b"), Own({1, 5})}
    [] s = "e2"  -> {A(100, {2}, "a")}
    [] s = "i1"  -> {A(120, {9}, "a")}
    [] s = "i2"  -> {}
    [] s = Local -> {A(110, {}, "b")}]

\* e2's path may lead through the AS of e1.
LoopRoutes == [s \in Peers \cup {Local} |->
  CASE s = "e1"  -> {A(100, {1}, "a")}
    [] s = "e2"  -> {A(100, {2}, "a"), A(100, {2, 1}, "a")}
    [] OTHER     -> {A(100, {}, "a")}]
=============================================================================
