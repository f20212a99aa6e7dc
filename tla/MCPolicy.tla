------------------------------ MODULE MCPolicy ------------------------------
(* Model checking Policy: one set for each of two types of conditions, two  *)
(* statements, one policy; two objects of each kind, so that a name and the *)
(* object in use can come apart.                                            *)
EXTENDS Policy

MCTypes == <<"prefix", "community">>

Describe(prefix, community, route) ==
  [names |-> [t \in TypeSet |-> IF (t = "prefix" /\ prefix) \/ (t = "community" /\ community)
                                 THEN "x" ELSE Nothing],
   route |-> route]

MCAsked == {Describe(TRUE, FALSE, "none"), Describe(TRUE, TRUE, "reject")}
MCStLists == {<<"s">>, <<"s", "t">>}
MCPoLists == {<<"p">>}

\* One that is consistent, one that lacks a set, one that has no policy.
MCConfigs ==
  {[sets |-> [k \in {<<"prefix", "x">>, <<"community", "x">>} |-> {"m"}],
    policies |-> [n \in {"p"} |-> <<<<"s", Describe(TRUE, TRUE, "reject")>>>>]],
   [sets |-> [k \in {<<"community", "x">>} |-> {"m"}],
    policies |-> [n \in {"p"} |-> <<<<"s", Describe(TRUE, FALSE, "reject")>>>>]],
   [sets |-> [k \in {<<"community", "x">>} |-> {"m"}], policies |-> <<>>]}

\* Objects that nothing points to make no difference; nor does to what comes what a set contains,
\* which of the two ways of ending an operation had, or what the default of a table is.
View == <<setMap, stMap, [i \in UsedStmts |-> stmts[i]], poMap, [i \in UsedPols |-> pols[i]],
          [d \in Dirs |-> assign[d].pols], outcome = "reloaded", outcome = "panic">>
=============================================================================
