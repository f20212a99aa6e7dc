-------------------------- MODULE MCConfiguration --------------------------
(* Model checking Configuration: two neighbors, a group with a dynamic      *)
(* prefix, files that differ in one setting of each kind, and clients that  *)
(* add, change and delete a member of the group.                            *)
EXTENDS Configuration, TLC

Settings(s) == s @@ [f \in Fields |-> 0]
External == "peerAs" :> 2
Conf(a, g, s, p) ==
  [address |-> a, state |-> Nothing, group |-> g, filled |-> FALSE, set |-> Settings(s @@ External), policies |-> p]
GroupConf(g, s, p) == [name |-> g, set |-> Settings(s @@ External), policies |-> p]

MCAddresses == {"a", "b"}
MCGroupNames == {"g"}
MCPolicies == {"p", "q"}
Variants ==
  {<<"holdTime" :> 30, {}>>, <<"limits" :> 7, {}>>, <<"multihop" :> 1, {}>>,
   <<"allowOwnAs" :> 1, {"p"}>>, <<("graceful" :> 1) @@ ("addPaths" :> 1), {}>>,
   <<"vrf" :> 2, {}>>}
File(ns, gs, ds, ps, gl) == [neighbors |-> ns, groups |-> gs, prefixes |-> ds, policies |-> ps, global |-> gl]
PrefixOf(a) == {[prefix |-> a, group |-> "g"]}
B == Conf("b", Nothing, <<>>, {"p"})
OneGroup(s) == <<GroupConf("g", s, {"p"})>>
MCFiles ==
  {File(<<Conf("a", Nothing, v[1], v[2]), B>>, <<>>, {}, {"p"}, {}) : v \in Variants}
    \cup {File(<<Conf("a", Nothing, v[1], v[2])>>, OneGroup(<<>>), PrefixOf("b"), {"p", "q"}, {"q"}) :
            v \in {<<"holdTime" :> 30, {"q"}>>, <<"removePrivateAs" :> 1, {"p"}>>}}
    \cup {File(<<Conf("a", Nothing, "limits" :> 7, {}), B>>, <<>>, {}, {"p", "q"}, {"q"}),
          File(<<>>, OneGroup("holdTime" :> 30), PrefixOf("b"), {"p"}, {"p"}),
          File(<<Conf("a", "g", <<>>, {}), B>>, <<>>, {}, {"p"}, {}),
          File(<<Conf("a", "g", <<>>, {}), B>>, OneGroup(<<>>), {}, {"p"}, {})}
MCApiCalls ==
  {Call("add", Conf("b", "g", <<>>, {})), Call("delete", [Conf("b", "g", <<>>, {}) EXCEPT !.state = "b"]),
   Call("update", Conf("b", Nothing, "holdTime" :> 20, {"q"})), Call("update", Conf("a", Nothing, "vrf" :> 2, {})),
   Call("addGroup", GroupConf("g", <<>>, {"p"})), Call("deleteGroup", "g"),
   Call("updateGroup", GroupConf("g", "peerAs" :> 1, {"q"})),
   Call("prefix", [prefix |-> "a", group |-> "g"]), Call("softResetIn", Nothing), Call("policies", {"p"})}
=============================================================================
