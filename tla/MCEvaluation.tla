---------------------------- MODULE MCEvaluation ----------------------------
(* Model checking Evaluation: small numbers for the sizes, so that segments, *)
(* messages and two octets overflow, and inputs for each kind of question.   *)
EXTENDS Evaluation

Entry(p, min, max) == [prefix |-> p, min |-> min, max |-> max]
Entries == {Entry(<<0>>, 1, 1), Entry(<<0>>, 1, 2), Entry(<<0, 1>>, 2, 2), Entry(<<0, 1>>, 3, 3), Entry(<<1>>, 2, 3)}
MCPrefixSets ==
  {EmptyPrefixSet} \cup
  [family : {"ipv4", "ipv6"}, entries : {s \in SUBSET Entries : Cardinality(s) \in 1..2}]
MCAddresses == [family : {"ipv4", "ipv6"}, bits : {<<0>>, <<1>>, <<0, 0>>, <<0, 1>>, <<1, 0>>, <<0, 1, 1>>, <<1, 1, 0>>}]

Seg(t, as) == [type |-> t, as |-> as]
MCOptions == [oldNextHop |-> "h2", address |-> "n1", local |-> "h9", confed |-> FALSE, validation |-> "valid"]

\* Statements whose conditions see what earlier ones changed.
HasTwo == [type |-> "community", option |-> "any", set |-> {{2}}]
AllOf == [type |-> "community", option |-> "all", set |-> {{1}, {2}}]
Statement(c, a, r) == [conditions |-> c, actions |-> a, route |-> r]
Statements ==
  {Statement(<<>>, <<[type |-> "community", option |-> "add", list |-> {2}]>>, "none"),
   Statement(<<HasTwo>>, <<[type |-> "prepend", useLeftMost |-> FALSE, asn |-> 3, repeat |-> 2]>>, "none"),
   Statement(<<[type |-> "length", operator |-> "ge", length |-> 3]>>, <<>>, "reject"),
   Statement(<<AllOf, [type |-> "nexthop", set |-> {"h2"}], [type |-> "neighbor", option |-> "any", set |-> {"n1"}]>>,
             <<[type |-> "med", option |-> "mod", value |-> 3], [type |-> "localpref", value |-> 7]>>, "accept"),
   Statement(<<[type |-> "aspath", option |-> "any", set |-> {[mode |-> "leftmost", asn |-> 3]}],
               [type |-> "rpki", result |-> "valid"]>>,
             <<[type |-> "community", option |-> "remove", list |-> {{2}}]>>, "none"),
   Statement(<<[type |-> "route", route |-> "external"], [type |-> "afisafi", families |-> {"ipv4"}]>>,
             <<[type |-> "nexthop", self |-> TRUE], [type |-> "prepend", useLeftMost |-> TRUE, asn |-> 0, repeat |-> 1]>>, "none")}
MCPolicyLists == {<<>>} \cup {<<s>> : s \in Statements} \cup {<<s, t>> : s, t \in Statements}
MCPolicyPaths ==
  {[family |-> "ipv4", bits |-> <<0>>, nexthop |-> "h1", source |-> "n2", local |-> FALSE, ibgp |-> FALSE,
    aspath |-> as, communities |-> {1}, large |-> {}, ext |-> <<>>, med |-> {3}, localPref |-> 100, withdraw |-> w] :
     as \in {<<>>, <<Seg("seq", <<1>>)>>, <<Seg("set", <<1, 2>>)>>}, w \in BOOLEAN}

MCGlobal == [routerId |-> "r"]
MCPrivateASes == {64}
Sources == {[local |-> TRUE, id |-> "none", localId |-> "r"], [local |-> FALSE, id |-> "s", localId |-> "r"]}
Opt(t, vs) == {<<>>} \cup {t :> v : v \in vs}
AttrSets ==
  {a @@ b @@ c @@ d @@ e @@ f :
     a \in Opt("aspath", {<<Seg("seq", <<1>>)>>, <<Seg("confedseq", <<5>>), Seg("seq", <<64, 1>>)>>,
                          <<Seg("seq", <<1, 2, 1>>)>>, <<Seg("set", <<1, 64>>)>>}),
     b \in {"nexthop" :> "h1", "nexthop" :> Unspecified, "mpreach" :> "h1"},
     c \in Opt("med", {5}), d \in Opt("localpref", {200}),
     e \in {<<>>, ("cluster" :> <<"c2">>) @@ ("originator" :> "o")},
     f \in {<<>>, ("unknown" :> "u") @@ ("opaque" :> "u") @@ ("communities" :> {"llgrstale"})}}
Path(s, levels) == [source |-> s, family |-> "ipv4", nlri |-> 1, withdraw |-> FALSE, levels |-> levels]

\* A clone as policies make them: an attribute changed and one deleted.
Level(attrs, dels) == [attrs |-> attrs, dels |-> dels]
Changed == Level(("med" :> 6), {"localpref"})
MCPaths == {Path(s, <<Level(a, {})>>) : s \in Sources, a \in AttrSets}
             \cup {Path(s, <<Level("localpref" :> 9, {}), Changed, Level(a, {})>>) : s \in Sources, a \in AttrSets}

\* Its own AS is a private one.
Peer == [type |-> "external", client |-> FALSE, rsClient |-> FALSE, localAs |-> 64, peerAs |-> 1,
         removePrivate |-> "none", replacePeer |-> FALSE, confed |-> FALSE, address |-> "h9", v6 |-> FALSE,
         cluster |-> "c1", vrf |-> Nothing, llgr |-> TRUE]
MCPeers ==
  {[Peer EXCEPT !.removePrivate = r, !.confed = c] : r \in {"none", "all", "replace"}, c \in BOOLEAN}
    \cup {[Peer EXCEPT !.type = "internal", !.client = c, !.llgr = FALSE] : c \in BOOLEAN}
    \cup {[Peer EXCEPT !.rsClient = TRUE], [Peer EXCEPT !.v6 = TRUE]}

Rt(v) == [transitive |-> TRUE, subtype |-> "rt", value |-> v]
Soo == [transitive |-> TRUE, subtype |-> "soo", value |-> 1]
MCVrfs == [rd : {"d1", "d2"}, import : {<<>>, <<Rt(1)>>, <<Rt(2), Rt(1)>>}, export : {<<>>, <<Rt(1)>>, <<Rt(2)>>}]
MCVrfPaths ==
  {[source |-> s, family |-> f, nlri |-> [prefix |-> 1, rd |-> Nothing, id |-> i, localId |-> 3], withdraw |-> FALSE,
    levels |-> <<Level((nh :> "h1") @@ x @@ ("med" :> 5), {})>>] :
     s \in Sources, f \in {"ipv4", "ipv6", "evpn"}, i \in {0, 1}, x \in Opt("ext", {<<Soo>>, <<Rt(3), Soo>>}),
     nh \in {"nexthop", "mpreach"}}
MCVrfPathsOk == {p \in MCVrfPaths : (p.family = "ipv4") = ("nexthop" \in DOMAIN p.levels[1].attrs)}

\* 9 is an AS of four octets; a segment holds three ASes.
Segments == {Seg(t, as) : t \in {"seq", "set"}, as \in {<<1>>, <<9>>, <<5, 9>>, <<9, 5, 1>>}}
              \cup {Seg("confedseq", <<5>>), Seg("confedset", <<5, 9>>)}
MCAsPaths == {<<>>} \cup {<<s>> : s \in Segments} \cup {<<s, t>> : s, t \in Segments}
               \cup {<<s, t, u>> : s, t, u \in {Seg("seq", <<9, 5>>), Seg("set", <<9>>), Seg("seq", <<1>>)}}

Out(k, f, n, a, v) == [kind |-> k, family |-> f, nlri |-> n, attrs |-> a, v6 |-> v]
\* Attributes of 2 and 9 octets leave room for prefixes, of 18 for none, and 22 is too much.
Outs(n) == {Out("reach", "ipv4", n, a, FALSE) : a \in {2, 9, 18, 22}} \cup {Out("reach", "ipv4", n, 2, TRUE),
            Out("withdraw", "ipv4", n, 0, FALSE), Out("reach", "evpn", n, 2, TRUE), Out("withdraw", "evpn", n, 0, FALSE)}
Eors == {Out("eor", f, 0, 0, FALSE) : f \in {"ipv4", "evpn"}}
MCBatches == {<<>>} \cup {<<a, b, c, d, e>> : a \in Outs(1), b \in Outs(2), c \in Outs(3), d \in Outs(4), e \in Eors}

RoaOf(f, p, l, as, src) == [family |-> f, prefix |-> p, maxLen |-> l, as |-> as, src |-> src]
SomeRoas == {RoaOf("ipv4", <<0>>, 1, 1, "c1"), RoaOf("ipv4", <<0>>, 2, 1, "c2"), RoaOf("ipv4", <<0, 1>>, 2, 2, "c1"),
             RoaOf("ipv4", <<0, 1>>, 3, 0, "c2"), RoaOf("ipv6", <<0>>, 3, 2, "c1"), RoaOf("ipv4", <<>>, 3, 3, "c2")}
MCRoaTables == {t \in SUBSET SomeRoas : Cardinality(t) <= 3}
MCRoutes == [family : {"ipv4", "ipv6"}, bits : {<<0>>, <<0, 1>>, <<0, 1, 1>>, <<1>>}, ownAs : {0, 2},
             aspath : {<<>>, <<Seg("seq", <<2, 1>>)>>, <<Seg("seq", <<1>>), Seg("set", <<1, 2>>)>>,
                       <<Seg("seq", <<1, 3>>)>>, <<Seg("seq", <<>>)>>, <<Seg("confedseq", <<1>>)>>}]
=============================================================================
