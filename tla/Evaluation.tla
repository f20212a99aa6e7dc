----------------------------- MODULE Evaluation -----------------------------
(***************************************************************************)
(* Questions to the parts of the table package that keep no state: what a   *)
(* prefix set matches, what a list of policies makes of a path, what a      *)
(* neighbor is sent, what a VRF gives and takes, what comes back from a      *)
(* speaker of two octet AS numbers, what is in the messages, and whether a  *)
(* route's origin is valid.                                                 *)
(* A state is one question; the properties compare the answer of the code   *)
(* with what the question asks for.                                         *)
(***************************************************************************)
EXTENDS PathAttributes, Roa

CONSTANTS
  PrefixSets, Addresses,         \* prefix sets, and paths as [family, bits]
  PolicyLists, PolicyPaths,      \* policies, and paths for them
  Options,                       \* the options of an evaluation
  Paths, Peers, Global,          \* paths and the neighbors they are sent to
  VrfPaths, Vrfs,
  AsPaths, MaxHops,              \* AS_PATHs; the ASes of two octets on the way
  Batches,                       \* the paths of one batch
  RoaTables, Routes              \* ROAs, and paths as [family, bits, aspath, ownAs]

\* A path is a chain of clones.
LevelOf(l) == l = [attrs |-> l.attrs, dels |-> l.dels] /\ l.attrs = [t \in DOMAIN l.attrs |-> l.attrs[t]]
ChainOf(path) ==
  /\ DOMAIN path = {"source", "family", "nlri", "withdraw", "levels"}
  /\ path.levels \in Seq(ToSet(path.levels)) /\ path.levels # <<>>
  /\ \A i \in DOMAIN path.levels : LevelOf(path.levels[i])

\* Extended communities: a route target is transitive.
CommunitiesOf(ext) ==
  ext \in Seq(ToSet(ext)) /\ \A i \in DOMAIN ext : ext[i].subtype = "rt" => ext[i].transitive
TargetsOnly(ext) == CommunitiesOf(ext) /\ \A i \in DOMAIN ext : ext[i].subtype = "rt"

ASSUME PrefixesAssumption ==
  /\ \A s \in PrefixSets : /\ s = [family |-> s.family, entries |-> s.entries]
                          /\ \A e \in s.entries : e.prefix \in Seq({0, 1})
  /\ \A a \in Addresses : a.bits \in Seq({0, 1})

\* A policy is a list of statements.
ASSUME PoliciesAssumption == \A p \in PolicyLists : p \in Seq(ToSet(p))

\* The paths given to a VRF: IPv4 prefixes come with NEXT_HOP, all others with MP_REACH_NLRI.
ASSUME VrfsAssumption ==
  /\ \A path \in VrfPaths :
       /\ ChainOf(path) /\ path.family \in {"ipv4", "ipv6", "evpn"}
       /\ DOMAIN path.nlri = {"prefix", "rd", "id", "localId"}
       /\ Has(path, "nexthop") <=> path.family = "ipv4"
       /\ Has(path, "mpreach") <=> path.family # "ipv4"
       /\ CommunitiesOf(AttrOr(path, "ext", <<>>))
  /\ \A vrf \in Vrfs : CommunitiesOf(vrf.export) /\ TargetsOnly(vrf.import)

\* AS_PATHs as they should be: no segment is empty, and the octet for their number counts its ASes.
SegmentTypes == {"seq", "set"} \cup Confed
Segs == [type : SegmentTypes, as : Seq(Nat)]
AsPathOf(segments) == segments \in Seq(Segs) /\ \A i \in DOMAIN segments : Len(segments[i].as) \in 1..MaxSegment

\* A path has its next hop in one attribute, or in MP_REACH_NLRI. Not asked about are the paths of route targets, which
\* have an ORIGINATOR_ID of their own, neighbors in a VRF, and those whose AS is replaced.
KnownTypes == {"aspath", "nexthop", "mpreach", "med", "localpref", "cluster", "originator", "communities"}
ASSUME ExportAssumption ==
  /\ MaxSegment \in Nat /\ MaxSegment > 1
  /\ IsFiniteSet(NonTransitive) /\ NonTransitive \cap KnownTypes = {}
  /\ \A path \in Paths : /\ ChainOf(path) /\ path.family # "rtc"
                         /\ Has(path, "nexthop") <=> ~Has(path, "mpreach")
                         /\ AsPathOf(AttrOr(path, "aspath", <<>>))
  /\ \A peer \in Peers : /\ peer.type \in {"external", "internal"} /\ peer.localAs \in Nat
                         /\ peer.removePrivate \in {"none", "all", "replace"}
                         /\ peer.vrf = Nothing /\ ~peer.replacePeer

ASSUME RoasAssumption ==
  /\ \A t \in RoaTables : IsFiniteSet(t) /\ \A r \in t : r.prefix \in Seq({0, 1}) /\ r.maxLen \in Nat
  /\ \A route \in Routes : /\ route.bits \in Seq({0, 1})
                           /\ route.aspath \in Seq([type : SegmentTypes, as : Seq(Nat)])

VARIABLE question

NoQuestion == [about |-> Nothing]

AskPrefix == \E s, t \in PrefixSets, a \in Addresses, o \in {"any", "invert"} :
  question' = [about |-> "prefix", s |-> s, t |-> t, address |-> a, option |-> o]

AskPolicy == \E p, q \in PolicyLists, d \in {"accept", "reject"}, path \in PolicyPaths :
  question' = [about |-> "policy", p |-> p, q |-> q, default |-> d, path |-> path]

AskExport == \E path \in Paths, peer \in Peers :
  question' = [about |-> "export", path |-> path, peer |-> peer]

AskVrf == \E path \in VrfPaths, v, w \in Vrfs :
  question' = [about |-> "vrf", path |-> path, from |-> v, to |-> w]

AskAsPath == \E as \in AsPaths, n \in 0..MaxHops :
  question' = [about |-> "aspath", aspath |-> as, hops |-> n]

AskBatch == \E b \in Batches, a \in BOOLEAN :
  question' = [about |-> "batch", paths |-> b, addPath |-> a]

AskOrigin == \E t \in RoaTables, route \in Routes :
  question' = [about |-> "origin", roas |-> t, route |-> route]

Ask == AskPrefix \/ AskPolicy \/ AskExport \/ AskVrf \/ AskAsPath \/ AskBatch \/ AskOrigin
Forget == question # NoQuestion /\ question' = NoQuestion

EvaluationInit == question = NoQuestion
EvaluationNext == (question = NoQuestion /\ Ask) \/ Forget
EvaluationSpec == EvaluationInit /\ [][EvaluationNext]_question

-----------------------------------------------------------------------------
Asked(about) == question.about = about

\* A prefix condition on a set that has entries holds of exactly the prefixes an entry covers, also
\* after the set was extended (PrefixSet.Append, PrefixCondition.Evaluate). Only where prefixes of
\* the set lie within each other the shorter ones are not looked at: then it may find too few, never
\* too many. (What it says of a set without entries is the subject of EmptySetMatches.)
PrefixSetsMatch == Asked("prefix") =>
  LET set     == PrefixSetAppend(question.s, question.t)
      a       == question.address
      found   == PrefixHolds([set |-> set, option |-> question.option], a)
      matches == \E e \in set.entries : EntryMatches(set.family, e, a)
      nested  == \E e, f \in set.entries :
                   e.prefix # f.prefix /\ IsPrefix(e.prefix, a.bits) /\ IsPrefix(f.prefix, a.bits)
      fits    == a.family = set.family
  IN  /\ set.entries # {} =>
           /\ ~nested => (found <=> fits /\ Inverted(question.option, matches))
           /\ found /\ question.option = "any" => matches
      /\ PrefixSetRemove(set, question.t).entries \subseteq question.s.entries

\* "If PrefixList's length is zero, return true": the comment of PrefixCondition.Evaluate
\* (policy.go:1440), of a set made without entries or left without them by PrefixSet.Remove.
EmptySetMatches == Asked("prefix") =>
  \A set \in {PrefixSetAppend(question.s, question.t), PrefixSetRemove(question.s, question.t)} :
    set.entries = {} /\ set.family \in {Nothing, question.address.family} =>
      PrefixHolds([set |-> set, option |-> "any"], question.address)

\* The same as PrefixSetsMatch for entries within each other, where the tree is asked for the
\* longest of them only (PrefixCondition.Evaluate).
NestedEntriesMatch == Asked("prefix") =>
  LET set == PrefixSetAppend(question.s, question.t)
  IN  (\E e \in set.entries : EntryMatches(set.family, e, question.address)) =>
        PrefixHolds([set |-> set, option |-> "any"], question.address)

\* How statements are grouped into policies makes no difference to a path, what a policy rejects no
\* later one can let through, and withdrawals always pass (RoutingPolicy.ApplyPolicy, Policy.Apply).
PoliciesCompose == Asked("policy") =>
  LET p == question.p  q == question.q  path == question.path
      apply(policies, d) == ApplyPolicy(policies, d, path, Options)
  IN  /\ apply(<<p, q>>, question.default) = apply(<<p \o q>>, question.default)
      /\ apply(<<p>>, "accept") = Rejected => apply(<<p, q>>, question.default) = Rejected
      /\ path.withdraw => apply(<<p, q>>, question.default) = [result |-> "accept", path |-> path]

\* The two together: a path meets exactly the statements it should, and only these change it.
PoliciesMatch == PrefixSetsMatch /\ PoliciesCompose

ASesOf(segments) == FlattenSeq([i \in DOMAIN segments |-> segments[i].as])

\* What an external neighbor is sent: our AS first, none of what stays within an AS, a next hop it
\* can reach, and of the AS_PATH all but what had to be removed.
FitsExternal(path, peer, out) ==
  LET in == GetPathAttrs(path)
      old == IF "aspath" \in DOMAIN in THEN in.aspath ELSE <<>>
      as == ASesOf(out.aspath)
      kept == ASesOf(IF peer.confed THEN old ELSE NoConfed(old))
  IN  /\ DOMAIN out \cap ({"localpref", "cluster", "originator"} \cup NonTransitive) = {}
      /\ out.aspath # <<>>
      /\ "med" \in DOMAIN out => path.source.local
      /\ out.aspath[1].type = IF peer.confed THEN "confedseq" ELSE "seq"
      /\ ~peer.confed => \A i \in DOMAIN out.aspath : out.aspath[i].type \notin Confed
      /\ \A i \in DOMAIN out.aspath : Len(out.aspath[i].as) \in 1..MaxSegment
      /\ Head(as) = peer.localAs
      /\ Tail(as) = CASE peer.removePrivate = "none"    -> kept
                      [] peer.removePrivate = "all"     -> Kept(kept, ToSet(kept) \ PrivateASes)
                      [] peer.removePrivate = "replace" ->
                           [i \in DOMAIN kept |-> IF kept[i] \in PrivateASes THEN peer.localAs ELSE kept[i]]

\* What an internal neighbor is sent: the AS_PATH as it is, always LOCAL_PREF, and if it is a
\* client the marks of reflection, which nobody else gets.
FitsInternal(path, peer, out) ==
  LET in == GetPathAttrs(path)
      marks == {"cluster", "originator"}
  IN  /\ out.aspath = IF "aspath" \in DOMAIN in THEN in.aspath ELSE <<>>
      /\ out.localpref = IF "localpref" \in DOMAIN in THEN in.localpref ELSE DefaultLocalPref
      /\ DOMAIN out \cap NonTransitive = {}
      /\ ~peer.client => DOMAIN out \cap marks = {}
      /\ peer.client => /\ marks \subseteq DOMAIN out
                        /\ out.cluster = <<peer.cluster>> \o IF "cluster" \in DOMAIN in THEN in.cluster ELSE <<>>
                        /\ "originator" \in DOMAIN in => out.originator = in.originator

NexthopOf(out) == IF "nexthop" \in DOMAIN out THEN out.nexthop ELSE out.mpreach

\* UpdatePathAttrs and postFilterpath together, on a path that may be a clone of clones: what is
\* serialized (GetPathAttrs) is what the kind of the neighbor asks for.
ExportFitsSession == Asked("export") =>
  LET path == question.path
      peer == question.peer
      sent == PostFilterpath(peer, ForPeer(Global, peer, path))
      out  == GetPathAttrs(sent)
      own  == path.source.local /\ GetNexthop(path) # Unspecified
      keep == IF peer.type = "external" THEN own ELSE GetNexthop(path) # Unspecified \/ ~path.source.local
  IN  IF peer.rsClient THEN out = GetPathAttrs(path)
      ELSE /\ NexthopOf(out) = IF keep THEN GetNexthop(path) ELSE peer.address
           /\ ~({"nexthop", "mpreach"} \subseteq DOMAIN out)
           /\ IF peer.type = "external" THEN FitsExternal(path, peer, out) ELSE FitsInternal(path, peer, out)
           /\ ~peer.llgr /\ "llgrstale" \in AttrOr(path, "communities", {}) => sent.withdraw

Targets(ext) == {ext[i].value : i \in {j \in DOMAIN ext : ext[j].subtype = "rt"}}

\* A path of a VRF goes to the VRFs that import one of its targets, and to no other; there it is
\* the path it was, without any trace of the way (Path.ToGlobal, CanImportToVrf, Path.ToLocal).
VrfRoundTrip == Asked("vrf") =>
  LET path == question.path
      out  == ToGlobal(path, question.from)
      back == ToLocal(out)
      targets == Targets(AttrOr(path, "ext", <<>>)) \cup Targets(question.from.export)
      same == {"ext"}
  IN  /\ out.nlri.rd = question.from.rd
      /\ CanImportToVrf(question.to, out) <=> targets \cap Targets(question.to.import) # {}
      /\ path.family # "evpn" =>
           /\ back.family = path.family /\ back.nlri.prefix = path.nlri.prefix /\ back.nlri.rd = Nothing
           /\ Without(GetPathAttrs(back), same) = Without(GetPathAttrs(path), same)
           /\ ~Has(back, "ext")

\* A speaker that knows two octets puts its AS in front and passes AS4_PATH on as it is.
Through(m, old) ==
  [m EXCEPT !.aspath = PrependAsn([aspath |-> @], old, 1, FALSE).aspath]
After(m, n) == FoldLeft(LAMBDA x, i : Through(x, i), m, [i \in 1..n |-> i])

\* The units an AS_PATH is compared by: each AS of a sequence, each set as a whole.
Units(aspath) ==
  FlattenSeq([i \in DOMAIN aspath |->
                IF aspath[i].type = "seq" THEN [j \in DOMAIN aspath[i].as |-> {aspath[i].as[j]}]
                ELSE <<ToSet(aspath[i].as)>>])

\* An AS_PATH without confederation segments that went through speakers of two octets comes back
\* with all its ASes, the speakers in front (UpdatePathAttrs2ByteAs, UpdatePathAttrs4ByteAs); only
\* when there was none, and the path begins with a set, an empty set is put in front of it. The
\* AGGREGATOR comes back with its AS.
OldSpeakerRoundTrip == Asked("aspath") =>
  LET n == question.hops
      m == After(UpdatePathAttrs2ByteAs(question.aspath), n)
      aggregator(as) == UpdatePathAggregator4ByteAs(UpdatePathAggregator2ByteAs(as))
      alone == n = 0 /\ m.has4 /\ question.aspath[1].type = "set"
  IN  /\ \A as \in ToSet(ASesOf(question.aspath)) : aggregator(as) = as
      /\ NoConfed(question.aspath) = question.aspath /\ ~alone =>
        Units(UpdatePathAttrs4ByteAs(m)) = [i \in 1..n |-> {n + 1 - i}] \o Units(question.aspath)

\* message.go: "only SEQ param reaches here". Of the segments that are cut none is a set.
OnlySequencesAreCut == Asked("aspath") =>
  LET m == After(UpdatePathAttrs2ByteAs(question.aspath), question.hops)
      kept == Keep(m.aspath, TooFew(m))
  IN  m.has4 /\ TooFew(m) >= 0 =>
        \A i \in DOMAIN kept : kept[i] # m.aspath[i] => kept[i].type = "seq"

\* Path.PrependAsn: "the local system prepends the specified AS num [..] the specified number of
\* times", however full the first segment is; the most a policy can ask for is MaxSegment times.
PrependsAllOfThem == Asked("aspath") =>
  \A n \in 1..MaxSegment :
    LET new == ASesOf(PrependAsn([aspath |-> question.aspath], 1, n, FALSE).aspath)
    IN  SubSeq(new, 1, n) = Copies(1, n)

\* Each path of a batch is in one message, which holds no more than fits and only paths of equal
\* attributes, and the receiver makes the same paths of it (CreateUpdateMsgFromPaths,
\* ProcessMessage). Not sent are exactly the IPv4 paths whose own attributes leave no room for a
\* prefix, and only when they overrun the message by a prefix or more is the batch not sent at all.
PackedOnce == Asked("batch") =>
  LET paths   == ToSet(question.paths)
      sent    == CreateUpdateMsgFromPaths(question.paths, question.addPath)
      got     == {ProcessMessage(UpdateOf(m)) : m \in sent.msgs}
      seen(p) == [kind |-> p.kind, family |-> p.family, nlri |-> IF p.kind = "eor" THEN 0 ELSE p.nlri,
                  attrs |-> IF p.kind = "reach" THEN p.attrs ELSE 0]
      prefix  == NlriSize + IF question.addPath THEN IdSize ELSE 0
      shared  == {p \in paths : p.family = "ipv4" /\ p.kind = "reach" /\ ~p.v6}
      small   == {p \in shared : Overhead + p.attrs + prefix <= MessageSize}
      large   == {p \in shared : Overhead + p.attrs - prefix >= MessageSize}
      fitting == {seen(p) : p \in small \cup (paths \ shared)}
  IN  /\ sent.panics => large # {}
      /\ ~sent.panics =>
           /\ UNION {ToSet(g) : g \in got} = fitting
           /\ FoldSet(LAMBDA g, n : n + Len(g), 0, got) = Cardinality(fitting)
           /\ \A m \in sent.msgs : Head(m).family = "ipv4" /\ Head(m).kind # "eor" =>
                                     Octets(m, question.addPath) <= MessageSize

\* Who a route comes from: the last AS of its path, if the path ends in a sequence; a path that is
\* empty, ends in an empty sequence or in a confederation is of the own AS; one that ends in a set
\* comes from nobody in particular.
HasOrigin(route) == route.aspath = <<>> \/ Last(route.aspath).type # "set"
ComesFrom(route, as) ==
  LET n    == Len(route.aspath)
      ases == route.aspath[n].as
  IN  /\ HasOrigin(route)
      /\ IF n # 0 /\ route.aspath[n].type = "seq" /\ ases # <<>> THEN as = ases[Len(ases)]
         ELSE as = route.ownAs

\* A route is valid if and only if a ROA of its prefix, length and family names the AS it comes from,
\* and AS 0 is nobody's; it is invalid if it comes from someone, is covered and not valid; else it is
\* not found. Another ROA never takes the validity away, and what one source said counts as if it had
\* never been said once it is deleted, ROA by ROA or at once (ROATable.Validate, Delete, DeleteAll).
OriginsAreAuthorized == Asked("origin") =>
  LET t == question.roas  route == question.route
      sources == {r.src : r \in t}
      without(src) == {r \in t : r.src # src}
      singly(src) == FoldSet(LAMBDA r, u : RoaDelete(u, r), t, {r \in t : r.src = src})
      whole == FoldSet(LAMBDA r, u : RoaAdd(u, r), NoRoas, t)
      covers(r) == r.family = route.family /\ IsPrefix(r.prefix, route.bits)
      authorizes(r) == /\ covers(r) /\ Len(route.bits) \in Len(r.prefix) .. r.maxLen
                       /\ r.as # 0 /\ ComesFrom(route, r.as)
  IN  /\ Validate(t, route) = "valid" <=> \E r \in t : authorizes(r)
      /\ Validate(t, route) = "invalid" <=>
           /\ HasOrigin(route) /\ \E r \in t : covers(r)
           /\ ~\E r \in t : authorizes(r)
      /\ \A r \in t :
           /\ Validate({r}, route) = "valid" => Validate(whole, route) = "valid"
           /\ Validate({r}, route) # "notfound" => Validate(whole, route) # "notfound"
      /\ \A src \in sources : RoaDeleteAll(whole, src) = without(src) /\ singly(src) = without(src)
=============================================================================
