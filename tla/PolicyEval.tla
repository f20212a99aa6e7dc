----------------------------- MODULE PolicyEval -----------------------------
(***************************************************************************)
(* How a routing policy decides about a path (internal/pkg/table/policy.go):*)
(* what each condition holds of, what each action does to the path, and    *)
(* how statements and policies combine.                                    *)
(*                                                                         *)
(* A prefix is the sequence of its bits. A regular expression over         *)
(* communities or AS paths is the set of values it matches. An address set *)
(* is the set of the addresses it contains.                                *)
(***************************************************************************)
EXTENDS Integers, SequencesExt

CONSTANTS
  MaxSegment,   \* the number of ASes a segment of AS_PATH has room for: 255
  MaxMed        \* the largest MED: 2^32 - 1

ASSUME LimitsAssumption == MaxSegment \in Nat \ {0} /\ MaxMed \in Nat

Nothing == "none"

-----------------------------------------------------------------------------
(* Prefix sets: entries [prefix, min, max] of one family.                   *)

EmptyPrefixSet == [family |-> Nothing, entries |-> {}]

\* Prefix.Match: does one entry cover this path?
EntryMatches(fam, e, path) ==
  /\ path.family = fam
  /\ IsPrefix(e.prefix, path.bits)
  /\ Len(path.bits) \in e.min .. e.max

\* PrefixSet.Append; an error leaves the set as it was.
PrefixSetAppend(s, t) ==
  IF t.entries = {} \/ (s.entries # {} /\ s.family # t.family) THEN s
  ELSE [family |-> t.family, entries |-> s.entries \cup t.entries]

\* PrefixSet.Remove: the family stays, whatever is left.
PrefixSetRemove(s, t) == [s EXCEPT !.entries = @ \ t.entries]

\* The entries the tree finds for a path: those under its longest stored prefix.
LongestMatch(s, path) ==
  LET covering == {e \in s.entries : IsPrefix(e.prefix, path.bits)}
  IN  {e \in covering : \A f \in covering : Len(f.prefix) <= Len(e.prefix)}

Inverted(option, b) == IF option = "invert" THEN ~b ELSE b

(* mutant *)
PrefixHoldsAnyFamily(c, path) ==
  Inverted(c.option, \E e \in LongestMatch(c.set, path) : Len(path.bits) \in e.min .. e.max)

PrefixHolds(c, path) ==
  /\ path.family = c.set.family
  /\ Inverted(c.option, \E e \in LongestMatch(c.set, path) : Len(path.bits) \in e.min .. e.max)

-----------------------------------------------------------------------------
(* Conditions.                                                              *)

NextHopHolds(c, path, opts) ==
  LET nexthop == IF opts.oldNextHop \notin {Nothing, path.nexthop}
                 THEN opts.oldNextHop ELSE path.nexthop
  IN  c.set = {} \/ (nexthop # Nothing /\ nexthop \in c.set)

NeighborHolds(c, path, opts) ==
  LET neighbor == IF opts.address # Nothing THEN opts.address ELSE path.source
  IN  c.set = {} \/ (neighbor # Nothing /\ Inverted(c.option, neighbor \in c.set))

\* The ASes of AS_PATH in order; a segment that is not an AS_SEQUENCE counts as one AS 0.
AsSeqList(path) ==
  FlattenSeq([i \in DOMAIN path.aspath |->
                IF path.aspath[i].type = "seq" THEN path.aspath[i].as ELSE <<0>>])

SingleAsMatch(m, as) ==
  /\ as # <<>>
  /\ CASE m.mode = "include"  -> m.asn \in ToSet(as)
       [] m.mode = "leftmost" -> m.asn = Head(as)
       [] m.mode = "origin"   -> m.asn = Last(as)
       [] m.mode = "only"     -> as = <<m.asn>>

\* Members that are no such match are regular expressions: [mode, paths].
AsMemberMatches(m, as) ==
  IF m.mode = "regexp" THEN as \in m.paths ELSE SingleAsMatch(m, as)

AsPathHolds(c, path) ==
  LET as == AsSeqList(path)
      hits == {m \in c.set : AsMemberMatches(m, as)}
  IN  CASE c.option = "any"    -> hits # {}
        [] c.option = "all"    -> hits = c.set
        [] c.option = "invert" -> hits = {}

\* CommunityCondition and LargeCommunityCondition go through the expressions of the set.
ExpressionsHold(c, values) ==
  LET hit(x) == \E y \in values : y \in x
  IN  CASE c.option = "any"    -> \E x \in c.set : hit(x)
        [] c.option = "all"    -> c.set # {} /\ \A x \in c.set : hit(x)
        [] c.option = "invert" -> ~\E x \in c.set : hit(x)

(* mutant *)
CommunityHoldsSome(c, path) == ExpressionsHold([c EXCEPT !.option = IF @ = "all" THEN "any" ELSE @], path.communities)

CommunityHolds(c, path) == ExpressionsHold(c, path.communities)

LargeCommunityHolds(c, path) == ExpressionsHold(c, path.large)

\* ExtCommunityCondition goes through the communities of the path instead: with ALL the first
\* transitive one that fails decides, with INVERT the last one of the path does.
ExtCommunityHolds(c, path) ==
  LET es == path.ext
      hit(x) == /\ x.transitive
                /\ \E i \in DOMAIN c.set.exps :
                     x.subtype = c.set.subtypes[i] /\ x.value \in c.set.exps[i]
      lastHits == es # <<>> /\ hit(Last(es))
  IN  CASE c.option = "any"    -> \E i \in DOMAIN es : hit(es[i])
        [] c.option = "all"    -> lastHits /\ \A i \in DOMAIN es : es[i].transitive => hit(es[i])
        [] c.option = "invert" -> ~lastHits

\* ASLen: an AS_SET counts once, confederation segments do not count.
AsPathLen(path) ==
  FoldLeft(LAMBDA n, seg : n + CASE seg.type = "seq" -> Len(seg.as)
                                 [] seg.type = "set" -> 1
                                 [] OTHER            -> 0, 0, path.aspath)

AsPathLengthHolds(c, path) ==
  CASE c.operator = "eq" -> AsPathLen(path) = c.length
    [] c.operator = "ge" -> AsPathLen(path) >= c.length
    [] c.operator = "le" -> AsPathLen(path) <= c.length

RpkiHolds(c, opts) == opts.validation # Nothing /\ opts.validation = c.result

RouteTypeHolds(c, path) ==
  CASE c.route = "local"    -> path.local
    [] c.route = "internal" -> ~path.local /\ path.ibgp
    [] c.route = "external" -> ~path.local /\ ~path.ibgp

AfiSafiHolds(c, path) == path.family \in c.families

Holds(c, path, opts) ==
  CASE c.type = "prefix"    -> PrefixHolds(c, path)
    [] c.type = "neighbor"  -> NeighborHolds(c, path, opts)
    [] c.type = "nexthop"   -> NextHopHolds(c, path, opts)
    [] c.type = "aspath"    -> AsPathHolds(c, path)
    [] c.type = "community" -> CommunityHolds(c, path)
    [] c.type = "ext"       -> ExtCommunityHolds(c, path)
    [] c.type = "large"     -> LargeCommunityHolds(c, path)
    [] c.type = "length"    -> AsPathLengthHolds(c, path)
    [] c.type = "rpki"      -> RpkiHolds(c, opts)
    [] c.type = "route"     -> RouteTypeHolds(c, path)
    [] c.type = "afisafi"   -> AfiSafiHolds(c, path)

-----------------------------------------------------------------------------
(* Actions. Each gives the path as it is after it.                          *)

SetCommunities(path, a) ==
  [path EXCEPT !.communities =
     CASE a.option = "add"     -> @ \cup a.list
       [] a.option = "remove"  -> {y \in @ : ~\E x \in a.list : y \in x}
       [] a.option = "replace" -> a.list]

SetLargeCommunities(path, a) ==
  [path EXCEPT !.large =
     CASE a.option = "add"     -> @ \cup a.list
       [] a.option = "remove"  -> {y \in @ : ~\E x \in a.list : y \in x}
       [] a.option = "replace" -> a.list]

\* Removing drops the communities that are not transitive as well.
SetExtCommunities(path, a) ==
  [path EXCEPT !.ext =
     CASE a.option = "add"     -> @ \o a.list
       [] a.option = "remove"  ->
            SelectSeq(@, LAMBDA x : /\ x.transitive
                                    /\ ~\E i \in DOMAIN a.exps :
                                         x.subtype = a.subtypes[i] /\ x.value \in a.exps[i])
       [] a.option = "replace" -> a.list]

\* MED is the set of its value, if there is one.
Med(path) == IF path.med = {} THEN 0 ELSE CHOOSE m \in path.med : TRUE

(* mutant *)
SetMedWraps(path, a) ==
  [path EXCEPT !.med = {((IF a.option = "replace" THEN 0 ELSE Med(path)) + a.value) % (MaxMed + 1)}]

\* A change that leaves 0 .. MaxMed is refused and the MED stays.
SetMed(path, a) ==
  [path EXCEPT !.med =
     CASE a.option = "replace"                                 -> {a.value % (MaxMed + 1)}
       [] a.option = "mod" /\ Med(path) + a.value \in 0..MaxMed -> {Med(path) + a.value}
       [] OTHER                                                 -> @]

SetLocalPref(path, a) == [path EXCEPT !.localPref = a.value]

Copies(as, n) == [i \in 1..n |-> as]

(* mutant *)
PrependAsnOnce(path, asn, repeat, confed) ==
  [path EXCEPT !.aspath =
     <<[type |-> IF confed THEN "confedseq" ELSE "seq", as |-> Copies(asn, IF repeat > 0 THEN 1 ELSE 0)]>> \o @]

\* Path.PrependAsn: the first segment takes what it has room for, the rest becomes a segment.
\* The slice of MaxSegment ASes the two are cut from has room for all of the first one: when
\* it is filled by repeat alone, the append writes over the part that is to follow.
PrependAsn(path, asn, repeat, confed) ==
  LET type  == IF confed THEN "confedseq" ELSE "seq"
      fits  == path.aspath # <<>> /\ path.aspath[1].type = type
      first == IF fits THEN path.aspath[1].as ELSE <<>>
      room  == IF repeat + Len(first) > MaxSegment THEN MaxSegment - Len(first) ELSE repeat
      rest  == IF ~fits THEN Copies(asn, repeat)
               ELSE IF room < repeat /\ repeat = MaxSegment THEN first
               ELSE Copies(asn, repeat - room)
      old   == IF fits THEN <<[type |-> type, as |-> Copies(asn, room) \o first]>> \o Tail(path.aspath)
               ELSE path.aspath
  IN  [path EXCEPT !.aspath =
         IF rest = <<>> THEN old ELSE <<[type |-> type, as |-> rest]>> \o old]

AsPathPrepend(path, a, opts) ==
  LET as == AsSeqList(path)
  IN  IF ~a.useLeftMost THEN PrependAsn(path, a.asn, a.repeat, opts.confed)
      ELSE IF as = <<>> \/ Head(as) = 0 THEN path
      ELSE PrependAsn(path, Head(as), a.repeat, opts.confed)

SetNexthop(path, a, opts) ==
  LET new == IF a.self THEN opts.local ELSE a.value
  IN  IF Nothing \in {new, path.nexthop} THEN path ELSE [path EXCEPT !.nexthop = new]

ApplyAction(path, a, opts) ==
  CASE a.type = "community" -> SetCommunities(path, a)
    [] a.type = "ext"       -> SetExtCommunities(path, a)
    [] a.type = "large"     -> SetLargeCommunities(path, a)
    [] a.type = "med"       -> SetMed(path, a)
    [] a.type = "localpref" -> SetLocalPref(path, a)
    [] a.type = "prepend"   -> AsPathPrepend(path, a, opts)
    [] a.type = "nexthop"   -> SetNexthop(path, a, opts)

-----------------------------------------------------------------------------
(* Statements and policies.                                                 *)

\* The conditions are taken in their order until one fails; then the actions, in their order.
StatementApply(s, path, opts) ==
  IF \A i \in DOMAIN s.conditions : Holds(s.conditions[i], path, opts)
  THEN [result |-> s.route,
        path   |-> FoldLeft(LAMBDA p, a : ApplyAction(p, a, opts), path, s.actions)]
  ELSE [result |-> Nothing, path |-> path]

(* mutant *)
PolicyApplyForgets(statements, path, opts) ==
  FoldLeft(LAMBDA done, s : IF done.result # Nothing THEN done
                            ELSE StatementApply(s, path, opts),
           [result |-> Nothing, path |-> path], statements)

\* Policy.Apply: the first statement that decides ends it; what the others changed stays.
PolicyApply(statements, path, opts) ==
  FoldLeft(LAMBDA done, s : IF done.result # Nothing THEN done
                            ELSE StatementApply(s, done.path, opts),
           [result |-> Nothing, path |-> path], statements)

Rejected == [result |-> "reject"]

\* RoutingPolicy.ApplyPolicy; default is the default action of the assignment.
ApplyPolicy(policies, default, path, opts) ==
  LET done == FoldLeft(LAMBDA d, p : IF d.result # Nothing THEN d
                                     ELSE PolicyApply(p, d.path, opts),
                       [result |-> Nothing, path |-> path], policies)
      result == IF done.result = Nothing THEN default ELSE done.result
  IN  IF path.withdraw THEN [result |-> "accept", path |-> path]
      ELSE IF result = "accept" THEN [result |-> "accept", path |-> done.path]
      ELSE Rejected
=============================================================================
