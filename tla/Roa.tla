-------------------------------- MODULE Roa ---------------------------------
(***************************************************************************)
(* The table of ROAs and the validation of a route's origin                 *)
(* (internal/pkg/table/roa.go). A ROA is [family, prefix, maxLen, as, src]; *)
(* a prefix is the sequence of its bits; src is the cache it came from.     *)
(***************************************************************************)
EXTENDS Integers, SequencesExt

NoRoas == {}

\* ROATable.Add: equal ROAs of one source are one.
RoaAdd(t, roa) == t \cup {roa}

\* ROATable.Delete: a ROA that is not there is only logged.
RoaDelete(t, roa) == t \ {roa}

\* ROATable.DeleteAll: those of one source.
RoaDeleteAll(t, src) == {r \in t : r.src # src}

(* mutant *)
\* The neighbor's AS instead.
FirstAs(path) ==
  IF path.aspath = <<>> \/ path.aspath[1].type # "seq" \/ path.aspath[1].as = <<>> THEN {path.ownAs}
  ELSE {Head(path.aspath[1].as)}

\* The AS a path comes from: the last of its last segment, the own one if the segment is empty, of
\* the confederation or missing. A set has none.
OriginAs(path) ==
  IF path.aspath = <<>> THEN {path.ownAs}
  ELSE LET segment == Last(path.aspath)
       IN CASE segment.type = "seq" -> {IF segment.as = <<>> THEN path.ownAs ELSE Last(segment.as)}
            [] segment.type \in {"confedseq", "confedset"} -> {path.ownAs}
            [] OTHER -> {}

(* mutant *)
\* AS 0, which nobody has, counted as an origin.
ValidatesZero(t, path) ==
  LET covering == {r \in t : r.family = path.family /\ IsPrefix(r.prefix, path.bits)}
      long     == {r \in covering : Len(path.bits) <= r.maxLen}
      matched  == {r \in long : {r.as} = OriginAs(path)}
  IN  CASE matched # {}                                         -> "valid"
        [] matched = {} /\ covering # {} /\ OriginAs(path) # {} -> "invalid"
        [] OTHER                                                -> "notfound"

\* ROATable.Validate. (A path whose origin is a set is not looked up at all.)
Validate(t, path) ==
  LET covering == {r \in t : r.family = path.family /\ IsPrefix(r.prefix, path.bits)}
      long     == {r \in covering : Len(path.bits) <= r.maxLen}
      matched  == {r \in long : r.as # 0 /\ {r.as} = OriginAs(path)}
  IN  CASE matched # {}                                         -> "valid"
        [] matched = {} /\ covering # {} /\ OriginAs(path) # {} -> "invalid"
        [] OTHER                                                -> "notfound"

=============================================================================
