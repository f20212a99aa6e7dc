------------------------------- MODULE Message -------------------------------
(***************************************************************************)
(* How paths become UPDATE messages (internal/pkg/table/message.go): the    *)
(* translation of AS numbers for a peer that only knows two octets, and     *)
(* back, and the packing of paths into messages.                            *)
(*                                                                         *)
(* AS_PATH is a sequence of segments [type, as]; types are "seq", "set",    *)
(* "confedseq" and "confedset".                                             *)
(***************************************************************************)
EXTENDS Integers, SequencesExt, Lists

CONSTANTS
  TwoOctets,    \* the largest AS number of two octets: 65535
  AsTrans,      \* the AS that stands for one that does not fit: 23456
  SegmentSize,  \* the ASes a segment has room for: 255
  MessageSize,  \* the octets of a message: 4096
  Overhead,     \* of these, the header and the two lengths: 23
  NlriSize,     \* the most octets of an IPv4 prefix: 5
  IdSize        \* the octets of a path identifier: 4

ASSUME SizesAssumption ==
  /\ TwoOctets \in Nat /\ AsTrans \in 1..TwoOctets /\ SegmentSize \in Nat \ {0}
  /\ MessageSize \in Nat /\ Overhead \in 0..MessageSize /\ NlriSize \in Nat \ {0} /\ IdSize \in Nat

-----------------------------------------------------------------------------
(* AS numbers.                                                              *)

Confed == {"confedseq", "confedset"}
Wide(as) == as > TwoOctets
Narrow(as) == IF Wide(as) THEN AsTrans ELSE as

ASLen(s) == CASE s.type = "seq" -> Len(s.as) [] s.type = "set" -> 1 [] OTHER -> 0
ConfedLen(s) ==
  CASE s.type = "confedseq" -> Len(s.as) [] s.type = "confedset" -> 1 [] OTHER -> 0
TotalLen(path) == FoldLeft(LAMBDA n, s : n + ASLen(s), 0, path)
TotalConfedLen(path) == FoldLeft(LAMBDA n, s : n + ConfedLen(s), 0, path)

NoConfed(path) == Kept(path, {s \in ToSet(path) : s.type \notin Confed})
HasWide(path) == \E i \in DOMAIN path : \E j \in DOMAIN path[i].as : Wide(path[i].as[j])

\* The message: AS_PATH, and the segments of AS4_PATH when there is one.
UpdatePathAttrs2ByteAs(path) ==
  [aspath |-> [i \in DOMAIN path |->
                 [path[i] EXCEPT !.as = [j \in DOMAIN @ |-> Narrow(@[j])]]],
   has4   |-> HasWide(path),
   as4    |-> IF HasWide(path) THEN NoConfed(path) ELSE <<>>]

\* The first ASes of AS_PATH, as many as AS4_PATH has too few; one segment at least is looked at.
Keep(path, number) ==
  FoldLeft(LAMBDA k, s :
             IF k.done THEN k
             ELSE IF ASLen(s) <= k.left
             THEN [kept |-> Append(k.kept, s), left |-> k.left - ASLen(s), done |-> k.left = ASLen(s)]
             ELSE [kept |-> Append(k.kept, [s EXCEPT !.as = SubSeq(@, 1, k.left)]),
                   left |-> 0, done |-> TRUE],
           [kept |-> <<>>, left |-> number, done |-> FALSE], path).kept

\* A sequence continues the one before it, as long as that one has room.
Joined(path, s) ==
  LET end  == Last(path)
      room == SegmentSize - Len(end.as)
      cut  == IF Len(s.as) > room THEN room ELSE Len(s.as)
      more == [s EXCEPT !.as = SubSeq(@, cut + 1, Len(@))]
  IN  IF end.type # "seq" \/ s.type # "seq" THEN Append(path, s)
      ELSE Front(path) \o <<[end EXCEPT !.as = @ \o SubSeq(s.as, 1, cut)]>>
                       \o (IF more.as = <<>> THEN <<>> ELSE <<more>>)

(* mutant: confederation segments count as ASes that AS4_PATH could have *)
MissingInAs4(m) == TotalLen(m.aspath) - TotalLen(NoConfed(m.as4)) - 1
TooFew(m) == TotalLen(m.aspath) + TotalConfedLen(m.aspath) - TotalLen(NoConfed(m.as4))

\* The AS_PATH that the two say together; an AS4_PATH that is longer is ignored. AS_PATH is taken to
\* come first: the code puts the result where AS_PATH was before AS4_PATH was taken out.
UpdatePathAttrs4ByteAs(m) ==
  IF ~m.has4 \/ TooFew(m) < 0 THEN m.aspath
  ELSE FoldLeft(Joined, Keep(m.aspath, TooFew(m)), NoConfed(m.as4))

\* AGGREGATOR: [as, as4], without an AS4_AGGREGATOR as4 is 0.
UpdatePathAggregator2ByteAs(as) == [as |-> Narrow(as), as4 |-> IF Wide(as) THEN as ELSE 0]
UpdatePathAggregator4ByteAs(a) == IF a.as4 # 0 THEN a.as4 ELSE a.as

-----------------------------------------------------------------------------
(* Packing. A path: [kind, family, nlri, attrs, v6]: its kind is "reach",   *)
(* "withdraw" or "eor"; attrs is the length of its attributes and stands    *)
(* for them; v6: the next hop of an IPv4 path is an IPv6 address.           *)

OfKind(paths, family, kind) == SelectSeq(paths, LAMBDA p : p.family = family /\ p.kind = kind)

(* mutant *)
RoomWithoutIds(attrs, addPath) == (MessageSize - (Overhead + attrs)) \div NlriSize

\* maxNLRIs. The division rounds towards zero.
Room(attrs, addPath) ==
  LET left == MessageSize - (Overhead + attrs)
      size == NlriSize + IF addPath THEN IdSize ELSE 0
  IN  IF left < 0 THEN -((-left) \div size) ELSE left \div size

\* split makes a slice of that capacity for each cage, which a negative number cannot be.
SplitPanics(paths, addPath) ==
  \E p \in ToSet(OfKind(paths, "ipv4", "reach")) : ~p.v6 /\ Room(p.attrs, addPath) < 0

\* loop: slices of the size there is room for. Without room for one prefix nothing is sent.
Slices(paths, size) ==
  IF size = 0 THEN {}
  ELSE {SubSeq(paths, i, IF i + size - 1 > Len(paths) THEN Len(paths) ELSE i + size - 1) :
          i \in {j \in 1..Len(paths) : (j - 1) % size = 0}}

\* The messages of the IPv4 packer: the withdrawals, the paths of each cage, that is of equal
\* attributes, those with an IPv6 next hop, End-of-RIB.
PackV4(paths, addPath) ==
  LET reach == OfKind(paths, "ipv4", "reach")
      cage(a) == SelectSeq(reach, LAMBDA p : ~p.v6 /\ p.attrs = a)
  IN  Slices(OfKind(paths, "ipv4", "withdraw"), Room(0, addPath))
        \cup UNION {Slices(cage(a), Room(a, addPath)) : a \in {p.attrs : p \in {q \in ToSet(reach) : ~q.v6}}}
        \cup {<<p>> : p \in {q \in ToSet(reach) : q.v6}}
        \cup {<<p>> : p \in ToSet(OfKind(paths, "ipv4", "eor"))}

\* The packer of any other family puts each path into a message of its own.
PackMP(paths, family) == {<<p>> : p \in {q \in ToSet(paths) : q.family = family}}

CreateUpdateMsgFromPaths(paths, addPath) ==
  IF SplitPanics(paths, addPath) THEN [panics |-> TRUE, msgs |-> {}]
  ELSE [panics |-> FALSE,
        msgs   |-> PackV4(paths, addPath)
                     \cup UNION {PackMP(paths, f) : f \in {p.family : p \in ToSet(paths)} \ {"ipv4"}}]

\* The octets of a message of IPv4 prefixes.
Octets(message, addPath) ==
  Overhead + (IF Head(message).kind = "reach" THEN Head(message).attrs ELSE 0)
    + Len(message) * (NlriSize + IF addPath THEN IdSize ELSE 0)

\* The UPDATE of a message: the four lists its prefixes can be in, and their attributes. Those of
\* IPv4 with an IPv4 next hop are in the lists of the message itself, the others in attributes.
UpdateOf(message) ==
  LET p == Head(message)
      plain == p.family = "ipv4" /\ (p.kind = "withdraw" \/ ~p.v6)
      in(kind, own) == IF p.kind = kind /\ plain = own THEN [i \in DOMAIN message |-> message[i].nlri] ELSE <<>>
  IN  [family |-> p.family, eor |-> p.kind = "eor", attrs |-> IF p.kind = "reach" THEN p.attrs ELSE 0,
       nlri |-> in("reach", TRUE), withdrawn |-> in("withdraw", TRUE),
       mpReach |-> in("reach", FALSE), mpUnreach |-> in("withdraw", FALSE)]

\* ProcessMessage: what the receiver makes of it; the withdrawals come last.
ProcessMessage(u) ==
  LET paths(nlris, kind, attrs) ==
        [i \in DOMAIN nlris |-> [kind |-> kind, family |-> u.family, nlri |-> nlris[i], attrs |-> attrs]]
  IN  IF u.eor THEN <<[kind |-> "eor", family |-> u.family, nlri |-> 0, attrs |-> 0]>>
      ELSE paths(u.nlri, "reach", u.attrs) \o paths(u.mpReach, "reach", u.attrs)
             \o paths(u.withdrawn \o u.mpUnreach, "withdraw", 0)
=============================================================================
