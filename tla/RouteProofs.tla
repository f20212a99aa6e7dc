----------------------------- MODULE RouteProofs -----------------------------
(***************************************************************************)
(* What routes come to.                                                      *)
(*                                                                           *)
(* Evpn: that the FDB and the connections follow the EVPN table, that no     *)
(* loop ends without cause, and where a MAC address is reached in the end,   *)
(* for any PEs, route distinguishers and segments and any number of moves,   *)
(* lost sessions and restarts of networks.                                   *)
(*                                                                           *)
(* Evaluation: that policies, VRFs and route origin authorizations decide    *)
(* what their reference definitions say, for any sets of inputs of the       *)
(* shapes its assumptions name.                                              *)
(***************************************************************************)
EXTENDS Evpn, Evaluation, ListProofs, FiniteSetTheorems

-----------------------------------------------------------------------------
(* Sets *)

LEMMA PairsOfSets ==
  ASSUME NEW A, NEW B, IsFiniteSet(A), IsFiniteSet(B)
  PROVE  IsFiniteSet(A \cup B)
BY FS_Union

\* A finite set of integers that is not empty has a greatest element.
LEMMA GreatestNumber ==
  ASSUME NEW S \in SUBSET Int, IsFiniteSet(S), S # {}
  PROVE  Max(S) \in S /\ \A x \in S : x <= Max(S)
<1> DEFINE T == {n \in Nat : \A R \in SUBSET Int :
                   IsFiniteSet(R) /\ R # {} /\ Cardinality(R) <= n => \E m \in R : \A x \in R : x <= m}
<1>1. 0 \in T
  BY FS_EmptySet, FS_CardinalityType
<1>2. ASSUME NEW n \in T PROVE n + 1 \in T
  <2> SUFFICES ASSUME NEW R \in SUBSET Int, IsFiniteSet(R), R # {}, Cardinality(R) <= n + 1
               PROVE  \E m \in R : \A x \in R : x <= m
    OBVIOUS
  <2>1. PICK y \in R : TRUE
    OBVIOUS
  <2>2. IsFiniteSet(R \ {y}) /\ Cardinality(R \ {y}) <= n
    <3>1. IsFiniteSet(R \ {y}) /\ Cardinality(R \ {y}) = Cardinality(R) - 1
      BY <2>1, FS_RemoveElement
    <3>2. Cardinality(R) \in Nat
      BY FS_CardinalityType
    <3> QED
      BY <3>1, <3>2
  <2>3. CASE R \ {y} = {}
    BY <2>1, <2>3
  <2>4. CASE R \ {y} # {}
    <3>1. PICK m \in R \ {y} : \A x \in R \ {y} : x <= m
      BY <2>2, <2>4
    <3> QED
      BY <2>1, <3>1
  <2> QED
    BY <2>3, <2>4
<1>3. T = Nat
  <2> HIDE DEF T
  <2>1. T \in SUBSET Nat
    BY DEF T
  <2> QED
    BY <1>1, <1>2, <2>1, SetInduction
<1>4. \E m \in S : \A x \in S : x <= m
  BY <1>3, FS_CardinalityType
<1> QED
  BY <1>4 DEF Max
-----------------------------------------------------------------------------
(* What a loop will have made of its events *)

Event == [pe : Pe, withdraw : BOOLEAN]

\* The PEs reached once the first i events of a list are read, from those of base.
Standing(list, base, i) ==
  {q \in Pe : \/ \E j \in 1..i : /\ list[j].pe = q /\ ~list[j].withdraw
                                 /\ \A m \in (j + 1)..i : list[m].pe # q
              \/ q \in base /\ \A m \in 1..i : list[m].pe # q}

\* Only withdrawals of what is reached by then.
Sound(list, base) ==
  \A i \in 1..Len(list) : list[i].withdraw => list[i].pe \in Standing(list, base, i - 1)

LEMMA StandingNone ==
  ASSUME NEW list, NEW base \in SUBSET Pe
  PROVE  Standing(list, base, 0) = base
BY DEF Standing

LEMMA StandingIn ==
  ASSUME NEW list, NEW base \in SUBSET Pe, NEW i
  PROVE  Standing(list, base, i) \in SUBSET Pe
BY DEF Standing

LEMMA StandingConcat ==
  ASSUME NEW a \in Seq(Event), NEW b \in Seq(Event), NEW base \in SUBSET Pe, NEW i \in 0..Len(b)
  PROVE  Standing(a \o b, base, Len(a) + i) = Standing(b, Standing(a, base, Len(a)), i)
<1>0. i \in Nat
  OBVIOUS
<1>1. PICK n \in Nat : n = Len(a)
  OBVIOUS
<1>2. PICK c \in Seq(Event) : c = a \o b
  BY ConcatElements
<1>3. (\A j \in 1..n : c[j] = a[j]) /\ (\A j \in 1..i : c[n + j] = b[j])
  BY <1>1, <1>2
<1>4. ASSUME NEW q \in Pe
      PROVE  q \in Standing(c, base, n + i) <=> q \in Standing(b, Standing(a, base, n), i)
  <2>1. CASE \A m \in 1..i : b[m].pe # q
    <3>1. \A m \in (n + 1)..(n + i) : c[m].pe # q
      <4> SUFFICES ASSUME NEW m \in (n + 1)..(n + i) PROVE c[m].pe # q
        OBVIOUS
      <4>1. m - n \in 1..i /\ n + (m - n) = m
        BY <1>0
      <4> QED
        BY <1>3, <2>1, <4>1
    <3>2. q \in Standing(b, Standing(a, base, n), i) <=> q \in Standing(a, base, n)
      BY <2>1 DEF Standing
    <3>3. ASSUME q \in Standing(a, base, n) PROVE q \in Standing(c, base, n + i)
      <4>1. CASE q \in base /\ \A m \in 1..n : a[m].pe # q
        <5>1. \A m \in 1..(n + i) : c[m].pe # q
          BY <1>3, <3>1, <4>1
        <5> QED
          BY <4>1, <5>1 DEF Standing
      <4>2. CASE \E j \in 1..n : a[j].pe = q /\ ~a[j].withdraw /\ \A m \in (j + 1)..n : a[m].pe # q
        <5>1. PICK j \in 1..n : a[j].pe = q /\ ~a[j].withdraw /\ \A m \in (j + 1)..n : a[m].pe # q
          BY <4>2
        <5>2. \A m \in (j + 1)..(n + i) : c[m].pe # q
          BY <1>3, <3>1, <5>1
        <5>3. j \in 1..(n + i) /\ c[j].pe = q /\ ~c[j].withdraw
          BY <1>3, <5>1
        <5> QED
          BY <5>2, <5>3 DEF Standing
      <4> QED
        BY <3>3, <4>1, <4>2 DEF Standing
    <3>4. ASSUME q \in Standing(c, base, n + i) PROVE q \in Standing(a, base, n)
      <4>1. CASE q \in base /\ \A m \in 1..(n + i) : c[m].pe # q
        <5>1. \A m \in 1..n : a[m].pe # q
          BY SMTT(30), <1>3, <4>1
        <5> QED
          BY <4>1, <5>1 DEF Standing
      <4>2. CASE \E j \in 1..(n + i) : c[j].pe = q /\ ~c[j].withdraw /\ \A m \in (j + 1)..(n + i) : c[m].pe # q
        <5>1. PICK j \in 1..(n + i) : c[j].pe = q /\ ~c[j].withdraw /\ \A m \in (j + 1)..(n + i) : c[m].pe # q
          BY <4>2
        <5>2. j \in 1..n
          BY <3>1, <5>1
        <5>3. a[j].pe = q /\ ~a[j].withdraw
          BY <1>3, <5>1, <5>2
        <5>4. ASSUME NEW m \in (j + 1)..n PROVE a[m].pe # q
          <6>1. m \in 1..n /\ m \in (j + 1)..(n + i)
            BY <1>0, <5>2
          <6> QED
            BY <1>3, <5>1, <6>1
        <5> QED
          BY <5>2, <5>3, <5>4 DEF Standing
      <4> QED
        BY <3>4, <4>1, <4>2 DEF Standing
    <3> QED
      BY <3>2, <3>3, <3>4
  <2>2. CASE \E m \in 1..i : b[m].pe = q
    <3>1. ASSUME NEW j \in 1..i, b[j].pe = q, ~b[j].withdraw, \A m \in (j + 1)..i : b[m].pe # q
          PROVE  q \in Standing(c, base, n + i)
      <4>1. n + j \in 1..(n + i) /\ c[n + j].pe = q /\ ~c[n + j].withdraw
        BY <1>3, <3>1
      <4>2. ASSUME NEW m \in (n + j + 1)..(n + i) PROVE c[m].pe # q
        <5>1. m - n \in (j + 1)..i /\ m - n \in 1..i /\ n + (m - n) = m
          OBVIOUS
        <5> QED
          BY <1>3, <3>1, <5>1
      <4> QED
        BY <4>1, <4>2 DEF Standing
    <3>2. ASSUME NEW j \in 1..(n + i), c[j].pe = q, ~c[j].withdraw, \A m \in (j + 1)..(n + i) : c[m].pe # q
          PROVE  q \in Standing(b, Standing(a, base, n), i)
      <4>1. PICK m \in 1..i : b[m].pe = q
        BY <2>2
      <4>2. c[n + m].pe = q /\ n + m \in 1..(n + i)
        BY <1>3, <4>1
      <4>3. j - n \in 1..i /\ n + (j - n) = j
        BY <3>2, <4>2
      <4>4. b[j - n].pe = q /\ ~b[j - n].withdraw
        BY <1>3, <3>2, <4>3
      <4>5. ASSUME NEW h \in (j - n + 1)..i PROVE b[h].pe # q
        <5>1. n + h \in (j + 1)..(n + i) /\ h \in 1..i
          BY <4>3
        <5> QED
          BY <1>3, <3>2, <5>1
      <4> QED
        BY <4>3, <4>4, <4>5 DEF Standing
    <3>3. ~(q \in base /\ \A m \in 1..(n + i) : c[m].pe # q)
      <4>1. PICK m \in 1..i : b[m].pe = q
        BY <2>2
      <4> QED
        BY <1>3, <4>1
    <3>4. q \in Standing(c, base, n + i) =>
            \E j \in 1..(n + i) : c[j].pe = q /\ ~c[j].withdraw /\ \A m \in (j + 1)..(n + i) : c[m].pe # q
      BY <3>3 DEF Standing
    <3>5. q \in Standing(b, Standing(a, base, n), i) =>
            \E j \in 1..i : b[j].pe = q /\ ~b[j].withdraw /\ \A m \in (j + 1)..i : b[m].pe # q
      BY <2>2 DEF Standing
    <3> QED
      BY <3>1, <3>2, <3>4, <3>5
  <2> QED
    BY <2>1, <2>2
<1> QED
  <2>1. Standing(c, base, n + i) = Standing(b, Standing(a, base, n), i)
    BY SMTT(30), <1>4, StandingIn
  <2> QED
    BY <1>1, <1>2, <2>1

\* One more event.
LEMMA StandingOne ==
  ASSUME NEW e \in Event, NEW base \in SUBSET Pe
  PROVE  Standing(<<e>>, base, 1) = IF e.withdraw THEN base \ {e.pe} ELSE base \cup {e.pe}
BY DEF Standing, Event

\* The first events do not depend on those after them.
LEMMA StandingBefore ==
  ASSUME NEW a \in Seq(Event), NEW b \in Seq(Event), NEW base \in SUBSET Pe, NEW i \in 0..Len(a)
  PROVE  Standing(a \o b, base, i) = Standing(a, base, i)
<1>1. \A j \in 1..i : (a \o b)[j] = a[j]
  OBVIOUS
<1> QED
  BY <1>1 DEF Standing
LEMMA SoundConcat ==
  ASSUME NEW a \in Seq(Event), NEW b \in Seq(Event), NEW base \in SUBSET Pe,
         Sound(a, base), Sound(b, Standing(a, base, Len(a)))
  PROVE  Sound(a \o b, base)
<1>1. PICK n \in Nat : n = Len(a)
  OBVIOUS
<1>2. PICK c : c = a \o b
  OBVIOUS
<1>3. /\ Len(c) = n + Len(b) /\ Len(b) \in Nat
      /\ \A j \in 1..n : c[j] = a[j]
      /\ \A j \in 1..Len(b) : c[n + j] = b[j]
  BY <1>1, <1>2
<1>4. ASSUME NEW i \in 1..Len(c), c[i].withdraw PROVE c[i].pe \in Standing(c, base, i - 1)
  <2>1. CASE i <= n
    <3>1. i - 1 \in 0..Len(a) /\ i \in 1..n
      BY <1>1, <1>3, <2>1
    <3>2. Standing(c, base, i - 1) = Standing(a, base, i - 1)
      BY <1>2, <3>1, StandingBefore
    <3> QED
      BY <1>1, <1>3, <1>4, <3>1, <3>2 DEF Sound
  <2>2. CASE i > n
    <3>1. PICK j \in 1..Len(b) : i = n + j
      <4>1. i - n \in 1..Len(b) /\ i = n + (i - n)
        BY <1>3, <2>2
      <4> QED
        BY <4>1
    <3>2. j - 1 \in 0..Len(b) /\ i - 1 = n + (j - 1)
      BY <1>3, <3>1
    <3>3. Standing(c, base, i - 1) = Standing(b, Standing(a, base, n), j - 1)
      BY ZenonT(90), <1>1, <1>2, <3>2, StandingConcat
    <3>4. b[j].withdraw => b[j].pe \in Standing(b, Standing(a, base, n), j - 1)
      BY <1>1, <3>1 DEF Sound
    <3> QED
      BY <1>3, <1>4, <3>1, <3>3, <3>4
  <2> QED
    BY <1>1, <1>3, <2>1, <2>2
<1> QED
  BY <1>2, <1>4 DEF Sound

\* The loop reads an event.
LEMMA SoundTail ==
  ASSUME NEW list \in Seq(Event), list # <<>>, NEW base \in SUBSET Pe, Sound(list, base)
  PROVE  LET e == Head(list)
             after == IF e.withdraw THEN base \ {e.pe} ELSE base \cup {e.pe}
         IN /\ e \in Event /\ Tail(list) \in Seq(Event)
            /\ e.withdraw => e.pe \in base
            /\ Sound(Tail(list), after)
            /\ Standing(list, base, Len(list)) = Standing(Tail(list), after, Len(Tail(list)))
<1>1. PICK e, t, n : e = Head(list) /\ t = Tail(list) /\ n = Len(t)
  OBVIOUS
<1>2. e \in Event /\ t \in Seq(Event) /\ list = <<e>> \o t /\ Len(list) = 1 + n /\ n \in Nat
      /\ list[1] = e /\ 1 \in 1..Len(list) /\ (\A i \in 1..n : t[i] = list[1 + i]) /\ <<e>> \in Seq(Event) /\ Len(<<e>>) = 1
  BY <1>1
<1>3. PICK after : after = IF e.withdraw THEN base \ {e.pe} ELSE base \cup {e.pe}
  OBVIOUS
<1>4. after = Standing(<<e>>, base, 1)
  BY <1>2, <1>3, StandingOne
<1>5. \A i \in 0..n : Standing(list, base, 1 + i) = Standing(t, after, i)
  <2> SUFFICES ASSUME NEW i \in 0..n PROVE Standing(list, base, 1 + i) = Standing(t, after, i)
    OBVIOUS
  <2>1. Standing(<<e>> \o t, base, Len(<<e>>) + i) = Standing(t, Standing(<<e>>, base, Len(<<e>>)), i)
    BY <1>1, <1>2, StandingConcat
  <2> QED
    BY <1>2, <1>4, <2>1
<1>6. e.withdraw => e.pe \in base
  <2>1. e.withdraw => e.pe \in Standing(list, base, 1 - 1)
    BY <1>2 DEF Sound
  <2> QED
    BY <2>1, StandingNone
<1>7. Sound(t, after)
  <2> SUFFICES ASSUME NEW i \in 1..n, t[i].withdraw PROVE t[i].pe \in Standing(t, after, i - 1)
    BY <1>1 DEF Sound
  <2>1. 1 + i \in 1..Len(list) /\ i - 1 \in 0..n /\ (1 + i) - 1 = 1 + (i - 1)
    BY <1>2
  <2>2. list[1 + i].pe \in Standing(list, base, (1 + i) - 1)
    BY <1>2, <2>1 DEF Sound
  <2> QED
    BY <1>2, <1>5, <2>1, <2>2
<1>8. n \in 0..n
  BY <1>2
<1> QED
  BY <1>1, <1>2, <1>3, <1>5, <1>6, <1>7, <1>8

\* A list of one event about each PE of two sets.
Tells(c, lost, new) ==
  /\ ToSet(c) = [pe : lost, withdraw : {TRUE}] \cup [pe : new, withdraw : {FALSE}]
  /\ \A i, j \in DOMAIN c : c[i] = c[j] => i = j

LEMMA StandingOnce ==
  ASSUME NEW lost \in SUBSET Pe, NEW new \in SUBSET Pe, lost \cap new = {},
         NEW c \in Seq(Event), Tells(c, lost, new), NEW base \in SUBSET Pe, lost \subseteq base
  PROVE  Sound(c, base) /\ Standing(c, base, Len(c)) = (base \ lost) \cup new
<1> USE DEF Tells
<1>1. Len(c) \in Nat /\ DOMAIN c = 1..Len(c)
  OBVIOUS
<1>2. \A i \in 1..Len(c) : /\ c[i].withdraw => c[i].pe \in lost
                           /\ ~c[i].withdraw => c[i].pe \in new
                           /\ c[i] = [pe |-> c[i].pe, withdraw |-> c[i].withdraw]
  <2> SUFFICES ASSUME NEW i \in 1..Len(c)
               PROVE  /\ c[i].withdraw => c[i].pe \in lost
                      /\ ~c[i].withdraw => c[i].pe \in new
                      /\ c[i] = [pe |-> c[i].pe, withdraw |-> c[i].withdraw]
    OBVIOUS
  <2>1. c[i] \in ToSet(c)
    BY <1>1 DEF ToSet
  <2>2. CASE c[i] \in [pe : lost, withdraw : {TRUE}]
    BY <2>2
  <2>3. CASE c[i] \in [pe : new, withdraw : {FALSE}]
    BY <2>3
  <2> QED
    BY <2>1, <2>2, <2>3
<1>3. \A i, j \in 1..Len(c) : c[i].pe = c[j].pe => i = j
  <2> SUFFICES ASSUME NEW i \in 1..Len(c), NEW j \in 1..Len(c), c[i].pe = c[j].pe PROVE i = j
    OBVIOUS
  <2>1. c[i].withdraw = c[j].withdraw
    <3>1. c[i] \in Event /\ c[j] \in Event
      OBVIOUS
    <3> QED
      BY <1>2, <3>1 DEF Event
  <2> QED
    BY <1>1, <1>2, <2>1
<1>4. Sound(c, base)
  <2> SUFFICES ASSUME NEW i \in 1..Len(c), c[i].withdraw PROVE c[i].pe \in Standing(c, base, i - 1)
    BY DEF Sound
  <2>1. c[i].pe \in base
    BY <1>2
  <2>2. \A m \in 1..(i - 1) : c[m].pe # c[i].pe
    BY <1>1, <1>3
  <2> QED
    BY <2>1, <2>2 DEF Standing
<1>5. ASSUME NEW q \in Pe PROVE q \in Standing(c, base, Len(c)) <=> q \in (base \ lost) \cup new
  <2>1. CASE q \in new
    <3>1. [pe |-> q, withdraw |-> FALSE] \in ToSet(c)
      BY <2>1
    <3>2. PICK i \in 1..Len(c) : c[i] = [pe |-> q, withdraw |-> FALSE]
      BY <1>1, <3>1 DEF ToSet
    <3>3. \A m \in (i + 1)..Len(c) : c[m].pe # q
      <4> SUFFICES ASSUME NEW m \in (i + 1)..Len(c), c[m].pe = q PROVE FALSE
        OBVIOUS
      <4>1. m \in 1..Len(c) /\ m # i
        BY <1>1
      <4> QED
        BY <1>3, <3>2, <4>1
    <3> QED
      BY <2>1, <3>2, <3>3 DEF Standing
  <2>2. CASE q \in lost
    <3>1. [pe |-> q, withdraw |-> TRUE] \in ToSet(c)
      BY <2>2
    <3>2. PICK i \in 1..Len(c) : c[i] = [pe |-> q, withdraw |-> TRUE]
      BY <1>1, <3>1 DEF ToSet
    <3>3. q \notin Standing(c, base, Len(c))
      BY <1>3, <3>2 DEF Standing
    <3> QED
      BY <2>2, <3>3
  <2>3. CASE q \notin lost /\ q \notin new
    <3>1. \A m \in 1..Len(c) : c[m].pe # q
      BY <1>2, <2>3
    <3> QED
      BY <2>3, <3>1 DEF Standing
  <2> QED
    BY <2>1, <2>2, <2>3
<1> QED
  BY <1>4, <1>5, StandingIn
-----------------------------------------------------------------------------
(* The best routes and their changes *)

LEMMA PeFacts == 0 \notin Pe /\ Pe \subseteq Nat /\ \A S \in SUBSET Pe : IsFiniteSet(S)
BY PeAssumption, FS_Subset

LEMMA BestFacts ==
  ASSUME NEW p, NEW k, NEW t, NEW n
  PROVE  /\ Best(p, k, t, n) \in Pe \cup {0}
         /\ Best(p, k, t, n) # 0 => Nlri(k, Best(p, k, t, n)) = n /\ t[Best(p, k, t, n)] # None
         /\ Best(p, k, t, n) = 0 => \A q \in Pe : Nlri(k, q) = n => t[q] = None
<1> DEFINE known == {q \in Pe : Nlri(k, q) = n /\ t[q] # None}
<1>1. Best(p, k, t, n) = IF known = {} THEN 0 ELSE IF p \in known THEN p ELSE Min(known)
  BY DEF Best
<1>2. known # {} => Min(known) \in known
  <2>1. known # {} => \E m \in known : \A x \in known : m <= x
    BY PeFacts, LeastNumber
  <2> QED
    BY <2>1 DEF Min
<1>3. 0 \notin known /\ known \subseteq Pe
  BY PeFacts
<1> QED
  BY <1>1, <1>2, <1>3

LEMMA BestRoutesFacts ==
  ASSUME NEW p, NEW k, NEW t
  PROVE  BestRoutes(p, k, t) = {q \in Pe : Best(p, k, t, Nlri(k, q)) = q}
<1>1. ASSUME NEW q \in BestRoutes(p, k, t) PROVE q \in Pe /\ Best(p, k, t, Nlri(k, q)) = q
  <2>1. PICK r \in Pe : q = Best(p, k, t, Nlri(k, r)) /\ q # 0
    BY DEF BestRoutes
  <2> QED
    BY <2>1, BestFacts
<1>2. ASSUME NEW q \in Pe, Best(p, k, t, Nlri(k, q)) = q PROVE q \in BestRoutes(p, k, t)
  BY <1>2, PeFacts DEF BestRoutes
<1> QED
  BY <1>1, <1>2

\* With an RD for every network each route is the best of its NLRI.
LEMMA DistinctBest ==
  ASSUME DistinctRds, NEW p, NEW k \in Kinds, NEW t
  PROVE  BestRoutes(p, k, t) = {q \in Pe : t[q] # None}
<1>1. ASSUME NEW q \in Pe, NEW r \in Pe, Nlri(k, q) = Nlri(k, r) PROVE q = r
  BY <1>1 DEF Nlri, DistinctRds
<1>2. ASSUME NEW q \in Pe PROVE Best(p, k, t, Nlri(k, q)) = q <=> t[q] # None
  <2>1. Best(p, k, t, Nlri(k, q)) = q => t[q] # None
    BY BestFacts, PeFacts
  <2>2. ASSUME t[q] # None PROVE Best(p, k, t, Nlri(k, q)) = q
    <3>1. Best(p, k, t, Nlri(k, q)) # 0
      BY <2>2, BestFacts
    <3> QED
      BY <1>1, <3>1, BestFacts
  <2> QED
    BY <2>1, <2>2
<1> QED
  BY <1>2, BestRoutesFacts

LEMMA EventsFinite ==
  ASSUME NEW S \in SUBSET Pe, NEW b
  PROVE  IsFiniteSet([pe : S, withdraw : {b}])
<1> DEFINE f == [q \in S |-> [pe |-> q, withdraw |-> b]]
<1>1. f \in Surjection(S, [pe : S, withdraw : {b}])
  BY DEF Surjection
<1> QED
  BY <1>1, PeFacts, FS_Surjection

\* What a loop that has events still to read, and reaches those of base, knows of a table t.
Hears(p, k, t, list, base) ==
  /\ Sound(list, base)
  /\ BestRoutes(p, k, t) \ {p} \subseteq Standing(list, base, Len(list))
  /\ DistinctRds => Standing(list, base, Len(list)) \subseteq {q \in Pe \ {p} : t[q] # None}

\* The events of a change lead from what was known before to what is best now.
LEMMA ChangesHeard ==
  ASSUME NEW p \in Pe, NEW k \in Kinds, NEW t, NEW u, NEW base \in SUBSET Pe,
         BestRoutes(p, k, t) \ {p} \subseteq base,
         DistinctRds => base \subseteq {q \in Pe \ {p} : t[q] # None}
  PROVE  Changes(p, k, t, u) \in Seq(Event) /\ Hears(p, k, u, Changes(p, k, t, u), base)
<1>1. PICK lost, new :
        /\ lost = {q \in BestRoutes(p, k, t) \ {p} : Best(p, k, u, Nlri(k, q)) = 0}
        /\ new = {q \in BestRoutes(p, k, u) \ {p} : q \notin BestRoutes(p, k, t) \/ u[q] # t[q]}
  OBVIOUS
<1>2. PICK all : all = [pe : lost, withdraw : {TRUE}] \cup [pe : new, withdraw : {FALSE}]
  OBVIOUS
<1>3. PICK c : c = SetToSeq(all)
  OBVIOUS
<1>4. Changes(p, k, t, u) = c
  BY <1>1, <1>2, <1>3 DEF Changes
<1>5. lost \in SUBSET Pe /\ new \in SUBSET Pe /\ lost \cap new = {} /\ lost \subseteq base
  BY <1>1, BestRoutesFacts, PeFacts
<1>6. IsFiniteSet(all) /\ all \subseteq Event
  <2>1. IsFiniteSet([pe : lost, withdraw : {TRUE}]) /\ IsFiniteSet([pe : new, withdraw : {FALSE}])
    BY <1>5, EventsFinite
  <2>2. IsFiniteSet(all)
    BY <1>2, <2>1, PairsOfSets
  <2> QED
    BY <1>2, <1>5, <2>2 DEF Event
<1>7. c \in Seq(all) /\ ToSet(c) = all /\ \A i, j \in DOMAIN c : c[i] = c[j] => i = j
  BY <1>3, <1>6, SetToSeqFacts
<1>8. c \in Seq(Event)
  BY <1>6, <1>7
<1>9. Sound(c, base) /\ Standing(c, base, Len(c)) = (base \ lost) \cup new
  <2>1. ToSet(c) = [pe : lost, withdraw : {TRUE}] \cup [pe : new, withdraw : {FALSE}]
    BY <1>2, <1>7
  <2>2. Tells(c, lost, new)
    BY <1>7, <2>1 DEF Tells
  <2> QED
    BY <1>5, <1>8, <2>2, StandingOnce
<1>10. BestRoutes(p, k, u) \ {p} \subseteq (base \ lost) \cup new
  BY <1>1, BestRoutesFacts, PeFacts
<1>11. ASSUME DistinctRds PROVE (base \ lost) \cup new \subseteq {q \in Pe \ {p} : u[q] # None}
  <2>1. BestRoutes(p, k, t) = {q \in Pe : t[q] # None} /\ BestRoutes(p, k, u) = {q \in Pe : u[q] # None}
    BY <1>11, DistinctBest
  <2>2. \A q \in Pe : u[q] = None => Best(p, k, u, Nlri(k, q)) = 0
    <3> SUFFICES ASSUME NEW q \in Pe, u[q] = None, Best(p, k, u, Nlri(k, q)) # 0 PROVE FALSE
      OBVIOUS
    <3>1. PICK r : r = Best(p, k, u, Nlri(k, q))
      OBVIOUS
    <3>2. r \in Pe /\ Nlri(k, r) = Nlri(k, q) /\ u[r] # None
      BY <3>1, BestFacts
    <3>3. r = q
      BY <1>11, <3>2 DEF Nlri, DistinctRds
    <3> QED
      BY <3>2, <3>3
  <2> QED
    BY <1>1, <1>11, <2>1, <2>2
<1> QED
  BY <1>4, <1>8, <1>9, <1>10, <1>11 DEF Hears

LEMMA HearsMore ==
  ASSUME NEW p \in Pe, NEW k \in Kinds, NEW t, NEW u, NEW base \in SUBSET Pe,
         NEW list \in Seq(Event), Hears(p, k, t, list, base)
  PROVE  /\ list \o Changes(p, k, t, u) \in Seq(Event)
         /\ Hears(p, k, u, list \o Changes(p, k, t, u), base)
<1>1. PICK c, now : c = Changes(p, k, t, u) /\ now = Standing(list, base, Len(list))
  OBVIOUS
<1>2. now \in SUBSET Pe
  BY <1>1, StandingIn
<1>3. c \in Seq(Event) /\ Hears(p, k, u, c, now)
  BY <1>1, <1>2, ChangesHeard DEF Hears
<1>4. list \o c \in Seq(Event) /\ Len(list \o c) = Len(list) + Len(c) /\ Len(c) \in 0..Len(c)
  BY <1>3, ConcatElements
<1>5. Standing(list \o c, base, Len(list) + Len(c)) = Standing(c, now, Len(c))
  BY <1>1, <1>3, <1>4, StandingConcat
<1>6. Sound(list \o c, base)
  BY <1>1, <1>3, SoundConcat DEF Hears
<1> QED
  BY <1>1, <1>3, <1>4, <1>5, <1>6 DEF Hears

LEMMA HearsTail ==
  ASSUME NEW p, NEW k, NEW t, NEW base \in SUBSET Pe,
         NEW list \in Seq(Event), list # <<>>, Hears(p, k, t, list, base)
  PROVE  LET e == Head(list)
             after == IF e.withdraw THEN base \ {e.pe} ELSE base \cup {e.pe}
         IN /\ e \in Event /\ Tail(list) \in Seq(Event)
            /\ e.withdraw => e.pe \in base
            /\ Hears(p, k, t, Tail(list), after)
BY SoundTail DEF Hears

\* Serve begins with the best routes of now.
LEMMA HearsStart ==
  ASSUME NEW p \in Pe, NEW k \in Kinds, NEW t
  PROVE  LET now == SetToSeq([pe : BestRoutes(p, k, t) \ {p}, withdraw : {FALSE}])
         IN now \in Seq(Event) /\ Hears(p, k, t, now, {})
<1>1. PICK new, all, c : /\ new = BestRoutes(p, k, t) \ {p} /\ all = [pe : new, withdraw : {FALSE}]
                         /\ c = SetToSeq(all)
  OBVIOUS
<1>2. new \in SUBSET Pe
  BY <1>1, BestRoutesFacts
<1>3. IsFiniteSet(all) /\ all \subseteq Event
  BY <1>1, <1>2, EventsFinite DEF Event
<1>4. c \in Seq(all) /\ ToSet(c) = all /\ \A i, j \in DOMAIN c : c[i] = c[j] => i = j
  BY <1>1, <1>3, SetToSeqFacts
<1>5. c \in Seq(Event)
  BY <1>3, <1>4
<1>6. PICK none : none = {}
  OBVIOUS
<1>7. /\ none \in SUBSET Pe /\ none \cap new = {} /\ none \subseteq none /\ (none \ none) \cup new = new
      /\ ToSet(c) = [pe : none, withdraw : {TRUE}] \cup [pe : new, withdraw : {FALSE}]
  BY <1>1, <1>4, <1>6
<1>8. Sound(c, none) /\ Standing(c, none, Len(c)) = new
  <2>1. Tells(c, none, new)
    BY <1>4, <1>7 DEF Tells
  <2>2. PICK base \in SUBSET Pe : base = none
    BY <1>7
  <2>3. none \in SUBSET Pe /\ none \cap new = {} /\ none \subseteq base
    BY <1>7, <2>2
  <2>4. Sound(c, base) /\ Standing(c, base, Len(c)) = (base \ none) \cup new
    BY <1>2, <1>5, <2>1, <2>3, StandingOnce
  <2> QED
    BY <1>7, <2>2, <2>4
<1>9. DistinctRds => new \subseteq {q \in Pe \ {p} : t[q] # None}
  BY <1>1, DistinctBest
<1> QED
  BY <1>1, <1>5, <1>6, <1>8, <1>9 DEF Hears
-----------------------------------------------------------------------------
(* What a neighbor will have made of the updates sent to it *)

Msg == [kind : Kinds, value : Int]

\* Who has v for its route of kind k has w once it has read the updates of list.
Leads(list, k, v, w) ==
  \/ \E i \in 1..Len(list) : /\ list[i].kind = k /\ list[i].value = w
                             /\ \A j \in (i + 1)..Len(list) : list[j].kind # k
  \/ v = w /\ \A j \in 1..Len(list) : list[j].kind # k

LEMMA LeadsNowhere ==
  ASSUME NEW k, NEW v, NEW w
  PROVE  Leads(<<>>, k, v, w) <=> v = w
BY DEF Leads

LEMMA LeadsConcat ==
  ASSUME NEW a \in Seq(Msg), NEW b \in Seq(Msg), NEW k, NEW v, NEW w, NEW x,
         Leads(a, k, v, w), Leads(b, k, w, x)
  PROVE  Leads(a \o b, k, v, x)
<1>1. PICK n \in Nat, l \in Nat : n = Len(a) /\ l = Len(b)
  OBVIOUS
<1>2. PICK c : c = a \o b
  OBVIOUS
<1>3. Len(c) = n + l /\ (\A i \in 1..n : c[i] = a[i]) /\ (\A i \in 1..l : c[n + i] = b[i])
  BY <1>1, <1>2
<1>4. \A j \in (n + 1)..(n + l) : j - n \in 1..l /\ c[j] = b[j - n]
  <2> SUFFICES ASSUME NEW j \in (n + 1)..(n + l) PROVE j - n \in 1..l /\ c[j] = b[j - n]
    OBVIOUS
  <2>1. j - n \in 1..l /\ n + (j - n) = j
    OBVIOUS
  <2> QED
    BY <1>3, <2>1
<1>5. CASE \E i \in 1..l : b[i].kind = k /\ b[i].value = x /\ \A j \in (i + 1)..l : b[j].kind # k
  <2>1. PICK i \in 1..l : b[i].kind = k /\ b[i].value = x /\ \A j \in (i + 1)..l : b[j].kind # k
    BY <1>5
  <2>2. n + i \in 1..(n + l) /\ c[n + i].kind = k /\ c[n + i].value = x
    BY <1>3, <2>1
  <2>3. ASSUME NEW j \in (n + i + 1)..(n + l) PROVE c[j].kind # k
    <3>1. j \in (n + 1)..(n + l) /\ j - n \in (i + 1)..l
      OBVIOUS
    <3> QED
      BY <1>4, <2>1, <3>1
  <2> QED
    BY <1>2, <1>3, <2>2, <2>3 DEF Leads
<1>6. CASE w = x /\ \A j \in 1..l : b[j].kind # k
  <2>1. \A j \in (n + 1)..(n + l) : c[j].kind # k
    BY <1>4, <1>6
  <2>2. CASE \E i \in 1..n : a[i].kind = k /\ a[i].value = w /\ \A j \in (i + 1)..n : a[j].kind # k
    <3>1. PICK i \in 1..n : a[i].kind = k /\ a[i].value = w /\ \A j \in (i + 1)..n : a[j].kind # k
      BY <2>2
    <3>2. i \in 1..(n + l) /\ c[i].kind = k /\ c[i].value = x
      BY <1>3, <1>6, <3>1
    <3>3. ASSUME NEW j \in (i + 1)..(n + l) PROVE c[j].kind # k
      <4>1. CASE j <= n
        <5>1. j \in 1..n /\ j \in (i + 1)..n
          BY <4>1
        <5> QED
          BY <1>3, <3>1, <5>1
      <4>2. CASE j > n
        BY <2>1, <4>2
      <4> QED
        BY <4>1, <4>2
    <3> QED
      BY <1>2, <1>3, <3>2, <3>3 DEF Leads
  <2>3. CASE v = w /\ \A j \in 1..n : a[j].kind # k
    <3>1. \A j \in 1..(n + l) : c[j].kind # k
      BY <1>3, <2>1, <2>3
    <3> QED
      BY <1>2, <1>3, <1>6, <2>3, <3>1 DEF Leads
  <2> QED
    BY <1>1, <2>2, <2>3 DEF Leads
<1> QED
  BY <1>1, <1>5, <1>6 DEF Leads

\* An update is read.
LEMMA LeadsTail ==
  ASSUME NEW list \in Seq(Msg), list # <<>>, NEW k, NEW v, NEW w, Leads(list, k, v, w)
  PROVE  /\ Head(list) \in Msg /\ Tail(list) \in Seq(Msg)
         /\ Leads(Tail(list), k, IF Head(list).kind = k THEN Head(list).value ELSE v, w)
<1>1. PICK m, t, n : m = Head(list) /\ t = Tail(list) /\ n = Len(t)
  OBVIOUS
<1>2. m \in Msg /\ t \in Seq(Msg) /\ Len(list) = n + 1 /\ n \in Nat /\ list[1] = m /\ \A i \in 1..n : t[i] = list[i + 1]
  BY <1>1
<1>3. ASSUME NEW i \in 1..(n + 1), list[i].kind = k, list[i].value = w, \A j \in (i + 1)..(n + 1) : list[j].kind # k
      PROVE  Leads(t, k, IF m.kind = k THEN m.value ELSE v, w)
  <2>1. CASE i = 1
    <3>1. \A j \in 1..n : t[j].kind # k
      BY <1>2, <1>3, <2>1
    <3> QED
      BY <1>1, <1>2, <1>3, <2>1, <3>1 DEF Leads
  <2>2. CASE i # 1
    <3>1. i - 1 \in 1..n /\ (i - 1) + 1 = i
      BY <1>2, <2>2
    <3>2. t[i - 1].kind = k /\ t[i - 1].value = w
      BY <1>2, <1>3, <3>1
    <3>3. \A j \in ((i - 1) + 1)..n : t[j].kind # k
      <4> SUFFICES ASSUME NEW j \in ((i - 1) + 1)..n PROVE t[j].kind # k
        OBVIOUS
      <4>1. j \in 1..n /\ j + 1 \in (i + 1)..(n + 1)
        BY <1>2
      <4> QED
        BY <1>2, <1>3, <4>1
    <3> QED
      BY <1>1, <3>1, <3>2, <3>3 DEF Leads
  <2> QED
    BY <2>1, <2>2
<1>4. ASSUME v = w, \A j \in 1..(n + 1) : list[j].kind # k
      PROVE  Leads(t, k, IF m.kind = k THEN m.value ELSE v, w)
  <2>1. m.kind # k /\ \A j \in 1..n : t[j].kind # k
    BY <1>2, <1>4
  <2> QED
    BY <1>1, <1>4, <2>1 DEF Leads
<1>5. Leads(t, k, IF m.kind = k THEN m.value ELSE v, w)
  BY <1>2, <1>3, <1>4 DEF Leads
<1> QED
  BY <1>1, <1>2, <1>5

\* The updates for some of the kinds.
LEMMA KindsLead ==
  ASSUME NEW ks \in SUBSET Kinds, NEW v \in [Kinds -> Int]
  PROVE  LET list == SetToSeq({[kind |-> k, value |-> v[k]] : k \in ks})
         IN  /\ list \in Seq(Msg)
             /\ \A k \in Kinds : \A old : Leads(list, k, old, IF k \in ks THEN v[k] ELSE old)
<1>1. PICK all, c : all = {[kind |-> k, value |-> v[k]] : k \in ks} /\ c = SetToSeq(all)
  OBVIOUS
<1>2. IsFiniteSet(all) /\ all \subseteq Msg
  <2> DEFINE f == [k \in ks |-> [kind |-> k, value |-> v[k]]]
  <2>1. f \in Surjection(ks, all)
    BY <1>1 DEF Surjection
  <2>2. IsFiniteSet(ks)
    <3>1. IsFiniteSet({"mac"})
      BY FS_Singleton
    <3>2. IsFiniteSet({"mac"} \cup {"multicast"}) /\ Kinds = {"mac"} \cup {"multicast"}
      BY <3>1, FS_AddElement DEF Kinds
    <3> QED
      BY <3>2, FS_Subset
  <2>3. IsFiniteSet(all)
    BY <2>1, <2>2, FS_Surjection
  <2> QED
    BY <1>1, <2>3 DEF Msg
<1>3. c \in Seq(all) /\ ToSet(c) = all /\ \A i, j \in DOMAIN c : c[i] = c[j] => i = j
  BY <1>1, <1>2, SetToSeqFacts
<1>4. c \in Seq(Msg) /\ Len(c) \in Nat /\ DOMAIN c = 1..Len(c)
  BY <1>2, <1>3
<1>5. \A i \in 1..Len(c) : c[i].kind \in ks /\ c[i] = [kind |-> c[i].kind, value |-> v[c[i].kind]]
  <2> SUFFICES ASSUME NEW i \in 1..Len(c)
               PROVE  c[i].kind \in ks /\ c[i] = [kind |-> c[i].kind, value |-> v[c[i].kind]]
    OBVIOUS
  <2>1. c[i] \in all
    BY <1>3, <1>4
  <2>2. PICK k \in ks : c[i] = [kind |-> k, value |-> v[k]]
    BY <1>1, <2>1
  <2> QED
    BY <2>2
<1>6. ASSUME NEW k \in Kinds, NEW old PROVE Leads(c, k, old, IF k \in ks THEN v[k] ELSE old)
  <2>1. CASE k \in ks
    <3>1. [kind |-> k, value |-> v[k]] \in ToSet(c)
      BY <1>1, <1>3, <2>1
    <3>2. PICK i \in 1..Len(c) : c[i] = [kind |-> k, value |-> v[k]]
      BY <1>4, <3>1 DEF ToSet
    <3>3. \A j \in (i + 1)..Len(c) : c[j].kind # k
      <4> SUFFICES ASSUME NEW j \in (i + 1)..Len(c), c[j].kind = k PROVE FALSE
        OBVIOUS
      <4>1. j \in 1..Len(c) /\ j # i
        BY <1>4
      <4>2. c[j] = c[i]
        BY <1>5, <3>2, <4>1
      <4> QED
        BY <1>3, <1>4, <4>1, <4>2
    <3> QED
      BY <2>1, <3>2, <3>3 DEF Leads
  <2>2. CASE k \notin ks
    BY <1>5, <2>2 DEF Leads
  <2> QED
    BY <2>1, <2>2
<1> QED
  BY <1>1, <1>4, <1>6
-----------------------------------------------------------------------------
(* Types *)

Tables == [Kinds -> [Pe -> Int]]

LEMMA ChangesType ==
  ASSUME NEW p \in Pe, NEW k \in Kinds, NEW t, NEW u
  PROVE  Changes(p, k, t, u) \in Seq(Event)
<1>1. BestRoutes(p, k, t) \ {p} \in SUBSET Pe
  BY BestRoutesFacts
<1>2. BestRoutes(p, k, t) \ {p} \subseteq {q \in Pe \ {p} : t[q] # None}
  BY BestRoutesFacts, BestFacts, PeFacts
<1>3. PICK base \in SUBSET Pe : base = BestRoutes(p, k, t) \ {p}
  BY <1>1
<1>4. BestRoutes(p, k, t) \ {p} \subseteq base /\ (DistinctRds => base \subseteq {q \in Pe \ {p} : t[q] # None})
  BY <1>2, <1>3
<1> QED
  BY <1>4, ChangesHeard

\* The table of p becomes t.
LEMMA UpdateFacts ==
  ASSUME TypeOK, NEW p \in Pe, NEW t \in Tables, Update(p, t)
  PROVE  /\ table' \in [Pe -> Tables] /\ table'[p] = t
         /\ events' \in [Pe -> [Kinds -> Seq(Event)]]
         /\ \A k \in Kinds : events'[p][k] = IF loop[p] = "running" THEN events[p][k] \o Changes(p, k, table[p][k], t[k])
                                              ELSE events[p][k]
         /\ \A r \in Pe \ {p} : table'[r] = table[r] /\ events'[r] = events[r]
<1>1. events \in [Pe -> [Kinds -> Seq(Event)]] /\ table \in [Pe -> Tables]
  BY DEF TypeOK, Event, Tables
<1>2. PICK h : h = [k \in Kinds |->
         events[p][k] \o (IF loop[p] = "running" THEN Changes(p, k, table[p][k], t[k]) ELSE <<>>)]
  OBVIOUS
<1>3. table' = [table EXCEPT ![p] = t] /\ events' = [events EXCEPT ![p] = h]
  BY <1>2 DEF Update
<1>4. ASSUME NEW k \in Kinds
      PROVE  /\ h[k] = IF loop[p] = "running" THEN events[p][k] \o Changes(p, k, table[p][k], t[k]) ELSE events[p][k]
             /\ h[k] \in Seq(Event)
  <2>1. events[p][k] \in Seq(Event) /\ Changes(p, k, table[p][k], t[k]) \in Seq(Event)
    BY <1>1, ChangesType
  <2>2. events[p][k] \o Changes(p, k, table[p][k], t[k]) \in Seq(Event) /\ events[p][k] \o <<>> = events[p][k]
    BY <2>1, ConcatElements
  <2> QED
    BY <1>2, <2>1, <2>2
<1>5. h \in [Kinds -> Seq(Event)]
  BY <1>2, <1>4
<1> QED
  BY <1>1, <1>3, <1>4, <1>5

LEMMA SentLeads ==
  ASSUME TypeOK, NEW p \in Pe, NEW t \in Tables
  PROVE  Sent(p, t) \in Seq(Msg) /\ \A k \in Kinds : Leads(Sent(p, t), k, table[p][k][p], t[k][p])
<1>1. PICK ks : ks = {k \in Kinds : t[k][p] # table[p][k][p]}
  OBVIOUS
<1>2. PICK v \in [Kinds -> Int] : v = [k \in Kinds |-> t[k][p]]
  BY DEF Tables
<1>3. {[kind |-> k, value |-> v[k]] : k \in ks} = {[kind |-> k, value |-> t[k][p]] : k \in ks}
  BY <1>1, <1>2
<1>4. PICK sent : sent = SetToSeq({[kind |-> k, value |-> v[k]] : k \in ks})
  OBVIOUS
<1>7. Sent(p, t) = sent
  BY <1>1, <1>3, <1>4 DEF Sent
<1>5. ks \in SUBSET Kinds /\ \A k \in Kinds : k \notin ks => table[p][k][p] = v[k]
  BY <1>1, <1>2
<1>6. /\ sent \in Seq(Msg)
      /\ \A k \in Kinds : \A old : Leads(sent, k, old, IF k \in ks THEN v[k] ELSE old)
  BY <1>4, <1>5, KindsLead
<1> QED
  BY <1>2, <1>5, <1>6, <1>7

LEMMA PropagateFacts ==
  ASSUME TypeOK, NEW p \in Pe, NEW t \in Tables
  PROVE  /\ Propagate(p, t) \in [Pairs -> Seq(Msg)]
         /\ \A c \in Pairs : c[1] # p => Propagate(p, t)[c] = wire[c]
         /\ \A q \in Pe \ {p} : {<<p, q>>, <<q, p>>} \subseteq up =>
              Propagate(p, t)[<<p, q>>] = wire[<<p, q>>] \o Sent(p, t)
<1>1. wire \in [Pairs -> Seq(Msg)]
  BY DEF TypeOK, Msg
<1>2. \A c \in Pairs : wire[c] \in Seq(Msg) /\ wire[c] \o Sent(p, t) \in Seq(Msg)
  BY <1>1, SentLeads, ConcatElements
<1>3. \A q \in Pe \ {p} : <<p, q>> \in Pairs /\ <<p, q>>[1] = p /\ <<p, q>>[2] = q
  BY DEF Pairs
<1> QED
  BY <1>2, <1>3 DEF Propagate

\* The numbers a MAC route may get.
LEMMA MacMobilityFacts ==
  ASSUME TypeOK, NEW p \in Pe, NEW s \in MacMobility(p)
  PROVE  s \in Int /\ \A q \in BestRoutes(p, "mac", table[p]["mac"]) : table[p]["mac"][q] <= s
<1>1. PICK t, best, high :
        t = table[p]["mac"] /\ best = BestRoutes(p, "mac", t) /\ high = Max({t[q] : q \in best})
  OBVIOUS
<1>2. t \in [Pe -> Int] /\ best \in SUBSET Pe
  BY <1>1, BestRoutesFacts DEF TypeOK, Kinds
<1>3. s \in IF best = {} THEN {Plain}
            ELSE {IF q = p THEN high ELSE high + 1 : q \in {r \in best : t[r] = high}}
  BY <1>1 DEF MacMobility
<1>4. CASE best = {}
  BY <1>1, <1>3, <1>4 DEF Plain
<1>5. CASE best # {}
  <2>1. IsFiniteSet({t[q] : q \in best})
    <3> DEFINE f == [q \in best |-> t[q]]
    <3>1. f \in Surjection(best, {t[q] : q \in best})
      BY DEF Surjection
    <3> QED
      BY <1>2, <3>1, PeFacts, FS_Surjection
  <2>2. {t[q] : q \in best} \in SUBSET Int /\ {t[q] : q \in best} # {}
    BY <1>2, <1>5
  <2>3. high \in Int /\ \A x \in {t[q] : q \in best} : x <= high
    BY <1>1, <2>1, <2>2, GreatestNumber
  <2>4. s \in Int /\ high <= s
    BY <1>3, <1>5, <2>3
  <2>5. ASSUME NEW q \in best PROVE t[q] <= s
    <3>1. t[q] \in Int /\ t[q] <= high
      BY <1>2, <2>3
    <3> QED
      BY <2>3, <2>4, <3>1
  <2> QED
    BY <1>1, <2>4, <2>5
<1> QED
  BY <1>4, <1>5

\* An update that p reads from q.
LEMMA ReceiveFacts ==
  ASSUME TypeOK, NEW p \in Pe, NEW q \in Pe \ {p}, Receive(p, q)
  PROVE  /\ <<p, q>> \in up /\ <<q, p>> \in Pairs /\ wire[<<q, p>>] # <<>> /\ wire[<<q, p>>] \in Seq(Msg)
         /\ Head(wire[<<q, p>>]) \in Msg
         /\ \E u \in Tables : LET m == Head(wire[<<q, p>>]) IN
              /\ \A k \in Kinds : \A r \in Pe \ {p} :
                   u[k][r] = IF k = m.kind /\ r = q THEN m.value ELSE table[p][k][r]
              /\ \A k \in Kinds :
                   u[k][p] = IF k = "mac" /\ m.kind = "mac" /\ m.value # None /\ HandleMacMobility(p, q, m.value)
                             THEN None ELSE table[p][k][p]
              /\ Update(p, u)
              /\ wire' = [Propagate(p, u) EXCEPT ![<<q, p>>] = Tail(@)]
              /\ UNCHANGED <<learned, netlinkCh, loop, up, reach, missed, moves, flaps, starts, stops, fails>>
<1>1. PICK m : m = Head(wire[<<q, p>>])
  OBVIOUS
<1>2. PICK t : t = [table[p] EXCEPT ![m.kind][q] = m.value]
  OBVIOUS
<1>3. PICK u : u = IF m.kind = "mac" /\ m.value # None /\ HandleMacMobility(p, q, m.value)
                   THEN [t EXCEPT !["mac"][p] = None] ELSE t
  OBVIOUS
<1>4. <<q, p>> \in Pairs /\ wire[<<q, p>>] \in Seq(Msg) /\ wire[<<q, p>>] # <<>> /\ <<p, q>> \in up
  BY DEF TypeOK, Pairs, Receive, Msg
<1>5. m \in Msg
  BY <1>1, <1>4
<1>6. table[p] \in Tables /\ None \in Int /\ "mac" \in Kinds
  BY DEF TypeOK, Tables, None, Kinds
<1>7. /\ t \in Tables
      /\ \A k \in Kinds : \A r \in Pe : t[k][r] = IF k = m.kind /\ r = q THEN m.value ELSE table[p][k][r]
  BY <1>2, <1>5, <1>6 DEF Tables, Msg
<1>8. /\ u \in Tables
      /\ \A k \in Kinds : \A r \in Pe \ {p} : u[k][r] = t[k][r]
      /\ \A k \in Kinds :
           u[k][p] = IF k = "mac" /\ m.kind = "mac" /\ m.value # None /\ HandleMacMobility(p, q, m.value)
                     THEN None ELSE t[k][p]
  <2>1. CASE m.kind = "mac" /\ m.value # None /\ HandleMacMobility(p, q, m.value)
    BY <1>3, <1>6, <1>7, <2>1 DEF Tables
  <2>2. CASE ~(m.kind = "mac" /\ m.value # None /\ HandleMacMobility(p, q, m.value))
    BY <1>3, <1>7, <2>2
  <2> QED
    BY <2>1, <2>2
<1>9. /\ Update(p, u)
      /\ wire' = [Propagate(p, u) EXCEPT ![<<q, p>>] = Tail(@)]
      /\ UNCHANGED <<learned, netlinkCh, loop, up, reach, missed, moves, flaps, starts, stops, fails>>
  BY <1>1, <1>2, <1>3 DEF Receive
<1>10. /\ \A k \in Kinds : \A r \in Pe \ {p} :
            u[k][r] = IF k = m.kind /\ r = q THEN m.value ELSE table[p][k][r]
       /\ \A k \in Kinds :
            u[k][p] = IF k = "mac" /\ m.kind = "mac" /\ m.value # None /\ HandleMacMobility(p, q, m.value)
                      THEN None ELSE table[p][k][p]
  BY <1>7, <1>8
<1>11. u \in Tables
  BY <1>8
<1> QED
  BY <1>1, <1>4, <1>5, <1>9, <1>10, <1>11

\* p's end of its session with q goes down.
LEMMA PeerDownFacts ==
  ASSUME TypeOK, NEW p \in Pe, NEW q \in Pe \ {p}, PeerDown(p, q)
  PROVE  /\ \E u \in Tables : /\ \A k \in Kinds : u[k] = [table[p][k] EXCEPT ![q] = None]
                              /\ Update(p, u)
         /\ up' = up \ {<<p, q>>} /\ wire' = [wire EXCEPT ![<<q, p>>] = <<>>]
         /\ flaps' \in Nat
         /\ UNCHANGED <<learned, netlinkCh, loop, reach, missed, moves, starts, stops, fails>>
<1>1. PICK u : u = [k \in Kinds |-> [table[p][k] EXCEPT ![q] = None]]
  OBVIOUS
<1>2. u \in Tables /\ \A k \in Kinds : u[k] = [table[p][k] EXCEPT ![q] = None]
  BY <1>1 DEF TypeOK, Tables, None
<1>3. Update(p, u)
  BY <1>1 DEF PeerDown
<1>4. flaps' \in Nat
  BY DEF PeerDown, TypeOK
<1> QED
  BY <1>2, <1>3, <1>4 DEF PeerDown

\* The routes of its own that r sends when a session comes up.
LEMMA OwnLeads ==
  ASSUME TypeOK, NEW r \in Pe
  PROVE  LET ks == {k \in Kinds : table[r][k][r] # None}
             own == SetToSeq({[kind |-> k, value |-> table[r][k][r]] : k \in ks})
         IN own \in Seq(Msg) /\ \A k \in Kinds : Leads(own, k, None, table[r][k][r])
<1>1. PICK ks : ks = {k \in Kinds : table[r][k][r] # None}
  OBVIOUS
<1>2. PICK v \in [Kinds -> Int] : v = [k \in Kinds |-> table[r][k][r]]
  <2>1. \A k \in Kinds : table[r][k][r] \in Int
    BY DEF TypeOK
  <2> QED
    BY <2>1
<1>3. {[kind |-> k, value |-> v[k]] : k \in ks} = {[kind |-> k, value |-> table[r][k][r]] : k \in ks}
  BY <1>1, <1>2
<1>4. PICK own : own = SetToSeq({[kind |-> k, value |-> v[k]] : k \in ks})
  OBVIOUS
<1>5. /\ own \in Seq(Msg)
      /\ \A k \in Kinds : \A old : Leads(own, k, old, IF k \in ks THEN v[k] ELSE old)
  BY <1>1, <1>4, KindsLead
<1>6. \A k \in Kinds : Leads(own, k, None, table[r][k][r])
  BY <1>1, <1>2, <1>5
<1> QED
  BY <1>1, <1>3, <1>4, <1>5, <1>6
\* A table with another route.
Changed(t, k, p, s) == [t EXCEPT ![k][p] = s]

LEMMA ChangedFacts ==
  ASSUME NEW t \in Tables, NEW k \in Kinds, NEW p \in Pe, NEW s \in Int
  PROVE  /\ Changed(t, k, p, s) \in Tables /\ Changed(t, k, p, s)[k][p] = s
         /\ \A h \in Kinds : h # k => Changed(t, k, p, s)[h] = t[h]
         /\ \A h \in Kinds : \A q \in Pe \ {p} : Changed(t, k, p, s)[h][q] = t[h][q]
<1>1. PICK u : u = [t EXCEPT ![k][p] = s]
  OBVIOUS
<1>2. t \in [Kinds -> [Pe -> Int]]
  BY DEF Tables
<1>3. u \in Tables /\ u[k][p] = s
  BY <1>1, <1>2 DEF Tables
<1>4. \A h \in Kinds : h # k => u[h] = t[h]
  BY <1>1, <1>2
<1>5. \A h \in Kinds : \A q \in Pe \ {p} : u[h][q] = t[h][q]
  BY <1>1, <1>2
<1>6. Changed(t, k, p, s) = u
  BY <1>1 DEF Changed
<1> QED
  BY <1>3, <1>4, <1>5, <1>6

\* The table with other routes of p's own.
LEMMA OwnTables ==
  ASSUME TypeOK, NEW p \in Pe
  PROVE  /\ SendMulticast(p) \in Tables /\ DeletePathsByVrf(p) \in Tables
         /\ \A s \in Int : [table[p] EXCEPT !["mac"][p] = s] \in Tables
         /\ \A k \in Kinds : \A q \in Pe \ {p} :
              /\ SendMulticast(p)[k][q] = table[p][k][q]
              /\ DeletePathsByVrf(p)[k][q] = table[p][k][q]
              /\ \A s \in Int : [table[p] EXCEPT !["mac"][p] = s][k][q] = table[p][k][q]
         /\ SendMulticast(p)["mac"][p] = table[p]["mac"][p]
         /\ \A k \in Kinds : DeletePathsByVrf(p)[k][p] = None
         /\ \A s \in Int : [table[p] EXCEPT !["mac"][p] = s]["mac"][p] = s
<1>1. table[p] \in Tables
  BY DEF TypeOK, Tables
<1>2. "mac" \in Kinds /\ "multicast" \in Kinds /\ "mac" # "multicast" /\ None \in Int /\ Plain \in Int
  BY DEF Kinds, None, Plain
<1>3. SendMulticast(p) = Changed(table[p], "multicast", p, Plain)
  BY Zenon DEF SendMulticast, Changed
<1>4. \A s : [table[p] EXCEPT !["mac"][p] = s] = Changed(table[p], "mac", p, s)
  BY Zenon DEF Changed
<1>5. /\ SendMulticast(p) \in Tables /\ SendMulticast(p)["mac"] = table[p]["mac"]
      /\ \A k \in Kinds : \A q \in Pe \ {p} : SendMulticast(p)[k][q] = table[p][k][q]
  BY <1>1, <1>2, <1>3, ChangedFacts
<1>6. ASSUME NEW s \in Int
      PROVE  /\ Changed(table[p], "mac", p, s) \in Tables /\ Changed(table[p], "mac", p, s)["mac"][p] = s
             /\ \A k \in Kinds : \A q \in Pe \ {p} : Changed(table[p], "mac", p, s)[k][q] = table[p][k][q]
  BY <1>1, <1>2, ChangedFacts
<1>7. /\ DeletePathsByVrf(p) \in Tables
      /\ \A k \in Kinds : DeletePathsByVrf(p)[k][p] = None
      /\ \A k \in Kinds : \A q \in Pe \ {p} : DeletePathsByVrf(p)[k][q] = table[p][k][q]
  <2>1. \A k \in Kinds : table[p][k] \in [Pe -> Int]
    BY <1>1 DEF Tables
  <2> QED
    BY <1>2, <2>1 DEF Tables, DeletePathsByVrf
<1> DEFINE Moved(s) == [table[p] EXCEPT !["mac"][p] = s]
<1>8. \A s \in Int : /\ Moved(s) \in Tables /\ Moved(s)["mac"][p] = s
                     /\ \A k \in Kinds : \A q \in Pe \ {p} : Moved(s)[k][q] = table[p][k][q]
  <2> SUFFICES ASSUME NEW s \in Int
               PROVE  /\ Moved(s) \in Tables /\ Moved(s)["mac"][p] = s
                      /\ \A k \in Kinds : \A q \in Pe \ {p} : Moved(s)[k][q] = table[p][k][q]
    OBVIOUS
  <2>1. Moved(s) = Changed(table[p], "mac", p, s)
    BY <1>4
  <2> HIDE DEF Moved
  <2> QED
    BY <1>6, <2>1
<1>9. SendMulticast(p)["mac"][p] = table[p]["mac"][p]
  BY <1>5
<1> HIDE DEF Moved
<1>10. /\ \A s \in Int : Moved(s) \in Tables
       /\ \A k \in Kinds : \A q \in Pe \ {p} :
            /\ SendMulticast(p)[k][q] = table[p][k][q]
            /\ DeletePathsByVrf(p)[k][q] = table[p][k][q]
            /\ \A s \in Int : Moved(s)[k][q] = table[p][k][q]
       /\ \A s \in Int : Moved(s)["mac"][p] = s
  BY <1>5, <1>7, <1>8
<1> QED
  BY <1>5, <1>7, <1>9, <1>10, Zenon DEF Moved

LEMMA ModPathFacts ==
  ASSUME TypeOK, NEW p \in Pe, ModPath(p)
  PROVE  /\ loop[p] = "running" /\ netlinkCh[p] \in Seq(BOOLEAN) /\ netlinkCh[p] # <<>>
         /\ netlinkCh' = [netlinkCh EXCEPT ![p] = Tail(@)]
         /\ UNCHANGED <<learned, up, moves, flaps, starts, stops>>
         /\ \/ /\ \E s \in Int, t \in Tables :
                    /\ t = [table[p] EXCEPT !["mac"][p] = s] /\ Update(p, t) /\ wire' = Propagate(p, t)
                    /\ IF Head(netlinkCh[p]) THEN s \in MacMobility(p) ELSE s = None
               /\ UNCHANGED <<loop, reach, missed, fails>>
            \/ Fail(p) /\ UNCHANGED <<table, events, wire>>
<1>0. None \in Int
  BY DEF None
<1>1. ASSUME NEW s \in IF Head(netlinkCh[p]) THEN MacMobility(p) ELSE {None} PROVE s \in Int
  <2>1. Head(netlinkCh[p]) => s \in Int
    BY <1>1, MacMobilityFacts
  <2>2. ASSUME ~Head(netlinkCh[p]) PROVE s \in Int
    <3>1. s \in {None}
      BY <1>1, <2>2, Zenon
    <3> QED
      BY <1>0, <3>1, Zenon
  <2> QED
    BY <2>1, <2>2
<1>2. ASSUME NEW s \in IF Head(netlinkCh[p]) THEN MacMobility(p) ELSE {None},
             LET t == [table[p] EXCEPT !["mac"][p] = s]
             IN Update(p, t) /\ wire' = Propagate(p, t)
      PROVE  \E w \in Int, t \in Tables :
               /\ t = [table[p] EXCEPT !["mac"][p] = w] /\ Update(p, t) /\ wire' = Propagate(p, t)
               /\ IF Head(netlinkCh[p]) THEN w \in MacMobility(p) ELSE w = None
  <2>1. s \in Int
    BY <1>1
  <2>2. PICK t \in Tables : t = [table[p] EXCEPT !["mac"][p] = s]
    BY <2>1, OwnTables
  <2>3. IF Head(netlinkCh[p]) THEN s \in MacMobility(p) ELSE s = None
    BY Zenon
  <2>4. Update(p, t) /\ wire' = Propagate(p, t)
    BY <1>2, <2>2
  <2> QED
    BY <2>1, <2>2, <2>3, <2>4
<1>3. /\ loop[p] = "running" /\ netlinkCh[p] # <<>>
      /\ netlinkCh' = [netlinkCh EXCEPT ![p] = Tail(@)]
      /\ UNCHANGED <<learned, up, moves, flaps, starts, stops>>
  BY DEF ModPath
<1>4. netlinkCh[p] \in Seq(BOOLEAN)
  BY DEF TypeOK
<1>5. \/ /\ \E s \in IF Head(netlinkCh[p]) THEN MacMobility(p) ELSE {None} :
              LET t == [table[p] EXCEPT !["mac"][p] = s]
              IN Update(p, t) /\ wire' = Propagate(p, t)
         /\ UNCHANGED <<loop, reach, missed, fails>>
      \/ Fail(p) /\ UNCHANGED <<table, events, wire>>
  BY DEF ModPath
<1> QED
  BY <1>2, <1>3, <1>4, <1>5

\* What a loop is after an error, an event carried out or one dropped.
LEMMA LoopFacts ==
  ASSUME TypeOK, NEW p \in Pe, NEW q \in Pe, NEW k \in Kinds, NEW r \in SUBSET Pe,
         \/ Fail(p) \/ Dies(p) \/ Carried(p, k, q, r) \/ Missed(p, k, q, r)
  PROVE  /\ loop' \in [Pe -> {"off", "running", "stopped", "failed", "dead"}]
         /\ reach' \in [Pe -> [Kinds -> SUBSET Pe]] /\ missed' \in [Pe -> [Kinds -> SUBSET Pe]]
         /\ fails' \in Nat
         /\ \A o \in Pe \ {p} : loop'[o] = loop[o] /\ reach'[o] = reach[o] /\ missed'[o] = missed[o]
         /\ \A h \in Kinds \ {k} : reach'[p][h] = reach[p][h] /\ missed'[p][h] = missed[p][h]
<1>1. /\ loop \in [Pe -> {"off", "running", "stopped", "failed", "dead"}] /\ fails \in Nat
      /\ reach \in [Pe -> [Kinds -> SUBSET Pe]] /\ missed \in [Pe -> [Kinds -> SUBSET Pe]]
  BY DEF TypeOK
<1>2. CASE Fail(p)
  BY <1>1, <1>2 DEF Fail
<1>3. CASE Dies(p)
  BY <1>1, <1>3 DEF Dies
<1>4. CASE Carried(p, k, q, r)
  BY <1>1, <1>4 DEF Carried
<1>5. CASE Missed(p, k, q, r)
  BY <1>1, <1>5 DEF Missed
<1> QED
  BY <1>2, <1>3, <1>4, <1>5

\* The ways in which the loop of p reads a best route.
LEMMA ModReachFacts ==
  ASSUME TypeOK, NEW p \in Pe, NEW k \in Kinds, ModReach(p, k)
  PROVE  LET e == Head(events[p][k])
             r == reach[p][k]
         IN /\ e \in Event /\ loop[p] = "running" /\ events[p][k] \in Seq(Event) /\ events[p][k] # <<>>
            /\ events' = [events EXCEPT ![p][k] = Tail(events[p][k])]
            /\ UNCHANGED <<learned, netlinkCh, table, up, wire, moves, flaps, starts, stops>>
            /\ \/ e.withdraw /\ e.pe \in r /\ Carried(p, k, e.pe, r \ {e.pe})
               \/ e.withdraw /\ e.pe \notin r /\ Dies(p)
               \/ ~e.withdraw /\ Carried(p, k, e.pe, r \cup {e.pe})
               \/ Missed(p, k, e.pe, IF k = "multicast" THEN r \ {e.pe} ELSE r)
               \/ Fail(p)
<1>1. events[p][k] \in Seq(Event) /\ events[p][k] # <<>>
  BY DEF TypeOK, Event, ModReach
<1>2. Head(events[p][k]) \in Event
  BY <1>1
<1>3. CASE k = "multicast"
  BY <1>1, <1>2, <1>3 DEF ModReach, ModConnMap
<1>4. CASE k = "mac"
  BY <1>1, <1>2, <1>4 DEF ModReach, ModFdb
<1> QED
  BY <1>3, <1>4 DEF Kinds

LEMMA InitType == Init => TypeOK
<1> SUFFICES ASSUME Init PROVE TypeOK
  OBVIOUS
<1>1. \A S : <<>> \in Seq(S)
  OBVIOUS
<1>2. Pairs \subseteq Pairs /\ None \in Int
  BY DEF None
<1>3. events \in [Pe -> [Kinds -> Seq([pe : Pe, withdraw : BOOLEAN])]]
  BY <1>1 DEF Init
<1>4. wire \in [Pairs -> Seq([kind : Kinds, value : Int])]
  BY <1>1 DEF Init
<1> QED
  BY <1>1, <1>2, <1>3, <1>4 DEF Init, TypeOK

LEMMA StepType == TypeOK /\ [Next]_vars => TypeOK'
<1> SUFFICES ASSUME TypeOK, [Next]_vars PROVE TypeOK'
  OBVIOUS
<1>0. /\ wire \in [Pairs -> Seq(Msg)] /\ table \in [Pe -> Tables]
      /\ events \in [Pe -> [Kinds -> Seq(Event)]]
  BY DEF TypeOK, Msg, Tables, Event
<1>1. ASSUME NEW p \in Pe, NEW q \in Pe \ {p}, Receive(p, q) PROVE TypeOK'
  <2>1. PICK u \in Tables : /\ Update(p, u)
                            /\ wire' = [Propagate(p, u) EXCEPT ![<<q, p>>] = Tail(@)]
    BY <1>1, ReceiveFacts
  <2>2. Propagate(p, u) \in [Pairs -> Seq(Msg)] /\ Propagate(p, u)[<<q, p>>] = wire[<<q, p>>]
    BY ZenonT(60), <2>1, PropagateFacts DEF Pairs
  <2>3. wire' \in [Pairs -> Seq(Msg)]
    <3>1. Tail(wire[<<q, p>>]) \in Seq(Msg) /\ <<q, p>> \in Pairs
      <4>1. wire[<<q, p>>] \in Seq(Msg) /\ wire[<<q, p>>] # <<>> /\ <<q, p>> \in Pairs
        BY <1>1, ReceiveFacts
      <4> QED
        BY <4>1
    <3> QED
      BY <2>1, <2>2, <3>1
  <2>4. table' \in [Pe -> Tables] /\ events' \in [Pe -> [Kinds -> Seq(Event)]]
    BY <2>1, UpdateFacts
  <2> QED
    BY <1>1, <2>3, <2>4 DEF TypeOK, Receive, Msg, Tables, Event
<1>2. ASSUME NEW p \in Pe, NEW q \in Pe \ {p}, PeerDown(p, q) PROVE TypeOK'
  <2>1. PICK u \in Tables : Update(p, u)
    BY <1>2, PeerDownFacts
  <2>2. table' \in [Pe -> Tables] /\ events' \in [Pe -> [Kinds -> Seq(Event)]]
    BY <2>1, UpdateFacts
  <2>3. wire' \in [Pairs -> Seq(Msg)] /\ up' \subseteq Pairs /\ flaps' \in Nat
    <3>1. up' = up \ {<<p, q>>} /\ wire' = [wire EXCEPT ![<<q, p>>] = <<>>] /\ flaps' \in Nat
      BY <1>2, PeerDownFacts
    <3>2. <<>> \in Seq(Msg) /\ up \subseteq Pairs
      BY DEF TypeOK
    <3>3. wire' \in [Pairs -> Seq(Msg)]
      BY <1>0, <3>1, <3>2
    <3> QED
      BY <3>1, <3>2, <3>3
  <2> QED
    BY <1>2, <2>2, <2>3 DEF TypeOK, PeerDown, Msg, Tables, Event
<1>3. ASSUME NEW p \in Pe, NEW q \in Pe \ {p}, PeerUp(p, q) PROVE TypeOK'
  <2>1. wire' \in [Pairs -> Seq(Msg)]
    BY <1>0, <1>3, OwnLeads DEF PeerUp
  <2>2. up' \subseteq Pairs
    BY <1>3 DEF PeerUp, Pairs, TypeOK
  <2> QED
    BY <1>3, <2>1, <2>2 DEF TypeOK, PeerUp, Msg
<1>4. ASSUME NEW p \in Pe, Start(p) PROVE TypeOK'
  <2>1. PICK t \in Tables : t = SendMulticast(p)
    BY OwnTables
  <2>2. wire' \in [Pairs -> Seq(Msg)]
    BY <1>4, <2>1, PropagateFacts DEF Start
  <2>3. events' \in [Pe -> [Kinds -> Seq(Event)]]
    <3>1. PICK now : now = [k \in Kinds |-> SetToSeq([pe : BestRoutes(p, k, t[k]) \ {p}, withdraw : {FALSE}])]
      OBVIOUS
    <3>2. now \in [Kinds -> Seq(Event)]
      BY <3>1, HearsStart
    <3>3. events' = [events EXCEPT ![p] = now]
      BY <1>4, <2>1, <3>1 DEF Start
    <3> QED
      BY <1>0, <3>2, <3>3
  <2>4. table' \in [Pe -> Tables] /\ reach' \in [Pe -> [Kinds -> SUBSET Pe]]
    BY <1>0, <1>4, <2>1 DEF Start, TypeOK
  <2>5. /\ loop' \in [Pe -> {"off", "running", "stopped", "failed", "dead"}]
        /\ missed' \in [Pe -> [Kinds -> SUBSET Pe]]
    BY <1>4 DEF Start, TypeOK
  <2>6. netlinkCh' \in [Pe -> Seq(BOOLEAN)]
    <3>1. netlinkCh' = [netlinkCh EXCEPT ![p] = <<>>] /\ netlinkCh \in [Pe -> Seq(BOOLEAN)]
      BY <1>4 DEF Start, TypeOK
    <3>2. <<>> \in Seq(BOOLEAN)
      OBVIOUS
    <3> QED
      BY <3>1, <3>2
  <2>7. learned' \subseteq Pe /\ starts' \in Nat /\ UNCHANGED <<up, moves, flaps, stops, fails>>
    BY <1>4 DEF Start, TypeOK
  <2> QED
    BY <2>2, <2>3, <2>4, <2>5, <2>6, <2>7 DEF TypeOK, Msg, Tables, Event
<1>5. ASSUME NEW p \in Pe, Stop(p) PROVE TypeOK'
  <2>1. PICK t \in Tables : t = DeletePathsByVrf(p)
    BY OwnTables
  <2>2. wire' \in [Pairs -> Seq(Msg)]
    BY <1>5, <2>1, PropagateFacts DEF Stop
  <2>3. events' \in [Pe -> [Kinds -> Seq(Event)]]
    BY <1>0, <1>5 DEF Stop
  <2>4. table' \in [Pe -> Tables] /\ reach' \in [Pe -> [Kinds -> SUBSET Pe]]
    BY <1>0, <1>5, <2>1 DEF Stop, TypeOK
  <2>5. /\ loop' \in [Pe -> {"off", "running", "stopped", "failed", "dead"}] /\ stops' \in Nat
        /\ UNCHANGED <<learned, netlinkCh, up, missed, moves, flaps, starts, fails>>
    BY <1>5 DEF Stop, TypeOK
  <2> QED
    BY <2>2, <2>3, <2>4, <2>5 DEF TypeOK, Msg, Tables, Event
<1>6. ASSUME NEW p \in Pe, ModPath(p) PROVE TypeOK'
  <2>3. netlinkCh' \in [Pe -> Seq(BOOLEAN)]
    <3>1. netlinkCh[p] \in Seq(BOOLEAN) /\ netlinkCh[p] # <<>> /\ netlinkCh' = [netlinkCh EXCEPT ![p] = Tail(@)]
      BY <1>6, ModPathFacts
    <3>2. Tail(netlinkCh[p]) \in Seq(BOOLEAN) /\ netlinkCh \in [Pe -> Seq(BOOLEAN)]
      BY <3>1 DEF TypeOK
    <3> QED
      BY <3>1, <3>2
  <2>4. UNCHANGED <<learned, up, moves, flaps, starts, stops>>
    BY <1>6, ModPathFacts
  <2>1. CASE \E t \in Tables : Update(p, t) /\ wire' = Propagate(p, t) /\ UNCHANGED <<loop, reach, missed, fails>>
    <3>1. PICK t \in Tables : Update(p, t) /\ wire' = Propagate(p, t) /\ UNCHANGED <<loop, reach, missed, fails>>
      BY <2>1
    <3>2. wire' \in [Pairs -> Seq(Msg)] /\ table' \in [Pe -> Tables] /\ events' \in [Pe -> [Kinds -> Seq(Event)]]
      BY <3>1, PropagateFacts, UpdateFacts
    <3>3. /\ loop' \in [Pe -> {"off", "running", "stopped", "failed", "dead"}] /\ fails' \in Nat
          /\ reach' \in [Pe -> [Kinds -> SUBSET Pe]] /\ missed' \in [Pe -> [Kinds -> SUBSET Pe]]
      BY <3>1 DEF TypeOK
    <3> QED
      BY <1>6, <2>3, <2>4, <3>2, <3>3 DEF TypeOK, Msg, Tables, Event
  <2>2. CASE Fail(p) /\ UNCHANGED <<table, events, wire>>
    <3>1. /\ loop' \in [Pe -> {"off", "running", "stopped", "failed", "dead"}] /\ fails' \in Nat
          /\ reach' \in [Pe -> [Kinds -> SUBSET Pe]] /\ missed' \in [Pe -> [Kinds -> SUBSET Pe]]
      <4>1. /\ loop' = [loop EXCEPT ![p] = "failed"] /\ fails' = fails + 1
            /\ reach' = reach /\ missed' = missed
        BY <2>2 DEF Fail
      <4>2. /\ loop \in [Pe -> {"off", "running", "stopped", "failed", "dead"}] /\ fails \in Nat
            /\ reach \in [Pe -> [Kinds -> SUBSET Pe]] /\ missed \in [Pe -> [Kinds -> SUBSET Pe]]
        BY DEF TypeOK
      <4> QED
        BY <4>1, <4>2
    <3> QED
      BY <1>6, <2>2, <2>3, <2>4, <3>1 DEF TypeOK
  <2> QED
    BY <1>6, <2>1, <2>2, ModPathFacts
<1>7. ASSUME NEW p \in Pe, NEW new \in BOOLEAN, Kernel(p, new) PROVE TypeOK'
  <2>1. netlinkCh' = [netlinkCh EXCEPT ![p] = Append(@, new)] /\ netlinkCh \in [Pe -> Seq(BOOLEAN)]
    BY <1>7 DEF Kernel, TypeOK
  <2>2. Append(netlinkCh[p], new) \in Seq(BOOLEAN)
    BY <2>1
  <2>3. netlinkCh' \in [Pe -> Seq(BOOLEAN)]
    BY <2>1, <2>2
  <2>4. /\ learned' \subseteq Pe /\ moves' \in Nat
        /\ UNCHANGED <<loop, table, up, wire, events, reach, missed, flaps, starts, stops, fails>>
    BY <1>7 DEF Kernel, TypeOK
  <2> QED
    BY <2>3, <2>4 DEF TypeOK
<1>8. ASSUME NEW p \in Pe, NEW k \in Kinds, ModReach(p, k) PROVE TypeOK'
  <2>1. PICK e : e = Head(events[p][k])
    OBVIOUS
  <2>2. /\ e \in Event /\ events[p][k] \in Seq(Event) /\ events[p][k] # <<>>
        /\ events' = [events EXCEPT ![p][k] = Tail(events[p][k])]
        /\ UNCHANGED <<learned, netlinkCh, table, up, wire, moves, flaps, starts, stops>>
    BY <1>8, <2>1, ModReachFacts
  <2>3. e.pe \in Pe /\ reach[p][k] \in SUBSET Pe
    BY <2>2 DEF Event, TypeOK
  <2>4. \E r \in SUBSET Pe : \/ Fail(p) \/ Dies(p) \/ Carried(p, k, e.pe, r) \/ Missed(p, k, e.pe, r)
    BY <1>8, <2>1, <2>3, ModReachFacts
  <2>5. /\ loop' \in [Pe -> {"off", "running", "stopped", "failed", "dead"}] /\ fails' \in Nat
        /\ reach' \in [Pe -> [Kinds -> SUBSET Pe]] /\ missed' \in [Pe -> [Kinds -> SUBSET Pe]]
    BY <2>3, <2>4, LoopFacts
  <2>6. events' \in [Pe -> [Kinds -> Seq(Event)]]
    <3>1. Tail(events[p][k]) \in Seq(Event)
      BY <2>2
    <3> QED
      BY <1>0, <2>2, <3>1
  <2> QED
    BY <2>2, <2>5, <2>6 DEF TypeOK, Event
<1>9. ASSUME NEW p \in Pe, Flood(p) PROVE TypeOK'
  <2>1. /\ loop' \in [Pe -> {"off", "running", "stopped", "failed", "dead"}] /\ fails' \in Nat
        /\ reach' \in [Pe -> [Kinds -> SUBSET Pe]] /\ missed' \in [Pe -> [Kinds -> SUBSET Pe]]
    BY <1>9 DEF TypeOK, Flood, Fail
  <2>2. UNCHANGED <<learned, netlinkCh, table, up, wire, events, moves, flaps, starts, stops>>
    BY <1>9 DEF Flood
  <2> QED
    BY <2>1, <2>2 DEF TypeOK
<1>10. CASE UNCHANGED vars
  BY <1>10 DEF vars, TypeOK
<1> QED
  <2>1. ASSUME NEW c \in Pairs PROVE c = <<c[1], c[2]>> /\ c[1] \in Pe /\ c[2] \in Pe \ {c[1]}
    BY DEF Pairs
  <2> QED
    BY <1>1, <1>2, <1>3, <1>4, <1>5, <1>6, <1>7, <1>8, <1>9, <1>10, <2>1 DEF Next
-----------------------------------------------------------------------------
(* What is reached *)

\* What p reaches of a kind is what its events begin with, but for the PEs it has missed.
Heard(p, k, t, list, r, m) == \E base \in SUBSET Pe : Hears(p, k, t, list, base) /\ base \ m = r \ m

Hearing ==
  \A p \in Pe, k \in Kinds : loop[p] = "running" =>
    Heard(p, k, table[p][k], events[p][k], reach[p][k], missed[p][k])

Dialled == \A p \in Pe : loop[p] = "running" => reach[p]["multicast"] \cap missed[p]["multicast"] = {}

HInv == TypeOK /\ Hearing /\ Dialled /\ LoopLives

LEMMA InitHears == Init => HInv
BY InitType DEF Init, HInv, Hearing, Dialled, LoopLives

\* A new table of p, of which its loop hears.
LEMMA UpdateHears ==
  ASSUME HInv, NEW p \in Pe, NEW t \in Tables, Update(p, t), UNCHANGED <<loop, reach, missed>>
  PROVE  Hearing' /\ Dialled' /\ LoopLives'
<1>0. TypeOK
  BY DEF HInv
<1>1. Dialled' /\ LoopLives'
  BY DEF HInv, Dialled, LoopLives
<1>2. ASSUME NEW r \in Pe, NEW k \in Kinds, loop[r] = "running"
      PROVE  Heard(r, k, table'[r][k], events'[r][k], reach[r][k], missed[r][k])
  <2>1. Heard(r, k, table[r][k], events[r][k], reach[r][k], missed[r][k]) /\ events[r][k] \in Seq(Event)
    BY <1>0, <1>2 DEF HInv, Hearing, TypeOK, Event
  <2>2. CASE r = p
    <3>1. table'[p][k] = t[k] /\ events'[p][k] = events[p][k] \o Changes(p, k, table[p][k], t[k])
      BY <1>0, <1>2, <2>2, UpdateFacts
    <3>2. PICK base \in SUBSET Pe :
            /\ Hears(p, k, table[p][k], events[p][k], base)
            /\ base \ missed[p][k] = reach[p][k] \ missed[p][k]
      BY <2>1, <2>2 DEF Heard
    <3>3. Hears(p, k, table'[p][k], events'[p][k], base)
      BY <2>1, <2>2, <3>1, <3>2, HearsMore
    <3> QED
      BY <2>2, <3>2, <3>3 DEF Heard
  <2>3. CASE r # p
    <3>1. table'[r] = table[r] /\ events'[r] = events[r]
      BY <1>0, <2>3, UpdateFacts
    <3> QED
      BY <2>1, <3>1
  <2> QED
    BY <2>2, <2>3
<1> QED
  BY <1>1, <1>2 DEF Hearing

\* The loop of p reads an event.
LEMMA ModReachHears ==
  ASSUME HInv, NEW p \in Pe, NEW k \in Kinds, ModReach(p, k)
  PROVE  Hearing' /\ Dialled' /\ LoopLives'
<1>0. TypeOK
  BY DEF HInv
<1>1. PICK list, e, q, r, m : /\ list = events[p][k] /\ e = Head(list) /\ q = e.pe
                              /\ r = reach[p][k] /\ m = missed[p][k]
  OBVIOUS
<1>2. /\ list \in Seq(Event) /\ list # <<>> /\ loop[p] = "running" /\ e \in Event
      /\ events' = [events EXCEPT ![p][k] = Tail(list)] /\ table' = table
  BY <1>0, <1>1, ModReachFacts
<1>3. PICK base \in SUBSET Pe : Hears(p, k, table[p][k], list, base) /\ base \ m = r \ m
  BY <1>1, <1>2 DEF HInv, Hearing, Heard
<1>4. PICK after : after = IF e.withdraw THEN base \ {q} ELSE base \cup {q}
  OBVIOUS
<1>5. q \in Pe /\ e.withdraw \in BOOLEAN /\ r \in SUBSET Pe /\ m \in SUBSET Pe
  BY <1>0, <1>1, <1>2 DEF Event, TypeOK
<1>6. (e.withdraw => q \in base) /\ Hears(p, k, table[p][k], Tail(list), after) /\ after \in SUBSET Pe
  BY <1>1, <1>2, <1>3, <1>4, <1>5, HearsTail
<1>7. /\ reach \in [Pe -> [Kinds -> SUBSET Pe]] /\ missed \in [Pe -> [Kinds -> SUBSET Pe]]
      /\ loop \in [Pe -> {"off", "running", "stopped", "failed", "dead"}]
      /\ events \in [Pe -> [Kinds -> Seq(Event)]]
  BY <1>0 DEF TypeOK, Event
<1>8. k = "multicast" => r \cap m = {}
  BY <1>1, <1>2 DEF HInv, Dialled
<1>9. PICK s : s = IF e.withdraw THEN r \ {q} ELSE r \cup {q}
  OBVIOUS
<1>10. \/ ~(e.withdraw /\ q \notin r) /\ Carried(p, k, q, s)
       \/ e.withdraw /\ q \notin r /\ Dies(p)
       \/ Missed(p, k, q, IF k = "multicast" THEN r \ {q} ELSE r)
       \/ Fail(p)
  BY <1>0, <1>1, <1>5, <1>9, ModReachFacts
\* What the other loops have, and that of p of the other kind.
<1>11. /\ \A o \in Pe \ {p} : loop'[o] = loop[o] /\ reach'[o] = reach[o] /\ missed'[o] = missed[o]
                              /\ events'[o] = events[o]
       /\ \A h \in Kinds \ {k} : /\ reach'[p][h] = reach[p][h] /\ missed'[p][h] = missed[p][h]
                                 /\ events'[p][h] = events[p][h]
  <2>1. s \in SUBSET Pe /\ (IF k = "multicast" THEN r \ {q} ELSE r) \in SUBSET Pe
    BY <1>5, <1>9
  <2>2. \E w \in SUBSET Pe : \/ Fail(p) \/ Dies(p) \/ Carried(p, k, q, w) \/ Missed(p, k, q, w)
    BY <1>10, <2>1
  <2>3. /\ \A o \in Pe \ {p} : loop'[o] = loop[o] /\ reach'[o] = reach[o] /\ missed'[o] = missed[o]
        /\ \A h \in Kinds \ {k} : reach'[p][h] = reach[p][h] /\ missed'[p][h] = missed[p][h]
    BY <1>0, <1>5, <2>2, LoopFacts
  <2> QED
    BY <1>2, <1>7, <2>3
\* It is enough to see to p's own.
<1>12. ASSUME loop'[p] = "running" =>
                /\ Heard(p, k, table[p][k], Tail(list), reach'[p][k], missed'[p][k])
                /\ k = "multicast" => reach'[p][k] \cap missed'[p][k] = {},
              loop'[p] = "dead" => missed'[p][k] \ reach'[p][k] # {}
       PROVE  Hearing' /\ Dialled' /\ LoopLives'
  <2>1. ASSUME NEW o \in Pe, NEW h \in Kinds, loop'[o] = "running"
        PROVE  Heard(o, h, table'[o][h], events'[o][h], reach'[o][h], missed'[o][h])
    <3>1. CASE o = p /\ h = k
      BY <1>2, <1>7, <1>12, <2>1, <3>1
    <3>2. CASE o = p /\ h # k
      BY <1>2, <1>11, <3>2 DEF HInv, Hearing
    <3>3. CASE o # p
      BY <1>2, <1>11, <2>1, <3>3 DEF HInv, Hearing
    <3> QED
      BY <3>1, <3>2, <3>3
  <2>2. ASSUME NEW o \in Pe, loop'[o] = "running"
        PROVE  reach'[o]["multicast"] \cap missed'[o]["multicast"] = {}
    <3>1. CASE o = p /\ k = "multicast"
      BY <1>12, <2>2, <3>1
    <3>2. CASE o = p /\ k # "multicast"
      BY <1>2, <1>11, <3>2 DEF HInv, Dialled, Kinds
    <3>3. CASE o # p
      BY <1>11, <2>2, <3>3 DEF HInv, Dialled
    <3> QED
      BY <3>1, <3>2, <3>3
  <2>3. ASSUME NEW o \in Pe, loop'[o] = "dead"
        PROVE  \E h \in Kinds : missed'[o][h] \ reach'[o][h] # {}
    <3>1. CASE o = p
      BY <1>12, <2>3, <3>1
    <3>2. CASE o # p
      BY <1>11, <2>3, <3>2 DEF HInv, LoopLives
    <3> QED
      BY <3>1, <3>2
  <2> QED
    BY <2>1, <2>2, <2>3 DEF Hearing, Dialled, LoopLives
<1>13. CASE ~(e.withdraw /\ q \notin r) /\ Carried(p, k, q, s)
  <2>1. loop'[p] = "running" /\ reach'[p][k] = s /\ missed'[p][k] = m \ {q}
    BY <1>1, <1>2, <1>7, <1>13 DEF Carried
  <2>2. after \ (m \ {q}) = s \ (m \ {q})
    BY <1>3, <1>4, <1>9
  <2>3. k = "multicast" => s \cap (m \ {q}) = {}
    BY <1>8, <1>9
  <2> QED
    BY <1>6, <1>12, <2>1, <2>2, <2>3 DEF Heard
<1>14. CASE Missed(p, k, q, IF k = "multicast" THEN r \ {q} ELSE r)
  <2>1. PICK w : w = IF k = "multicast" THEN r \ {q} ELSE r
    OBVIOUS
  <2>2. loop'[p] = "running" /\ reach'[p][k] = w /\ missed'[p][k] = m \cup {q}
    BY <1>1, <1>2, <1>7, <1>14, <2>1 DEF Missed
  <2>3. after \ (m \cup {q}) = w \ (m \cup {q})
    BY <1>3, <1>4, <2>1
  <2>4. k = "multicast" => w \cap (m \cup {q}) = {}
    BY <1>8, <2>1
  <2> QED
    BY <1>6, <1>12, <2>2, <2>3, <2>4 DEF Heard
\* It ends: a route of the PE had been dropped.
<1>15. CASE e.withdraw /\ q \notin r /\ Dies(p)
  <2>1. loop'[p] = "dead" /\ reach'[p][k] = r /\ missed'[p][k] = m
    BY <1>1, <1>7, <1>15 DEF Dies
  <2>2. q \in m
    BY <1>3, <1>6, <1>15
  <2> QED
    BY <1>12, <1>15, <2>1, <2>2
<1>16. CASE Fail(p)
  <2>1. loop'[p] = "failed"
    BY <1>7, <1>16 DEF Fail
  <2> QED
    BY <1>12, <2>1
<1> QED
  BY <1>10, <1>13, <1>14, <1>15, <1>16

\* A loop that fails hears no more.
LEMMA FailHears ==
  ASSUME HInv, NEW p \in Pe, Fail(p), UNCHANGED <<table, events>>
  PROVE  Hearing' /\ Dialled' /\ LoopLives'
<1>1. loop \in [Pe -> {"off", "running", "stopped", "failed", "dead"}]
  BY DEF HInv, TypeOK
<1>2. loop'[p] = "failed" /\ (\A o \in Pe \ {p} : loop'[o] = loop[o]) /\ UNCHANGED <<reach, missed>>
  BY <1>1 DEF Fail
<1> QED
  BY <1>2 DEF HInv, Hearing, Dialled, LoopLives

LEMMA StepHears == HInv /\ [Next]_vars => HInv'
<1> SUFFICES ASSUME HInv, [Next]_vars PROVE Hearing' /\ Dialled' /\ LoopLives'
  BY StepType DEF HInv
<1>0. TypeOK
  BY DEF HInv
<1>1. ASSUME NEW p \in Pe, NEW q \in Pe \ {p}, Receive(p, q) PROVE Hearing' /\ Dialled' /\ LoopLives'
  <2>1. /\ \E u \in Tables : Update(p, u)
        /\ UNCHANGED <<loop, reach, missed>>
    BY <1>0, <1>1, ReceiveFacts
  <2> QED
    BY <2>1, UpdateHears
<1>2. ASSUME NEW p \in Pe, NEW q \in Pe \ {p}, PeerDown(p, q) PROVE Hearing' /\ Dialled' /\ LoopLives'
  <2>1. /\ \E u \in Tables : Update(p, u)
        /\ UNCHANGED <<loop, reach, missed>>
    BY <1>0, <1>2, PeerDownFacts
  <2> QED
    BY <2>1, UpdateHears
<1>3. CASE UNCHANGED <<loop, table, events, reach, missed>>
  BY <1>3 DEF HInv, Hearing, Dialled, LoopLives
<1>4. ASSUME NEW p \in Pe, NEW q \in Pe \ {p}, PeerUp(p, q) PROVE Hearing' /\ Dialled' /\ LoopLives'
  BY <1>3, <1>4 DEF PeerUp
<1>5. ASSUME NEW p \in Pe, NEW new \in BOOLEAN, Kernel(p, new) PROVE Hearing' /\ Dialled' /\ LoopLives'
  BY <1>3, <1>5 DEF Kernel
<1>6. ASSUME NEW p \in Pe, ModPath(p) PROVE Hearing' /\ Dialled' /\ LoopLives'
  <2>1. \/ (\E u \in Tables : Update(p, u)) /\ UNCHANGED <<loop, reach, missed>>
        \/ Fail(p) /\ UNCHANGED <<table, events>>
    BY <1>0, <1>6, ModPathFacts
  <2> QED
    BY <2>1, UpdateHears, FailHears
<1>7. ASSUME NEW p \in Pe, Start(p) PROVE Hearing' /\ Dialled' /\ LoopLives'
  <2>1. PICK t : t = SendMulticast(p)
    OBVIOUS
  <2>2. PICK now : now = [k \in Kinds |-> SetToSeq([pe : BestRoutes(p, k, t[k]) \ {p}, withdraw : {FALSE}])]
    OBVIOUS
  <2>3. /\ table' = [table EXCEPT ![p] = t] /\ events' = [events EXCEPT ![p] = now]
        /\ loop' = [loop EXCEPT ![p] = "running"] /\ reach' = [reach EXCEPT ![p] = [k \in Kinds |-> {}]]
        /\ missed' = [missed EXCEPT ![p] = [k \in Kinds |-> {}]]
    BY <1>7, <2>1, <2>2 DEF Start
  <2>4. \A k \in Kinds : Hears(p, k, t[k], now[k], {})
    BY <2>2, HearsStart
  <2>5. \A r \in Pe \ {p} : /\ table'[r] = table[r] /\ events'[r] = events[r] /\ loop'[r] = loop[r]
                            /\ reach'[r] = reach[r] /\ missed'[r] = missed[r]
    BY <1>0, <2>3 DEF TypeOK
  <2>6. /\ table'[p] = t /\ events'[p] = now /\ loop'[p] = "running"
        /\ \A k \in Kinds : reach'[p][k] = {} /\ missed'[p][k] = {}
    BY <1>0, <2>3 DEF TypeOK
  <2>7. \A k \in Kinds : Heard(p, k, t[k], now[k], {}, {})
    BY <2>4 DEF Heard
  <2>8. Hearing'
    BY ZenonT(30), <2>5, <2>6, <2>7 DEF HInv, Hearing
  <2>9. Dialled' /\ LoopLives'
    BY <2>5, <2>6 DEF HInv, Dialled, LoopLives, Kinds
  <2> QED
    BY <2>8, <2>9
<1>8. ASSUME NEW p \in Pe, Stop(p) PROVE Hearing' /\ Dialled' /\ LoopLives'
  <2>1. /\ loop' = [loop EXCEPT ![p] = "stopped"] /\ missed' = missed
        /\ \A r \in Pe \ {p} : table'[r] = table[r] /\ events'[r] = events[r] /\ reach'[r] = reach[r]
    BY <1>0, <1>8 DEF Stop, TypeOK
  <2>2. loop'[p] = "stopped" /\ \A r \in Pe \ {p} : loop'[r] = loop[r]
    BY <1>0, <2>1 DEF TypeOK
  <2>3. Hearing' /\ Dialled' /\ LoopLives'
    BY <2>1, <2>2 DEF HInv, Hearing, Dialled, LoopLives
  <2> QED
    BY <2>3
<1>9. ASSUME NEW p \in Pe, NEW k \in Kinds, ModReach(p, k) PROVE Hearing' /\ Dialled' /\ LoopLives'
  BY <1>9, ModReachHears
<1>10. ASSUME NEW p \in Pe, Flood(p) PROVE Hearing' /\ Dialled' /\ LoopLives'
  BY <1>10, FailHears DEF Flood
<1>11. CASE UNCHANGED vars
  BY <1>3, <1>11 DEF vars
<1> QED
  <2>1. ASSUME NEW c \in Pairs PROVE c = <<c[1], c[2]>> /\ c[1] \in Pe /\ c[2] \in Pe \ {c[1]}
    BY DEF Pairs
  <2> QED
    BY <1>1, <1>2, <1>4, <1>5, <1>6, <1>7, <1>8, <1>9, <1>10, <1>11, <2>1 DEF Next
-----------------------------------------------------------------------------
(* What the PEs know of each other *)

\* While both ends of a session are up, the updates under way lead from what the neighbor has to
\* the routes of p's own; and nothing is kept of a neighbor whose session is down.
InStep ==
  \A p, q \in Pe : p # q =>
    /\ {<<p, q>>, <<q, p>>} \subseteq up =>
         \A k \in Kinds : Leads(wire[<<p, q>>], k, table[q][k][p], table[p][k][p])
    /\ <<q, p>> \notin up => \A k \in Kinds : table[q][k][p] = None

LEMMA InitInStep == Init => InStep
<1> SUFFICES ASSUME Init, NEW p \in Pe, NEW q \in Pe, p # q
             PROVE  /\ \A k \in Kinds : Leads(wire[<<p, q>>], k, table[q][k][p], table[p][k][p])
                    /\ \A k \in Kinds : table[q][k][p] = None
  BY DEF InStep
<1>1. <<p, q>> \in Pairs
  BY DEF Pairs
<1>2. wire[<<p, q>>] = <<>> /\ \A k \in Kinds : table[q][k][p] = None /\ table[p][k][p] = None
  BY <1>1 DEF Init
<1> QED
  BY <1>2, LeadsNowhere

\* Other routes of p's own, sent to whom it has a session with.
LEMMA SentInStep ==
  ASSUME TypeOK, InStep, NEW p \in Pe, NEW q \in Pe \ {p}, NEW t \in Tables,
         {<<p, q>>, <<q, p>>} \subseteq up, NEW k \in Kinds
  PROVE  Leads(Propagate(p, t)[<<p, q>>], k, table[q][k][p], t[k][p])
<1>1. wire[<<p, q>>] \in Seq(Msg)
  BY DEF TypeOK, Pairs, Msg
<1>2. Leads(wire[<<p, q>>], k, table[q][k][p], table[p][k][p])
  BY DEF InStep
<1>3. Sent(p, t) \in Seq(Msg) /\ Leads(Sent(p, t), k, table[p][k][p], t[k][p])
  BY SentLeads
<1>4. Propagate(p, t)[<<p, q>>] = wire[<<p, q>>] \o Sent(p, t)
  BY PropagateFacts
<1> QED
  BY <1>1, <1>2, <1>3, <1>4, LeadsConcat

LEMMA OwnInStep ==
  ASSUME TypeOK, InStep, NEW p \in Pe, NEW t \in Tables,
         \A k \in Kinds : \A q \in Pe \ {p} : t[k][q] = table[p][k][q],
         table' = [table EXCEPT ![p] = t], wire' = Propagate(p, t), up' = up
  PROVE  InStep'
<1>1. table'[p] = t /\ \A r \in Pe \ {p} : table'[r] = table[r]
  BY DEF TypeOK
<1>2. \A r, q \in Pe : r # q => <<r, q>> \in Pairs
  BY DEF Pairs
<1>3. ASSUME NEW r \in Pe, NEW q \in Pe, r # q, {<<r, q>>, <<q, r>>} \subseteq up, NEW k \in Kinds
      PROVE  Leads(wire'[<<r, q>>], k, table'[q][k][r], table'[r][k][r])
  <2>1. CASE r = p
    BY <1>1, <1>3, <2>1, SentInStep
  <2>2. CASE r # p
    <3>1. wire'[<<r, q>>] = wire[<<r, q>>]
      BY <1>2, <1>3, <2>2, PropagateFacts
    <3>2. table'[r][k][r] = table[r][k][r] /\ table'[q][k][r] = table[q][k][r]
      BY <1>1, <2>2
    <3> QED
      BY <1>3, <3>1, <3>2 DEF InStep
  <2> QED
    BY <2>1, <2>2
<1>4. ASSUME NEW r \in Pe, NEW q \in Pe, r # q, <<q, r>> \notin up, NEW k \in Kinds
      PROVE  table'[q][k][r] = None
  <2>1. table'[q][k][r] = table[q][k][r]
    BY <1>1, <1>4
  <2> QED
    BY <1>4, <2>1 DEF InStep
<1> QED
  BY <1>3, <1>4 DEF InStep

LEMMA ReceiveInStep ==
  ASSUME TypeOK, InStep, NEW p \in Pe, NEW q \in Pe \ {p}, Receive(p, q)
  PROVE  InStep'
<1> DEFINE m == Head(wire[<<q, p>>])
<1>2. PICK u \in Tables :
        /\ \A k \in Kinds : \A r \in Pe \ {p} :
             u[k][r] = IF k = m.kind /\ r = q THEN m.value ELSE table[p][k][r]
        /\ Update(p, u)
        /\ wire' = [Propagate(p, u) EXCEPT ![<<q, p>>] = Tail(@)]
        /\ up' = up
  BY ZenonT(30), ReceiveFacts
<1>1. m = Head(wire[<<q, p>>])
  OBVIOUS
<1> HIDE DEF m
<1>3. table'[p] = u /\ \A r \in Pe \ {p} : table'[r] = table[r]
  BY <1>2, UpdateFacts
<1>4. \A r, s \in Pe : r # s => <<r, s>> \in Pairs
  BY DEF Pairs
<1>5. <<p, q>> \in up /\ wire[<<q, p>>] # <<>> /\ wire[<<q, p>>] \in Seq(Msg)
  BY ReceiveFacts
<1>6. /\ Propagate(p, u) \in [Pairs -> Seq(Msg)]
      /\ \A c \in Pairs : c[1] # p => Propagate(p, u)[c] = wire[c]
  BY PropagateFacts
<1>7. /\ wire'[<<q, p>>] = Tail(wire[<<q, p>>])
      /\ \A c \in Pairs : c # <<q, p>> => wire'[c] = Propagate(p, u)[c]
  BY <1>2, <1>4, <1>6
<1>8. ASSUME NEW r \in Pe, NEW s \in Pe, r # s, {<<r, s>>, <<s, r>>} \subseteq up, NEW k \in Kinds
      PROVE  Leads(wire'[<<r, s>>], k, table'[s][k][r], table'[r][k][r])
  <2>1. CASE r = p
    <3>1. Leads(Propagate(p, u)[<<p, s>>], k, table[s][k][p], u[k][p])
      BY <1>8, <2>1, SentInStep
    <3>2. wire'[<<p, s>>] = Propagate(p, u)[<<p, s>>]
      BY <1>4, <1>7, <1>8, <2>1
    <3> QED
      BY <1>3, <1>8, <2>1, <3>1, <3>2
  <2>2. CASE r = q /\ s = p
    <3>1. Leads(wire[<<q, p>>], k, table[p][k][q], table[q][k][q])
      BY <1>8, <2>2 DEF InStep
    <3>2. Leads(Tail(wire[<<q, p>>]), k, IF m.kind = k THEN m.value ELSE table[p][k][q], table[q][k][q])
      BY <1>1, <1>5, <3>1, LeadsTail
    <3>3. table'[p][k][q] = IF m.kind = k THEN m.value ELSE table[p][k][q]
      BY <1>2, <1>3
    <3> QED
      BY <1>3, <1>7, <2>2, <3>2, <3>3
  <2>3. CASE r # p /\ ~(r = q /\ s = p)
    <3>1. wire'[<<r, s>>] = wire[<<r, s>>]
      BY <1>4, <1>6, <1>7, <1>8, <2>3
    <3>2. table'[r][k][r] = table[r][k][r] /\ table'[s][k][r] = table[s][k][r]
      BY <1>2, <1>3, <2>3
    <3> QED
      BY <1>8, <3>1, <3>2 DEF InStep
  <2> QED
    BY <2>1, <2>2, <2>3
<1>9. ASSUME NEW r \in Pe, NEW s \in Pe, r # s, <<s, r>> \notin up, NEW k \in Kinds
      PROVE  table'[s][k][r] = None
  <2>1. table'[s][k][r] = table[s][k][r]
    BY <1>2, <1>3, <1>5, <1>9
  <2> QED
    BY <1>9, <2>1 DEF InStep
<1> QED
  BY <1>2, <1>8, <1>9 DEF InStep

LEMMA StepInStep == TypeOK /\ InStep /\ [Next]_vars => InStep'
<1> SUFFICES ASSUME TypeOK, InStep, [Next]_vars PROVE InStep'
  OBVIOUS
<1>0. \A r, s \in Pe : r # s => <<r, s>> \in Pairs
  BY DEF Pairs
<1>1. ASSUME NEW p \in Pe, NEW q \in Pe \ {p}, Receive(p, q) PROVE InStep'
  BY <1>1, ReceiveInStep
<1>2. ASSUME NEW p \in Pe, NEW q \in Pe \ {p}, PeerDown(p, q) PROVE InStep'
  <2>1. PICK u \in Tables : (\A k \in Kinds : u[k] = [table[p][k] EXCEPT ![q] = None]) /\ Update(p, u)
    BY <1>2, PeerDownFacts
  <2>2. table'[p] = u /\ \A r \in Pe \ {p} : table'[r] = table[r]
    BY <2>1, UpdateFacts
  <2>3. /\ up' = up \ {<<p, q>>}
        /\ \A c \in Pairs : c # <<q, p>> => wire'[c] = wire[c]
    <3>1. up' = up \ {<<p, q>>} /\ wire' = [wire EXCEPT ![<<q, p>>] = <<>>]
      BY <1>2, PeerDownFacts
    <3>2. wire \in [Pairs -> Seq(Msg)]
      BY DEF TypeOK, Msg
    <3> QED
      BY <3>1, <3>2
  <2>4. \A r, s \in Pe, k \in Kinds : table'[s][k][r] = IF s = p /\ r = q THEN None ELSE table[s][k][r]
    <3> SUFFICES ASSUME NEW r \in Pe, NEW s \in Pe, NEW k \in Kinds
                 PROVE  table'[s][k][r] = IF s = p /\ r = q THEN None ELSE table[s][k][r]
      OBVIOUS
    <3>1. u[k] = [table[p][k] EXCEPT ![q] = None]
      BY <2>1
    <3>2. table[p][k] \in [Pe -> Int]
      BY DEF TypeOK
    <3> QED
      BY <2>2, <3>1, <3>2
  <2>5. ASSUME NEW r \in Pe, NEW s \in Pe, r # s, {<<r, s>>, <<s, r>>} \subseteq up', NEW k \in Kinds
        PROVE  Leads(wire'[<<r, s>>], k, table'[s][k][r], table'[r][k][r])
    <3>1. {<<r, s>>, <<s, r>>} \subseteq up /\ ~(s = p /\ r = q) /\ ~(r = p /\ s = q)
      BY <2>3, <2>5
    <3>2. wire'[<<r, s>>] = wire[<<r, s>>] /\ table'[s][k][r] = table[s][k][r] /\ table'[r][k][r] = table[r][k][r]
      BY <1>0, <2>3, <2>4, <2>5, <3>1
    <3> QED
      BY <2>5, <3>1, <3>2 DEF InStep
  <2>6. ASSUME NEW r \in Pe, NEW s \in Pe, r # s, <<s, r>> \notin up', NEW k \in Kinds
        PROVE  table'[s][k][r] = None
    <3>1. table'[s][k][r] = IF s = p /\ r = q THEN None ELSE table[s][k][r]
      BY <2>4
    <3>2. ~(s = p /\ r = q) => <<s, r>> \notin up
      BY <2>3, <2>6
    <3> QED
      BY <2>6, <3>1, <3>2 DEF InStep
  <2> QED
    BY <2>5, <2>6 DEF InStep
<1>3. ASSUME NEW p \in Pe, NEW q \in Pe \ {p}, PeerUp(p, q) PROVE InStep'
  <2>1. PICK own : own = [r \in Pe |-> LET ks == {k \in Kinds : table[r][k][r] # None}
                                       IN SetToSeq({[kind |-> k, value |-> table[r][k][r]] : k \in ks})]
    OBVIOUS
  <2>2. \A r \in Pe : \A k \in Kinds : Leads(own[r], k, None, table[r][k][r])
    BY <2>1, OwnLeads
  <2>3. /\ {<<p, q>>, <<q, p>>} \cap up = {} /\ up' = up \cup {<<p, q>>, <<q, p>>} /\ table' = table
        /\ wire' = [wire EXCEPT ![<<p, q>>] = own[p], ![<<q, p>>] = own[q]]
    BY <1>3, <2>1 DEF PeerUp
  <2>4. /\ wire'[<<p, q>>] = own[p] /\ wire'[<<q, p>>] = own[q]
        /\ \A c \in Pairs : c \notin {<<p, q>>, <<q, p>>} => wire'[c] = wire[c]
    BY <1>0, <2>3 DEF TypeOK
  <2>5. \A k \in Kinds : table[q][k][p] = None /\ table[p][k][q] = None
    BY <2>3 DEF InStep
  <2>6. ASSUME NEW r \in Pe, NEW s \in Pe, r # s, {<<r, s>>, <<s, r>>} \subseteq up', NEW k \in Kinds
        PROVE  Leads(wire'[<<r, s>>], k, table'[s][k][r], table'[r][k][r])
    <3>1. CASE <<r, s>> \in {<<p, q>>, <<q, p>>}
      BY <2>2, <2>3, <2>4, <2>5, <3>1
    <3>2. CASE <<r, s>> \notin {<<p, q>>, <<q, p>>}
      <4>1. {<<r, s>>, <<s, r>>} \subseteq up
        BY <2>3, <2>6, <3>2
      <4>2. wire'[<<r, s>>] = wire[<<r, s>>]
        BY <1>0, <2>4, <2>6, <3>2
      <4> QED
        BY <2>3, <2>6, <4>1, <4>2 DEF InStep
    <3> QED
      BY <3>1, <3>2
  <2>7. ASSUME NEW r \in Pe, NEW s \in Pe, r # s, <<s, r>> \notin up', NEW k \in Kinds
        PROVE  table'[s][k][r] = None
    BY <2>3, <2>7 DEF InStep
  <2> QED
    BY <2>6, <2>7 DEF InStep
<1>4. ASSUME NEW p \in Pe, Start(p) PROVE InStep'
  <2>1. PICK t \in Tables : t = SendMulticast(p) /\ \A k \in Kinds : \A q \in Pe \ {p} : t[k][q] = table[p][k][q]
    BY OwnTables
  <2>2. table' = [table EXCEPT ![p] = t] /\ wire' = Propagate(p, t) /\ up' = up
    BY <1>4, <2>1 DEF Start
  <2> QED
    BY <2>1, <2>2, OwnInStep
<1>5. ASSUME NEW p \in Pe, Stop(p) PROVE InStep'
  <2>1. PICK t \in Tables : t = DeletePathsByVrf(p) /\ \A k \in Kinds : \A q \in Pe \ {p} : t[k][q] = table[p][k][q]
    BY OwnTables
  <2>2. table' = [table EXCEPT ![p] = t] /\ wire' = Propagate(p, t) /\ up' = up
    BY <1>5, <2>1 DEF Stop
  <2> QED
    BY <2>1, <2>2, OwnInStep
<1>6. CASE UNCHANGED <<table, wire, up>>
  BY <1>6 DEF InStep
<1>7. ASSUME NEW p \in Pe, ModPath(p) PROVE InStep'
  <2>1. CASE \E s \in Int, t \in Tables :
               t = [table[p] EXCEPT !["mac"][p] = s] /\ Update(p, t) /\ wire' = Propagate(p, t)
    <3>1. PICK s \in Int, t \in Tables :
            t = [table[p] EXCEPT !["mac"][p] = s] /\ Update(p, t) /\ wire' = Propagate(p, t)
      BY <2>1
    <3>2. \A k \in Kinds : \A q \in Pe \ {p} : t[k][q] = table[p][k][q]
      BY <3>1, OwnTables
    <3>3. table' = [table EXCEPT ![p] = t] /\ up' = up
      BY <1>7, <3>1, ModPathFacts DEF Update
    <3> QED
      BY ZenonT(60), <3>1, <3>2, <3>3, OwnInStep
  <2>2. CASE UNCHANGED <<table, wire, up>>
    BY <1>6, <2>2
  <2> QED
    BY <1>7, <2>1, <2>2, ModPathFacts
<1>8. ASSUME NEW p \in Pe, NEW new \in BOOLEAN, Kernel(p, new) PROVE InStep'
  BY <1>6, <1>8 DEF Kernel
<1>9. ASSUME NEW p \in Pe, NEW k \in Kinds, ModReach(p, k) PROVE InStep'
  BY <1>6, <1>9 DEF ModReach
<1>10. ASSUME NEW p \in Pe, Flood(p) PROVE InStep'
  BY <1>6, <1>10 DEF Flood
<1>11. CASE UNCHANGED vars
  BY <1>6, <1>11 DEF vars
<1> QED
  <2>1. ASSUME NEW c \in Pairs PROVE c = <<c[1], c[2]>> /\ c[1] \in Pe /\ c[2] \in Pe \ {c[1]}
    BY DEF Pairs
  <2> QED
    BY <1>1, <1>2, <1>3, <1>4, <1>5, <1>7, <1>8, <1>9, <1>10, <1>11, <2>1 DEF Next
-----------------------------------------------------------------------------
(* What a network has of its own *)

\* A PE has a MAC route of its own only while its network is there and the kernel has the MAC, or
\* has not yet been heard to forget it, or could not be heard.
OwnFollows ==
  \A p \in Pe :
    /\ loop[p] \in {"off", "stopped"} => table[p]["mac"][p] = None
    /\ p \notin learned /\ netlinkCh[p] = <<>> /\ loop[p] # "failed" => table[p]["mac"][p] = None
    /\ netlinkCh[p] # <<>> => (netlinkCh[p][Len(netlinkCh[p])] <=> p \in learned)

LEMMA InitOwn == Init => OwnFollows
  BY DEF Init, OwnFollows, Kinds

LEMMA LastOfTail ==
  ASSUME NEW S, NEW s \in Seq(S), s # <<>>
  PROVE  /\ Tail(s) # <<>> => Tail(s)[Len(Tail(s))] = s[Len(s)]
         /\ Tail(s) = <<>> => Head(s) = s[Len(s)]
<1>1. Len(s) \in Nat /\ Len(s) # 0
  OBVIOUS
<1>2. /\ Tail(s) \in Seq(S) /\ Len(Tail(s)) = Len(s) - 1
      /\ \A i \in 1..(Len(s) - 1) : Tail(s)[i] = s[i + 1]
  BY <1>1
<1>3. Head(s) = s[1]
  BY <1>1
<1>4. ASSUME Tail(s) = <<>> PROVE Len(s) = 1
  <2>0. Len(<<>>) = 0
    OBVIOUS
  <2>1. Len(Tail(s)) = 0
    BY <1>4, <2>0, Zenon
  <2>2. Len(Tail(s)) = Len(s) - 1
    BY <1>2
  <2> QED
    BY <1>1, <2>1, <2>2
<1>5. ASSUME Tail(s) # <<>> PROVE Len(s) > 1
  BY <1>1, <1>2, <1>5
<1> QED
  BY <1>1, <1>2, <1>3, <1>4, <1>5

LEMMA StepOwn == TypeOK /\ OwnFollows /\ [Next]_vars => OwnFollows'
<1> SUFFICES ASSUME TypeOK, OwnFollows, [Next]_vars PROVE OwnFollows'
  OBVIOUS
<1>m. "mac" \in Kinds
  BY DEF Kinds
\* A step that gives no PE a route leaves the rest as it is.
<1>0. ASSUME UNCHANGED <<loop, learned, netlinkCh>>,
             \A r \in Pe : table'[r]["mac"][r] \in {None, table[r]["mac"][r]}
      PROVE  OwnFollows'
  BY <1>0 DEF OwnFollows
<1>1. ASSUME NEW p \in Pe, NEW q \in Pe \ {p}, Receive(p, q) PROVE OwnFollows'
  <2>1. /\ UNCHANGED <<loop, learned, netlinkCh>>
        /\ \E u \in Tables : u["mac"][p] \in {None, table[p]["mac"][p]} /\ Update(p, u)
    BY <1>m, <1>1, ReceiveFacts
  <2>2. PICK u \in Tables : u["mac"][p] \in {None, table[p]["mac"][p]} /\ Update(p, u)
    BY <2>1
  <2>3. table'[p] = u /\ \A r \in Pe \ {p} : table'[r] = table[r]
    BY <2>2, UpdateFacts
  <2> QED
    BY <1>0, <2>1, <2>2, <2>3
<1>2. ASSUME NEW p \in Pe, NEW q \in Pe \ {p}, PeerDown(p, q) PROVE OwnFollows'
  <2>1. PICK u \in Tables : (\A k \in Kinds : u[k] = [table[p][k] EXCEPT ![q] = None]) /\ Update(p, u)
    BY <1>2, PeerDownFacts
  <2>2. table'[p] = u /\ \A r \in Pe \ {p} : table'[r] = table[r]
    BY <2>1, UpdateFacts
  <2>3. UNCHANGED <<loop, learned, netlinkCh>>
    BY <1>2, PeerDownFacts
  <2>4. table[p]["mac"] \in [Pe -> Int]
    BY <1>m DEF TypeOK
  <2>5. u["mac"][p] = table[p]["mac"][p]
    BY <1>m, <2>1, <2>4
  <2> QED
    BY <1>0, <2>2, <2>3, <2>5
<1>3. ASSUME NEW p \in Pe, NEW q \in Pe \ {p}, PeerUp(p, q) PROVE OwnFollows'
  BY <1>0, <1>3 DEF PeerUp
<1>4. ASSUME NEW p \in Pe, Start(p) PROVE OwnFollows'
  <2>1. PICK t \in Tables : t = SendMulticast(p) /\ t["mac"][p] = table[p]["mac"][p]
    BY OwnTables
  <2>2. /\ loop[p] \in {"off", "stopped"} /\ loop' = [loop EXCEPT ![p] = "running"]
        /\ table' = [table EXCEPT ![p] = t]
        /\ learned' = learned \ {p} /\ netlinkCh' = [netlinkCh EXCEPT ![p] = <<>>]
    BY <1>4, <2>1 DEF Start
  <2>3. /\ table \in [Pe -> Tables] /\ netlinkCh \in [Pe -> Seq(BOOLEAN)]
        /\ loop \in [Pe -> {"off", "running", "stopped", "failed", "dead"}]
    BY DEF TypeOK, Tables
  <2>4. /\ table'[p] = t /\ netlinkCh'[p] = <<>> /\ loop'[p] = "running" /\ p \notin learned'
        /\ \A r \in Pe \ {p} : /\ table'[r] = table[r] /\ netlinkCh'[r] = netlinkCh[r]
                               /\ loop'[r] = loop[r] /\ (r \in learned' <=> r \in learned)
    BY <2>2, <2>3
  <2>5. t["mac"][p] = None
    BY <2>1, <2>2 DEF OwnFollows
  <2> QED
    BY <2>4, <2>5 DEF OwnFollows
<1>5. ASSUME NEW p \in Pe, Stop(p) PROVE OwnFollows'
  <2>1. PICK t \in Tables : t = DeletePathsByVrf(p) /\ t["mac"][p] = None
    BY <1>m, OwnTables
  <2>2. /\ loop' = [loop EXCEPT ![p] = "stopped"] /\ table' = [table EXCEPT ![p] = t]
        /\ UNCHANGED <<learned, netlinkCh>>
    BY <1>5, <2>1 DEF Stop
  <2>3. table \in [Pe -> Tables] /\ loop \in [Pe -> {"off", "running", "stopped", "failed", "dead"}]
    BY DEF TypeOK, Tables
  <2>4. table'[p] = t /\ \A r \in Pe \ {p} : table'[r] = table[r] /\ loop'[r] = loop[r]
    BY <2>2, <2>3
  <2> QED
    BY <2>1, <2>2, <2>4 DEF OwnFollows
\* A loop that fails is not asked what it has read.
<1>f. ASSUME NEW p \in Pe, loop[p] = "running", Fail(p), UNCHANGED <<learned, table>>,
             \A o \in Pe \ {p} : netlinkCh'[o] = netlinkCh[o],
             netlinkCh'[p] # <<>> => (netlinkCh'[p][Len(netlinkCh'[p])] <=> p \in learned)
      PROVE  OwnFollows'
  <2>1. loop'[p] = "failed" /\ \A o \in Pe \ {p} : loop'[o] = loop[o]
    BY <1>f DEF Fail, TypeOK
  <2> QED
    BY <1>f, <2>1 DEF OwnFollows
<1>6. ASSUME NEW p \in Pe, ModPath(p) PROVE OwnFollows'
  <2>2. /\ loop[p] = "running" /\ netlinkCh[p] \in Seq(BOOLEAN) /\ netlinkCh[p] # <<>>
        /\ netlinkCh' = [netlinkCh EXCEPT ![p] = Tail(@)]
        /\ UNCHANGED learned
    BY <1>6, ModPathFacts
  <2>5. netlinkCh'[p] = Tail(netlinkCh[p]) /\ \A r \in Pe \ {p} : netlinkCh'[r] = netlinkCh[r]
    BY <2>2 DEF TypeOK
  <2>6. /\ Tail(netlinkCh[p]) # <<>> =>
             Tail(netlinkCh[p])[Len(Tail(netlinkCh[p]))] = netlinkCh[p][Len(netlinkCh[p])]
        /\ Tail(netlinkCh[p]) = <<>> => Head(netlinkCh[p]) = netlinkCh[p][Len(netlinkCh[p])]
    BY <2>2, LastOfTail
  <2>8. Tail(netlinkCh[p]) # <<>> => (Tail(netlinkCh[p])[Len(Tail(netlinkCh[p]))] <=> p \in learned)
    <3>1. netlinkCh[p][Len(netlinkCh[p])] <=> p \in learned
      BY <2>2 DEF OwnFollows
    <3> QED
      BY <2>6, <3>1
  <2>f. CASE Fail(p) /\ UNCHANGED table
    BY <1>f, <2>2, <2>5, <2>8, <2>f
  <2>p. CASE \E s \in Int, t \in Tables :
               /\ t = [table[p] EXCEPT !["mac"][p] = s] /\ Update(p, t) /\ loop' = loop
               /\ IF Head(netlinkCh[p]) THEN s \in MacMobility(p) ELSE s = None
    <3>1. PICK s \in Int, t \in Tables :
            /\ t = [table[p] EXCEPT !["mac"][p] = s] /\ Update(p, t) /\ loop' = loop
            /\ IF Head(netlinkCh[p]) THEN s \in MacMobility(p) ELSE s = None
      BY <2>p
    <3>2. table'[p] = t /\ \A r \in Pe \ {p} : table'[r] = table[r]
      BY <3>1, UpdateFacts
    <3>3. t["mac"][p] = s
      BY <3>1, OwnTables
    <3>4. p \notin learned /\ Tail(netlinkCh[p]) = <<>> => s = None
      <4>1. netlinkCh[p][Len(netlinkCh[p])] <=> p \in learned
        BY <2>2 DEF OwnFollows
      <4> QED
        BY <2>6, <3>1, <4>1
    <3>5. loop'[p] = "running"
      BY <2>2, <3>1
    <3>6. p \notin learned' /\ netlinkCh'[p] = <<>> => table'[p]["mac"][p] = None
      BY <2>2, <2>5, <3>2, <3>3, <3>4
    <3>7. netlinkCh'[p] # <<>> => (netlinkCh'[p][Len(netlinkCh'[p])] <=> p \in learned')
      BY <2>2, <2>5, <2>8
    <3>8. ASSUME NEW r \in Pe \ {p}
          PROVE  /\ loop'[r] \in {"off", "stopped"} => table'[r]["mac"][r] = None
                 /\ r \notin learned' /\ netlinkCh'[r] = <<>> /\ loop'[r] # "failed" => table'[r]["mac"][r] = None
                 /\ netlinkCh'[r] # <<>> => (netlinkCh'[r][Len(netlinkCh'[r])] <=> r \in learned')
      <4>1. /\ loop'[r] = loop[r] /\ table'[r] = table[r] /\ netlinkCh'[r] = netlinkCh[r]
            /\ learned' = learned
        BY <2>2, <2>5, <3>1, <3>2
      <4> QED
        BY <4>1 DEF OwnFollows
    <3> QED
      BY <3>5, <3>6, <3>7, <3>8 DEF OwnFollows
  <2> QED
    BY <1>6, <2>f, <2>p, ModPathFacts
<1>7. ASSUME NEW p \in Pe, NEW new \in BOOLEAN, Kernel(p, new) PROVE OwnFollows'
  <2>1. /\ loop[p] = "running" /\ learned' = IF new THEN learned \cup {p} ELSE learned \ {p}
        /\ netlinkCh' = [netlinkCh EXCEPT ![p] = Append(@, new)] /\ UNCHANGED <<loop, table>>
    BY <1>7 DEF Kernel
  <2>2. netlinkCh \in [Pe -> Seq(BOOLEAN)]
    BY DEF TypeOK
  <2>3. /\ netlinkCh'[p] = Append(netlinkCh[p], new) /\ \A r \in Pe \ {p} : netlinkCh'[r] = netlinkCh[r]
        /\ p \in learned' <=> new
        /\ \A r \in Pe \ {p} : r \in learned' <=> r \in learned
    BY <2>1, <2>2
  <2>4. netlinkCh'[p] # <<>> /\ netlinkCh'[p][Len(netlinkCh'[p])] = new
    BY <2>2, <2>3
  <2> QED
    BY <2>1, <2>3, <2>4 DEF OwnFollows
<1>8. ASSUME NEW p \in Pe, NEW k \in Kinds, ModReach(p, k) PROVE OwnFollows'
  <2>1. UNCHANGED <<learned, netlinkCh, table>> /\ loop[p] = "running"
    BY <1>8 DEF ModReach
  <2>2. loop' \in {loop, [loop EXCEPT ![p] = "dead"], [loop EXCEPT ![p] = "failed"]}
    BY <1>8, ModReachFacts DEF Carried, Missed, Dies, Fail
  <2>3. \A r \in Pe : /\ loop'[r] \in {"off", "stopped"} => loop[r] \in {"off", "stopped"}
                      /\ loop'[r] # "failed" => loop[r] # "failed"
    BY <2>1, <2>2 DEF TypeOK
  <2> QED
    BY <2>1, <2>3 DEF OwnFollows
<1>9. ASSUME NEW p \in Pe, Flood(p) PROVE OwnFollows'
  <2>1. loop[p] = "running" /\ Fail(p) /\ UNCHANGED <<learned, netlinkCh, table>>
    BY <1>9 DEF Flood
  <2> QED
    BY <1>f, <2>1 DEF OwnFollows
<1>10. CASE UNCHANGED vars
  BY <1>10 DEF vars, OwnFollows
<1> QED
  <2>1. ASSUME NEW c \in Pairs PROVE c = <<c[1], c[2]>> /\ c[1] \in Pe /\ c[2] \in Pe \ {c[1]}
    BY DEF Pairs
  <2> QED
    BY <1>1, <1>2, <1>3, <1>4, <1>5, <1>6, <1>7, <1>8, <1>9, <1>10, <2>1 DEF Next
-----------------------------------------------------------------------------
(* Who has yielded *)

\* A PE that keeps its MAC route knows of no route of another segment with a higher number.
Yielded ==
  \A p, q \in Pe :
    /\ DistinctRds /\ p # q /\ Esi[p] # Esi[q]
    /\ table[p]["mac"][p] # None /\ table[p]["mac"][q] # None
    => table[p]["mac"][q] <= table[p]["mac"][p]

LEMMA InitYielded == Init => Yielded
  BY DEF Init, Yielded, Kinds

LEMMA StepYielded == TypeOK /\ Yielded /\ [Next]_vars => Yielded'
<1> SUFFICES ASSUME TypeOK, Yielded, [Next]_vars, DistinctRds PROVE Yielded'
  BY DEF Yielded, DistinctRds
<1>m. "mac" \in Kinds
  BY DEF Kinds
\* A step that only takes routes away leaves the rest as it is.
<1>0. ASSUME \A r, s \in Pe : table'[r]["mac"][s] \in {None, table[r]["mac"][s]} PROVE Yielded'
  BY <1>0 DEF Yielded, DistinctRds
<1>1. ASSUME NEW p \in Pe, NEW q \in Pe \ {p}, Receive(p, q) PROVE Yielded'
  <2> DEFINE m == Head(wire[<<q, p>>])
  <2>1. m \in Msg
    BY <1>1, ReceiveFacts
  <2>2. PICK u \in Tables :
          /\ \A r \in Pe \ {p} : u["mac"][r] = IF m.kind = "mac" /\ r = q THEN m.value ELSE table[p]["mac"][r]
          /\ u["mac"][p] = IF m.kind = "mac" /\ m.value # None /\ HandleMacMobility(p, q, m.value)
                           THEN None ELSE table[p]["mac"][p]
          /\ Update(p, u)
    <3>1. \E u \in Tables :
            /\ \A k \in Kinds : \A r \in Pe \ {p} :
                 u[k][r] = IF k = m.kind /\ r = q THEN m.value ELSE table[p][k][r]
            /\ \A k \in Kinds :
                 u[k][p] = IF k = "mac" /\ m.kind = "mac" /\ m.value # None /\ HandleMacMobility(p, q, m.value)
                           THEN None ELSE table[p][k][p]
            /\ Update(p, u)
      BY <1>1, ReceiveFacts
    <3> HIDE DEF m
    <3> QED
      BY <1>m, <3>1
  <2> HIDE DEF m
  <2>3. table'[p] = u /\ \A r \in Pe \ {p} : table'[r] = table[r]
    BY <2>2, UpdateFacts
  <2>4. table[p]["mac"][p] \in Int /\ m.value \in Int
    BY <1>m, <2>1 DEF TypeOK, Msg
  <2>5. ASSUME NEW r \in Pe \ {p}, Esi[p] # Esi[r], u["mac"][p] # None, u["mac"][r] # None
        PROVE  u["mac"][r] <= u["mac"][p]
    <3>1. u["mac"][p] = table[p]["mac"][p]
      BY <2>2, <2>5
    <3>2. CASE m.kind = "mac" /\ r = q
      <4>1. u["mac"][r] = m.value
        BY <2>2, <3>2
      <4>2. ~HandleMacMobility(p, q, m.value)
        BY <2>2, <2>5, <3>2, <4>1
      <4> QED
        BY <2>4, <2>5, <3>1, <3>2, <4>1, <4>2 DEF HandleMacMobility
    <3>3. CASE ~(m.kind = "mac" /\ r = q)
      BY <2>2, <2>5, <3>1, <3>3 DEF Yielded
    <3> QED
      BY <3>2, <3>3
  <2> QED
    BY <2>3, <2>5 DEF Yielded, DistinctRds
<1>2. ASSUME NEW p \in Pe, NEW q \in Pe \ {p}, PeerDown(p, q) PROVE Yielded'
  <2>1. PICK u \in Tables : (\A k \in Kinds : u[k] = [table[p][k] EXCEPT ![q] = None]) /\ Update(p, u)
    BY <1>2, PeerDownFacts
  <2>2. table'[p] = u /\ \A r \in Pe \ {p} : table'[r] = table[r]
    BY <2>1, UpdateFacts
  <2>3. table[p]["mac"] \in [Pe -> Int] /\ u["mac"] = [table[p]["mac"] EXCEPT ![q] = None]
    <3>1. table[p]["mac"] \in [Pe -> Int]
      BY <1>m DEF TypeOK
    <3> QED
      BY <1>m, <2>1, <3>1
  <2> QED
    BY <1>0, <2>2, <2>3
<1>3. CASE UNCHANGED table
  BY <1>0, <1>3
<1>4. ASSUME NEW p \in Pe, Start(p) PROVE Yielded'
  <2>1. PICK t \in Tables :
          /\ t = SendMulticast(p) /\ t["mac"][p] = table[p]["mac"][p]
          /\ \A q \in Pe \ {p} : t["mac"][q] = table[p]["mac"][q]
    BY <1>m, OwnTables
  <2>2. table' = [table EXCEPT ![p] = t]
    BY <1>4, <2>1 DEF Start
  <2>3. table'[p] = t /\ \A r \in Pe \ {p} : table'[r] = table[r]
    BY <2>2 DEF TypeOK
  <2> QED
    BY <1>0, <2>1, <2>3
<1>5. ASSUME NEW p \in Pe, Stop(p) PROVE Yielded'
  <2>1. PICK t \in Tables :
          /\ t = DeletePathsByVrf(p) /\ t["mac"][p] = None
          /\ \A q \in Pe \ {p} : t["mac"][q] = table[p]["mac"][q]
    BY <1>m, OwnTables
  <2>2. table' = [table EXCEPT ![p] = t]
    BY <1>5, <2>1 DEF Stop
  <2>3. table'[p] = t /\ \A r \in Pe \ {p} : table'[r] = table[r]
    BY <2>2 DEF TypeOK
  <2> QED
    BY <1>0, <2>1, <2>3
<1>6. ASSUME NEW p \in Pe, ModPath(p) PROVE Yielded'
  <2>1. CASE UNCHANGED table
    BY <1>3, <2>1
  <2>2. CASE \E s \in Int, t \in Tables :
               /\ t = [table[p] EXCEPT !["mac"][p] = s] /\ Update(p, t)
               /\ IF Head(netlinkCh[p]) THEN s \in MacMobility(p) ELSE s = None
    <3>1. PICK s \in Int, t \in Tables :
            /\ t = [table[p] EXCEPT !["mac"][p] = s] /\ Update(p, t)
            /\ IF Head(netlinkCh[p]) THEN s \in MacMobility(p) ELSE s = None
      BY <2>2
    <3>2. table'[p] = t /\ \A r \in Pe \ {p} : table'[r] = table[r]
      BY <3>1, UpdateFacts
    <3>3. t["mac"][p] = s /\ \A q \in Pe \ {p} : t["mac"][q] = table[p]["mac"][q]
      <4>1. t["mac"][p] = s
        BY <3>1, OwnTables
      <4>2. \A k \in Kinds : \A q \in Pe \ {p} : t[k][q] = table[p][k][q]
        <5>1. t = [table[p] EXCEPT !["mac"][p] = s]
          BY <3>1
        <5> QED
          BY <5>1, OwnTables
      <4> QED
        BY <1>m, <4>1, <4>2
    <3>4. ASSUME NEW q \in Pe \ {p}, s # None, table[p]["mac"][q] # None
          PROVE  table[p]["mac"][q] <= s
      <4>1. s \in MacMobility(p)
        BY <3>1, <3>4
      <4>2. q \in BestRoutes(p, "mac", table[p]["mac"])
        BY <1>m, <3>4, DistinctBest
      <4> QED
        BY <4>1, <4>2, MacMobilityFacts
    <3> QED
      BY <3>2, <3>3, <3>4 DEF Yielded, DistinctRds
  <2> QED
    BY <1>6, <2>1, <2>2, ModPathFacts
<1>7. ASSUME NEW p \in Pe, NEW q \in Pe, PeerUp(p, q) PROVE UNCHANGED table
  BY <1>7 DEF PeerUp
<1>8. ASSUME NEW p \in Pe, NEW new \in BOOLEAN, Kernel(p, new) PROVE UNCHANGED table
  BY <1>8 DEF Kernel
<1>9. ASSUME NEW p \in Pe, NEW k \in Kinds, ModReach(p, k) PROVE UNCHANGED table
  BY <1>9 DEF ModReach
<1>10. ASSUME NEW p \in Pe, Flood(p) PROVE UNCHANGED table
  BY <1>10 DEF Flood
<1>11. UNCHANGED vars => UNCHANGED table
  BY DEF vars
<1> QED
  <2>1. ASSUME NEW c \in Pairs PROVE c = <<c[1], c[2]>> /\ c[1] \in Pe /\ c[2] \in Pe \ {c[1]}
    BY DEF Pairs
  <2> QED
    BY <1>1, <1>2, <1>3, <1>4, <1>5, <1>6, <1>7, <1>8, <1>9, <1>10, <1>11, <2>1 DEF Next

-----------------------------------------------------------------------------
(* The theorems *)

Inv == HInv /\ InStep /\ OwnFollows /\ Yielded

LEMMA InitInv == Init => Inv
  BY InitHears, InitInStep, InitOwn, InitYielded DEF Inv

LEMMA StepInv == Inv /\ [Next]_vars => Inv'
  BY StepHears, StepInStep, StepOwn, StepYielded DEF Inv, HInv

THEOREM InvHolds == Spec => []Inv
  BY InitInv, StepInv, PTL DEF Spec

\* The tables, the events and the updates under way are what the code's types say, whatever the
\* sessions, the kernels and the networks do.
THEOREM EvpnTypeCorrect == Spec => []TypeOK
<1>1. Inv => TypeOK
  BY DEF Inv, HInv
<1> QED
  BY <1>1, InvHolds, PTL

\* A network's loop (modFdb and modConnMap of virtualnetwork.go) is asked to take away what is not
\* there only if it has dropped a route of a PE's, at a failed dial or for want of the VTEP, and not
\* made good for it since: every other withdrawal it reads is of a PE that its FDB and its
\* connections lead to. What else ends it is a failing call of the kernel, a socket or the server.
THEOREM LoopsLive == Spec => []LoopLives
<1>1. Inv => LoopLives
  BY DEF Inv, HInv
<1> QED
  BY <1>1, InvHolds, PTL

\* With an RD for each network, a loop that has read all that the watchers of the best routes have
\* told it leads, in its FDB and its connections, to exactly the PEs whose routes are in the table.
LEMMA HeardAll ==
  ASSUME HInv, DistinctRds, NEW p \in Pe, NEW k \in Kinds, loop[p] = "running", events[p][k] = <<>>
  PROVE  reach[p][k] \ missed[p][k] = {q \in Pe \ {p} : table[p][k][q] # None} \ missed[p][k]
<1>1. PICK base \in SUBSET Pe : /\ Hears(p, k, table[p][k], <<>>, base)
                                /\ base \ missed[p][k] = reach[p][k] \ missed[p][k]
  BY DEF HInv, Hearing, Heard
<1>2. Standing(<<>>, base, 0) = base
  BY StandingNone
<1>3. BestRoutes(p, k, table[p][k]) = {q \in Pe : table[p][k][q] # None}
  BY DistinctBest
<1>4. Len(<<>>) = 0
  OBVIOUS
<1>5. base = {q \in Pe \ {p} : table[p][k][q] # None}
  BY <1>1, <1>2, <1>3, <1>4 DEF Hears
<1> QED
  BY <1>1, <1>5

\* What is reached follows the table (modFdb and modConnMap), over lost sessions, restarted
\* networks and moves of the MAC; but for the PEs whose last route was dropped.
THEOREM ReachFollows == Spec => []ReachFollowsTable
<1>1. ASSUME Inv, DistinctRds, NEW p \in Pe, NEW k \in Kinds, loop[p] = "running", events[p][k] = <<>>
      PROVE  /\ reach[p][k] \ missed[p][k] = {q \in Pe \ {p} : table[p][k][q] # None} \ missed[p][k]
             /\ k = "multicast" => reach[p][k] \cap missed[p][k] = {}
  <2>1. reach[p][k] \ missed[p][k] = {q \in Pe \ {p} : table[p][k][q] # None} \ missed[p][k]
    BY <1>1, HeardAll DEF Inv
  <2>2. k = "multicast" => reach[p][k] \cap missed[p][k] = {}
    BY <1>1 DEF Inv, HInv, Dialled
  <2> QED
    BY <2>1, <2>2
<1>2. Inv => ReachFollowsTable
  BY <1>1 DEF ReachFollowsTable
<1> QED
  BY <1>2, InvHolds, PTL

\* When nothing is under way, every PE has the routes of every other one.
LEMMA AllRead ==
  ASSUME InStep, Quiet, NEW p \in Pe, NEW q \in Pe \ {p}, NEW k \in Kinds
  PROVE  table[q][k][p] = table[p][k][p]
<1>1. <<p, q>> \in Pairs /\ <<q, p>> \in Pairs
  BY DEF Pairs
<1>2. {<<p, q>>, <<q, p>>} \subseteq up /\ wire[<<p, q>>] = <<>>
  BY <1>1 DEF Quiet
<1>3. Leads(<<>>, k, table[q][k][p], table[p][k][p])
  BY <1>2 DEF InStep
<1> QED
  BY <1>3, LeadsNowhere

\* A MAC that the kernel has behind one PE only is reached there and nowhere else once nothing is
\* under way, in whatever order it was seen to move (modPath, modFdb and handleMacMobility).
THEOREM MacIsReached == Spec => []MacSettles
<1>1. ASSUME Inv, DistinctRds, Quiet, \A r \in Pe : loop[r] # "failed",
             NEW p \in Pe, learned = {p}, table[p]["mac"][p] # None,
             NEW q \in Pe \ {p}, loop[q] = "running"
      PROVE  reach[q]["mac"] \ missed[q]["mac"] = {p} \ missed[q]["mac"]
  <2>m. "mac" \in Kinds /\ "mac" # "multicast"
    BY DEF Kinds
  <2>1. reach[q]["mac"] \ missed[q]["mac"] =
          {r \in Pe \ {q} : table[q]["mac"][r] # None} \ missed[q]["mac"]
    BY <1>1, <2>m, HeardAll DEF Inv, Quiet
  <2>2. \A r \in Pe \ {q} : table[q]["mac"][r] = table[r]["mac"][r]
    BY <1>1, <2>m, AllRead DEF Inv
  <2>3. \A r \in Pe \ {p} : table[r]["mac"][r] = None
    BY <1>1 DEF Inv, OwnFollows, Quiet
  <2> QED
    <3>1. {r \in Pe \ {q} : table[q]["mac"][r] # None} = {p}
      BY <1>1, <2>2, <2>3
    <3> QED
      BY <2>1, <3>1
<1>2. Inv => MacSettles
  BY <1>1 DEF MacSettles
<1> QED
  BY <1>2, InvHolds, PTL

\* Of two segments that announced the MAC, the one with the lower sequence number withdraws
\* (handleMacMobility), whatever the order in which each read the other's route.
THEOREM SegmentsYield == Spec => []SegmentYields
<1>1. ASSUME Inv, DistinctRds, Quiet, NEW p \in Pe, NEW q \in Pe \ {p}, Esi[p] # Esi[q],
             table[p]["mac"][p] # None, table[q]["mac"][q] # None
      PROVE  table[p]["mac"][p] = table[q]["mac"][q]
  <2>m. "mac" \in Kinds
    BY DEF Kinds
  <2>1. table[q]["mac"][p] = table[p]["mac"][p] /\ table[p]["mac"][q] = table[q]["mac"][q]
    BY <1>1, <2>m, AllRead DEF Inv
  <2>2. table[q]["mac"][p] <= table[q]["mac"][q] /\ table[p]["mac"][q] <= table[p]["mac"][p]
    BY <1>1, <2>1 DEF Inv, Yielded
  <2>3. table[p]["mac"][p] \in Int /\ table[q]["mac"][q] \in Int
    BY <1>1, <2>m DEF Inv, HInv, TypeOK
  <2> QED
    BY <2>1, <2>2, <2>3
<1>2. ASSUME NEW c \in Pairs PROVE c[1] \in Pe /\ c[2] \in Pe \ {c[1]}
  BY DEF Pairs
<1>3. Inv => SegmentYields
  BY <1>1, <1>2 DEF SegmentYields
<1> QED
  BY <1>3, InvHolds, PTL

-----------------------------------------------------------------------------
(* Questions *)

PrefixQuestions == [about : {"prefix"}, s : PrefixSets, t : PrefixSets, address : Addresses, option : {"any", "invert"}]
PolicyQuestions == [about : {"policy"}, p : PolicyLists, q : PolicyLists, default : {"accept", "reject"}, path : PolicyPaths]
ExportQuestions == [about : {"export"}, path : Paths, peer : Peers]
VrfQuestions == [about : {"vrf"}, path : VrfPaths, from : Vrfs, to : Vrfs]
OriginQuestions == [about : {"origin"}, roas : RoaTables, route : Routes]

\* What is asked about is one of the inputs.
QuestionsFit ==
  /\ Asked("prefix") => question \in PrefixQuestions
  /\ Asked("policy") => question \in PolicyQuestions
  /\ Asked("export") => question \in ExportQuestions
  /\ Asked("vrf") => question \in VrfQuestions
  /\ Asked("origin") => question \in OriginQuestions

LEMMA QuestionsFitAlways == EvaluationSpec => []QuestionsFit
<1>1. EvaluationInit => QuestionsFit
  BY DEF EvaluationInit, QuestionsFit, NoQuestion, Nothing, Asked
<1>2. QuestionsFit /\ [EvaluationNext]_question => QuestionsFit'
  <2> SUFFICES ASSUME QuestionsFit, [EvaluationNext]_question PROVE QuestionsFit'
    OBVIOUS
  <2> USE DEF QuestionsFit, Asked, PrefixQuestions, PolicyQuestions, ExportQuestions, VrfQuestions, OriginQuestions
  <2>1. CASE AskPrefix
    BY <2>1 DEF AskPrefix
  <2>2. CASE AskPolicy
    BY <2>2 DEF AskPolicy
  <2>3. CASE AskOrigin
    BY <2>3 DEF AskOrigin
  <2>a. CASE AskVrf
    BY <2>a DEF AskVrf
  <2>b. CASE AskExport
    BY <2>b DEF AskExport
  <2>4. CASE AskAsPath \/ AskBatch
    <3>1. question'.about \in {"aspath", "batch"}
      BY <2>4 DEF AskAsPath, AskBatch
    <3> QED
      BY <3>1
  <2>5. CASE Forget
    BY <2>5 DEF Forget, NoQuestion, Nothing
  <2>6. CASE UNCHANGED question
    BY <2>6
  <2> QED
    BY <2>1, <2>2, <2>3, <2>a, <2>b, <2>4, <2>5, <2>6 DEF EvaluationNext, Ask
<1> QED
  BY <1>1, <1>2, PTL DEF EvaluationSpec

-----------------------------------------------------------------------------
(* Prefix sets *)

LEMMA PrefixesMatch ==
  ASSUME QuestionsFit PROVE PrefixSetsMatch
<1> SUFFICES ASSUME Asked("prefix")
             PROVE  LET set     == PrefixSetAppend(question.s, question.t)
                        a       == question.address
                        found   == PrefixHolds([set |-> set, option |-> question.option], a)
                        matches == \E e \in set.entries : EntryMatches(set.family, e, a)
                        nested  == \E e, f \in set.entries :
                                     e.prefix # f.prefix /\ IsPrefix(e.prefix, a.bits) /\ IsPrefix(f.prefix, a.bits)
                        fits    == a.family = set.family
                    IN  /\ set.entries # {} =>
                             /\ ~nested => (found <=> fits /\ Inverted(question.option, matches))
                             /\ found /\ question.option = "any" => matches
                        /\ PrefixSetRemove(set, question.t).entries \subseteq question.s.entries
  BY DEF PrefixSetsMatch
<1>1. PICK s \in PrefixSets, t \in PrefixSets, a \in Addresses, option \in {"any", "invert"} :
        question.s = s /\ question.t = t /\ question.address = a /\ question.option = option
  BY DEF QuestionsFit, PrefixQuestions
<1>2. PICK set : set = PrefixSetAppend(s, t)
  OBVIOUS
<1>3. /\ set = [family |-> set.family, entries |-> set.entries]
      /\ set.entries \subseteq s.entries \cup t.entries
      /\ \A e \in set.entries : e.prefix \in Seq({0, 1})
  BY <1>2, PrefixesAssumption DEF PrefixSetAppend
<1> DEFINE Covering == {e \in set.entries : IsPrefix(e.prefix, a.bits)}
           InRange(e) == Len(a.bits) \in e.min .. e.max
           found   == PrefixHolds([set |-> set, option |-> option], a)
           matches == \E e \in set.entries : EntryMatches(set.family, e, a)
           nested  == \E e, f \in set.entries :
                        e.prefix # f.prefix /\ IsPrefix(e.prefix, a.bits) /\ IsPrefix(f.prefix, a.bits)
           fits    == a.family = set.family
<1>4. LongestMatch(set, a) = {e \in Covering : \A f \in Covering : Len(f.prefix) <= Len(e.prefix)}
  BY DEF LongestMatch
<1>5. found <=> fits /\ Inverted(option, \E e \in LongestMatch(set, a) : InRange(e))
  BY DEF PrefixHolds
<1>6. matches <=> fits /\ \E e \in Covering : InRange(e)
  BY DEF EntryMatches
<1>7. ~nested => LongestMatch(set, a) = Covering
  <2> SUFFICES ASSUME ~nested, NEW e \in Covering, NEW f \in Covering PROVE Len(f.prefix) <= Len(e.prefix)
    BY <1>4
  <2>1. e.prefix = f.prefix
    OBVIOUS
  <2>2. e.prefix \in Seq({0, 1}) /\ Len(e.prefix) \in Nat
    BY <1>3
  <2> QED
    BY <2>1, <2>2
<1> HIDE DEF InRange, Covering
<1>8. LongestMatch(set, a) \subseteq Covering
  BY <1>4
<1>9. ~nested => (found <=> fits /\ Inverted(option, matches))
  <2> HIDE DEF found, matches, nested
  <2> QED
    BY <1>5, <1>6, <1>7 DEF Inverted
<1>10. found /\ option = "any" => matches
  <2> HIDE DEF found, matches, nested
  <2> QED
    BY <1>5, <1>6, <1>8 DEF Inverted
<1>11. PrefixSetRemove(set, t).entries \subseteq s.entries
  BY <1>3 DEF PrefixSetRemove
<1> HIDE DEF found, matches, nested
<1>12. /\ ~nested => (found <=> fits /\ Inverted(option, matches))
       /\ found /\ option = "any" => matches
       /\ PrefixSetRemove(set, t).entries \subseteq s.entries
  BY <1>9, <1>10, <1>11
<1> QED
  BY <1>1, <1>2, <1>12 DEF found, matches, nested

-----------------------------------------------------------------------------
(* Origins *)

\* The fold that adds a table to the empty one, and the one that takes ROAs out of a table.
Adds(f, R) == f = [s \in SUBSET R |-> IF s = {} THEN {} ELSE LET x == CHOOSE x \in s : TRUE IN f[s \ {x}] \cup {x}]
Deletes(f, t, R) == f = [s \in SUBSET R |-> IF s = {} THEN t ELSE LET x == CHOOSE x \in s : TRUE IN f[s \ {x}] \ {x}]

LEMMA AddsAll ==
  ASSUME NEW R, NEW f, Adds(f, R), NEW s, s \subseteq R, IsFiniteSet(s)
  PROVE  f[s] = s
<1> DEFINE T == {n \in Nat : \A u \in SUBSET R : IsFiniteSet(u) /\ Cardinality(u) = n => f[u] = u}
<1>1. \A u \in SUBSET R : f[u] = IF u = {} THEN {} ELSE LET x == CHOOSE x \in u : TRUE IN f[u \ {x}] \cup {x}
  BY DEF Adds
<1>2. 0 \in T
  <2> SUFFICES ASSUME NEW u \in SUBSET R, IsFiniteSet(u), Cardinality(u) = 0 PROVE f[u] = u
    OBVIOUS
  <2>1. u = {}
    BY FS_EmptySet
  <2> QED
    BY <1>1, <2>1
<1>3. ASSUME NEW n \in T PROVE n + 1 \in T
  <2> SUFFICES ASSUME NEW u \in SUBSET R, IsFiniteSet(u), Cardinality(u) = n + 1 PROVE f[u] = u
    OBVIOUS
  <2>1. u # {}
    BY FS_EmptySet
  <2>2. PICK x : x = CHOOSE y \in u : TRUE
    OBVIOUS
  <2>3. x \in u
    BY <2>1, <2>2
  <2>4. IsFiniteSet(u \ {x}) /\ Cardinality(u \ {x}) = n
    <3>1. IsFiniteSet(u \ {x}) /\ Cardinality(u \ {x}) = Cardinality(u) - 1
      BY <2>3, FS_RemoveElement
    <3> QED
      BY <3>1
  <2>5. f[u \ {x}] = u \ {x}
    BY <2>4
  <2>6. f[u] = f[u \ {x}] \cup {x}
    BY <1>1, <2>1, <2>2
  <2> QED
    BY <2>3, <2>5, <2>6
<1>4. T = Nat
  <2>1. T \subseteq Nat
    OBVIOUS
  <2> HIDE DEF T
  <2> QED
    BY <1>2, <1>3, <2>1, SetInduction
<1>5. Cardinality(s) \in T
  <2>1. Cardinality(s) \in Nat
    BY FS_CardinalityType
  <2> HIDE DEF T
  <2> QED
    BY <1>4, <2>1
<1> QED
  BY <1>5

LEMMA DeletesAll ==
  ASSUME NEW R, NEW t, NEW f, Deletes(f, t, R), NEW s, s \subseteq R, IsFiniteSet(s)
  PROVE  f[s] = t \ s
<1> DEFINE T == {n \in Nat : \A u \in SUBSET R : IsFiniteSet(u) /\ Cardinality(u) = n => f[u] = t \ u}
<1>1. \A u \in SUBSET R : f[u] = IF u = {} THEN t ELSE LET x == CHOOSE x \in u : TRUE IN f[u \ {x}] \ {x}
  BY DEF Deletes
<1>2. 0 \in T
  <2> SUFFICES ASSUME NEW u \in SUBSET R, IsFiniteSet(u), Cardinality(u) = 0 PROVE f[u] = t \ u
    OBVIOUS
  <2>1. u = {}
    BY FS_EmptySet
  <2> QED
    BY <1>1, <2>1
<1>3. ASSUME NEW n \in T PROVE n + 1 \in T
  <2> SUFFICES ASSUME NEW u \in SUBSET R, IsFiniteSet(u), Cardinality(u) = n + 1 PROVE f[u] = t \ u
    OBVIOUS
  <2>1. u # {}
    BY FS_EmptySet
  <2>2. PICK x : x = CHOOSE y \in u : TRUE
    OBVIOUS
  <2>3. x \in u
    BY <2>1, <2>2
  <2>4. IsFiniteSet(u \ {x}) /\ Cardinality(u \ {x}) = n
    <3>1. IsFiniteSet(u \ {x}) /\ Cardinality(u \ {x}) = Cardinality(u) - 1
      BY <2>3, FS_RemoveElement
    <3> QED
      BY <3>1
  <2>5. f[u \ {x}] = t \ (u \ {x})
    BY <2>4
  <2>6. f[u] = f[u \ {x}] \ {x}
    BY <1>1, <2>1, <2>2
  <2> QED
    BY <2>3, <2>5, <2>6
<1>4. T = Nat
  <2>1. T \subseteq Nat
    OBVIOUS
  <2> HIDE DEF T
  <2> QED
    BY <1>2, <1>3, <2>1, SetInduction
<1>5. Cardinality(s) \in T
  <2>1. Cardinality(s) \in Nat
    BY FS_CardinalityType
  <2> HIDE DEF T
  <2> QED
    BY <1>4, <2>1
<1> QED
  BY <1>5

\* A table that is filled ROA by ROA holds them all.
LEMMA AddedAll ==
  ASSUME NEW R, IsFiniteSet(R)
  PROVE  FoldSet(LAMBDA r, u : RoaAdd(u, r), NoRoas, R) = R
<1> DEFINE f == CHOOSE f : Adds(f, R)
<1>1. FoldSet(LAMBDA r, u : RoaAdd(u, r), NoRoas, R) = f[R]
  BY DEF FoldSet, MapThenFoldSet, RoaAdd, NoRoas, Adds
<1>2. Adds([s \in SUBSET R |-> s], R)
  <2> DEFINE g == [s \in SUBSET R |-> s]
  <2>1. ASSUME NEW s \in SUBSET R, s # {} PROVE s = g[s \ {CHOOSE x \in s : TRUE}] \cup {CHOOSE x \in s : TRUE}
    <3>1. PICK x : x = CHOOSE y \in s : TRUE
      OBVIOUS
    <3>2. x \in s
      BY <2>1, <3>1
    <3>3. g[s \ {x}] = s \ {x}
      OBVIOUS
    <3> HIDE DEF g
    <3> QED
      BY <3>1, <3>2, <3>3
  <2> QED
    BY <2>1 DEF Adds
<1>3. Adds(f, R)
  BY <1>2
<1> HIDE DEF f
<1>4. f[R] = R
  BY <1>3, AddsAll
<1> QED
  BY <1>1, <1>4

\* So does one that ROAs are taken out of, ROA by ROA.
LEMMA DeletedAll ==
  ASSUME NEW R, NEW t, IsFiniteSet(R)
  PROVE  FoldSet(LAMBDA r, u : RoaDelete(u, r), t, R) = t \ R
<1> DEFINE f == CHOOSE f : Deletes(f, t, R)
<1>1. FoldSet(LAMBDA r, u : RoaDelete(u, r), t, R) = f[R]
  BY DEF FoldSet, MapThenFoldSet, RoaDelete, Deletes
<1>2. Deletes([s \in SUBSET R |-> t \ s], t, R)
  <2> DEFINE g == [s \in SUBSET R |-> t \ s]
  <2>1. ASSUME NEW s \in SUBSET R, s # {} PROVE t \ s = g[s \ {CHOOSE x \in s : TRUE}] \ {CHOOSE x \in s : TRUE}
    <3>1. PICK x : x = CHOOSE y \in s : TRUE
      OBVIOUS
    <3>2. x \in s
      BY <2>1, <3>1
    <3>3. g[s \ {x}] = t \ (s \ {x})
      OBVIOUS
    <3> HIDE DEF g
    <3> QED
      BY <3>1, <3>2, <3>3
  <2> QED
    BY <2>1 DEF Deletes
<1>3. Deletes(f, t, R)
  BY <1>2
<1> HIDE DEF f
<1>4. f[R] = t \ R
  BY <1>3, DeletesAll
<1> QED
  BY <1>1, <1>4

LEMMA ElementOf ==
  ASSUME NEW E, NEW q \in Seq(E), NEW i \in 1..Len(q)
  PROVE  q[i] \in E
OBVIOUS

\* The switch of Validate finds who the route comes from.
LEMMA OriginMeans ==
  ASSUME NEW route \in Routes
  PROVE  /\ \A as : {as} = OriginAs(route) <=> ComesFrom(route, as)
         /\ OriginAs(route) # {} <=> HasOrigin(route)
<1> DEFINE Segment == [type : SegmentTypes, as : Seq(Nat)]
           n == Len(route.aspath)
<1>1. route.aspath \in Seq(Segment)
  BY RoasAssumption
<1>2. CASE route.aspath = <<>>
  BY <1>2 DEF OriginAs, ComesFrom, HasOrigin
<1>3. CASE route.aspath # <<>>
  <2>1. PICK path \in Seq(Segment) : path = route.aspath
    BY <1>1
  <2>2. n \in Nat /\ n # 0 /\ n \in 1..Len(path)
    BY <1>3, <2>1
  <2>3. PICK segment \in Segment : segment = path[n]
    <3> HIDE DEF Segment, n
    <3> QED
      BY <2>1, <2>2, ElementOf
  <2>4. Last(route.aspath) = segment /\ route.aspath[n] = segment
    BY <2>1, <2>3 DEF Last
  <2> HIDE DEF n
  <2>5. segment.type \in {"seq", "set", "confedseq", "confedset"}
    BY <2>3 DEF SegmentTypes, Confed
  <2>6. CASE segment.type = "seq" /\ segment.as # <<>>
    <3>1. OriginAs(route) = {Last(segment.as)} /\ HasOrigin(route)
      BY <1>3, <2>4, <2>6 DEF OriginAs, HasOrigin
    <3>2. \A as : ComesFrom(route, as) <=> as = segment.as[Len(segment.as)]
      BY <2>2, <2>4, <2>6, <3>1 DEF ComesFrom, n
    <3> QED
      BY <3>1, <3>2 DEF Last
  <2>7. CASE segment.type # "set" /\ ~(segment.type = "seq" /\ segment.as # <<>>)
    <3>1. OriginAs(route) = {route.ownAs} /\ HasOrigin(route)
      BY <1>3, <2>4, <2>5, <2>7 DEF OriginAs, HasOrigin
    <3>2. \A as : ComesFrom(route, as) <=> as = route.ownAs
      BY <2>2, <2>4, <2>7, <3>1 DEF ComesFrom, n
    <3> QED
      BY <3>1, <3>2
  <2>8. CASE segment.type = "set"
    <3>1. OriginAs(route) = {} /\ ~HasOrigin(route)
      BY <1>3, <2>4, <2>8 DEF OriginAs, HasOrigin
    <3> QED
      BY <3>1 DEF ComesFrom
  <2> QED
    BY <2>6, <2>7, <2>8
<1> QED
  BY <1>2, <1>3

LEMMA OriginsFit ==
  ASSUME QuestionsFit PROVE OriginsAreAuthorized
<1> SUFFICES ASSUME Asked("origin")
             PROVE  LET t == question.roas  route == question.route
                        sources == {r.src : r \in t}
                        without(src) == {r \in t : r.src # src}
                        singly(src) == FoldSet(LAMBDA r, u : RoaDelete(u, r), t, {r \in t : r.src = src})
                        whole == FoldSet(LAMBDA r, u : RoaAdd(u, r), NoRoas, t)
                        covers(r) == r.family = route.family /\ IsPrefix(r.prefix, route.bits)
                        authorizes(r) == /\ covers(r) /\ Len(route.bits) \in Len(r.prefix) .. r.maxLen
                                         /\ r.as # 0 /\ ComesFrom(route, r.as)
                    IN  /\ Validate(t, route) = "valid" <=> \E r \in t : authorizes(r)
                        /\ Validate(t, route) = "invalid" <=>
                             /\ HasOrigin(route) /\ \E r \in t : covers(r)
                             /\ ~\E r \in t : authorizes(r)
                        /\ \A r \in t :
                             /\ Validate({r}, route) = "valid" => Validate(whole, route) = "valid"
                             /\ Validate({r}, route) # "notfound" => Validate(whole, route) # "notfound"
                        /\ \A src \in sources : RoaDeleteAll(whole, src) = without(src) /\ singly(src) = without(src)
  BY DEF OriginsAreAuthorized
<1>1. PICK t \in RoaTables, route \in Routes : question.roas = t /\ question.route = route
  BY DEF QuestionsFit, OriginQuestions
<1> DEFINE covering(T) == {r \in T : r.family = route.family /\ IsPrefix(r.prefix, route.bits)}
           long(T)     == {r \in covering(T) : Len(route.bits) <= r.maxLen}
           matched(T)  == {r \in long(T) : r.as # 0 /\ {r.as} = OriginAs(route)}
           without(src) == {r \in t : r.src # src}
           singly(src) == FoldSet(LAMBDA r, u : RoaDelete(u, r), t, {r \in t : r.src = src})
           whole == FoldSet(LAMBDA r, u : RoaAdd(u, r), NoRoas, t)
           covers(r) == r.family = route.family /\ IsPrefix(r.prefix, route.bits)
           authorizes(r) == /\ covers(r) /\ Len(route.bits) \in Len(r.prefix) .. r.maxLen
                            /\ r.as # 0 /\ ComesFrom(route, r.as)
<1>2. ASSUME NEW T
      PROVE  Validate(T, route) = CASE matched(T) # {}                                               -> "valid"
                                    [] matched(T) = {} /\ covering(T) # {} /\ OriginAs(route) # {} -> "invalid"
                                    [] OTHER                                                      -> "notfound"
  BY DEF Validate
<1>3. IsFiniteSet(t) /\ \A r \in t : r.prefix \in Seq({0, 1}) /\ r.maxLen \in Nat
  BY RoasAssumption
<1>4. route.bits \in Seq({0, 1})
  BY RoasAssumption
<1>5. whole = t
  BY <1>3, AddedAll
<1>6. ASSUME NEW src PROVE singly(src) = without(src)
  <2> DEFINE R == {r \in t : r.src = src}
  <2>1. IsFiniteSet(R)
    BY <1>3, FS_Subset
  <2>2. singly(src) = t \ R
    BY <2>1, DeletedAll
  <2> QED
    BY <2>2
<1> HIDE DEF singly, whole
<1>7. matched(t) = {r \in t : authorizes(r)} /\ covering(t) = {r \in t : covers(r)}
  <2> SUFFICES ASSUME NEW r \in t, covers(r)
               PROVE  (Len(route.bits) <= r.maxLen /\ r.as # 0 /\ {r.as} = OriginAs(route)) <=> authorizes(r)
    OBVIOUS
  <2>1. Len(r.prefix) <= Len(route.bits)
    BY DEF IsPrefix
  <2>2. Len(r.prefix) \in Nat /\ Len(route.bits) \in Nat /\ r.maxLen \in Nat
    BY <1>3, <1>4
  <2>3. Len(route.bits) <= r.maxLen <=> Len(route.bits) \in Len(r.prefix) .. r.maxLen
    BY <2>1, <2>2
  <2>4. {r.as} = OriginAs(route) <=> ComesFrom(route, r.as)
    BY OriginMeans
  <2> QED
    BY <2>3, <2>4
<1>12. /\ Validate(t, route) = "valid" <=> \E r \in t : authorizes(r)
       /\ Validate(t, route) = "invalid" <=>
            HasOrigin(route) /\ (\E r \in t : covers(r)) /\ ~\E r \in t : authorizes(r)
  <2>1. OriginAs(route) # {} <=> HasOrigin(route)
    BY OriginMeans
  <2>2. (matched(t) # {} <=> \E r \in t : authorizes(r)) /\ (covering(t) # {} <=> \E r \in t : covers(r))
    <3> HIDE DEF matched, covering, authorizes, covers
    <3> QED
      BY <1>7
  <2>3. /\ Validate(t, route) = "valid" <=> matched(t) # {}
        /\ Validate(t, route) = "invalid" <=> matched(t) = {} /\ covering(t) # {} /\ OriginAs(route) # {}
    <3> HIDE DEF matched, covering
    <3>1. CASE matched(t) # {}
      <4>1. Validate(t, route) = "valid"
        BY <1>2, <3>1
      <4> QED
        BY <3>1, <4>1
    <3>2. CASE matched(t) = {} /\ covering(t) # {} /\ OriginAs(route) # {}
      <4>1. Validate(t, route) = "invalid"
        BY <1>2, <3>2
      <4> QED
        BY <3>2, <4>1
    <3>3. CASE matched(t) = {} /\ ~(covering(t) # {} /\ OriginAs(route) # {})
      <4>1. Validate(t, route) = "notfound"
        BY <1>2, <3>3
      <4> QED
        BY <3>3, <4>1
    <3> QED
      BY <3>1, <3>2, <3>3
  <2> HIDE DEF matched, covering, authorizes, covers
  <2> QED
    BY <2>1, <2>2, <2>3
<1>8. ASSUME NEW r \in t
      PROVE  /\ Validate({r}, route) = "valid" => Validate(t, route) = "valid"
             /\ Validate({r}, route) # "notfound" => Validate(t, route) # "notfound"
  <2>1. covering({r}) \subseteq covering(t) /\ matched({r}) \subseteq matched(t)
    OBVIOUS
  <2> HIDE DEF covering, matched
  <2>2. (matched({r}) # {} => matched(t) # {}) /\ (covering({r}) # {} => covering(t) # {})
    BY <2>1
  <2>3. CASE matched(t) # {}
    <3>1. Validate(t, route) = "valid"
      BY <1>2, <2>3
    <3> QED
      BY <3>1
  <2>4. CASE matched(t) = {} /\ covering(t) # {} /\ OriginAs(route) # {}
    <3>1. Validate(t, route) = "invalid"
      BY <1>2, <2>4
    <3>2. matched({r}) = {}
      BY <2>2, <2>4
    <3>3. Validate({r}, route) # "valid"
      BY <1>2, <3>2
    <3> QED
      BY <3>1, <3>3
  <2>5. CASE matched(t) = {} /\ (covering(t) = {} \/ OriginAs(route) = {})
    <3>1. matched({r}) = {} /\ (covering({r}) = {} \/ OriginAs(route) = {})
      BY <2>2, <2>5
    <3>2. Validate({r}, route) = "notfound"
      BY <1>2, <3>1
    <3> QED
      BY <3>2
  <2> QED
    BY <2>3, <2>4, <2>5
<1>9. ASSUME NEW src PROVE RoaDeleteAll(t, src) = without(src)
  BY DEF RoaDeleteAll
<1> HIDE DEF covers, authorizes, without
<1>11. /\ Validate(t, route) = "valid" <=> \E r \in t : authorizes(r)
       /\ Validate(t, route) = "invalid" <=>
            /\ HasOrigin(route) /\ \E r \in t : covers(r)
            /\ ~\E r \in t : authorizes(r)
       /\ \A r \in t :
            /\ Validate({r}, route) = "valid" => Validate(whole, route) = "valid"
            /\ Validate({r}, route) # "notfound" => Validate(whole, route) # "notfound"
       /\ \A src \in {r.src : r \in t} : RoaDeleteAll(whole, src) = without(src) /\ singly(src) = without(src)
  BY <1>5, <1>6, <1>8, <1>9, <1>12
<1> QED
  BY <1>1, <1>11 DEF covers, authorizes, without, singly, whole

-----------------------------------------------------------------------------
(* Policies *)

\* One step of the folds: a statement of a policy, a policy of a list, a level of a path.
Step(kind, d, x) ==
  CASE kind = "statement" -> IF d.result # Nothing THEN d ELSE StatementApply(x, d.path, Options)
    [] kind = "policy"    -> IF d.result # Nothing THEN d ELSE PolicyApply(x, d.path, Options)
    [] kind = "level"     -> Collect(d, x)

Undecided(path) == [result |-> Nothing, path |-> path]

\* Such a fold over the sets of the first n indices.
FoldedBy(f, kind, xs, n, base) ==
  f = [S \in SUBSET (1..n) |->
         IF S = {} THEN base ELSE Step(kind, f[S \ {Max(S)}], xs[Max(S)])]

LEMMA GreatestOf ==
  ASSUME NEW k \in Nat, NEW S \in SUBSET (1..k)
  PROVE  /\ S # {} => Max(S) \in S /\ \A y \in S : y <= Max(S)
         /\ k \in S => Max(S) = k
<1>1. IsFiniteSet(S) /\ S \in SUBSET Int
  <2>1. IsFiniteSet(1..k)
    BY FS_Interval
  <2>2. IsFiniteSet(S)
    BY <2>1, FS_Subset
  <2> QED
    BY <2>2
<1>2. S # {} => Max(S) \in S /\ \A y \in S : y <= Max(S)
  BY <1>1, GreatestNumber
<1>3. k \in S => Max(S) = k
  <2> SUFFICES ASSUME k \in S PROVE Max(S) = k
    OBVIOUS
  <2>1. Max(S) \in 1..k /\ k <= Max(S)
    BY <1>2
  <2> QED
    BY <2>1
<1> QED
  BY <1>2, <1>3

LEMMA FoldsExist ==
  ASSUME NEW kind, NEW xs, NEW base, NEW n \in Nat
  PROVE  \E f : FoldedBy(f, kind, xs, n, base)
<1> DEFINE T == {k \in Nat : \E f : FoldedBy(f, kind, xs, k, base)}
<1>1. 0 \in T
  <2>1. FoldedBy([S \in SUBSET (1..0) |-> base], kind, xs, 0, base)
    <3>1. \A S \in SUBSET (1..0) : S = {}
      OBVIOUS
    <3> QED
      BY <3>1 DEF FoldedBy
  <2> QED
    BY <2>1
<1>2. ASSUME NEW k \in T PROVE k + 1 \in T
  <2>1. PICK f : FoldedBy(f, kind, xs, k, base)
    OBVIOUS
  <2>2. k \in Nat
    OBVIOUS
  <2> DEFINE h == [S \in SUBSET (1..(k + 1)) |->
                     IF k + 1 \in S THEN Step(kind, f[S \ {k + 1}], xs[k + 1]) ELSE f[S]]
  <2>3. ASSUME NEW S \in SUBSET (1..(k + 1)), S # {}
        PROVE  h[S] = Step(kind, h[S \ {Max(S)}], xs[Max(S)])
    <3>1. CASE k + 1 \in S
      <4>1. Max(S) = k + 1
        BY <2>2, <3>1, GreatestOf
      <4>2. S \ {k + 1} \in SUBSET (1..(k + 1)) /\ k + 1 \notin S \ {k + 1}
        OBVIOUS
      <4>3. h[S \ {k + 1}] = f[S \ {k + 1}]
        BY <4>2
      <4>4. h[S] = Step(kind, f[S \ {k + 1}], xs[k + 1])
        BY <3>1
      <4> HIDE DEF h
      <4> QED
        BY <4>1, <4>3, <4>4
    <3>2. CASE k + 1 \notin S
      <4>1. S \in SUBSET (1..k)
        BY <2>2, <3>2
      <4>2. Max(S) \in S
        BY <2>2, <2>3, <4>1, GreatestOf
      <4>3. h[S] = f[S] /\ h[S \ {Max(S)}] = f[S \ {Max(S)}]
        BY <3>2, <4>1
      <4>4. f[S] = Step(kind, f[S \ {Max(S)}], xs[Max(S)])
        BY <2>1, <2>3, <4>1 DEF FoldedBy
      <4> HIDE DEF h
      <4> QED
        BY <4>3, <4>4
    <3> QED
      BY <3>1, <3>2
  <2>4. h[{}] = base
    <3>1. h[{}] = f[{}]
      OBVIOUS
    <3>2. f[{}] = base
      BY <2>1 DEF FoldedBy
    <3> QED
      BY <3>1, <3>2
  <2>5. FoldedBy(h, kind, xs, k + 1, base)
    <3>1. h = [S \in SUBSET (1..(k + 1)) |-> h[S]]
      OBVIOUS
    <3> HIDE DEF h
    <3> QED
      BY <2>3, <2>4, <3>1 DEF FoldedBy
  <2> QED
    BY <2>2, <2>5
<1>3. T = Nat
  <2>1. T \subseteq Nat
    OBVIOUS
  <2> HIDE DEF T
  <2> QED
    BY <1>1, <1>2, <2>1, SetInduction
<1> QED
  BY <1>3

\* What such a fold is for the first k elements.
Runs(f, kind, xs, n, base) ==
  /\ f[1..0] = base
  /\ \A k \in 0..(n - 1) : f[1..(k + 1)] = Step(kind, f[1..k], xs[k + 1])

LEMMA FoldSteps ==
  ASSUME NEW kind, NEW xs, NEW base, NEW n \in Nat, NEW f, FoldedBy(f, kind, xs, n, base)
  PROVE  Runs(f, kind, xs, n, base)
<1>1. f[1..0] = base
  <2>1. 1..0 = {}
    OBVIOUS
  <2> QED
    BY <2>1 DEF FoldedBy
<1>2. ASSUME NEW k \in 0..(n - 1) PROVE f[1..(k + 1)] = Step(kind, f[1..k], xs[k + 1])
  <2>1. k + 1 \in Nat /\ 1..(k + 1) \in SUBSET (1..n) /\ 1..(k + 1) # {} /\ k + 1 \in 1..(k + 1)
    <3>1. k + 1 \in Nat /\ k + 1 <= n /\ k + 1 \in 1..(k + 1)
      OBVIOUS
    <3>2. 1..(k + 1) \subseteq 1..n
      BY <3>1
    <3> QED
      BY <3>1, <3>2
  <2>2. Max(1..(k + 1)) = k + 1
    BY <2>1, GreatestOf
  <2>3. (1..(k + 1)) \ {k + 1} = 1..k
    OBVIOUS
  <2>4. f[1..(k + 1)] = Step(kind, f[(1..(k + 1)) \ {Max(1..(k + 1))}], xs[Max(1..(k + 1))])
    BY <2>1 DEF FoldedBy
  <2> QED
    BY <2>2, <2>3, <2>4
<1> QED
  BY <1>1, <1>2 DEF Runs

LEMMA PolicyFolds ==
  ASSUME NEW xs, NEW path, NEW n \in Nat, DOMAIN xs = 1..n
  PROVE  \E f : FoldedBy(f, "statement", xs, n, Undecided(path)) /\ PolicyApply(xs, path, Options) = f[1..n]
<1> DEFINE F(f) == f = [S \in SUBSET (1..n) |->
                          IF S = {} THEN [result |-> Nothing, path |-> path]
                          ELSE LET x == Max(S)
                               IN  IF f[S \ {x}].result # Nothing THEN f[S \ {x}]
                                   ELSE StatementApply(xs[x], f[S \ {x}].path, Options)]
           fold == CHOOSE f : F(f)
<1>1. PolicyApply(xs, path, Options) = fold[1..n]
  BY DEF PolicyApply, FoldLeft, MapThenFoldSet
<1>2. ASSUME NEW f PROVE F(f) <=> FoldedBy(f, "statement", xs, n, Undecided(path))
  BY DEF FoldedBy, Undecided, Step
<1>3. \E f : F(f)
  <2> HIDE DEF F
  <2> QED
    BY <1>2, FoldsExist
<1>4. F(fold)
  <2> HIDE DEF F
  <2> QED
    BY <1>3
<1> HIDE DEF F, fold
<1> QED
  BY <1>1, <1>2, <1>4

\* What StatementApply and the folds give is [result, path].
Done(d) == d = [result |-> d.result, path |-> d.path]

LEMMA StatementDone ==
  ASSUME NEW x, NEW path PROVE Done(StatementApply(x, path, Options))
BY DEF Done, StatementApply

\* The statements of two policies one after the other.
LEMMA PolicyConcat ==
  ASSUME NEW P, NEW Q, NEW p \in Seq(P), NEW q \in Seq(Q), NEW path
  PROVE  PolicyApply(p \o q, path, Options) =
           IF PolicyApply(p, path, Options).result # Nothing THEN PolicyApply(p, path, Options)
           ELSE PolicyApply(q, PolicyApply(p, path, Options).path, Options)
<1> DEFINE m == Len(p)
           n == Len(q)
           pq == p \o q
<1>1. m \in Nat /\ n \in Nat /\ DOMAIN p = 1..m /\ DOMAIN q = 1..n
  OBVIOUS
<1>2. /\ DOMAIN pq = 1..(m + n)
      /\ \A i \in 1..m : pq[i] = p[i]
      /\ \A i \in 1..n : pq[m + i] = q[i]
  OBVIOUS
<1> HIDE DEF m, n, pq
<1>3. PICK f : FoldedBy(f, "statement", p, m, Undecided(path)) /\ PolicyApply(p, path, Options) = f[1..m]
  BY <1>1, PolicyFolds
<1>4. PICK h : FoldedBy(h, "statement", pq, m + n, Undecided(path)) /\ PolicyApply(pq, path, Options) = h[1..(m + n)]
  <2>1. m + n \in Nat
    BY <1>1
  <2> QED
    BY <1>2, <2>1, PolicyFolds
<1>5. PICK d : d = f[1..m]
  OBVIOUS
<1>6. PICK g : FoldedBy(g, "statement", q, n, Undecided(d.path)) /\ PolicyApply(q, d.path, Options) = g[1..n]
  BY <1>1, PolicyFolds
<1>7. /\ f[1..0] = Undecided(path)
      /\ \A k \in 0..(m - 1) : f[1..(k + 1)] = Step("statement", f[1..k], p[k + 1])
  <2>1. Runs(f, "statement", p, m, Undecided(path))
    BY <1>1, <1>3, FoldSteps
  <2> QED
    BY <2>1 DEF Runs
<1>8. /\ h[1..0] = Undecided(path)
      /\ \A k \in 0..(m + n - 1) : h[1..(k + 1)] = Step("statement", h[1..k], pq[k + 1])
  <2>1. m + n \in Nat
    BY <1>1
  <2>2. Runs(h, "statement", pq, m + n, Undecided(path))
    BY <1>4, <2>1, FoldSteps
  <2> QED
    BY <1>1, <2>2 DEF Runs
<1>9. /\ g[1..0] = Undecided(d.path)
      /\ \A k \in 0..(n - 1) : g[1..(k + 1)] = Step("statement", g[1..k], q[k + 1])
  <2>1. Runs(g, "statement", q, n, Undecided(d.path))
    BY <1>1, <1>6, FoldSteps
  <2> QED
    BY <2>1 DEF Runs
<1>10. ASSUME NEW k \in Nat, k <= m PROVE h[1..k] = f[1..k] /\ Done(f[1..k])
  <2> DEFINE T == {i \in Nat : i <= m => h[1..i] = f[1..i] /\ Done(f[1..i])}
  <2>1. 0 \in T
    BY <1>7, <1>8 DEF Undecided, Done
  <2>2. ASSUME NEW i \in T PROVE i + 1 \in T
    <3> SUFFICES ASSUME i + 1 <= m PROVE h[1..(i + 1)] = f[1..(i + 1)] /\ Done(f[1..(i + 1)])
      OBVIOUS
    <3>1. i \in Nat /\ i <= m /\ i \in 0..(m - 1) /\ i \in 0..(m + n - 1) /\ i + 1 \in 1..m
      BY <1>1
    <3>2. h[1..i] = f[1..i] /\ Done(f[1..i])
      BY <3>1
    <3>3. pq[i + 1] = p[i + 1]
      BY <1>2, <3>1
    <3>4. f[1..(i + 1)] = Step("statement", f[1..i], p[i + 1])
      BY <1>7, <3>1
    <3>5. h[1..(i + 1)] = Step("statement", h[1..i], pq[i + 1])
      BY <1>8, <3>1
    <3>6. Done(Step("statement", f[1..i], p[i + 1]))
      <4>1. Done(StatementApply(p[i + 1], f[1..i].path, Options))
        BY StatementDone
      <4> QED
        BY <3>2, <4>1 DEF Step
    <3> QED
      BY <3>2, <3>3, <3>4, <3>5, <3>6
  <2>3. T = Nat
    <3>1. T \subseteq Nat
      OBVIOUS
    <3> HIDE DEF T
    <3> QED
      BY <2>1, <2>2, <3>1, SetInduction
  <2> QED
    BY <1>10, <2>3
<1>11. h[1..m] = d /\ Done(d)
  <2>1. m \in Nat /\ m <= m
    BY <1>1
  <2> QED
    BY <1>5, <1>10, <2>1
<1>12. CASE d.result # Nothing
  <2> DEFINE T == {i \in Nat : i <= n => h[1..(m + i)] = d}
  <2>1. 0 \in T
    <3>1. m + 0 = m
      BY <1>1
    <3> QED
      BY <1>11, <3>1
  <2>2. ASSUME NEW i \in T PROVE i + 1 \in T
    <3> SUFFICES ASSUME i + 1 <= n PROVE h[1..(m + (i + 1))] = d
      OBVIOUS
    <3>1. i \in Nat /\ i <= n /\ m + i \in 0..(m + n - 1) /\ m + (i + 1) = (m + i) + 1
      BY <1>1
    <3>2. h[1..(m + i)] = d
      BY <3>1
    <3>3. h[1..((m + i) + 1)] = Step("statement", h[1..(m + i)], pq[(m + i) + 1])
      BY <1>8, <3>1
    <3>4. h[1..((m + i) + 1)] = d
      BY <1>12, <3>2, <3>3 DEF Step
    <3> QED
      BY <3>1, <3>4
  <2>3. T = Nat
    <3>1. T \subseteq Nat
      OBVIOUS
    <3> HIDE DEF T
    <3> QED
      BY <2>1, <2>2, <3>1, SetInduction
  <2>4. h[1..(m + n)] = d
    <3>1. n \in T /\ n <= n
      <4> HIDE DEF T
      <4> QED
        BY <1>1, <2>3
    <3> QED
      BY <3>1
  <2> QED
    BY <1>3, <1>4, <1>5, <1>12, <2>4 DEF pq
<1>13. CASE d.result = Nothing
  <2> DEFINE T == {i \in Nat : i <= n => h[1..(m + i)] = g[1..i]}
  <2>1. 0 \in T
    <3>1. m + 0 = m
      BY <1>1
    <3>2. d = Undecided(d.path)
      BY <1>11, <1>13 DEF Done, Undecided
    <3> QED
      BY <1>9, <1>11, <3>1, <3>2
  <2>2. ASSUME NEW i \in T PROVE i + 1 \in T
    <3> SUFFICES ASSUME i + 1 <= n PROVE h[1..(m + (i + 1))] = g[1..(i + 1)]
      OBVIOUS
    <3>1. /\ i \in Nat /\ i <= n /\ m + i \in 0..(m + n - 1) /\ m + (i + 1) = (m + i) + 1
          /\ i \in 0..(n - 1) /\ i + 1 \in 1..n
      BY <1>1
    <3>2. h[1..(m + i)] = g[1..i]
      BY <3>1
    <3>3. h[1..((m + i) + 1)] = Step("statement", h[1..(m + i)], pq[(m + i) + 1])
      BY <1>8, <3>1
    <3>4. pq[(m + i) + 1] = q[i + 1]
      BY <1>2, <3>1
    <3>5. g[1..(i + 1)] = Step("statement", g[1..i], q[i + 1])
      BY <1>9, <3>1
    <3> QED
      BY <3>1, <3>2, <3>3, <3>4, <3>5
  <2>3. T = Nat
    <3>1. T \subseteq Nat
      OBVIOUS
    <3> HIDE DEF T
    <3> QED
      BY <2>1, <2>2, <3>1, SetInduction
  <2>4. h[1..(m + n)] = g[1..n]
    <3>1. n \in T /\ n <= n
      <4> HIDE DEF T
      <4> QED
        BY <1>1, <2>3
    <3> QED
      BY <3>1
  <2> QED
    BY <1>3, <1>4, <1>5, <1>6, <1>13, <2>4 DEF pq
<1> QED
  BY <1>12, <1>13

\* What the fold over a list of policies ends in.
Decided(policies, path) ==
  FoldLeft(LAMBDA d, p : IF d.result # Nothing THEN d ELSE PolicyApply(p, d.path, Options),
           [result |-> Nothing, path |-> path], policies)

LEMMA ListFolds ==
  ASSUME NEW xs, NEW path, NEW n \in Nat, DOMAIN xs = 1..n
  PROVE  \E f : FoldedBy(f, "policy", xs, n, Undecided(path)) /\ Decided(xs, path) = f[1..n]
<1> DEFINE F(f) == f = [S \in SUBSET (1..n) |->
                          IF S = {} THEN [result |-> Nothing, path |-> path]
                          ELSE LET x == Max(S)
                               IN  IF f[S \ {x}].result # Nothing THEN f[S \ {x}]
                                   ELSE PolicyApply(xs[x], f[S \ {x}].path, Options)]
           fold == CHOOSE f : F(f)
<1>1. Decided(xs, path) = fold[1..n]
  BY DEF Decided, FoldLeft, MapThenFoldSet
<1>2. ASSUME NEW f PROVE F(f) <=> FoldedBy(f, "policy", xs, n, Undecided(path))
  <2>1. "policy" # "statement"
    OBVIOUS
  <2> QED
    BY <2>1 DEF FoldedBy, Undecided, Step
<1>3. \E f : F(f)
  <2> HIDE DEF F
  <2> QED
    BY <1>2, FoldsExist
<1>4. F(fold)
  <2> HIDE DEF F
  <2> QED
    BY <1>3
<1> HIDE DEF F, fold
<1> QED
  BY <1>1, <1>2, <1>4

LEMMA DecidedOne ==
  ASSUME NEW p, NEW path PROVE Decided(<<p>>, path) = PolicyApply(p, path, Options)
<1>1. PICK xs : xs = <<p>>
  OBVIOUS
<1>2. DOMAIN xs = 1..1 /\ xs[1] = p /\ 1 \in Nat
  BY <1>1
<1>3. PICK f : FoldedBy(f, "policy", xs, 1, Undecided(path)) /\ Decided(xs, path) = f[1..1]
  BY <1>2, ListFolds
<1>4. Runs(f, "policy", xs, 1, Undecided(path))
  BY <1>2, <1>3, FoldSteps
<1>5. f[1..1] = Step("policy", Undecided(path), p)
  <2>1. f[1..0] = Undecided(path) /\ f[1..(0 + 1)] = Step("policy", f[1..0], xs[0 + 1])
    BY <1>4 DEF Runs
  <2>2. 0 + 1 = 1
    OBVIOUS
  <2> QED
    BY <1>2, <2>1, <2>2
<1>6. Step("policy", Undecided(path), p) = PolicyApply(p, path, Options)
  BY DEF Step, Undecided
<1> QED
  BY <1>1, <1>3, <1>5, <1>6

LEMMA DecidedTwo ==
  ASSUME NEW p, NEW q, NEW path
  PROVE  Decided(<<p, q>>, path) =
           IF PolicyApply(p, path, Options).result # Nothing THEN PolicyApply(p, path, Options)
           ELSE PolicyApply(q, PolicyApply(p, path, Options).path, Options)
<1>1. PICK xs : xs = <<p, q>>
  OBVIOUS
<1>2. DOMAIN xs = 1..2 /\ xs[1] = p /\ xs[2] = q /\ 2 \in Nat
  BY <1>1
<1>3. PICK f : FoldedBy(f, "policy", xs, 2, Undecided(path)) /\ Decided(xs, path) = f[1..2]
  BY <1>2, ListFolds
<1>4. Runs(f, "policy", xs, 2, Undecided(path))
  BY <1>2, <1>3, FoldSteps
<1>5. f[1..1] = Step("policy", Undecided(path), p) /\ f[1..2] = Step("policy", f[1..1], q)
  <2>1. /\ f[1..0] = Undecided(path)
        /\ f[1..(0 + 1)] = Step("policy", f[1..0], xs[0 + 1])
        /\ f[1..(1 + 1)] = Step("policy", f[1..1], xs[1 + 1])
    BY <1>4 DEF Runs
  <2>2. 0 + 1 = 1 /\ 1 + 1 = 2
    OBVIOUS
  <2> QED
    BY <1>2, <2>1, <2>2
<1>6. f[1..1] = PolicyApply(p, path, Options)
  BY <1>5 DEF Step, Undecided
<1> QED
  BY <1>1, <1>3, <1>5, <1>6 DEF Step

LEMMA PoliciesFit ==
  ASSUME QuestionsFit PROVE PoliciesCompose
<1> SUFFICES ASSUME Asked("policy")
             PROVE  LET p == question.p  q == question.q  path == question.path
                        apply(policies, d) == ApplyPolicy(policies, d, path, Options)
                    IN  /\ apply(<<p, q>>, question.default) = apply(<<p \o q>>, question.default)
                        /\ apply(<<p>>, "accept") = Rejected => apply(<<p, q>>, question.default) = Rejected
                        /\ path.withdraw => apply(<<p, q>>, question.default) = [result |-> "accept", path |-> path]
  BY DEF PoliciesCompose
<1>1. PICK p \in PolicyLists, q \in PolicyLists, default \in {"accept", "reject"}, path \in PolicyPaths :
        question.p = p /\ question.q = q /\ question.default = default /\ question.path = path
  BY DEF QuestionsFit, PolicyQuestions
<1> DEFINE apply(policies, d) == ApplyPolicy(policies, d, path, Options)
           one == PolicyApply(p, path, Options)
<1>2. ASSUME NEW policies, NEW d
      PROVE  apply(policies, d) =
               LET done   == Decided(policies, path)
                   result == IF done.result = Nothing THEN d ELSE done.result
               IN  IF path.withdraw THEN [result |-> "accept", path |-> path]
                   ELSE IF result = "accept" THEN [result |-> "accept", path |-> done.path]
                   ELSE Rejected
  BY DEF ApplyPolicy, Decided
<1>3. Decided(<<p, q>>, path) = Decided(<<p \o q>>, path)
  <2>1. p \in Seq(ToSet(p)) /\ q \in Seq(ToSet(q))
    BY PoliciesAssumption
  <2>2. PolicyApply(p \o q, path, Options) = IF one.result # Nothing THEN one ELSE PolicyApply(q, one.path, Options)
    BY <2>1, PolicyConcat
  <2>3. Decided(<<p \o q>>, path) = PolicyApply(p \o q, path, Options)
    BY DecidedOne
  <2>4. Decided(<<p, q>>, path) = IF one.result # Nothing THEN one ELSE PolicyApply(q, one.path, Options)
    BY DecidedTwo
  <2> QED
    BY <2>2, <2>3, <2>4
<1> HIDE DEF apply
<1>4. apply(<<p, q>>, default) = apply(<<p \o q>>, default)
  BY <1>2, <1>3
<1>5. ASSUME apply(<<p>>, "accept") = Rejected PROVE apply(<<p, q>>, default) = Rejected
  <2>1. Rejected # [result |-> "accept", path |-> path] /\ Rejected # [result |-> "accept", path |-> Decided(<<p>>, path).path]
    <3>1. Rejected.result = "reject" /\ "reject" # "accept"
      BY DEF Rejected
    <3> QED
      BY <3>1
  <2>2. ~path.withdraw /\ Decided(<<p>>, path).result # Nothing /\ Decided(<<p>>, path).result # "accept"
    BY <1>2, <1>5, <2>1
  <2>3. Decided(<<p>>, path) = one
    BY DecidedOne
  <2>4. Decided(<<p, q>>, path) = one
    BY <2>2, <2>3, DecidedTwo
  <2> QED
    BY <1>2, <2>2, <2>3, <2>4
<1>6. path.withdraw => apply(<<p, q>>, default) = [result |-> "accept", path |-> path]
  BY <1>2
<1>7. /\ apply(<<p, q>>, default) = apply(<<p \o q>>, default)
      /\ apply(<<p>>, "accept") = Rejected => apply(<<p, q>>, default) = Rejected
      /\ path.withdraw => apply(<<p, q>>, default) = [result |-> "accept", path |-> path]
  BY <1>4, <1>5, <1>6
<1> QED
  BY <1>1, <1>7 DEF apply

-----------------------------------------------------------------------------
(* Chains of clones *)

\* The first level that speaks of a type.
FirstAt(ls, t, i) == Speaks(ls[i], t) /\ \A j \in 1..(i - 1) : ~Speaks(ls[j], t)

LEMMA SpeakingLevel ==
  ASSUME NEW E, NEW path, path.levels \in Seq(E), NEW t
  PROVE  LET i == FirstToSpeak(path, t)
         IN  /\ i = 0 => \A j \in DOMAIN path.levels : ~Speaks(path.levels[j], t)
             /\ i # 0 => i \in 1..Len(path.levels) /\ FirstAt(path.levels, t, i)
<1> DEFINE ls == path.levels
           I == {j \in 1..Len(ls) : Speaks(ls[j], t)}
           i == FirstToSpeak(path, t)
<1>1. i = IF I # {} THEN CHOOSE x \in I : \A y \in I : x =< y ELSE 0
  BY DEF FirstToSpeak, SelectInSeq, Min
<1>2. Len(ls) \in Nat /\ DOMAIN ls = 1..Len(ls)
  OBVIOUS
<1>3. CASE I = {}
  <2>1. i = 0
    BY <1>1, <1>3
  <2> QED
    BY <1>2, <1>3, <2>1
<1>4. CASE I # {}
  <2>1. I \in SUBSET Nat
    OBVIOUS
  <2>2. \E x \in I : \A y \in I : x <= y
    <3> HIDE DEF I
    <3> QED
      BY <1>4, <2>1, LeastNumber
  <2>3. i \in I /\ \A y \in I : i <= y
    <3> HIDE DEF I
    <3> QED
      BY <1>1, <1>4, <2>2
  <2>4. i \in 1..Len(ls) /\ i # 0 /\ Speaks(ls[i], t)
    BY <2>3
  <2>5. ASSUME NEW j \in 1..(i - 1) PROVE ~Speaks(ls[j], t)
    <3>1. j \in 1..Len(ls) /\ ~(i <= j)
      BY <2>4
    <3>2. j \notin I
      BY <2>3, <3>1
    <3> QED
      BY <3>1, <3>2
  <2> QED
    BY <2>4, <2>5 DEF FirstAt
<1> QED
  BY <1>3, <1>4

\* Two levels cannot both be the first.
LEMMA OneFirst ==
  ASSUME NEW ls, NEW t, NEW i \in Nat \ {0}, NEW j \in Nat \ {0}, FirstAt(ls, t, i), FirstAt(ls, t, j)
  PROVE  i = j
<1>1. ASSUME i < j PROVE FALSE
  BY <1>1 DEF FirstAt
<1>2. ASSUME j < i PROVE FALSE
  BY <1>2 DEF FirstAt
<1> QED
  BY <1>1, <1>2

\* Has and Attr in terms of the level that decides.
LEMMA AttrAt ==
  ASSUME NEW E, NEW path, path.levels \in Seq(E), NEW t
  PROVE  /\ \A i \in 1..Len(path.levels) :
              FirstAt(path.levels, t, i) /\ t \notin path.levels[i].dels =>
                Has(path, t) /\ Attr(path, t) = path.levels[i].attrs[t]
         /\ Has(path, t) => \E i \in 1..Len(path.levels) : FirstAt(path.levels, t, i) /\ t \notin path.levels[i].dels
<1> DEFINE ls == path.levels
           k == FirstToSpeak(path, t)
<1>1. /\ k = 0 => \A j \in DOMAIN ls : ~Speaks(ls[j], t)
      /\ k # 0 => k \in 1..Len(ls) /\ FirstAt(ls, t, k)
  BY SpeakingLevel
<1>2. Len(ls) \in Nat /\ DOMAIN ls = 1..Len(ls)
  OBVIOUS
<1>3. Has(path, t) <=> k # 0 /\ t \notin ls[k].dels
  BY DEF Has
<1>4. Attr(path, t) = ls[k].attrs[t]
  BY DEF Attr
<1> HIDE DEF k
<1>5. ASSUME NEW i \in 1..Len(ls), FirstAt(ls, t, i), t \notin ls[i].dels
      PROVE  Has(path, t) /\ Attr(path, t) = ls[i].attrs[t]
  <2>1. k # 0
    BY <1>1, <1>2, <1>5 DEF FirstAt
  <2>2. k = i
    BY <1>1, <1>2, <1>5, <2>1, OneFirst
  <2> QED
    BY <1>3, <1>4, <1>5, <2>1, <2>2
<1> QED
  BY <1>1, <1>3, <1>5

\* What was collected from the first k levels.
Collected(c, ls, k) ==
  /\ c.found = [t \in DOMAIN c.found |-> c.found[t]]
  /\ \A t : t \in c.deleted <=> \E i \in 1..k : t \in ls[i].dels
  /\ \A t : t \in DOMAIN c.found => \E i \in 1..k : FirstAt(ls, t, i) /\ t \notin ls[i].dels
  /\ \A t : \A i \in 1..k : FirstAt(ls, t, i) /\ t \notin ls[i].dels =>
              t \in DOMAIN c.found /\ c.found[t] = ls[i].attrs[t]

LEMMA CollectMore ==
  ASSUME NEW ls, NEW k \in Nat, NEW c, Collected(c, ls, k)
  PROVE  Collected(Collect(c, ls[k + 1]), ls, k + 1)
<1> DEFINE l == ls[k + 1]
           d == Collect(c, l)
           deleted == c.deleted \cup l.dels
           more == Without(l.attrs, deleted)
<1>1. d.deleted = deleted /\ d.found = With(c.found, more)
  BY DEF Collect
<1>2. DOMAIN more = DOMAIN l.attrs \ deleted /\ \A t \in DOMAIN more : more[t] = l.attrs[t]
  BY DEF Without
<1>3. /\ DOMAIN d.found = DOMAIN c.found \cup DOMAIN more
      /\ \A t \in DOMAIN d.found : d.found[t] = IF t \in DOMAIN c.found THEN c.found[t] ELSE more[t]
      /\ d.found = [t \in DOMAIN d.found |-> d.found[t]]
  <2> HIDE DEF more
  <2> QED
    BY <1>1 DEF With
<1>4. \A i : i \in 1..(k + 1) <=> i \in 1..k \/ i = k + 1
  OBVIOUS
<1>5. ASSUME NEW t PROVE t \in d.deleted <=> \E i \in 1..(k + 1) : t \in ls[i].dels
  BY <1>1, <1>4 DEF Collected
<1> HIDE DEF d, more
<1>6. ASSUME NEW t, t \in DOMAIN d.found PROVE \E i \in 1..(k + 1) : FirstAt(ls, t, i) /\ t \notin ls[i].dels
  <2>1. CASE t \in DOMAIN c.found
    BY <1>4, <2>1 DEF Collected
  <2>2. CASE t \notin DOMAIN c.found
    <3>1. t \in DOMAIN l.attrs /\ t \notin deleted
      BY <1>2, <1>3, <1>6, <2>2
    <3>2. \A i \in 1..k : t \notin ls[i].dels
      BY <3>1 DEF Collected
    <3>3. ASSUME NEW j \in 1..k PROVE ~Speaks(ls[j], t)
      <4> SUFFICES ASSUME Speaks(ls[j], t) PROVE FALSE
        OBVIOUS
      <4> DEFINE I == {i \in 1..k : Speaks(ls[i], t)}
      <4>1. I \in SUBSET Nat /\ I # {}
        OBVIOUS
      <4>2. PICK m \in I : \A i \in I : m <= i
        <5> HIDE DEF I
        <5> QED
          BY <4>1, LeastNumber
      <4>3. m \in 1..k /\ Speaks(ls[m], t)
        OBVIOUS
      <4>4. \A i \in 1..(m - 1) : ~Speaks(ls[i], t)
        BY <4>2, <4>3
      <4>5. FirstAt(ls, t, m)
        BY <4>3, <4>4 DEF FirstAt
      <4> QED
        BY <2>2, <3>2, <4>3, <4>5 DEF Collected
    <3>4. (k + 1) - 1 = k
      OBVIOUS
    <3>5. FirstAt(ls, t, k + 1)
      BY <3>1, <3>3, <3>4 DEF FirstAt, Speaks
    <3> QED
      BY <1>4, <3>1, <3>5
  <2> QED
    BY <2>1, <2>2
<1>7. ASSUME NEW t, NEW i \in 1..(k + 1), FirstAt(ls, t, i), t \notin ls[i].dels
      PROVE  t \in DOMAIN d.found /\ d.found[t] = ls[i].attrs[t]
  <2>1. CASE i \in 1..k
    <3>1. t \in DOMAIN c.found /\ c.found[t] = ls[i].attrs[t]
      BY <1>7, <2>1 DEF Collected
    <3> QED
      BY <1>3, <3>1
  <2>2. CASE i = k + 1
    <3>1. (k + 1) - 1 = k
      OBVIOUS
    <3>2. \A j \in 1..k : ~Speaks(ls[j], t)
      BY <1>7, <2>2, <3>1 DEF FirstAt
    <3>3. t \in DOMAIN l.attrs
      BY <1>7, <2>2 DEF FirstAt, Speaks
    <3>4. t \notin c.deleted
      BY <3>2 DEF Collected, Speaks
    <3>5. t \notin DOMAIN c.found
      BY <3>2 DEF Collected, FirstAt
    <3>6. t \in DOMAIN more
      BY <1>2, <1>7, <2>2, <3>3, <3>4
    <3> QED
      BY <1>2, <1>3, <2>2, <3>5, <3>6
  <2> QED
    BY <1>4, <2>1, <2>2
<1>8. Collected(d, ls, k + 1)
  BY <1>3, <1>5, <1>6, <1>7 DEF Collected
<1> QED
  BY <1>8 DEF d

LEMMA LevelFolds ==
  ASSUME NEW path, NEW n \in Nat, DOMAIN path.levels = 1..n
  PROVE  \E f : /\ FoldedBy(f, "level", path.levels, n, [deleted |-> {}, found |-> <<>>])
                /\ GetPathAttrs(path) = f[1..n].found
<1> DEFINE xs == path.levels
           F(f) == f = [S \in SUBSET (1..n) |->
                          IF S = {} THEN [deleted |-> {}, found |-> <<>>]
                          ELSE LET x == Max(S) IN Collect(f[S \ {x}], xs[x])]
           fold == CHOOSE f : F(f)
<1>1. GetPathAttrs(path) = fold[1..n].found
  BY DEF GetPathAttrs, FoldLeft, MapThenFoldSet
<1>2. ASSUME NEW f PROVE F(f) <=> FoldedBy(f, "level", xs, n, [deleted |-> {}, found |-> <<>>])
  <2>1. "level" # "statement" /\ "level" # "policy"
    OBVIOUS
  <2> QED
    BY <2>1 DEF FoldedBy, Step
<1>3. \E f : F(f)
  <2> HIDE DEF F
  <2> QED
    BY <1>2, FoldsExist
<1>4. F(fold)
  <2> HIDE DEF F
  <2> QED
    BY <1>3
<1> HIDE DEF F, fold
<1> QED
  BY <1>1, <1>2, <1>4

\* GetPathAttrs says what Has and Attr say.
Reads(path, attrs) ==
  /\ attrs = [t \in DOMAIN attrs |-> attrs[t]]
  /\ \A t : t \in DOMAIN attrs <=> Has(path, t)
  /\ \A t \in DOMAIN attrs : attrs[t] = Attr(path, t)

LEMMA AttrsRead ==
  ASSUME NEW E, NEW path, path.levels \in Seq(E)
  PROVE  Reads(path, GetPathAttrs(path))
<1> DEFINE ls == path.levels
           n == Len(ls)
           base == [deleted |-> {}, found |-> <<>>]
<1>1. n \in Nat /\ DOMAIN ls = 1..n
  OBVIOUS
<1> HIDE DEF n
<1>2. PICK f : FoldedBy(f, "level", ls, n, base) /\ GetPathAttrs(path) = f[1..n].found
  BY <1>1, LevelFolds
<1>3. Runs(f, "level", ls, n, base)
  <2> HIDE DEF base, ls
  <2> QED
    BY <1>1, <1>2, FoldSteps
<1> DEFINE T == {k \in Nat : k <= n => Collected(f[1..k], ls, k)}
<1>4. 0 \in T
  <2>1. f[1..0] = base
    BY <1>3 DEF Runs
  <2>2. Collected(base, ls, 0)
    <3>1. base.found = <<>> /\ base.deleted = {} /\ DOMAIN base.found = {}
      OBVIOUS
    <3>2. base.found = [t \in DOMAIN base.found |-> base.found[t]]
      OBVIOUS
    <3>3. 1..0 = {}
      OBVIOUS
    <3> HIDE DEF base
    <3> QED
      BY <3>1, <3>2, <3>3 DEF Collected
  <2> QED
    BY <2>1, <2>2
<1>5. ASSUME NEW k \in T PROVE k + 1 \in T
  <2> SUFFICES ASSUME k + 1 <= n PROVE Collected(f[1..(k + 1)], ls, k + 1)
    OBVIOUS
  <2>1. k \in Nat /\ k <= n /\ k \in 0..(n - 1)
    BY <1>1
  <2>2. f[1..(k + 1)] = Step("level", f[1..k], ls[k + 1])
    BY <1>3, <2>1 DEF Runs
  <2>3. Step("level", f[1..k], ls[k + 1]) = Collect(f[1..k], ls[k + 1])
    BY DEF Step
  <2>4. Collected(Collect(f[1..k], ls[k + 1]), ls, k + 1)
    <3>1. Collected(f[1..k], ls, k)
      BY <2>1
    <3> QED
      BY <2>1, <3>1, CollectMore
  <2> QED
    BY <2>2, <2>3, <2>4
<1>6. T = Nat
  <2>1. T \subseteq Nat
    OBVIOUS
  <2> HIDE DEF T
  <2> QED
    BY <1>4, <1>5, <2>1, SetInduction
<1>7. Collected(f[1..n], ls, n)
  <2>1. n \in T /\ n <= n
    <3> HIDE DEF T
    <3> QED
      BY <1>1, <1>6
  <2> QED
    BY <2>1
<1>8. PICK attrs : attrs = GetPathAttrs(path)
  OBVIOUS
<1>9. ASSUME NEW t PROVE /\ t \in DOMAIN attrs => Has(path, t) /\ attrs[t] = Attr(path, t)
                         /\ Has(path, t) => t \in DOMAIN attrs
  <2>1. /\ \A i \in 1..n : FirstAt(ls, t, i) /\ t \notin ls[i].dels => Has(path, t) /\ Attr(path, t) = ls[i].attrs[t]
        /\ Has(path, t) => \E i \in 1..n : FirstAt(ls, t, i) /\ t \notin ls[i].dels
    BY AttrAt DEF n
  <2> QED
    BY <1>2, <1>7, <1>8, <2>1 DEF Collected
<1>10. attrs = [t \in DOMAIN attrs |-> attrs[t]]
  BY <1>2, <1>7, <1>8 DEF Collected
<1>11. Reads(path, attrs)
  BY <1>9, <1>10 DEF Reads
<1> QED
  BY <1>8, <1>11

\* Two chains say the same of a type if each of their levels does.
SaysSame(l, m, t) ==
  /\ t \in l.dels <=> t \in m.dels
  /\ t \in DOMAIN l.attrs <=> t \in DOMAIN m.attrs
  /\ t \in DOMAIN l.attrs => l.attrs[t] = m.attrs[t]

Agree(p, q, t) == (Has(p, t) <=> Has(q, t)) /\ (Has(p, t) => Attr(p, t) = Attr(q, t))

LEMMA SameLevels ==
  ASSUME NEW E, NEW p, p.levels \in Seq(E), NEW q, q.levels \in Seq(E), Len(p.levels) = Len(q.levels),
         NEW t, \A i \in 1..Len(p.levels) : SaysSame(p.levels[i], q.levels[i], t)
  PROVE  Agree(p, q, t)
<1> DEFINE n == Len(p.levels)
<1>1. n \in Nat
  OBVIOUS
<1>2. \A i \in 1..n : FirstAt(p.levels, t, i) <=> FirstAt(q.levels, t, i)
  <2>1. \A i \in 1..n : Speaks(p.levels[i], t) <=> Speaks(q.levels[i], t)
    BY DEF SaysSame, Speaks
  <2> SUFFICES ASSUME NEW i \in 1..n PROVE FirstAt(p.levels, t, i) <=> FirstAt(q.levels, t, i)
    OBVIOUS
  <2>2. \A j \in 1..(i - 1) : j \in 1..n
    BY <1>1
  <2> HIDE DEF n
  <2> QED
    BY <2>1, <2>2 DEF FirstAt
<1>3. ASSUME NEW i \in 1..n, FirstAt(p.levels, t, i), t \notin p.levels[i].dels PROVE p.levels[i].attrs[t] = q.levels[i].attrs[t]
  BY <1>3 DEF FirstAt, Speaks, SaysSame
<1>4. /\ \A i \in 1..n : FirstAt(p.levels, t, i) /\ t \notin p.levels[i].dels => Has(p, t) /\ Attr(p, t) = p.levels[i].attrs[t]
      /\ Has(p, t) => \E i \in 1..n : FirstAt(p.levels, t, i) /\ t \notin p.levels[i].dels
  BY AttrAt
<1>5. /\ \A i \in 1..n : FirstAt(q.levels, t, i) /\ t \notin q.levels[i].dels => Has(q, t) /\ Attr(q, t) = q.levels[i].attrs[t]
      /\ Has(q, t) => \E i \in 1..n : FirstAt(q.levels, t, i) /\ t \notin q.levels[i].dels
  BY AttrAt
<1>6. \A i \in 1..n : t \in p.levels[i].dels <=> t \in q.levels[i].dels
  BY DEF SaysSame
<1> HIDE DEF n
<1> QED
  BY <1>2, <1>3, <1>4, <1>5, <1>6 DEF Agree

\* A path whose attributes are attrs and whose latest clone deleted dels.
Sees(path, attrs, dels) == ChainOf(path) /\ Reads(path, attrs) /\ path.levels[1].dels = dels

LEMMA ReadsOnce ==
  ASSUME NEW path, NEW a, NEW b, Reads(path, a), Reads(path, b) PROVE a = b
<1>1. DOMAIN a = DOMAIN b /\ \A t \in DOMAIN a : a[t] = b[t]
  BY DEF Reads
<1>2. a = [t \in DOMAIN a |-> a[t]] /\ b = [t \in DOMAIN b |-> b[t]]
  BY DEF Reads
<1> QED
  BY <1>1, <1>2

LEMMA SeesItsAttrs ==
  ASSUME NEW path, ChainOf(path)
  PROVE  Sees(path, GetPathAttrs(path), path.levels[1].dels)
BY AttrsRead DEF Sees, ChainOf

LEMMA SeenAttrs ==
  ASSUME NEW path, NEW a, NEW d, Sees(path, a, d)
  PROVE  GetPathAttrs(path) = a
<1>1. Reads(path, GetPathAttrs(path))
  BY AttrsRead DEF Sees, ChainOf
<1> QED
  BY <1>1, ReadsOnce DEF Sees

\* Nothing but the levels differs.
SameButLevels(p, q) ==
  q.source = p.source /\ q.family = p.family /\ q.nlri = p.nlri /\ q.withdraw = p.withdraw

IsMap(a) == a = [u \in DOMAIN a |-> a[u]]

Put(a, t, v) == With([u \in {t} |-> v], a)
IsPut(b, a, t, v) ==
  DOMAIN b = DOMAIN a \cup {t} /\ b[t] = v /\ (\A u \in DOMAIN a : u # t => b[u] = a[u]) /\ IsMap(b)

LEMMA PutFacts ==
  ASSUME NEW a, NEW t, NEW v PROVE IsPut(Put(a, t, v), a, t, v)
<1>1. PICK one : one = [u \in {t} |-> v]
  OBVIOUS
<1>2. DOMAIN one = {t} /\ one[t] = v
  BY <1>1
<1>3. PICK b : b = [u \in DOMAIN one \cup DOMAIN a |-> IF u \in DOMAIN one THEN one[u] ELSE a[u]]
  OBVIOUS
<1>4. Put(a, t, v) = b
  BY <1>1, <1>3 DEF Put, With
<1>5. IsPut(b, a, t, v)
  BY <1>2, <1>3 DEF IsPut, IsMap
<1> QED
  BY <1>4, <1>5

IsWithout(b, a, S) == DOMAIN b = DOMAIN a \ S /\ (\A u \in DOMAIN a \ S : b[u] = a[u]) /\ IsMap(b)

LEMMA WithoutFacts ==
  ASSUME NEW a, NEW S PROVE IsWithout(Without(a, S), a, S)
<1>1. PICK b : b = [t \in DOMAIN a \ S |-> a[t]]
  OBVIOUS
<1>2. Without(a, S) = b
  BY <1>1 DEF Without
<1>3. IsWithout(b, a, S)
  BY <1>1 DEF IsWithout, IsMap
<1> QED
  BY <1>2, <1>3

\* A list with another first element.
HasFirst(ms, ls, x) ==
  /\ DOMAIN ms = 1..Len(ls) /\ ms[1] = x /\ Len(ms) = Len(ls) /\ ms # <<>>
  /\ ms \in Seq(ToSet(ms)) /\ \A i \in 1..Len(ls) : i # 1 => ms[i] = ls[i]

LEMMA FirstReplaced ==
  ASSUME NEW E, NEW ls \in Seq(E), ls # <<>>, NEW x
  PROVE  HasFirst([ls EXCEPT ![1] = x], ls, x)
<1>1. Len(ls) \in Nat /\ Len(ls) > 0 /\ DOMAIN ls = 1..Len(ls)
  OBVIOUS
<1>2. PICK ms : ms = [ls EXCEPT ![1] = x]
  OBVIOUS
<1>3. DOMAIN ms = 1..Len(ls) /\ ms[1] = x /\ \A i \in 1..Len(ls) : i # 1 => ms[i] = ls[i]
  BY <1>1, <1>2
<1>4. PICK S : S = ToSet(ms)
  OBVIOUS
<1>5. \A i \in 1..Len(ls) : ms[i] \in S
  BY <1>3, <1>4 DEF ToSet
<1>6. ms = [i \in 1..Len(ls) |-> ms[i]]
  BY <1>1, <1>2
<1>7. ms \in Seq(S) /\ Len(ms) = Len(ls)
  BY <1>1, <1>5, <1>6, IsList
<1>8. ms # <<>>
  BY <1>1, <1>7
<1> QED
  BY <1>2, <1>3, <1>4, <1>7, <1>8 DEF HasFirst

LEMMA SetSees ==
  ASSUME NEW p, NEW a, NEW d, Sees(p, a, d), NEW t, t \notin d, NEW v
  PROVE  Sees(setPathAttr(p, t, v), Put(a, t, v), d) /\ SameButLevels(p, setPathAttr(p, t, v))
<1> DEFINE q == setPathAttr(p, t, v)
<1>1. PICK ls : ls = p.levels
  OBVIOUS
<1>2. PICK n \in Nat : n = Len(ls) /\ n > 0 /\ DOMAIN ls = 1..n /\ ls \in Seq(ToSet(ls))
  BY <1>1 DEF Sees, ChainOf
<1>3. PICK first : first = [ls[1] EXCEPT !.attrs = Put(ls[1].attrs, t, v)]
  OBVIOUS
<1>4. PICK ms : ms = [ls EXCEPT ![1] = first]
  OBVIOUS
<1>a. HasFirst(ms, ls, first)
  <2>1. ls # <<>>
    BY <1>2
  <2> QED
    BY <1>2, <1>4, <2>1, FirstReplaced
<1>5. q = [p EXCEPT !.levels = ms]
  BY <1>1, <1>3, <1>4 DEF setPathAttr, Put
<1>6. LevelOf(ls[1]) /\ \A i \in 1..n : LevelOf(ls[i])
  BY <1>1, <1>2 DEF Sees, ChainOf
<1>7. first.dels = ls[1].dels /\ first.attrs = Put(ls[1].attrs, t, v) /\ LevelOf(first)
  <2>1. ls[1] = [attrs |-> ls[1].attrs, dels |-> ls[1].dels]
    BY <1>6 DEF LevelOf
  <2>2. PICK z : z = Put(ls[1].attrs, t, v)
    OBVIOUS
  <2>3. z = [u \in DOMAIN z |-> z[u]]
    <3>1. IsPut(z, ls[1].attrs, t, v)
      BY <2>2, PutFacts
    <3> QED
      BY <3>1 DEF IsPut, IsMap
  <2>4. first = [attrs |-> z, dels |-> ls[1].dels]
    BY <1>3, <2>1, <2>2
  <2> QED
    BY <2>2, <2>3, <2>4 DEF LevelOf
<1>8. /\ DOMAIN ms = 1..n /\ ms[1] = first /\ Len(ms) = n /\ ms # <<>>
      /\ \A i \in 1..n : i # 1 => ms[i] = ls[i]
  BY <1>a, <1>2 DEF HasFirst
<1>9. ms \in Seq(ToSet(ms))
  BY <1>a DEF HasFirst
<1>10. DOMAIN p = {"source", "family", "nlri", "withdraw", "levels"}
  BY DEF Sees, ChainOf
<1>11. SameButLevels(p, q) /\ DOMAIN q = DOMAIN p /\ q.levels = ms
  BY <1>5, <1>10 DEF SameButLevels
<1>12. ChainOf(q)
  <2>1. \A i \in 1..n : LevelOf(ms[i])
    BY <1>6, <1>7, <1>8
  <2> HIDE DEF q
  <2> QED
    BY <1>8, <1>9, <1>10, <1>11, <2>1 DEF ChainOf
<1> HIDE DEF q
<1>13. d = ls[1].dels
  BY <1>1 DEF Sees
<1>14. ASSUME NEW u, u # t PROVE Agree(p, q, u)
  <2>1. DOMAIN first.attrs = DOMAIN ls[1].attrs \cup {t} /\ \A x \in DOMAIN ls[1].attrs : x # t => first.attrs[x] = ls[1].attrs[x]
    <3>1. IsPut(first.attrs, ls[1].attrs, t, v)
      BY <1>7, PutFacts
    <3> QED
      BY <3>1 DEF IsPut
  <2>2. SaysSame(ls[1], first, u)
    BY <1>7, <1>14, <2>1 DEF SaysSame
  <2>3. \A i \in 1..n : SaysSame(ls[i], ms[i], u)
    BY <1>8, <2>2 DEF SaysSame
  <2>4. p.levels \in Seq(ToSet(ls) \cup ToSet(ms)) /\ q.levels \in Seq(ToSet(ls) \cup ToSet(ms))
    BY <1>1, <1>2, <1>9, <1>11
  <2>5. \A i \in 1..Len(p.levels) : SaysSame(p.levels[i], q.levels[i], u)
    BY <1>1, <1>2, <1>11, <2>3
  <2>6. Len(p.levels) = Len(q.levels)
    BY <1>1, <1>2, <1>8, <1>11
  <2> QED
    BY <2>4, <2>5, <2>6, SameLevels
<1>15. Has(q, t) /\ Attr(q, t) = v
  <2>1. t \in DOMAIN first.attrs /\ first.attrs[t] = v
    <3>1. IsPut(first.attrs, ls[1].attrs, t, v)
      BY <1>7, PutFacts
    <3> QED
      BY <3>1 DEF IsPut
  <2>2. FirstAt(q.levels, t, 1)
    <3>1. 1..(1 - 1) = {}
      OBVIOUS
    <3> QED
      BY <1>8, <1>11, <2>1, <3>1 DEF FirstAt, Speaks
  <2>3. 1 \in 1..Len(q.levels) /\ t \notin q.levels[1].dels
    BY <1>2, <1>7, <1>8, <1>11, <1>13
  <2>4. q.levels \in Seq(ToSet(ms))
    BY <1>9, <1>11
  <2>5. Has(q, t) /\ Attr(q, t) = q.levels[1].attrs[t]
    BY <2>2, <2>3, <2>4, AttrAt
  <2> QED
    BY <1>8, <1>11, <2>1, <2>5
<1>16. Reads(q, Put(a, t, v))
  <2>1. PICK b : b = Put(a, t, v)
    OBVIOUS
  <2>2. /\ DOMAIN b = DOMAIN a \cup {t} /\ b[t] = v /\ \A u \in DOMAIN a : u # t => b[u] = a[u]
        /\ b = [u \in DOMAIN b |-> b[u]]
    <3>1. IsPut(b, a, t, v)
      BY <2>1, PutFacts
    <3> QED
      BY <3>1 DEF IsPut, IsMap
  <2>3. \A u : u \in DOMAIN a <=> Has(p, u)
    BY DEF Sees, Reads
  <2>4. \A u \in DOMAIN a : a[u] = Attr(p, u)
    BY DEF Sees, Reads
  <2>5. ASSUME NEW u PROVE (u \in DOMAIN b <=> Has(q, u)) /\ (u \in DOMAIN b => b[u] = Attr(q, u))
    <3>1. CASE u = t
      BY <1>15, <2>2, <3>1
    <3>2. CASE u # t
      BY <1>14, <2>2, <2>3, <2>4, <3>2 DEF Agree
    <3> QED
      BY <3>1, <3>2
  <2>6. Reads(q, b)
    BY <2>2, <2>5 DEF Reads
  <2> QED
    BY <2>1, <2>6
<1>17. Sees(q, Put(a, t, v), d)
  BY <1>7, <1>8, <1>11, <1>12, <1>13, <1>16 DEF Sees
<1> QED
  BY <1>11, <1>17 DEF q

LEMMA DelSees ==
  ASSUME NEW p, NEW a, NEW d, Sees(p, a, d), NEW t
  PROVE  Sees(delPathAttr(p, t), Without(a, {t}), d \cup {t}) /\ SameButLevels(p, delPathAttr(p, t))
<1> DEFINE q == delPathAttr(p, t)
<1>1. PICK ls : ls = p.levels
  OBVIOUS
<1>2. PICK n \in Nat : n = Len(ls) /\ n > 0 /\ DOMAIN ls = 1..n /\ ls \in Seq(ToSet(ls))
  BY <1>1 DEF Sees, ChainOf
<1>3. PICK first : first = [ls[1] EXCEPT !.dels = ls[1].dels \cup {t}]
  OBVIOUS
<1>4. PICK ms : ms = [ls EXCEPT ![1] = first]
  OBVIOUS
<1>a. HasFirst(ms, ls, first)
  <2>1. ls # <<>>
    BY <1>2
  <2> QED
    BY <1>2, <1>4, <2>1, FirstReplaced
<1>5. q = [p EXCEPT !.levels = ms]
  BY <1>1, <1>3, <1>4 DEF delPathAttr
<1>6. LevelOf(ls[1]) /\ \A i \in 1..n : LevelOf(ls[i])
  BY <1>1, <1>2 DEF Sees, ChainOf
<1>7. first.dels = ls[1].dels \cup {t} /\ first.attrs = ls[1].attrs /\ LevelOf(first)
  <2>1. ls[1] = [attrs |-> ls[1].attrs, dels |-> ls[1].dels]
    BY <1>6 DEF LevelOf
  <2>2. first = [attrs |-> ls[1].attrs, dels |-> ls[1].dels \cup {t}]
    BY <1>3, <2>1
  <2> QED
    BY <1>6, <2>2 DEF LevelOf
<1>8. /\ DOMAIN ms = 1..n /\ ms[1] = first /\ Len(ms) = n /\ ms # <<>>
      /\ \A i \in 1..n : i # 1 => ms[i] = ls[i]
  BY <1>a, <1>2 DEF HasFirst
<1>9. ms \in Seq(ToSet(ms))
  BY <1>a DEF HasFirst
<1>10. DOMAIN p = {"source", "family", "nlri", "withdraw", "levels"}
  BY DEF Sees, ChainOf
<1>11. SameButLevels(p, q) /\ DOMAIN q = DOMAIN p /\ q.levels = ms
  BY <1>5, <1>10 DEF SameButLevels
<1>12. ChainOf(q)
  <2>1. \A i \in 1..n : LevelOf(ms[i])
    BY <1>6, <1>7, <1>8
  <2> HIDE DEF q
  <2> QED
    BY <1>8, <1>9, <1>10, <1>11, <2>1 DEF ChainOf
<1> HIDE DEF q
<1>13. d = ls[1].dels
  BY <1>1 DEF Sees
<1>14. ASSUME NEW u, u # t PROVE Agree(p, q, u)
  <2>1. SaysSame(ls[1], first, u)
    BY <1>7, <1>14 DEF SaysSame
  <2>2. \A i \in 1..n : SaysSame(ls[i], ms[i], u)
    BY <1>8, <2>1 DEF SaysSame
  <2>3. p.levels \in Seq(ToSet(ls) \cup ToSet(ms)) /\ q.levels \in Seq(ToSet(ls) \cup ToSet(ms))
    BY <1>1, <1>2, <1>9, <1>11
  <2>4. \A i \in 1..Len(p.levels) : SaysSame(p.levels[i], q.levels[i], u)
    BY <1>1, <1>2, <1>11, <2>2
  <2>5. Len(p.levels) = Len(q.levels)
    BY <1>1, <1>2, <1>8, <1>11
  <2> QED
    BY <2>3, <2>4, <2>5, SameLevels
<1>15. ~Has(q, t)
  <2> SUFFICES ASSUME Has(q, t) PROVE FALSE
    OBVIOUS
  <2>1. q.levels \in Seq(ToSet(ms))
    BY <1>9, <1>11
  <2>2. PICK i \in 1..Len(q.levels) : FirstAt(q.levels, t, i) /\ t \notin q.levels[i].dels
    BY <2>1, AttrAt
  <2>3. t \in q.levels[1].dels
    BY <1>7, <1>8, <1>11
  <2>4. i \in 1..n /\ i # 1
    BY <1>8, <1>11, <2>2, <2>3
  <2>5. 1 \in 1..(i - 1) /\ Speaks(q.levels[1], t)
    BY <2>3, <2>4 DEF Speaks
  <2> QED
    BY <2>2, <2>5 DEF FirstAt
<1>16. Reads(q, Without(a, {t}))
  <2>1. PICK b : b = Without(a, {t})
    OBVIOUS
  <2>2. /\ DOMAIN b = DOMAIN a \ {t} /\ \A u \in DOMAIN a \ {t} : b[u] = a[u]
        /\ b = [u \in DOMAIN b |-> b[u]]
    <3>1. IsWithout(b, a, {t})
      BY <2>1, WithoutFacts
    <3> QED
      BY <3>1 DEF IsWithout, IsMap
  <2>3. \A u : u \in DOMAIN a <=> Has(p, u)
    BY DEF Sees, Reads
  <2>4. \A u \in DOMAIN a : a[u] = Attr(p, u)
    BY DEF Sees, Reads
  <2>5. ASSUME NEW u PROVE (u \in DOMAIN b <=> Has(q, u)) /\ (u \in DOMAIN b => b[u] = Attr(q, u))
    <3>1. CASE u = t
      BY <1>15, <2>2, <3>1
    <3>2. CASE u # t
      BY <1>14, <2>2, <2>3, <2>4, <3>2 DEF Agree
    <3> QED
      BY <3>1, <3>2
  <2>6. Reads(q, b)
    BY <2>2, <2>5 DEF Reads
  <2> QED
    BY <2>1, <2>6
<1>17. Sees(q, Without(a, {t}), d \cup {t})
  BY <1>7, <1>8, <1>11, <1>12, <1>13, <1>16 DEF Sees
<1> QED
  BY <1>11, <1>17 DEF q

LEMMA CloneSees ==
  ASSUME NEW p, NEW a, NEW d, Sees(p, a, d), NEW w
  PROVE  /\ Sees(Clone(p, w), a, {})
         /\ Clone(p, w).source = p.source /\ Clone(p, w).family = p.family /\ Clone(p, w).nlri = p.nlri
         /\ Clone(p, w).withdraw = w
<1>1. PICK q : q = Clone(p, w)
  OBVIOUS
<1>2. PICK ls : ls = p.levels
  OBVIOUS
<1>3. PICK n \in Nat : n = Len(ls) /\ n > 0 /\ DOMAIN ls = 1..n /\ ls \in Seq(ToSet(ls))
  BY <1>2 DEF Sees, ChainOf
<1>4. PICK E : E = ToSet(ls) \cup {NoLevel}
  OBVIOUS
<1>5. ls \in Seq(E) /\ <<NoLevel>> \in Seq(E)
  BY <1>3, <1>4
<1>6. PICK ms : ms = <<NoLevel>> \o ls /\ ms \in Seq(E)
  <2>1. <<NoLevel>> \o ls \in Seq(E)
    BY <1>5, ConcatElements
  <2> QED
    BY <2>1
<1>7. /\ Len(ms) = n + 1 /\ DOMAIN ms = 1..(n + 1) /\ ms[1] = NoLevel
      /\ \A i \in 1..n : ms[i + 1] = ls[i]
  BY <1>3, <1>5, <1>6
<1>8. DOMAIN p = {"source", "family", "nlri", "withdraw", "levels"}
  BY DEF Sees, ChainOf
<1>9. /\ DOMAIN q = {"source", "family", "nlri", "withdraw", "levels"} /\ q.levels = ms
      /\ q.source = p.source /\ q.family = p.family /\ q.nlri = p.nlri /\ q.withdraw = w
  <2>1. q = [p EXCEPT !.withdraw = w, !.levels = <<NoLevel>> \o p.levels]
    BY <1>1 DEF Clone
  <2>2. PICK m : m = <<NoLevel>> \o p.levels
    OBVIOUS
  <2>3. q = [p EXCEPT !.withdraw = w, !.levels = m]
    BY <2>1, <2>2
  <2>4. m = ms
    BY <1>2, <1>6, <2>2
  <2> QED
    BY <1>8, <2>3, <2>4
<1>10. \A t : ~Speaks(NoLevel, t)
  BY DEF Speaks, NoLevel
<1>11. ms \in Seq(ToSet(ms)) /\ ms # <<>>
  <2>1. PICK S : S = ToSet(ms)
    OBVIOUS
  <2>2. \A i \in 1..(n + 1) : ms[i] \in S
    BY <1>7, <2>1 DEF ToSet
  <2>3. ms = [i \in 1..(n + 1) |-> ms[i]] /\ n + 1 \in Nat
    BY <1>6, <1>7
  <2>4. ms \in Seq(S) /\ Len(ms) = n + 1
    BY <2>2, <2>3, IsList
  <2>5. ms # <<>>
    BY <1>7
  <2> QED
    BY <2>1, <2>4, <2>5
<1>12. ChainOf(q)
  <2>1. LevelOf(NoLevel)
    <3>1. NoLevel.attrs = <<>> /\ NoLevel = [attrs |-> NoLevel.attrs, dels |-> NoLevel.dels]
      BY DEF NoLevel
    <3>2. <<>> = [t \in DOMAIN <<>> |-> <<>>[t]]
      OBVIOUS
    <3> QED
      BY <3>1, <3>2 DEF LevelOf
  <2>2. \A i \in 1..n : LevelOf(ls[i])
    BY <1>2, <1>3 DEF Sees, ChainOf
  <2>3. ASSUME NEW i \in 1..(n + 1) PROVE LevelOf(ms[i])
    <3>1. CASE i = 1
      BY <1>7, <2>1, <3>1
    <3>2. CASE i # 1
      <4>1. i - 1 \in 1..n /\ (i - 1) + 1 = i
        BY <1>3, <3>2
      <4>2. ms[i] = ls[i - 1]
        BY <1>7, <4>1
      <4> QED
        BY <2>2, <4>1, <4>2
    <3> QED
      BY <3>1, <3>2
  <2> QED
    BY <1>7, <1>9, <1>11, <2>3 DEF ChainOf
<1>13. ASSUME NEW t, NEW i \in 1..n PROVE FirstAt(ls, t, i) <=> FirstAt(ms, t, i + 1)
  <2>1. Speaks(ls[i], t) <=> Speaks(ms[i + 1], t)
    BY <1>7
  <2>2. ASSUME \A j \in 1..(i - 1) : ~Speaks(ls[j], t), NEW j \in 1..((i + 1) - 1) PROVE ~Speaks(ms[j], t)
    <3>1. CASE j = 1
      BY <1>7, <1>10, <3>1
    <3>2. CASE j # 1
      <4>1. j - 1 \in 1..(i - 1) /\ j - 1 \in 1..n /\ (j - 1) + 1 = j
        BY <1>3, <3>2
      <4>2. ms[j] = ls[j - 1]
        BY <1>7, <4>1
      <4> QED
        BY <2>2, <4>1, <4>2
    <3> QED
      BY <3>1, <3>2
  <2>3. ASSUME \A j \in 1..((i + 1) - 1) : ~Speaks(ms[j], t), NEW j \in 1..(i - 1) PROVE ~Speaks(ls[j], t)
    <3>1. j + 1 \in 1..((i + 1) - 1) /\ j \in 1..n
      BY <1>3
    <3> QED
      BY <1>7, <2>3, <3>1
  <2> QED
    BY <2>1, <2>2, <2>3 DEF FirstAt
<1>14. ASSUME NEW t PROVE Agree(p, q, t)
  <2>1. /\ \A i \in 1..n : FirstAt(ls, t, i) /\ t \notin ls[i].dels => Has(p, t) /\ Attr(p, t) = ls[i].attrs[t]
        /\ Has(p, t) => \E i \in 1..n : FirstAt(ls, t, i) /\ t \notin ls[i].dels
    BY <1>2, <1>3, <1>5, AttrAt
  <2>2. /\ \A i \in 1..(n + 1) : FirstAt(ms, t, i) /\ t \notin ms[i].dels => Has(q, t) /\ Attr(q, t) = ms[i].attrs[t]
        /\ Has(q, t) => \E i \in 1..(n + 1) : FirstAt(ms, t, i) /\ t \notin ms[i].dels
    <3>1. q.levels \in Seq(E)
      BY <1>6, <1>9
    <3> QED
      BY <1>7, <1>9, <3>1, AttrAt
  <2>3. ASSUME Has(p, t) PROVE Has(q, t) /\ Attr(p, t) = Attr(q, t)
    <3>1. PICK i \in 1..n : FirstAt(ls, t, i) /\ t \notin ls[i].dels
      BY <2>1, <2>3
    <3>2. i + 1 \in 1..(n + 1) /\ ms[i + 1] = ls[i] /\ FirstAt(ms, t, i + 1)
      BY <1>7, <1>13, <3>1
    <3> QED
      BY <2>1, <2>2, <3>1, <3>2
  <2>4. ASSUME Has(q, t) PROVE Has(p, t)
    <3>1. PICK i \in 1..(n + 1) : FirstAt(ms, t, i) /\ t \notin ms[i].dels
      BY <2>2, <2>4
    <3>2. i # 1
      BY <1>7, <1>10, <3>1 DEF FirstAt
    <3>3. i - 1 \in 1..n /\ (i - 1) + 1 = i
      BY <1>3, <3>2
    <3>4. ms[i] = ls[i - 1]
      BY <1>7, <3>3
    <3>5. FirstAt(ls, t, i - 1)
      BY <1>13, <3>1, <3>3
    <3> QED
      BY <2>1, <3>1, <3>3, <3>4, <3>5
  <2> QED
    BY <2>3, <2>4 DEF Agree
<1>15. Reads(q, a)
  BY <1>14 DEF Sees, Reads, Agree
<1>16. q.levels[1].dels = {}
  BY <1>7, <1>9 DEF NoLevel
<1> QED
  BY <1>1, <1>9, <1>12, <1>15, <1>16 DEF Sees

\* A path that is made anew has one level.
LEMMA NewSees ==
  ASSUME NEW p, NEW a, NEW d, Sees(p, a, d), NEW family, NEW nlri
  PROVE  /\ Sees(NewPath(p, family, nlri), a, {})
         /\ NewPath(p, family, nlri).family = family /\ NewPath(p, family, nlri).nlri = nlri
         /\ NewPath(p, family, nlri).source = p.source /\ NewPath(p, family, nlri).withdraw = p.withdraw
<1>1. PICK q : q = NewPath(p, family, nlri)
  OBVIOUS
<1>2. PICK l : l = [attrs |-> a, dels |-> {}]
  OBVIOUS
<1>3. PICK ms : ms = <<l>>
  OBVIOUS
<1>4. GetPathAttrs(p) = a
  BY SeenAttrs
<1>5. DOMAIN p = {"source", "family", "nlri", "withdraw", "levels"}
  BY DEF Sees, ChainOf
<1>6. /\ DOMAIN q = {"source", "family", "nlri", "withdraw", "levels"} /\ q.levels = ms
      /\ q.source = p.source /\ q.family = family /\ q.nlri = nlri /\ q.withdraw = p.withdraw
  <2>1. q = [p EXCEPT !.family = family, !.nlri = nlri, !.levels = ms]
    BY <1>1, <1>2, <1>3, <1>4 DEF NewPath
  <2> QED
    BY <1>5, <2>1
<1>7. Len(ms) = 1 /\ DOMAIN ms = 1..1 /\ ms[1] = l /\ ms # <<>> /\ ms \in Seq(ToSet(ms)) /\ ms \in Seq({l})
  <2>1. ToSet(ms) = {l}
    BY <1>3 DEF ToSet
  <2> QED
    BY <1>3, <2>1
<1>8. l.attrs = a /\ l.dels = {} /\ LevelOf(l)
  BY <1>2 DEF LevelOf, Sees, Reads
<1>9. ChainOf(q)
  BY <1>6, <1>7, <1>8 DEF ChainOf
<1>10. ASSUME NEW t PROVE (Has(q, t) <=> t \in DOMAIN a) /\ (t \in DOMAIN a => Attr(q, t) = a[t])
  <2>1. FirstAt(ms, t, 1) <=> t \in DOMAIN a
    <3>1. 1..(1 - 1) = {}
      OBVIOUS
    <3> QED
      BY <1>7, <1>8, <3>1 DEF FirstAt, Speaks
  <2>2. /\ \A i \in 1..1 : FirstAt(ms, t, i) /\ t \notin ms[i].dels => Has(q, t) /\ Attr(q, t) = ms[i].attrs[t]
        /\ Has(q, t) => \E i \in 1..1 : FirstAt(ms, t, i) /\ t \notin ms[i].dels
    BY <1>6, <1>7, AttrAt
  <2>3. 1..1 = {1}
    OBVIOUS
  <2> QED
    BY <1>7, <1>8, <2>1, <2>2, <2>3
<1>11. Reads(q, a)
  BY <1>10 DEF Reads, Sees
<1> QED
  BY <1>1, <1>6, <1>7, <1>8, <1>9, <1>11 DEF Sees

LEMMA SeenAttr ==
  ASSUME NEW p, NEW a, NEW d, Sees(p, a, d), NEW t, NEW default
  PROVE  /\ Has(p, t) <=> t \in DOMAIN a
         /\ AttrOr(p, t, default) = IF t \in DOMAIN a THEN a[t] ELSE default
BY DEF Sees, Reads, AttrOr

\* One change of a path and its attributes.
LEMMA SetPath ==
  ASSUME NEW p, NEW a, NEW d, Sees(p, a, d), NEW t, t \notin d, NEW v
  PROVE  \E b : /\ IsPut(b, a, t, v) /\ Sees(setPathAttr(p, t, v), b, d)
                /\ SameButLevels(p, setPathAttr(p, t, v))
<1>1. PICK b : b = Put(a, t, v)
  OBVIOUS
<1> QED
  BY <1>1, SetSees, PutFacts

LEMMA DelPath ==
  ASSUME NEW p, NEW a, NEW d, Sees(p, a, d), NEW t
  PROVE  \E b : /\ IsWithout(b, a, {t}) /\ Sees(delPathAttr(p, t), b, d \cup {t})
                /\ SameButLevels(p, delPathAttr(p, t))
<1>1. PICK b : b = Without(a, {t})
  OBVIOUS
<1> QED
  BY <1>1, DelSees, WithoutFacts

-----------------------------------------------------------------------------
(* VRFs *)

GlobalNlri(path, vrf, family) ==
  [prefix |-> path.nlri.prefix, rd |-> vrf.rd, id |-> IF family = "evpn" THEN 0 ELSE path.nlri.id, localId |-> 0]

\* A path of a VRF in the global table: b are its attributes, a those it had.
InGlobal(out, b, path, a, vrf) ==
  /\ Sees(out, b, {"nexthop"})
  /\ out.family = GlobalFamily[path.family] /\ out.nlri = GlobalNlri(path, vrf, GlobalFamily[path.family])
  /\ DOMAIN b = ((DOMAIN a \cup {"ext"}) \ {"nexthop"}) \cup {"mpreach"}
  /\ b["ext"] = AttrOr(path, "ext", <<>>) \o vrf.export /\ b["mpreach"] = GetNexthop(path)
  /\ \A t \in DOMAIN a : t \notin {"ext", "nexthop", "mpreach"} => b[t] = a[t]

LEMMA FamilyNames ==
  /\ DOMAIN GlobalFamily = {"ipv4", "ipv6", "evpn"}
  /\ GlobalFamily["ipv4"] = "vpnv4" /\ GlobalFamily["ipv6"] = "vpnv6" /\ GlobalFamily["evpn"] = "evpn"
  /\ DOMAIN LocalFamily = {"vpnv4", "vpnv6", "flow4vpn", "flow6vpn"}
  /\ LocalFamily["vpnv4"] = "ipv4" /\ LocalFamily["vpnv6"] = "ipv6"
BY DEF GlobalFamily, LocalFamily

LEMMA ToGlobalFacts ==
  ASSUME NEW path, NEW a, NEW d, Sees(path, a, d), path.family \in {"ipv4", "ipv6", "evpn"}, NEW vrf
  PROVE  \E b : InGlobal(ToGlobal(path, vrf), b, path, a, vrf)
<1>1. PICK family : family = GlobalFamily[path.family]
  OBVIOUS
<1>2. PICK nlri : nlri = GlobalNlri(path, vrf, family)
  OBVIOUS
<1>3. PICK new : new = NewPath(path, family, nlri)
  OBVIOUS
<1>4. Sees(new, a, {}) /\ new.family = family /\ new.nlri = nlri
  BY <1>3, NewSees
<1>5. AttrOr(new, "ext", <<>>) = AttrOr(path, "ext", <<>>)
  BY <1>4, SeenAttr
<1>6. PICK e : e = AttrOr(path, "ext", <<>>) \o vrf.export
  OBVIOUS
<1>7. PICK ext : ext = setPathAttr(new, "ext", e)
  OBVIOUS
<1>8. PICK b1 : IsPut(b1, a, "ext", e) /\ Sees(ext, b1, {}) /\ SameButLevels(new, ext)
  BY <1>4, <1>7, SetPath
<1>9. PICK cut : cut = delPathAttr(ext, "nexthop")
  OBVIOUS
<1>10. PICK b2 : IsWithout(b2, b1, {"nexthop"}) /\ Sees(cut, b2, {} \cup {"nexthop"}) /\ SameButLevels(ext, cut)
  BY <1>8, <1>9, DelPath
<1>11. Sees(cut, b2, {"nexthop"})
  <2>1. {} \cup {"nexthop"} = {"nexthop"}
    OBVIOUS
  <2> QED
    BY <1>10, <2>1
<1>12. PICK nh : nh = GetNexthop(path)
  OBVIOUS
<1>13. PICK out : out = setPathAttr(cut, "mpreach", nh)
  OBVIOUS
<1>14. PICK b : IsPut(b, b2, "mpreach", nh) /\ Sees(out, b, {"nexthop"}) /\ SameButLevels(cut, out)
  <2>1. "mpreach" \notin {"nexthop"}
    OBVIOUS
  <2> QED
    BY <1>11, <1>13, <2>1, SetPath
<1>15. ToGlobal(path, vrf) = out
  <2>1. path.family \in DOMAIN GlobalFamily
    BY FamilyNames
  <2> QED
    BY <1>1, <1>2, <1>3, <1>5, <1>6, <1>7, <1>9, <1>12, <1>13, <2>1 DEF ToGlobal, GlobalNlri
<1>16. out.family = family /\ out.nlri = nlri
  BY <1>4, <1>8, <1>10, <1>14 DEF SameButLevels
<1>17. /\ DOMAIN b = ((DOMAIN a \cup {"ext"}) \ {"nexthop"}) \cup {"mpreach"} /\ b["ext"] = e /\ b["mpreach"] = nh
       /\ \A t \in DOMAIN a : t \notin {"ext", "nexthop", "mpreach"} => b[t] = a[t]
  BY <1>8, <1>10, <1>14 DEF IsPut, IsWithout
<1> QED
  BY <1>1, <1>2, <1>6, <1>12, <1>14, <1>15, <1>16, <1>17 DEF InGlobal

\* The targets of two lists are those of the one and those of the other.
LEMMA ImportsTargets ==
  ASSUME NEW out, NEW b, NEW d, Sees(out, b, d), NEW x, NEW y, CommunitiesOf(x), CommunitiesOf(y),
         "ext" \in DOMAIN b, b["ext"] = x \o y, NEW vrf, TargetsOnly(vrf.import)
  PROVE  CanImportToVrf(vrf, out) <=> (Targets(x) \cup Targets(y)) \cap Targets(vrf.import) # {}
<1> DEFINE es == x \o y
           n == Len(x)
           m == Len(y)
           im == vrf.import
<1>1. AttrOr(out, "ext", <<>>) = es
  BY SeenAttr
<1>2. n \in Nat /\ m \in Nat /\ DOMAIN x = 1..n /\ DOMAIN y = 1..m
  BY DEF CommunitiesOf
<1>3. PICK S : x \in Seq(S) /\ y \in Seq(S)
  <2>1. x \in Seq(ToSet(x) \cup ToSet(y)) /\ y \in Seq(ToSet(x) \cup ToSet(y))
    BY DEF CommunitiesOf
  <2> QED
    BY <2>1
<1>4. /\ DOMAIN es = 1..(n + m)
      /\ \A i \in 1..n : es[i] = x[i]
      /\ \A i \in 1..m : es[n + i] = y[i]
  BY <1>2, <1>3
<1>5. \A i \in DOMAIN im : im[i].subtype = "rt"
  BY DEF TargetsOnly
<1>6. CanImportToVrf(vrf, out) <=>
        \E i \in DOMAIN es : es[i].transitive /\ \E j \in DOMAIN im : es[i].subtype = "rt" /\ es[i].value \in {im[j].value}
  <2> HIDE DEF es, im
  <2>1. PICK c : c = [option |-> "any", set |-> [exps |-> [i \in DOMAIN im |-> {im[i].value}],
                                                subtypes |-> [i \in DOMAIN im |-> "rt"]]]
    OBVIOUS
  <2>2. PICK q : q = [ext |-> es]
    OBVIOUS
  <2>3. CanImportToVrf(vrf, out) <=> ExtCommunityHolds(c, q)
    BY <1>1, <2>1, <2>2 DEF CanImportToVrf, im
  <2>4. /\ c.option = "any" /\ q.ext = es /\ DOMAIN c.set.exps = DOMAIN im
        /\ \A j \in DOMAIN im : c.set.exps[j] = {im[j].value} /\ c.set.subtypes[j] = "rt"
    BY <2>1, <2>2
  <2>5. ExtCommunityHolds(c, q) <=>
          \E i \in DOMAIN es : es[i].transitive /\ \E j \in DOMAIN c.set.exps :
                                 es[i].subtype = c.set.subtypes[j] /\ es[i].value \in c.set.exps[j]
    BY <2>4 DEF ExtCommunityHolds
  <2> QED
    BY <2>3, <2>4, <2>5
<1> HIDE DEF es, n, m, im
<1>7. \A i \in DOMAIN es : \/ \E j \in DOMAIN x : es[i] = x[j]
                           \/ \E j \in DOMAIN y : es[i] = y[j]
  <2> SUFFICES ASSUME NEW i \in 1..(n + m), ~(\E j \in DOMAIN x : es[i] = x[j]) PROVE \E j \in DOMAIN y : es[i] = y[j]
    BY <1>4
  <2>1. i \notin 1..n
    BY <1>2, <1>4
  <2>2. i - n \in 1..m /\ n + (i - n) = i
    BY <1>2, <2>1
  <2> QED
    BY <1>2, <1>4, <2>2
<1>8. ASSUME CanImportToVrf(vrf, out) PROVE (Targets(x) \cup Targets(y)) \cap Targets(im) # {}
  <2>1. PICK i \in DOMAIN es, j \in DOMAIN im : es[i].subtype = "rt" /\ es[i].value = im[j].value
    BY <1>6, <1>8
  <2>2. es[i].value \in Targets(x) \cup Targets(y)
    BY <1>7, <2>1 DEF Targets
  <2>3. im[j].value \in Targets(im)
    BY <1>5 DEF Targets
  <2> QED
    BY <2>1, <2>2, <2>3
<1>9. ASSUME NEW v, v \in Targets(x) \cup Targets(y), v \in Targets(im) PROVE CanImportToVrf(vrf, out)
  <2>1. PICK j \in DOMAIN im : v = im[j].value
    BY <1>9 DEF Targets
  <2>2. CASE v \in Targets(x)
    <3>1. PICK i \in DOMAIN x : x[i].subtype = "rt" /\ v = x[i].value
      BY <2>2 DEF Targets
    <3>2. x[i].transitive
      BY <3>1 DEF CommunitiesOf
    <3>3. i \in DOMAIN es /\ es[i] = x[i]
      BY <1>2, <1>4
    <3> QED
      BY <1>6, <2>1, <3>1, <3>2, <3>3
  <2>3. CASE v \in Targets(y)
    <3>1. PICK i \in DOMAIN y : y[i].subtype = "rt" /\ v = y[i].value
      BY <2>3 DEF Targets
    <3>2. y[i].transitive
      BY <3>1 DEF CommunitiesOf
    <3>3. n + i \in DOMAIN es /\ es[n + i] = y[i]
      BY <1>2, <1>4
    <3> QED
      BY <1>6, <2>1, <3>1, <3>2, <3>3
  <2> QED
    BY <1>9, <2>2, <2>3
<1>10. CanImportToVrf(vrf, out) <=> (Targets(x) \cup Targets(y)) \cap Targets(im) # {}
  BY <1>8, <1>9
<1> QED
  BY <1>10 DEF im

\* A path of the global table in a VRF again: c are its attributes.
InVrf(back, c, out, b, family) ==
  /\ back.family = family /\ back.nlri = [out.nlri EXCEPT !.rd = Nothing, !.id = 0]
  /\ \E d : Sees(back, c, d)
  /\ family = "ipv4" => /\ DOMAIN c = ((DOMAIN b \ {"ext"}) \ {"mpreach"}) \cup {"nexthop"}
                        /\ c["nexthop"] = b["mpreach"]
                        /\ \A t \in DOMAIN b : t \notin {"ext", "mpreach", "nexthop"} => c[t] = b[t]
  /\ family = "ipv6" => DOMAIN c = DOMAIN b \ {"ext"} /\ \A t \in DOMAIN b : t # "ext" => c[t] = b[t]

LEMMA ToLocalFacts ==
  ASSUME NEW out, NEW b, NEW d, Sees(out, b, d), NEW family \in {"ipv4", "ipv6"},
         out.family = GlobalFamily[family], "mpreach" \in DOMAIN b, "nexthop" \notin DOMAIN b
  PROVE  \E c : InVrf(ToLocal(out), c, out, b, family)
<1>1. out.family = IF family = "ipv4" THEN "vpnv4" ELSE "vpnv6"
  BY FamilyNames
<1>2. LocalFamily[out.family] = family /\ out.family \in DOMAIN LocalFamily
  BY <1>1, FamilyNames
<1>3. PICK nlri : nlri = [out.nlri EXCEPT !.rd = Nothing, !.id = 0]
  OBVIOUS
<1>4. PICK new : new = NewPath(out, family, nlri)
  OBVIOUS
<1>5. Sees(new, b, {}) /\ new.family = family /\ new.nlri = nlri
  BY <1>4, NewSees
<1>6. PICK bare : bare = delPathAttr(new, "ext")
  OBVIOUS
<1>7. PICK b1 : IsWithout(b1, b, {"ext"}) /\ Sees(bare, b1, {} \cup {"ext"}) /\ SameButLevels(new, bare)
  BY <1>5, <1>6, DelPath
<1>8. DOMAIN b1 = DOMAIN b \ {"ext"} /\ \A t \in DOMAIN b : t # "ext" => b1[t] = b[t]
  BY <1>7 DEF IsWithout
<1>9. CASE family = "ipv6"
  <2>1. ToLocal(out) = bare
    BY <1>1, <1>2, <1>3, <1>4, <1>6, <1>9 DEF ToLocal
  <2>2. InVrf(bare, b1, out, b, family)
    BY <1>3, <1>5, <1>7, <1>8, <1>9 DEF InVrf, SameButLevels
  <2> QED
    BY <2>1, <2>2
<1>10. CASE family = "ipv4"
  <2>1. GetNexthop(bare) = b["mpreach"]
    BY <1>7, <1>8, SeenAttr DEF GetNexthop
  <2>2. PICK cut : cut = delPathAttr(bare, "mpreach")
    OBVIOUS
  <2>3. PICK b2 : /\ IsWithout(b2, b1, {"mpreach"}) /\ Sees(cut, b2, ({} \cup {"ext"}) \cup {"mpreach"})
                  /\ SameButLevels(bare, cut)
    BY <1>7, <2>2, DelPath
  <2>4. PICK back : back = setPathAttr(cut, "nexthop", b["mpreach"])
    OBVIOUS
  <2>5. PICK c : /\ IsPut(c, b2, "nexthop", b["mpreach"]) /\ Sees(back, c, ({} \cup {"ext"}) \cup {"mpreach"})
                 /\ SameButLevels(cut, back)
    <3>1. "nexthop" \notin ({} \cup {"ext"}) \cup {"mpreach"}
      OBVIOUS
    <3> QED
      BY <2>3, <2>4, <3>1, SetPath
  <2>6. ToLocal(out) = back
    BY <1>1, <1>2, <1>3, <1>4, <1>6, <1>10, <2>1, <2>2, <2>4 DEF ToLocal
  <2>7. back.family = family /\ back.nlri = nlri
    BY <1>5, <1>7, <2>3, <2>5 DEF SameButLevels
  <2>8. /\ DOMAIN c = ((DOMAIN b \ {"ext"}) \ {"mpreach"}) \cup {"nexthop"}
        /\ c["nexthop"] = b["mpreach"]
        /\ \A t \in DOMAIN b : t \notin {"ext", "mpreach", "nexthop"} => c[t] = b[t]
    BY <1>8, <2>3, <2>5 DEF IsPut, IsWithout
  <2>9. InVrf(back, c, out, b, family)
    BY <1>3, <1>10, <2>5, <2>7, <2>8 DEF InVrf
  <2> QED
    BY <2>6, <2>9
<1> QED
  BY <1>9, <1>10

LEMMA VrfsFit ==
  ASSUME QuestionsFit PROVE VrfRoundTrip
<1> SUFFICES ASSUME Asked("vrf")
             PROVE  LET path == question.path
                        out  == ToGlobal(path, question.from)
                        back == ToLocal(out)
                        targets == Targets(AttrOr(path, "ext", <<>>)) \cup Targets(question.from.export)
                        same == {"ext"}
                    IN  /\ out.nlri.rd = question.from.rd
                        /\ CanImportToVrf(question.to, out) <=> targets \cap Targets(question.to.import) # {}
                        /\ path.family # "evpn" =>
                             /\ back.family = path.family /\ back.nlri.prefix = path.nlri.prefix /\ back.nlri.rd = Nothing
                             /\ Without(GetPathAttrs(back), same) = Without(GetPathAttrs(path), same)
                             /\ ~Has(back, "ext")
  BY DEF VrfRoundTrip
<1>1. PICK path \in VrfPaths, v \in Vrfs, w \in Vrfs : question.path = path /\ question.from = v /\ question.to = w
  BY DEF QuestionsFit, VrfQuestions
<1>2. /\ ChainOf(path) /\ path.family \in {"ipv4", "ipv6", "evpn"}
      /\ Has(path, "nexthop") <=> path.family = "ipv4"
      /\ Has(path, "mpreach") <=> path.family # "ipv4"
      /\ CommunitiesOf(AttrOr(path, "ext", <<>>)) /\ CommunitiesOf(v.export) /\ TargetsOnly(w.import)
  BY VrfsAssumption
<1>3. PICK a : a = GetPathAttrs(path)
  OBVIOUS
<1>4. PICK d : Sees(path, a, d)
  BY <1>2, <1>3, SeesItsAttrs
<1>5. PICK out : out = ToGlobal(path, v)
  OBVIOUS
<1>6. PICK b : InGlobal(out, b, path, a, v)
  BY <1>2, <1>4, <1>5, ToGlobalFacts
<1>7. out.nlri.rd = v.rd
  BY <1>6 DEF InGlobal, GlobalNlri
<1>8. CanImportToVrf(w, out) <=> (Targets(AttrOr(path, "ext", <<>>)) \cup Targets(v.export)) \cap Targets(w.import) # {}
  <2>1. PICK x : x = AttrOr(path, "ext", <<>>)
    OBVIOUS
  <2>2. Sees(out, b, {"nexthop"}) /\ "ext" \in DOMAIN b /\ b["ext"] = x \o v.export
    BY <1>6, <2>1 DEF InGlobal
  <2>3. CommunitiesOf(x) /\ CommunitiesOf(v.export) /\ TargetsOnly(w.import)
    BY <1>2, <2>1
  <2>4. CanImportToVrf(w, out) <=> (Targets(x) \cup Targets(v.export)) \cap Targets(w.import) # {}
    BY <2>2, <2>3, ImportsTargets
  <2> QED
    BY <2>1, <2>4
<1>9. ASSUME path.family # "evpn"
      PROVE  /\ ToLocal(out).family = path.family /\ ToLocal(out).nlri.prefix = path.nlri.prefix
             /\ ToLocal(out).nlri.rd = Nothing
             /\ Without(GetPathAttrs(ToLocal(out)), {"ext"}) = Without(a, {"ext"})
             /\ ~Has(ToLocal(out), "ext")
  <2>1. PICK family \in {"ipv4", "ipv6"} : family = path.family
    BY <1>2, <1>9
  <2>2. /\ Sees(out, b, {"nexthop"}) /\ out.family = GlobalFamily[family]
        /\ "mpreach" \in DOMAIN b /\ "nexthop" \notin DOMAIN b
    BY <1>6, <2>1 DEF InGlobal
  <2>3. PICK back : back = ToLocal(out)
    OBVIOUS
  <2>4. PICK c : InVrf(back, c, out, b, family)
    BY <2>2, <2>3, ToLocalFacts
  <2>5. PICK e : Sees(back, c, e)
    BY <2>4 DEF InVrf
  <2>6. GetPathAttrs(back) = c
    BY <2>5, SeenAttrs
  <2>7. ("nexthop" \in DOMAIN a <=> family = "ipv4") /\ ("mpreach" \in DOMAIN a <=> family = "ipv6")
    BY <1>2, <1>4, <2>1, SeenAttr
  <2>8. GetNexthop(path) = IF family = "ipv4" THEN a["nexthop"] ELSE a["mpreach"]
    BY <1>4, <2>7, SeenAttr DEF GetNexthop
  <2>9. /\ DOMAIN b = ((DOMAIN a \cup {"ext"}) \ {"nexthop"}) \cup {"mpreach"} /\ b["mpreach"] = GetNexthop(path)
        /\ \A t \in DOMAIN a : t \notin {"ext", "nexthop", "mpreach"} => b[t] = a[t]
    BY <1>6 DEF InGlobal
  <2>10. DOMAIN c \ {"ext"} = DOMAIN a \ {"ext"} /\ "ext" \notin DOMAIN c /\ \A t \in DOMAIN a \ {"ext"} : c[t] = a[t]
    <3>1. CASE family = "ipv4"
      <4>1. /\ DOMAIN c = ((DOMAIN b \ {"ext"}) \ {"mpreach"}) \cup {"nexthop"}
            /\ c["nexthop"] = b["mpreach"]
            /\ \A t \in DOMAIN b : t \notin {"ext", "mpreach", "nexthop"} => c[t] = b[t]
        BY <2>4, <3>1 DEF InVrf
      <4>2. DOMAIN c \ {"ext"} = DOMAIN a \ {"ext"} /\ "ext" \notin DOMAIN c
        BY <2>7, <2>9, <3>1, <4>1
      <4>3. ASSUME NEW t \in DOMAIN a \ {"ext"} PROVE c[t] = a[t]
        <5>1. CASE t = "nexthop"
          BY <2>8, <2>9, <3>1, <4>1, <5>1
        <5>2. CASE t # "nexthop"
          <6>1. t # "mpreach"
            BY <2>7, <3>1
          <6> QED
            BY <2>9, <4>1, <5>2, <6>1
        <5> QED
          BY <5>1, <5>2
      <4> QED
        BY <4>2, <4>3
    <3>2. CASE family = "ipv6"
      <4>1. DOMAIN c = DOMAIN b \ {"ext"} /\ \A t \in DOMAIN b : t # "ext" => c[t] = b[t]
        BY <2>4, <3>2 DEF InVrf
      <4>2. DOMAIN c \ {"ext"} = DOMAIN a \ {"ext"} /\ "ext" \notin DOMAIN c
        BY <2>7, <2>9, <3>2, <4>1
      <4>3. ASSUME NEW t \in DOMAIN a \ {"ext"} PROVE c[t] = a[t]
        <5>1. CASE t = "mpreach"
          BY <2>8, <2>9, <3>2, <4>1, <5>1
        <5>2. CASE t # "mpreach"
          <6>1. t # "nexthop"
            BY <2>7, <3>2
          <6> QED
            BY <2>9, <4>1, <5>2, <6>1
        <5> QED
          BY <5>1, <5>2
      <4> QED
        BY <4>2, <4>3
    <3> QED
      BY <3>1, <3>2
  <2>11. Without(c, {"ext"}) = Without(a, {"ext"})
    BY <2>10 DEF Without
  <2>12. ~Has(back, "ext")
    BY <2>5, <2>10, SeenAttr
  <2>13. back.family = family /\ back.nlri.prefix = path.nlri.prefix /\ back.nlri.rd = Nothing
    <3>1. PICK x : x = out.nlri /\ x = GlobalNlri(path, v, GlobalFamily[path.family])
      BY <1>6 DEF InGlobal
    <3>2. back.nlri = [x EXCEPT !.rd = Nothing, !.id = 0]
      BY <2>4, <3>1 DEF InVrf
    <3>3. DOMAIN x = {"prefix", "rd", "id", "localId"} /\ x.prefix = path.nlri.prefix
      BY <3>1 DEF GlobalNlri
    <3> QED
      BY <2>4, <3>2, <3>3 DEF InVrf
  <2> QED
    BY <2>1, <2>3, <2>6, <2>11, <2>12, <2>13
<1> QED
  BY <1>1, <1>3, <1>5, <1>7, <1>8, <1>9

-----------------------------------------------------------------------------
(* AS_PATHs *)

\* What stands for a segment: its ASes, itself unless it is of the confederation, itself unless it is empty.
AsOf == [s \in Segs |-> s.as]
Unconfed == [s \in Segs |-> IF s.type \notin Confed THEN <<s>> ELSE <<>>]
Full == [s \in Segs |-> IF s.as # <<>> THEN <<s>> ELSE <<>>]

LEMMA SegmentLists ==
  /\ AsOf \in [Segs -> Seq(Nat)] /\ Unconfed \in [Segs -> Seq(Segs)] /\ Full \in [Segs -> Seq(Segs)]
  /\ \A s \in Segs : s.type \in SegmentTypes /\ s.as \in Seq(Nat) /\ s = [type |-> s.type, as |-> s.as]
<1>1. \A s \in Segs : s.type \in SegmentTypes /\ s.as \in Seq(Nat) /\ s = [type |-> s.type, as |-> s.as]
  BY DEF Segs
<1>2. \A s \in Segs : <<s>> \in Seq(Segs)
  OBVIOUS
<1>3. <<>> \in Seq(Segs)
  OBVIOUS
<1> QED
  BY <1>1, <1>2, <1>3 DEF AsOf, Unconfed, Full

\* What is spelled for a single segment, and for none.
LEMMA SegmentSpells ==
  ASSUME NEW s \in Segs
  PROVE  /\ Spell(<<s>>, AsOf, Nat) = AsOf[s] /\ Spell(<<s>>, Unconfed, Segs) = Unconfed[s] /\ Spell(<<s>>, Full, Segs) = Full[s]
         /\ Spell(<<>>, AsOf, Nat) = <<>> /\ Spell(<<>>, Unconfed, Segs) = <<>> /\ Spell(<<>>, Full, Segs) = <<>>
<1>1. Spell(<<s>>, AsOf, Nat) = AsOf[s] /\ Spell(<<>>, AsOf, Nat) = <<>>
  <2>1. AsOf \in [Segs -> Seq(Nat)]
    BY SegmentLists
  <2> QED
    BY <2>1, SpellOne, SpellEmpty
<1>2. Spell(<<s>>, Unconfed, Segs) = Unconfed[s] /\ Spell(<<>>, Unconfed, Segs) = <<>>
  <2>1. Unconfed \in [Segs -> Seq(Segs)]
    BY SegmentLists
  <2> QED
    BY <2>1, SpellOne, SpellEmpty
<1>3. Spell(<<s>>, Full, Segs) = Full[s] /\ Spell(<<>>, Full, Segs) = <<>>
  <2>1. Full \in [Segs -> Seq(Segs)]
    BY SegmentLists
  <2> QED
    BY <2>1, SpellOne, SpellEmpty
<1> QED
  BY <1>1, <1>2, <1>3

LEMMA AsesSpell ==
  ASSUME NEW segs \in Seq(Segs)
  PROVE  ASesOf(segs) = Spell(segs, AsOf, Nat) /\ ASesOf(segs) \in Seq(Nat)
<1>1. AsOf \in [Segs -> Seq(Nat)]
  BY SegmentLists
<1>2. FlattenSeq(Mapped(segs, AsOf)) = Spell(segs, AsOf, Nat)
  BY <1>1, FlattenMapped
<1>3. Mapped(segs, AsOf) = [i \in DOMAIN segs |-> segs[i].as]
  BY DEF AsOf, Mapped
<1>4. ASesOf(segs) = FlattenSeq([i \in DOMAIN segs |-> segs[i].as])
  BY DEF ASesOf
<1> QED
  BY <1>1, <1>2, <1>3, <1>4, SpellType

\* Kept of the elements with a property, when a function gives those elements.
LEMMA KeptAre ==
  ASSUME NEW E, NEW l \in Seq(E), NEW S, NEW v \in [E -> Seq(E)],
         \A e \in ToSet(l) : v[e] = IF e \in S THEN <<e>> ELSE <<>>
  PROVE  Kept(l, S) = Spell(l, v, E)
<1>1. PICK u : u = [e \in E |-> IF e \in S THEN <<e>> ELSE <<>>]
  OBVIOUS
<1>2. u \in [E -> Seq(E)] /\ Kept(l, S) = Spell(l, u, E)
  <2>1. \A e \in E : (IF e \in S THEN <<e>> ELSE <<>>) \in Seq(E)
    OBVIOUS
  <2>2. u \in [E -> Seq(E)]
    BY <1>1, <2>1
  <2>3. Keeps(u, E, S)
    BY <1>1 DEF Keeps
  <2> QED
    BY <2>2, <2>3, KeptSpells
<1>3. ToSet(l) \subseteq E
  BY DEF ToSet
<1>4. Same(l, u, v)
  BY <1>1, <1>3 DEF Same
<1>5. Spell(l, u, E) = Spell(l, v, E)
  BY <1>2, <1>4, SpellSame
<1> QED
  BY <1>2, <1>5

LEMMA NoConfedSpells ==
  ASSUME NEW segs \in Seq(Segs)
  PROVE  NoConfed(segs) = Spell(segs, Unconfed, Segs) /\ NoConfed(segs) \in Seq(Segs)
<1>1. PICK S : S = {s \in ToSet(segs) : s.type \notin Confed}
  OBVIOUS
<1>2. ToSet(segs) \subseteq Segs
  BY DEF ToSet
<1>3. \A s \in ToSet(segs) : Unconfed[s] = IF s \in S THEN <<s>> ELSE <<>>
  BY <1>1, <1>2 DEF Unconfed
<1>4. Unconfed \in [Segs -> Seq(Segs)]
  BY SegmentLists
<1>5. Kept(segs, S) = Spell(segs, Unconfed, Segs)
  BY <1>3, <1>4, KeptAre
<1> QED
  BY <1>1, <1>4, <1>5, SpellType DEF NoConfed

LEMMA NonEmptySpells ==
  ASSUME NEW segs \in Seq(Segs)
  PROVE  /\ NonEmpty(segs) = Spell(segs, Full, Segs) /\ NonEmpty(segs) \in Seq(Segs)
         /\ \A s \in ToSet(NonEmpty(segs)) : s \in ToSet(segs) /\ s.as # <<>>
<1>1. PICK S : S = {s \in ToSet(segs) : s.as # <<>>}
  OBVIOUS
<1>2. ToSet(segs) \subseteq Segs
  BY DEF ToSet
<1>3. \A s \in ToSet(segs) : Full[s] = IF s \in S THEN <<s>> ELSE <<>>
  BY <1>1, <1>2 DEF Full
<1>4. Full \in [Segs -> Seq(Segs)]
  BY SegmentLists
<1>5. Kept(segs, S) = Spell(segs, Full, Segs)
  BY <1>3, <1>4, KeptAre
<1>6. ToSet(Kept(segs, S)) = ToSet(segs) \cap S
  BY KeptElements
<1>7. NonEmpty(segs) = Kept(segs, S)
  BY <1>1 DEF NonEmpty
<1> QED
  BY <1>1, <1>4, <1>5, <1>6, <1>7, SpellType

LEMMA SpellShort ==
  ASSUME NEW E, NEW F, NEW l \in Seq(E), NEW u \in [E -> Seq(F)], \A e \in E : Len(u[e]) <= 1
  PROVE  Len(Spell(l, u, F)) <= Len(l)
<1> DEFINE T == {k \in Seq(E) : Len(Spell(k, u, F)) <= Len(k)}
<1>1. <<>> \in T
  <2>1. <<>> \in Seq(E) /\ Len(<<>>) = 0
    OBVIOUS
  <2> QED
    BY <2>1, SpellEmpty
<1>2. ASSUME NEW k \in T, NEW e \in E PROVE Append(k, e) \in T
  <2>1. k \in Seq(E) /\ Append(k, e) \in Seq(E) /\ Len(Append(k, e)) = Len(k) + 1 /\ Len(k) \in Nat
    BY AppendIndex
  <2>2. Spell(Append(k, e), u, F) = Spell(k, u, F) \o u[e]
    BY <2>1, SpellAppend
  <2>3. PICK x \in Seq(F) : x = Spell(k, u, F)
    BY <2>1, SpellType
  <2>4. PICK y \in Seq(F) : y = u[e] /\ Len(y) <= 1
    OBVIOUS
  <2>5. Len(x \o y) = Len(x) + Len(y) /\ Len(x) \in Nat /\ Len(y) \in Nat
    OBVIOUS
  <2>6. Len(x) <= Len(k)
    BY <2>3
  <2>7. Len(x \o y) <= Len(k) + 1
    BY <2>1, <2>4, <2>5, <2>6
  <2> QED
    BY <2>1, <2>2, <2>3, <2>4, <2>7
<1>3. T = Seq(E)
  <2>1. T \in SUBSET Seq(E)
    OBVIOUS
  <2> HIDE DEF T
  <2> QED
    BY <1>1, <1>2, <2>1, ListInduction
<1>4. l \in T
  <2> HIDE DEF T
  <2> QED
    BY <1>3
<1> QED
  BY <1>4

LEMMA SegmentsMapped ==
  ASSUME NEW segs \in Seq(Segs), NEW m \in [Segs -> Segs]
  PROVE  \E u \in [Segs -> Seq(Segs)] : u = [s \in Segs |-> <<m[s]>>] /\ Mapped(segs, m) = Spell(segs, u, Segs)
<1>1. PICK u : u = [s \in Segs |-> <<m[s]>>]
  OBVIOUS
<1>2. u \in [Segs -> Seq(Segs)] /\ Maps(u, m, Segs, Segs)
  <2>1. \A s \in Segs : <<m[s]>> \in Seq(Segs)
    OBVIOUS
  <2> QED
    BY <1>1, <2>1 DEF Maps
<1>3. Mapped(segs, m) = Spell(segs, u, Segs)
  <2>1. Maps(u, m, Segs, Segs)
    BY <1>2
  <2> QED
    BY <2>1, MapSpells
<1> QED
  BY <1>1, <1>2, <1>3

\* The segments with v[a] for each of their ASes a.
Respelled(s, v) == [type |-> s.type, as |-> Spell(s.as, v, Nat)]
Respells(m, v) == m = [s \in Segs |-> Respelled(s, v)]
NonEmptyOf(new, segs, m) == new = NonEmpty(Mapped(segs, m))

LEMMA ChangedAses ==
  ASSUME NEW segs \in Seq(Segs), NEW v \in [Nat -> Seq(Nat)], NEW m, Respells(m, v), NEW new, NonEmptyOf(new, segs, m)
  PROVE  /\ new \in Seq(Segs) /\ \A s \in ToSet(new) : s.as # <<>> /\ \E i \in DOMAIN segs : s = Respelled(segs[i], v)
         /\ ASesOf(new) = Spell(ASesOf(segs), v, Nat)
         /\ ASesOf(NoConfed(new)) = Spell(ASesOf(NoConfed(segs)), v, Nat)
<1>1. /\ AsOf \in [Segs -> Seq(Nat)] /\ Unconfed \in [Segs -> Seq(Segs)] /\ Full \in [Segs -> Seq(Segs)]
      /\ \A s \in Segs : s.type \in SegmentTypes /\ s.as \in Seq(Nat)
  BY SegmentLists
<1>2. m \in [Segs -> Segs]
  <2>1. ASSUME NEW s \in Segs PROVE Respelled(s, v) \in Segs
    <3>1. Spell(s.as, v, Nat) \in Seq(Nat)
      BY <1>1, SpellType
    <3> QED
      BY <1>1, <3>1 DEF Respelled, Segs
  <2> QED
    BY <2>1 DEF Respells
<1>3. PICK u \in [Segs -> Seq(Segs)] : u = [s \in Segs |-> <<m[s]>>] /\ Mapped(segs, m) = Spell(segs, u, Segs)
  BY <1>2, SegmentsMapped
<1>6. PICK some \in Seq(Segs) : some = Mapped(segs, m)
  BY <1>3, SpellType
<1>7. new = Spell(some, Full, Segs) /\ new \in Seq(Segs) /\ \A s \in ToSet(new) : s \in ToSet(some) /\ s.as # <<>>
  BY <1>6, NonEmptySpells DEF NonEmptyOf
<1>8. PICK w1 : w1 = [s \in Segs |-> Full[m[s]]]
  OBVIOUS
<1>9. Composed(segs, u, Full, w1, Segs, Segs, Segs)
  <2>1. w1 \in [Segs -> Seq(Segs)]
    BY <1>1, <1>2, <1>8
  <2>2. ASSUME NEW s \in Segs PROVE w1[s] = Spell(u[s], Full, Segs)
    <3>1. PICK t \in Segs : t = m[s]
      BY <1>2
    <3>2. Spell(<<t>>, Full, Segs) = Full[t]
      BY SegmentSpells
    <3> QED
      BY <1>3, <1>8, <3>1, <3>2
  <2> QED
    BY <1>1, <1>3, <2>1, <2>2 DEF Composed
<1>10. new = Spell(segs, w1, Segs)
  BY <1>3, <1>6, <1>7, <1>9, SpellSpell
<1>11. w1 \in [Segs -> Seq(Segs)]
  BY <1>9 DEF Composed
<1>12. ASSUME NEW s \in Segs
       PROVE  /\ m[s] \in Segs /\ m[s].as = Spell(s.as, v, Nat) /\ m[s].type = s.type
              /\ w1[s] = IF Spell(s.as, v, Nat) = <<>> THEN <<>> ELSE <<m[s]>>
  <2>1. m[s] \in Segs /\ m[s] = Respelled(s, v)
    BY <1>2 DEF Respells
  <2>2. m[s].as = Spell(s.as, v, Nat) /\ m[s].type = s.type
    BY <2>1 DEF Respelled
  <2>3. w1[s] = IF m[s].as # <<>> THEN <<m[s]>> ELSE <<>>
    BY <1>8, <2>1 DEF Full
  <2> QED
    BY <2>1, <2>2, <2>3
<1>13. ASesOf(new) = Spell(ASesOf(segs), v, Nat)
  <2>1. PICK w2 : w2 = [s \in Segs |-> Spell(s.as, v, Nat)]
    OBVIOUS
  <2>2. w2 \in [Segs -> Seq(Nat)]
    <3>1. \A s \in Segs : Spell(s.as, v, Nat) \in Seq(Nat)
      BY <1>1, SpellType
    <3> QED
      BY <2>1, <3>1
  <2>3. Composed(segs, w1, AsOf, w2, Segs, Segs, Nat)
    <3>1. ASSUME NEW s \in Segs PROVE w2[s] = Spell(w1[s], AsOf, Nat)
      <4>1. PICK t \in Segs : t = m[s]
        BY <1>2
      <4>2. Spell(<<t>>, AsOf, Nat) = t.as /\ Spell(<<>>, AsOf, Nat) = <<>>
        <5>1. Spell(<<t>>, AsOf, Nat) = AsOf[t] /\ Spell(<<>>, AsOf, Nat) = <<>>
          BY SegmentSpells
        <5> QED
          BY <5>1 DEF AsOf
      <4>3. w2[s] = Spell(s.as, v, Nat)
        BY <2>1
      <4> QED
        BY <1>12, <4>1, <4>2, <4>3
    <3> QED
      BY <1>1, <1>11, <2>2, <3>1 DEF Composed
  <2>4. Composed(segs, AsOf, v, w2, Segs, Nat, Nat)
    <3>1. \A s \in Segs : w2[s] = Spell(AsOf[s], v, Nat)
      BY <2>1 DEF AsOf
    <3> QED
      BY <1>1, <2>2, <3>1 DEF Composed
  <2>5. Spell(new, AsOf, Nat) = Spell(segs, w2, Nat)
    BY <1>10, <2>3, SpellSpell
  <2>6. Spell(Spell(segs, AsOf, Nat), v, Nat) = Spell(segs, w2, Nat)
    BY <2>4, SpellSpell
  <2> QED
    BY <1>7, <2>5, <2>6, AsesSpell
<1>14. ASesOf(NoConfed(new)) = Spell(ASesOf(NoConfed(segs)), v, Nat)
  <2>1. PICK w3 : w3 = [s \in Segs |-> IF s.type \in Confed \/ Spell(s.as, v, Nat) = <<>> THEN <<>> ELSE <<m[s]>>]
    OBVIOUS
  <2>2. w3 \in [Segs -> Seq(Segs)]
    <3>1. \A s \in Segs : <<m[s]>> \in Seq(Segs)
      BY <1>2
    <3>2. <<>> \in Seq(Segs)
      OBVIOUS
    <3> QED
      BY <2>1, <3>1, <3>2
  <2>3. Composed(segs, w1, Unconfed, w3, Segs, Segs, Segs)
    <3>1. ASSUME NEW s \in Segs PROVE w3[s] = Spell(w1[s], Unconfed, Segs)
      <4>1. PICK t \in Segs : t = m[s] /\ t.type = s.type
        BY <1>12
      <4>2. Spell(<<t>>, Unconfed, Segs) = (IF s.type \in Confed THEN <<>> ELSE <<t>>) /\ Spell(<<>>, Unconfed, Segs) = <<>>
        <5>1. Spell(<<t>>, Unconfed, Segs) = Unconfed[t] /\ Spell(<<>>, Unconfed, Segs) = <<>>
          BY SegmentSpells
        <5> QED
          BY <4>1, <5>1 DEF Unconfed
      <4>3. w3[s] = IF s.type \in Confed \/ Spell(s.as, v, Nat) = <<>> THEN <<>> ELSE <<m[s]>>
        BY <2>1
      <4> QED
        BY <1>12, <4>1, <4>2, <4>3
    <3> QED
      BY <1>1, <1>11, <2>2, <3>1 DEF Composed
  <2>4. PICK w4 : w4 = [s \in Segs |-> IF s.type \in Confed THEN <<>> ELSE Spell(s.as, v, Nat)]
    OBVIOUS
  <2>5. w4 \in [Segs -> Seq(Nat)]
    <3>1. \A s \in Segs : Spell(s.as, v, Nat) \in Seq(Nat)
      BY <1>1, SpellType
    <3>2. <<>> \in Seq(Nat)
      OBVIOUS
    <3> QED
      BY <2>4, <3>1, <3>2
  <2>6. Composed(segs, w3, AsOf, w4, Segs, Segs, Nat)
    <3>1. ASSUME NEW s \in Segs PROVE w4[s] = Spell(w3[s], AsOf, Nat)
      <4>1. PICK t \in Segs : t = m[s] /\ t.as = Spell(s.as, v, Nat)
        BY <1>12
      <4>2. Spell(<<t>>, AsOf, Nat) = t.as /\ Spell(<<>>, AsOf, Nat) = <<>>
        <5>1. Spell(<<t>>, AsOf, Nat) = AsOf[t] /\ Spell(<<>>, AsOf, Nat) = <<>>
          BY SegmentSpells
        <5> QED
          BY <5>1 DEF AsOf
      <4>3. w4[s] = IF s.type \in Confed THEN <<>> ELSE Spell(s.as, v, Nat)
        BY <2>4
      <4>4. w3[s] = IF s.type \in Confed \/ Spell(s.as, v, Nat) = <<>> THEN <<>> ELSE <<m[s]>>
        BY <2>1
      <4> QED
        BY <4>1, <4>2, <4>3, <4>4
    <3> QED
      BY <1>1, <2>2, <2>5, <3>1 DEF Composed
  <2>7. Spell(new, Unconfed, Segs) = Spell(segs, w3, Segs)
    BY <1>10, <2>3, SpellSpell
  <2>8. PICK nc \in Seq(Segs) : nc = NoConfed(new) /\ nc = Spell(segs, w3, Segs)
    BY <1>7, <2>7, NoConfedSpells
  <2>9. ASesOf(nc) = Spell(segs, w4, Nat)
    BY <2>6, <2>8, SpellSpell, AsesSpell
  <2>10. PICK w5 : w5 = [s \in Segs |-> IF s.type \in Confed THEN <<>> ELSE s.as]
    OBVIOUS
  <2>11. w5 \in [Segs -> Seq(Nat)]
    <3>1. <<>> \in Seq(Nat)
      OBVIOUS
    <3> QED
      BY <1>1, <2>10, <3>1
  <2>12. Composed(segs, Unconfed, AsOf, w5, Segs, Segs, Nat)
    <3>1. ASSUME NEW s \in Segs PROVE w5[s] = Spell(Unconfed[s], AsOf, Nat)
      <4>1. Spell(<<s>>, AsOf, Nat) = AsOf[s] /\ Spell(<<>>, AsOf, Nat) = <<>>
        BY SegmentSpells
      <4>2. AsOf[s] = s.as /\ Unconfed[s] = IF s.type \notin Confed THEN <<s>> ELSE <<>>
        BY DEF AsOf, Unconfed
      <4>3. w5[s] = IF s.type \in Confed THEN <<>> ELSE s.as
        BY <2>10
      <4> QED
        BY <4>1, <4>2, <4>3
    <3> QED
      BY <1>1, <2>11, <3>1 DEF Composed
  <2>13. ASesOf(NoConfed(segs)) = Spell(segs, w5, Nat)
    <3>1. PICK old \in Seq(Segs) : old = NoConfed(segs) /\ old = Spell(segs, Unconfed, Segs)
      BY NoConfedSpells
    <3>2. ASesOf(old) = Spell(old, AsOf, Nat)
      BY AsesSpell
    <3>3. Spell(Spell(segs, Unconfed, Segs), AsOf, Nat) = Spell(segs, w5, Nat)
      BY <2>12, SpellSpell
    <3> QED
      BY <3>1, <3>2, <3>3
  <2>14. Composed(segs, w5, v, w4, Segs, Nat, Nat)
    <3>1. ASSUME NEW s \in Segs PROVE w4[s] = Spell(w5[s], v, Nat)
      <4>1. Spell(<<>>, v, Nat) = <<>>
        BY SpellEmpty
      <4>2. w4[s] = (IF s.type \in Confed THEN <<>> ELSE Spell(s.as, v, Nat)) /\ w5[s] = IF s.type \in Confed THEN <<>> ELSE s.as
        BY <2>4, <2>10
      <4> QED
        BY <4>1, <4>2
    <3> QED
      BY <2>5, <2>11, <3>1 DEF Composed
  <2>15. Spell(Spell(segs, w5, Nat), v, Nat) = Spell(segs, w4, Nat)
    BY <2>14, SpellSpell
  <2> QED
    BY <2>8, <2>9, <2>13, <2>15
<1>15. ASSUME NEW s \in ToSet(new) PROVE s.as # <<>> /\ \E i \in DOMAIN segs : s = Respelled(segs[i], v)
  <2>1. s \in ToSet(some) /\ s.as # <<>>
    BY <1>7
  <2>2. PICK i \in DOMAIN some : s = some[i]
    BY <2>1 DEF ToSet
  <2>3. DOMAIN some = DOMAIN segs /\ some[i] = m[segs[i]] /\ segs[i] \in Segs
    BY <1>6, <2>2 DEF Mapped
  <2>4. m[segs[i]] = Respelled(segs[i], v)
    BY <2>3 DEF Respells
  <2> QED
    BY <2>1, <2>2, <2>3, <2>4
<1> QED
  BY <1>7, <1>13, <1>14, <1>15

-----------------------------------------------------------------------------
(* Private ASes *)

\* What is left of a list of ASes.
Bare(l, asn, option) ==
  CASE option = "none"    -> l
    [] option = "all"     -> Kept(l, ToSet(l) \ PrivateASes)
    [] option = "replace" -> [i \in DOMAIN l |-> IF l[i] \in PrivateASes THEN asn ELSE l[i]]

Bares(v, asn, option) ==
  /\ v \in [Nat -> Seq(Nat)] /\ \A a \in Nat : Len(v[a]) <= 1
  /\ \A l \in Seq(Nat) : Bare(l, asn, option) = Spell(l, v, Nat)

LEMMA BareAll ==
  ASSUME NEW asn PROVE \E v : Bares(v, asn, "all")
<1>1. PICK v : v = [a \in Nat |-> IF a \in PrivateASes THEN <<>> ELSE <<a>>]
  OBVIOUS
<1>2. v \in [Nat -> Seq(Nat)] /\ \A a \in Nat : Len(v[a]) <= 1
  <2>1. \A a \in Nat : <<a>> \in Seq(Nat) /\ Len(<<a>>) = 1
    OBVIOUS
  <2>2. <<>> \in Seq(Nat) /\ Len(<<>>) = 0
    OBVIOUS
  <2>3. v \in [Nat -> Seq(Nat)]
    BY <1>1, <2>1, <2>2
  <2>4. \A a \in Nat : Len(v[a]) <= 1
    BY <1>1, <2>1, <2>2
  <2> QED
    BY <2>3, <2>4
<1>3. ASSUME NEW l \in Seq(Nat) PROVE Bare(l, asn, "all") = Spell(l, v, Nat)
  <2>1. PICK S : S = ToSet(l) \ PrivateASes
    OBVIOUS
  <2>2. ToSet(l) \subseteq Nat
    BY DEF ToSet
  <2>3. \A a \in ToSet(l) : v[a] = IF a \in S THEN <<a>> ELSE <<>>
    BY <1>1, <2>1, <2>2
  <2>4. v \in [Nat -> Seq(Nat)]
    BY <1>2
  <2>5. Kept(l, S) = Spell(l, v, Nat)
    BY <2>3, <2>4, KeptAre
  <2> QED
    BY <2>1, <2>5 DEF Bare
<1> QED
  BY <1>2, <1>3 DEF Bares

LEMMA BareReplaced ==
  ASSUME NEW asn \in Nat PROVE \E v : Bares(v, asn, "replace")
<1>1. PICK m : m = [a \in Nat |-> IF a \in PrivateASes THEN asn ELSE a]
  OBVIOUS
<1>2. PICK v : v = [a \in Nat |-> <<m[a]>>]
  OBVIOUS
<1>3. m \in [Nat -> Nat]
  BY <1>1
<1>4. v \in [Nat -> Seq(Nat)] /\ Maps(v, m, Nat, Nat) /\ \A a \in Nat : Len(v[a]) <= 1
  <2>1. \A a \in Nat : <<m[a]>> \in Seq(Nat) /\ Len(<<m[a]>>) = 1
    BY <1>3
  <2>2. v \in [Nat -> Seq(Nat)]
    BY <1>2, <2>1
  <2>3. \A a \in Nat : Len(v[a]) <= 1
    BY <1>2, <2>1
  <2>4. Maps(v, m, Nat, Nat)
    BY <1>2, <1>3, <2>2 DEF Maps
  <2> QED
    BY <2>2, <2>3, <2>4
<1>5. ASSUME NEW l \in Seq(Nat) PROVE Bare(l, asn, "replace") = Spell(l, v, Nat)
  <2>1. Maps(v, m, Nat, Nat)
    BY <1>4
  <2>2. Mapped(l, m) = Spell(l, v, Nat)
    BY <2>1, MapSpells
  <2>3. \A i \in DOMAIN l : m[l[i]] = IF l[i] \in PrivateASes THEN asn ELSE l[i]
    <3>1. \A i \in DOMAIN l : l[i] \in Nat
      OBVIOUS
    <3> QED
      BY <1>1, <3>1
  <2>4. Mapped(l, m) = [i \in DOMAIN l |-> IF l[i] \in PrivateASes THEN asn ELSE l[i]]
    BY <2>3 DEF Mapped
  <2> QED
    BY <2>2, <2>4 DEF Bare
<1> QED
  BY <1>4, <1>5 DEF Bares

\* The segments of what is left.
PublicOf(segs, asn, option) ==
  IF option = "none" THEN segs ELSE NonEmpty([i \in DOMAIN segs |-> [segs[i] EXCEPT !.as = Bare(@, asn, option)]])

LEMMA PublicPath ==
  ASSUME NEW segs, AsPathOf(segs), NEW asn \in Nat, NEW option \in {"none", "all", "replace"}
  PROVE  /\ AsPathOf(PublicOf(segs, asn, option))
         /\ ASesOf(PublicOf(segs, asn, option)) = Bare(ASesOf(segs), asn, option)
         /\ ASesOf(NoConfed(PublicOf(segs, asn, option))) = Bare(ASesOf(NoConfed(segs)), asn, option)
<1>1. CASE option = "none"
  BY <1>1 DEF PublicOf, Bare
<1>2. CASE option # "none"
  <2>1. PICK v : Bares(v, asn, option)
    BY <1>2, BareAll, BareReplaced
  <2>2. v \in [Nat -> Seq(Nat)] /\ \A a \in Nat : Len(v[a]) <= 1
    BY <2>1 DEF Bares
  <2>3. segs \in Seq(Segs) /\ \A i \in DOMAIN segs : segs[i] \in Segs /\ Len(segs[i].as) \in 1..MaxSegment
    BY DEF AsPathOf
  <2>4. PICK m : Respells(m, v)
    BY DEF Respells
  <2>5. ASSUME NEW i \in DOMAIN segs PROVE [segs[i] EXCEPT !.as = Bare(@, asn, option)] = m[segs[i]]
    <3>1. PICK s \in Segs : s = segs[i]
      BY <2>3
    <3>2. PICK ty \in SegmentTypes, l \in Seq(Nat) : s = [type |-> ty, as |-> l]
      BY DEF Segs
    <3>3. Bare(l, asn, option) = Spell(l, v, Nat)
      BY <2>1 DEF Bares
    <3>4. [s EXCEPT !.as = Bare(@, asn, option)] = [type |-> ty, as |-> Bare(l, asn, option)]
      <4>1. s.as = l
        BY <3>2
      <4>2. PICK w : w = Bare(l, asn, option)
        OBVIOUS
      <4>3. [s EXCEPT !.as = w] = [type |-> ty, as |-> w]
        BY <3>2
      <4>4. [s EXCEPT !.as = Bare(@, asn, option)] = [s EXCEPT !.as = w]
        BY <4>1, <4>2
      <4> QED
        BY <4>2, <4>3, <4>4
    <3>5. m[s] = [type |-> ty, as |-> Spell(l, v, Nat)]
      BY <2>4, <3>2 DEF Respells, Respelled
    <3> QED
      BY <3>1, <3>3, <3>4, <3>5
  <2>6. PICK new : new = PublicOf(segs, asn, option)
    OBVIOUS
  <2>7. NonEmptyOf(new, segs, m)
    BY <1>2, <2>5, <2>6 DEF PublicOf, NonEmptyOf, Mapped
  <2>8. /\ new \in Seq(Segs) /\ \A s \in ToSet(new) : s.as # <<>> /\ \E i \in DOMAIN segs : s = Respelled(segs[i], v)
        /\ ASesOf(new) = Spell(ASesOf(segs), v, Nat)
        /\ ASesOf(NoConfed(new)) = Spell(ASesOf(NoConfed(segs)), v, Nat)
    BY <2>2, <2>3, <2>4, <2>7, ChangedAses
  <2>9. ASesOf(segs) \in Seq(Nat) /\ ASesOf(NoConfed(segs)) \in Seq(Nat)
    BY <2>3, AsesSpell, NoConfedSpells
  <2>10. Bare(ASesOf(segs), asn, option) = Spell(ASesOf(segs), v, Nat)
    BY <2>1, <2>9 DEF Bares
  <2>11. Bare(ASesOf(NoConfed(segs)), asn, option) = Spell(ASesOf(NoConfed(segs)), v, Nat)
    BY <2>1, <2>9 DEF Bares
  <2>12. ASSUME NEW j \in DOMAIN new PROVE Len(new[j].as) \in 1..MaxSegment
    <3>1. PICK s : s = new[j] /\ s \in ToSet(new) /\ s \in Segs
      BY <2>8 DEF ToSet
    <3>2. PICK i \in DOMAIN segs : s = Respelled(segs[i], v)
      BY <2>8, <3>1
    <3>3. PICK l \in Seq(Nat) : l = segs[i].as /\ Len(l) \in 1..MaxSegment
      BY <2>3, SegmentLists
    <3>4. s.as = Spell(l, v, Nat)
      BY <3>2, <3>3 DEF Respelled
    <3>5. Len(Spell(l, v, Nat)) <= Len(l)
      BY <2>2, SpellShort
    <3>6. PICK k \in Seq(Nat) : k = s.as /\ k # <<>>
      BY <2>8, <3>1, SegmentLists
    <3>7. Len(k) \in Nat /\ Len(k) # 0
      BY <3>6
    <3>8. Len(k) <= Len(l)
      BY <3>4, <3>5, <3>6
    <3>9. Len(l) \in Nat /\ MaxSegment \in Nat
      BY ExportAssumption
    <3> QED
      BY <3>1, <3>3, <3>6, <3>7, <3>8, <3>9
  <2> QED
    BY <2>6, <2>8, <2>10, <2>11, <2>12 DEF AsPathOf
<1> QED
  BY <1>1, <1>2


-----------------------------------------------------------------------------
(* The own AS *)

LEMMA CopiesAre ==
  ASSUME NEW asn PROVE Copies(asn, 1) = <<asn>> /\ Copies(asn, 0) = <<>>
<1>1. 1..1 = {1} /\ 1..0 = {}
  OBVIOUS
<1>2. PICK c : c = Copies(asn, 1)
  OBVIOUS
<1>3. c = [i \in {1} |-> asn]
  BY <1>1, <1>2 DEF Copies
<1>4. c = <<asn>>
  <2>1. c = [i \in 1..1 |-> c[i]] /\ c[1] = asn
    BY <1>1, <1>3
  <2>2. c \in Seq({asn}) /\ Len(c) = 1
    <3>1. \A i \in 1..1 : c[i] \in {asn}
      BY <2>1
    <3> QED
      BY <2>1, <3>1, IsList
  <2>3. PICK o \in Seq({asn}) : o = <<asn>> /\ Len(o) = 1 /\ o[1] = asn
    <3>1. asn \in {asn}
      OBVIOUS
    <3>2. <<asn>> \in Seq({asn}) /\ Len(<<asn>>) = 1 /\ <<asn>>[1] = asn
      BY <3>1
    <3> QED
      BY <3>2
  <2>4. c = o
    BY <2>1, <2>2, <2>3
  <2> QED
    BY <2>3, <2>4
<1>5. PICK e : e = Copies(asn, 0)
  OBVIOUS
<1>6. e = [i \in {} |-> asn]
  BY <1>1, <1>5 DEF Copies
<1>7. e = <<>>
  BY <1>6
<1> QED
  BY <1>2, <1>4, <1>5, <1>7

LEMMA FirstAndRest ==
  ASSUME NEW E, NEW l \in Seq(E), l # <<>>
  PROVE  l[1] \in E /\ Tail(l) \in Seq(E) /\ l = <<l[1]>> \o Tail(l)
OBVIOUS

LEMMA FirstOf ==
  ASSUME NEW E, NEW e \in E, NEW r \in Seq(E)
  PROVE  /\ <<e>> \o r \in Seq(E) /\ <<e>> \o r # <<>> /\ (<<e>> \o r)[1] = e
         /\ Head(<<e>> \o r) = e /\ Tail(<<e>> \o r) = r /\ Len(<<e>> \o r) = Len(r) + 1
OBVIOUS

\* With the AS in front: in the first segment, or in one of its own.
Opens(P, segs, asn, type) ==
  \E x \in Segs, rest \in Seq(Segs) :
    /\ P = <<x>> \o rest /\ x.type = type
    /\ \/ x.as = <<asn>> /\ segs = rest
       \/ \E f \in Segs : /\ f.type = type /\ segs = <<f>> \o rest
                          /\ x.as = <<asn>> \o f.as /\ Len(f.as) < MaxSegment

LEMMA PrependsOne ==
  ASSUME NEW segs, AsPathOf(segs), NEW asn \in Nat, NEW confed
  PROVE  Opens(PrependAsn([aspath |-> segs], asn, 1, confed).aspath, segs, asn, IF confed THEN "confedseq" ELSE "seq")
<1>1. PICK type \in SegmentTypes : type = IF confed THEN "confedseq" ELSE "seq"
  BY DEF SegmentTypes, Confed
<1>2. PICK P : P = PrependAsn([aspath |-> segs], asn, 1, confed).aspath
  OBVIOUS
<1>3. segs \in Seq(Segs) /\ \A i \in DOMAIN segs : Len(segs[i].as) \in 1..MaxSegment
  BY DEF AsPathOf
<1>4. PICK own \in Segs : own = [type |-> type, as |-> <<asn>>]
  <2>1. <<asn>> \in Seq(Nat)
    OBVIOUS
  <2> QED
    BY <2>1 DEF Segs
<1>5. CASE ~(segs # <<>> /\ segs[1].type = type)
  <2>1. P = <<own>> \o segs
    <3>1. <<asn>> # <<>>
      OBVIOUS
    <3> QED
      BY <1>1, <1>2, <1>4, <1>5, <3>1, CopiesAre DEF PrependAsn
  <2> QED
    BY <1>1, <1>2, <1>3, <1>4, <2>1 DEF Opens
<1>6. CASE segs # <<>> /\ segs[1].type = type
  <2>1. PICK f \in Segs, rest \in Seq(Segs) : f = segs[1] /\ rest = Tail(segs) /\ segs = <<f>> \o rest
    BY <1>3, <1>6, FirstAndRest
  <2>2. PICK l \in Seq(Nat) : l = f.as /\ f = [type |-> type, as |-> l]
    BY <1>6, <2>1 DEF Segs
  <2>3. PICK k \in Nat : k = Len(l) /\ k \in 1..MaxSegment /\ MaxSegment \in Nat /\ MaxSegment > 1
    <3>1. 1 \in DOMAIN segs
      BY <1>3, <1>6
    <3>2. Len(l) \in 1..MaxSegment
      BY <1>3, <2>1, <2>2, <3>1
    <3>3. Len(l) \in Nat
      OBVIOUS
    <3> QED
      BY <3>2, <3>3, ExportAssumption
  <2>4. CASE k = MaxSegment
    <3>1. P = <<own>> \o segs
      <4>1. 1 + k > MaxSegment /\ MaxSegment - k = 0 /\ ~(1 = MaxSegment) /\ 1 - 0 = 1
        BY <2>3, <2>4
      <4>2. <<>> \o l = l /\ <<asn>> # <<>>
        BY <2>2
      <4>3. segs = <<[type |-> type, as |-> <<>> \o l]>> \o rest
        BY <2>1, <2>2, <4>2
      <4> HIDE <2>1
      <4>4. segs[1].as = l /\ Tail(segs) = rest
        BY <2>1, <2>2
      <4>5. P = LET room == IF 1 + k > MaxSegment THEN MaxSegment - k ELSE 1
                    new  == IF room < 1 /\ 1 = MaxSegment THEN l ELSE Copies(asn, 1 - room)
                    old  == <<[type |-> type, as |-> Copies(asn, room) \o l]>> \o rest
                IN  IF new = <<>> THEN old ELSE <<[type |-> type, as |-> new]>> \o old
        BY <1>1, <1>2, <1>6, <2>3, <4>4 DEF PrependAsn
      <4>6. P = IF Copies(asn, 1) = <<>> THEN <<[type |-> type, as |-> Copies(asn, 0) \o l]>> \o rest
                ELSE <<[type |-> type, as |-> Copies(asn, 1)]>> \o (<<[type |-> type, as |-> Copies(asn, 0) \o l]>> \o rest)
        BY <4>1, <4>5
      <4> QED
        BY <1>4, <4>2, <4>3, <4>6, CopiesAre
    <3> QED
      BY <1>1, <1>2, <1>3, <1>4, <3>1 DEF Opens
  <2>5. CASE k # MaxSegment
    <3>1. PICK x \in Segs : x = [type |-> type, as |-> <<asn>> \o l]
      <4>1. <<asn>> \o l \in Seq(Nat)
        BY <2>2, FirstOf
      <4> QED
        BY <4>1 DEF Segs
    <3>2. P = <<x>> \o rest
      <4>1. ~(1 + k > MaxSegment) /\ ~(1 < 1) /\ 1 - 1 = 0
        BY <2>3, <2>5
      <4>4. segs[1].as = l /\ Tail(segs) = rest
        BY <2>1, <2>2
      <4>5. P = LET room == IF 1 + k > MaxSegment THEN MaxSegment - k ELSE 1
                    new  == IF room < 1 /\ 1 = MaxSegment THEN l ELSE Copies(asn, 1 - room)
                    old  == <<[type |-> type, as |-> Copies(asn, room) \o l]>> \o rest
                IN  IF new = <<>> THEN old ELSE <<[type |-> type, as |-> new]>> \o old
        BY <1>1, <1>2, <1>6, <2>3, <4>4 DEF PrependAsn
      <4>6. P = IF Copies(asn, 0) = <<>> THEN <<[type |-> type, as |-> Copies(asn, 1) \o l]>> \o rest
                ELSE <<[type |-> type, as |-> Copies(asn, 0)]>> \o (<<[type |-> type, as |-> Copies(asn, 1) \o l]>> \o rest)
        BY <4>1, <4>5
      <4> QED
        BY <3>1, <4>6, CopiesAre
    <3>3. f.type = type /\ x.type = type /\ x.as = <<asn>> \o f.as /\ Len(f.as) < MaxSegment
      BY <2>2, <2>3, <2>5, <3>1
    <3> QED
      BY <1>1, <1>2, <2>1, <3>1, <3>2, <3>3 DEF Opens
  <2> QED
    BY <2>4, <2>5
<1> QED
  BY <1>5, <1>6


LEMMA AsesConcat ==
  ASSUME NEW x \in Segs, NEW rest \in Seq(Segs)
  PROVE  /\ ASesOf(<<x>> \o rest) = x.as \o ASesOf(rest) /\ ASesOf(rest) \in Seq(Nat)
         /\ NoConfed(<<x>> \o rest) = Unconfed[x] \o NoConfed(rest) /\ NoConfed(rest) \in Seq(Segs)
<1>1. PICK one \in Seq(Segs) : one = <<x>>
  <2>1. <<x>> \in Seq(Segs)
    OBVIOUS
  <2> QED
    BY <2>1
<1>2. PICK all \in Seq(Segs) : all = one \o rest
  BY ConcatIndex
<1>3. ASesOf(<<x>> \o rest) = x.as \o ASesOf(rest)
  <2>1. AsOf \in [Segs -> Seq(Nat)]
    BY SegmentLists
  <2>2. Spell(one \o rest, AsOf, Nat) = Spell(one, AsOf, Nat) \o Spell(rest, AsOf, Nat)
    <3>1. BothSpelled(one, rest, AsOf, Segs, Nat)
      BY <2>1 DEF BothSpelled
    <3> QED
      BY <3>1, SpellConcat
  <2>3. Spell(one, AsOf, Nat) = x.as
    <3>1. Spell(<<x>>, AsOf, Nat) = AsOf[x]
      BY SegmentSpells
    <3> QED
      BY <1>1, <3>1 DEF AsOf
  <2>4. ASesOf(all) = Spell(all, AsOf, Nat) /\ ASesOf(rest) = Spell(rest, AsOf, Nat)
    BY AsesSpell
  <2> QED
    BY <1>1, <1>2, <2>2, <2>3, <2>4
<1>4. NoConfed(<<x>> \o rest) = Unconfed[x] \o NoConfed(rest)
  <2>1. Unconfed \in [Segs -> Seq(Segs)]
    BY SegmentLists
  <2>2. Spell(one \o rest, Unconfed, Segs) = Spell(one, Unconfed, Segs) \o Spell(rest, Unconfed, Segs)
    <3>1. BothSpelled(one, rest, Unconfed, Segs, Segs)
      BY <2>1 DEF BothSpelled
    <3> QED
      BY <3>1, SpellConcat
  <2>3. Spell(one, Unconfed, Segs) = Unconfed[x]
    BY <1>1, SegmentSpells
  <2>4. NoConfed(all) = Spell(all, Unconfed, Segs) /\ NoConfed(rest) = Spell(rest, Unconfed, Segs)
    BY NoConfedSpells
  <2> QED
    BY <1>1, <1>2, <2>2, <2>3, <2>4
<1> QED
  BY <1>3, <1>4, AsesSpell, NoConfedSpells

LEMMA AsPathConcat ==
  ASSUME NEW x \in Segs, NEW rest \in Seq(Segs)
  PROVE  AsPathOf(<<x>> \o rest) <=> Len(x.as) \in 1..MaxSegment /\ AsPathOf(rest)
<1>1. PICK n \in Nat : n = Len(rest) /\ DOMAIN rest = 1..n
  OBVIOUS
<1>2. PICK all \in Seq(Segs) : all = <<x>> \o rest
  BY FirstOf
<1>3. DOMAIN all = 1..(n + 1) /\ all[1] = x /\ \A i \in 1..n : all[i + 1] = rest[i]
  BY <1>1, <1>2
<1>4. ASSUME AsPathOf(all) PROVE Len(x.as) \in 1..MaxSegment /\ AsPathOf(rest)
  <2>1. 1 \in 1..(n + 1) /\ \A i \in 1..n : i + 1 \in 1..(n + 1)
    OBVIOUS
  <2> QED
    BY <1>1, <1>3, <1>4, <2>1 DEF AsPathOf
<1>5. ASSUME Len(x.as) \in 1..MaxSegment, AsPathOf(rest) PROVE AsPathOf(all)
  <2>1. ASSUME NEW i \in 1..(n + 1) PROVE Len(all[i].as) \in 1..MaxSegment
    <3>1. CASE i = 1
      BY <1>3, <1>5, <3>1
    <3>2. CASE i # 1
      <4>1. PICK j \in 1..n : i = j + 1
        <5>1. i - 1 \in 1..n /\ i = (i - 1) + 1
          BY <3>2
        <5> QED
          BY <5>1
      <4>2. Len(rest[j].as) \in 1..MaxSegment
        BY <1>1, <1>5 DEF AsPathOf
      <4> QED
        BY <1>3, <4>1, <4>2
    <3> QED
      BY <3>1, <3>2
  <2> QED
    BY <1>3, <2>1 DEF AsPathOf
<1> QED
  BY <1>2, <1>4, <1>5

\* The AS comes first, and the others as they were.
LEMMA Opened ==
  ASSUME NEW segs, AsPathOf(segs), NEW asn \in Nat, NEW type, NEW P, Opens(P, segs, asn, type)
  PROVE  /\ AsPathOf(P) /\ P # <<>> /\ P[1].type = type
         /\ Head(ASesOf(P)) = asn /\ Tail(ASesOf(P)) = ASesOf(segs)
<1>1. PICK x \in Segs, rest \in Seq(Segs) :
        /\ P = <<x>> \o rest /\ x.type = type
        /\ \/ x.as = <<asn>> /\ segs = rest
           \/ \E f \in Segs : /\ f.type = type /\ segs = <<f>> \o rest
                              /\ x.as = <<asn>> \o f.as /\ Len(f.as) < MaxSegment
  BY DEF Opens
<1>2. P # <<>> /\ P[1].type = type
  BY <1>1, FirstOf
<1>3. PICK r \in Seq(Nat) : r = ASesOf(rest) /\ ASesOf(P) = x.as \o r
  BY <1>1, AsesConcat
<1>4. MaxSegment \in Nat /\ MaxSegment > 1
  BY ExportAssumption
<1>5. CASE x.as = <<asn>> /\ segs = rest
  <2>1. Len(x.as) \in 1..MaxSegment
    BY <1>4, <1>5
  <2>2. AsPathOf(P)
    BY <1>1, <1>5, <2>1, AsPathConcat
  <2>3. Head(<<asn>> \o r) = asn /\ Tail(<<asn>> \o r) = r
    BY FirstOf
  <2> QED
    BY <1>2, <1>3, <1>5, <2>2, <2>3
<1>6. ASSUME NEW f \in Segs, f.type = type, segs = <<f>> \o rest, x.as = <<asn>> \o f.as, Len(f.as) < MaxSegment
      PROVE  AsPathOf(P) /\ Head(ASesOf(P)) = asn /\ Tail(ASesOf(P)) = ASesOf(segs)
  <2>1. PICK l \in Seq(Nat) : l = f.as
    BY SegmentLists
  <2>2. Len(l) \in Nat /\ Len(l) < MaxSegment /\ Len(<<asn>> \o l) = Len(l) + 1
    BY <1>6, <2>1, FirstOf
  <2>3. Len(x.as) \in 1..MaxSegment
    BY <1>4, <1>6, <2>1, <2>2
  <2>4. AsPathOf(rest)
    BY <1>6, AsPathConcat
  <2>5. AsPathOf(P)
    BY <1>1, <2>3, <2>4, AsPathConcat
  <2>6. ASesOf(segs) = l \o r
    BY <1>3, <1>6, <2>1, AsesConcat
  <2>7. PICK lr \in Seq(Nat) : lr = l \o r
    BY ConcatIndex
  <2>8. (<<asn>> \o l) \o r = <<asn>> \o lr
    <3>1. <<asn>> \in Seq(Nat)
      OBVIOUS
    <3> QED
      BY <2>7, <3>1, ConcatThree
  <2>9. Head(<<asn>> \o lr) = asn /\ Tail(<<asn>> \o lr) = lr
    BY FirstOf
  <2>10. ASesOf(P) = <<asn>> \o lr
    BY <1>3, <1>6, <2>1, <2>8
  <2> QED
    BY <2>5, <2>6, <2>7, <2>9, <2>10
<1> QED
  BY <1>1, <1>2, <1>5, <1>6

LEMMA NoneConfed ==
  ASSUME NEW segs \in Seq(Segs)
  PROVE  \A i \in DOMAIN NoConfed(segs) : NoConfed(segs)[i].type \notin Confed /\ NoConfed(segs)[i] \in ToSet(segs)
<1>1. PICK S : S = {s \in ToSet(segs) : s.type \notin Confed}
  OBVIOUS
<1>2. ToSet(Kept(segs, S)) = ToSet(segs) \cap S
  BY KeptElements
<1>3. \A i \in DOMAIN NoConfed(segs) : NoConfed(segs)[i] \in S /\ NoConfed(segs)[i] \in ToSet(segs)
  BY <1>1, <1>2 DEF NoConfed, ToSet
<1> QED
  BY <1>1, <1>3

LEMMA AsPathPlain ==
  ASSUME NEW segs, AsPathOf(segs) PROVE AsPathOf(NoConfed(segs))
<1>1. segs \in Seq(Segs) /\ \A s \in ToSet(segs) : Len(s.as) \in 1..MaxSegment
  BY DEF AsPathOf, ToSet
<1>2. NoConfed(segs) \in Seq(Segs)
  BY <1>1, NoConfedSpells
<1>3. \A i \in DOMAIN NoConfed(segs) : NoConfed(segs)[i] \in ToSet(segs)
  BY <1>1, NoneConfed
<1> QED
  BY <1>1, <1>2, <1>3 DEF AsPathOf

LEMMA OpensPlain ==
  ASSUME NEW segs, NEW asn \in Nat, NEW P, Opens(P, segs, asn, "seq")
  PROVE  Opens(NoConfed(P), NoConfed(segs), asn, "seq")
<1>1. PICK x \in Segs, rest \in Seq(Segs) :
        /\ P = <<x>> \o rest /\ x.type = "seq"
        /\ \/ x.as = <<asn>> /\ segs = rest
           \/ \E f \in Segs : /\ f.type = "seq" /\ segs = <<f>> \o rest
                              /\ x.as = <<asn>> \o f.as /\ Len(f.as) < MaxSegment
  BY DEF Opens
<1>2. PICK r \in Seq(Segs) : r = NoConfed(rest)
  BY NoConfedSpells
<1>3. \A s \in Segs : s.type = "seq" => Unconfed[s] = <<s>>
  BY DEF Unconfed, Confed
<1>4. NoConfed(P) = <<x>> \o r
  BY <1>1, <1>2, <1>3, AsesConcat
<1>5. CASE x.as = <<asn>> /\ segs = rest
  BY <1>1, <1>2, <1>4, <1>5 DEF Opens
<1>6. ASSUME NEW f \in Segs, f.type = "seq", segs = <<f>> \o rest, x.as = <<asn>> \o f.as, Len(f.as) < MaxSegment
      PROVE  Opens(NoConfed(P), NoConfed(segs), asn, "seq")
  <2>1. NoConfed(segs) = <<f>> \o r
    BY <1>2, <1>3, <1>6, AsesConcat
  <2> QED
    BY <1>1, <1>2, <1>4, <1>6, <2>1 DEF Opens
<1> QED
  BY <1>1, <1>5, <1>6

-----------------------------------------------------------------------------
(* What is not for the neighbor *)

\* A path without the types in s, which its latest clone deletes.
DelAll(path, s) == [path EXCEPT !.levels[1].dels = @ \cup s]

\* The fold of DeleteAll.
TakesAll(f, path, D) ==
  f = [s \in SUBSET D |-> IF s = {} THEN path ELSE LET x == CHOOSE x \in s : TRUE IN delPathAttr(f[s \ {x}], x)]

LEMMA DelAgain ==
  ASSUME NEW path, ChainOf(path), NEW u, NEW t
  PROVE  delPathAttr(DelAll(path, u), t) = DelAll(path, u \cup {t})
<1>1. PICK ls : ls = path.levels
  OBVIOUS
<1>2. PICK n \in Nat : n = Len(ls) /\ n > 0 /\ DOMAIN ls = 1..n
  BY <1>1 DEF ChainOf
<1>3. PICK attrs, dels : ls[1] = [attrs |-> attrs, dels |-> dels]
  <2>1. PICK l : l = ls[1] /\ LevelOf(l)
    BY <1>1, <1>2 DEF ChainOf
  <2>2. l = [attrs |-> l.attrs, dels |-> l.dels]
    BY <2>1 DEF LevelOf
  <2> QED
    BY <2>1, <2>2
<1>4. 1 \in DOMAIN ls /\ "levels" \in DOMAIN path
  BY <1>2 DEF ChainOf
<1>5. PICK l1 : l1 = [attrs |-> attrs, dels |-> dels \cup u]
  OBVIOUS
<1>6. PICK ms : ms = [ls EXCEPT ![1] = l1]
  OBVIOUS
<1>7. PICK q : q = [path EXCEPT !.levels = ms]
  OBVIOUS
<1>8. DelAll(path, u) = q
  <2>1. [ls[1] EXCEPT !.dels = ls[1].dels \cup u] = l1
    BY <1>3, <1>5
  <2> QED
    BY <1>1, <1>6, <1>7, <2>1 DEF DelAll
<1>9. q.levels = ms /\ ms[1] = l1
  BY <1>4, <1>6, <1>7
<1>10. PICK l2 : l2 = [attrs |-> attrs, dels |-> (dels \cup u) \cup {t}]
  OBVIOUS
<1>11. delPathAttr(q, t) = [q EXCEPT !.levels = [ms EXCEPT ![1] = l2]]
  <2>1. [l1 EXCEPT !.dels = l1.dels \cup {t}] = l2
    BY <1>5, <1>10
  <2> QED
    BY <1>9, <2>1 DEF delPathAttr
<1>12. [ms EXCEPT ![1] = l2] = [ls EXCEPT ![1] = l2]
  BY <1>6
<1>13. PICK ns : ns = [ls EXCEPT ![1] = l2]
  OBVIOUS
<1>14. [q EXCEPT !.levels = ns] = [path EXCEPT !.levels = ns]
  BY <1>7
<1>15. DelAll(path, u \cup {t}) = [path EXCEPT !.levels = ns]
  <2>1. [ls[1] EXCEPT !.dels = ls[1].dels \cup (u \cup {t})] = l2
    <3>1. dels \cup (u \cup {t}) = (dels \cup u) \cup {t}
      OBVIOUS
    <3> QED
      BY <1>3, <1>10, <3>1
  <2> QED
    BY <1>1, <1>13, <2>1 DEF DelAll
<1> QED
  BY <1>8, <1>11, <1>12, <1>13, <1>14, <1>15

LEMMA TakesAllExists ==
  ASSUME NEW path, ChainOf(path), NEW D
  PROVE  TakesAll(CHOOSE f : TakesAll(f, path, D), path, D)
<1>1. PICK g : g = [s \in SUBSET D |-> IF s = {} THEN path ELSE DelAll(path, s)]
  OBVIOUS
<1>2. ASSUME NEW s \in SUBSET D, s # {}, NEW x, x = CHOOSE y \in s : TRUE
      PROVE  DelAll(path, s) = delPathAttr(g[s \ {x}], x)
  <2>1. x \in s
    BY <1>2
  <2>2. CASE s \ {x} = {}
    <3>1. s = {x}
      BY <2>1, <2>2
    <3>2. g[s \ {x}] = path
      BY <1>1, <2>2
    <3> QED
      BY <3>1, <3>2 DEF DelAll, delPathAttr
  <2>3. CASE s \ {x} # {}
    <3>1. PICK u \in SUBSET D : u = s \ {x} /\ u # {} /\ u \cup {x} = s
      BY <2>1, <2>3
    <3>2. g[u] = DelAll(path, u)
      BY <1>1, <3>1
    <3> QED
      BY <3>1, <3>2, DelAgain
  <2> QED
    BY <2>2, <2>3
<1>3. TakesAll(g, path, D)
  <2>1. ASSUME NEW s \in SUBSET D
        PROVE  g[s] = IF s = {} THEN path ELSE LET x == CHOOSE x \in s : TRUE IN delPathAttr(g[s \ {x}], x)
    <3>1. PICK x : x = CHOOSE y \in s : TRUE
      OBVIOUS
    <3>2. CASE s = {}
      BY <1>1, <3>2
    <3>3. CASE s # {}
      <4>1. g[s] = DelAll(path, s)
        BY <1>1, <3>3
      <4>2. DelAll(path, s) = delPathAttr(g[s \ {x}], x)
        BY <1>2, <3>1, <3>3
      <4> QED
        BY <3>1, <3>3, <4>1, <4>2
    <3> QED
      BY <3>2, <3>3
  <2>2. g = [s \in SUBSET D |-> g[s]]
    BY <1>1
  <2> QED
    BY <2>1, <2>2 DEF TakesAll
<1> QED
  BY <1>3

\* b: what is left of a without the types of s.
Takes(p, path, a, d, s) == \E b : IsWithout(b, a, s) /\ Sees(p, b, d \cup s) /\ SameButLevels(path, p)

LEMMA TakesMore ==
  ASSUME NEW p, NEW path, NEW a, NEW d, NEW s, Takes(p, path, a, d, s), NEW x
  PROVE  Takes(delPathAttr(p, x), path, a, d, s \cup {x})
<1>1. PICK b : IsWithout(b, a, s) /\ Sees(p, b, d \cup s) /\ SameButLevels(path, p)
  BY DEF Takes
<1>2. PICK q : q = delPathAttr(p, x)
  OBVIOUS
<1>3. PICK c : IsWithout(c, b, {x}) /\ Sees(q, c, (d \cup s) \cup {x}) /\ SameButLevels(p, q)
  <2>1. PICK e : e = d \cup s
    OBVIOUS
  <2>2. Sees(p, b, e)
    BY <1>1, <2>1
  <2> QED
    BY <1>2, <2>1, <2>2, DelPath
<1>4. (d \cup s) \cup {x} = d \cup (s \cup {x})
  OBVIOUS
<1>5. Sees(q, c, d \cup (s \cup {x}))
  BY <1>3, <1>4
<1>6. SameButLevels(path, q)
  BY <1>1, <1>3 DEF SameButLevels
<1>7. IsWithout(c, a, s \cup {x})
  BY <1>1, <1>3 DEF IsWithout
<1> QED
  BY <1>2, <1>5, <1>6, <1>7 DEF Takes

LEMMA TakesEach ==
  ASSUME NEW path, NEW a, NEW d, Sees(path, a, d), NEW D, NEW f, TakesAll(f, path, D), IsFiniteSet(D)
  PROVE  Takes(f[D], path, a, d, D)
<1>1. \A u \in SUBSET D : f[u] = IF u = {} THEN path ELSE LET x == CHOOSE x \in u : TRUE IN delPathAttr(f[u \ {x}], x)
  BY DEF TakesAll
<1> DEFINE T == {n \in Nat : \A u \in SUBSET D : IsFiniteSet(u) /\ Cardinality(u) = n => Takes(f[u], path, a, d, u)}
<1>2. 0 \in T
  <2> SUFFICES ASSUME NEW u \in SUBSET D, IsFiniteSet(u), Cardinality(u) = 0 PROVE Takes(f[u], path, a, d, u)
    OBVIOUS
  <2>1. u = {}
    BY FS_EmptySet
  <2>2. f[u] = path
    BY <1>1, <2>1
  <2>3. IsWithout(a, a, u)
    BY <2>1 DEF IsWithout, IsMap, Sees, Reads
  <2>4. d \cup u = d
    BY <2>1
  <2>5. SameButLevels(path, path)
    BY DEF SameButLevels
  <2> QED
    BY <2>2, <2>3, <2>4, <2>5 DEF Takes
<1>3. ASSUME NEW n \in T PROVE n + 1 \in T
  <2> SUFFICES ASSUME NEW u \in SUBSET D, IsFiniteSet(u), Cardinality(u) = n + 1 PROVE Takes(f[u], path, a, d, u)
    OBVIOUS
  <2>1. u # {}
    BY FS_EmptySet
  <2>2. PICK x : x = CHOOSE y \in u : TRUE
    OBVIOUS
  <2>3. x \in u
    BY <2>1, <2>2
  <2>4. IsFiniteSet(u \ {x}) /\ Cardinality(u \ {x}) = n
    <3>1. IsFiniteSet(u \ {x}) /\ Cardinality(u \ {x}) = Cardinality(u) - 1
      BY <2>3, FS_RemoveElement
    <3> QED
      BY <3>1
  <2>5. Takes(f[u \ {x}], path, a, d, u \ {x})
    BY <2>4
  <2>6. f[u] = delPathAttr(f[u \ {x}], x)
    BY <1>1, <2>1, <2>2
  <2>7. (u \ {x}) \cup {x} = u
    BY <2>3
  <2> QED
    BY <2>5, <2>6, <2>7, TakesMore
<1>4. T = Nat
  <2>1. T \subseteq Nat
    OBVIOUS
  <2> HIDE DEF T
  <2> QED
    BY <1>2, <1>3, <2>1, SetInduction
<1>5. Cardinality(D) \in T
  <2>1. Cardinality(D) \in Nat
    BY FS_CardinalityType
  <2> HIDE DEF T
  <2> QED
    BY <1>4, <2>1
<1> QED
  BY <1>5

LEMMA DeleteAllSees ==
  ASSUME NEW path, NEW a, NEW d, Sees(path, a, d), NEW types, IsFiniteSet(types)
  PROVE  \E b, e : /\ IsWithout(b, a, types) /\ e \subseteq d \cup types
                   /\ Sees(DeleteAll(path, types), b, e) /\ SameButLevels(path, DeleteAll(path, types))
<1>1. PICK D : D = types \cap DOMAIN a
  OBVIOUS
<1>2. IsFiniteSet(D)
  BY <1>1, FS_Subset
<1>3. PICK f : f = CHOOSE g : TakesAll(g, path, D)
  OBVIOUS
<1>4. TakesAll(f, path, D)
  BY <1>3, TakesAllExists DEF Sees
<1>5. GetPathAttrs(path) = a
  BY SeenAttrs
<1>6. DeleteAll(path, types) = f[D]
  BY <1>1, <1>3, <1>5 DEF DeleteAll, FoldSet, MapThenFoldSet, TakesAll
<1>7. PICK b : IsWithout(b, a, D) /\ Sees(f[D], b, d \cup D) /\ SameButLevels(path, f[D])
  BY <1>2, <1>4, TakesEach DEF Takes
<1>8. IsWithout(b, a, types)
  BY <1>1, <1>7 DEF IsWithout
<1> QED
  BY <1>1, <1>6, <1>7, <1>8

-----------------------------------------------------------------------------
(* On the way to a neighbor *)

\* A path made of another: b are its attributes, and those of keep can still be set.
Way(p, b, path, keep) == \E e : Sees(p, b, e) /\ e \cap keep = {} /\ SameButLevels(path, p)

LEMMA WaySet ==
  ASSUME NEW p, NEW b, NEW path, NEW keep, Way(p, b, path, keep), NEW t \in keep, NEW v
  PROVE  \E c : IsPut(c, b, t, v) /\ Way(setPathAttr(p, t, v), c, path, keep)
<1>1. PICK e : Sees(p, b, e) /\ e \cap keep = {} /\ SameButLevels(path, p)
  BY DEF Way
<1>2. t \notin e
  BY <1>1
<1>3. PICK q : q = setPathAttr(p, t, v)
  OBVIOUS
<1>4. PICK c : IsPut(c, b, t, v) /\ Sees(q, c, e) /\ SameButLevels(p, q)
  BY <1>1, <1>2, <1>3, SetPath
<1>5. SameButLevels(path, q)
  BY <1>1, <1>4 DEF SameButLevels
<1> QED
  BY <1>1, <1>3, <1>4, <1>5 DEF Way

LEMMA WayDel ==
  ASSUME NEW p, NEW b, NEW path, NEW keep, Way(p, b, path, keep), NEW t
  PROVE  \E c : IsWithout(c, b, {t}) /\ Way(delPathAttr(p, t), c, path, keep \ {t})
<1>1. PICK e : Sees(p, b, e) /\ e \cap keep = {} /\ SameButLevels(path, p)
  BY DEF Way
<1>3. PICK q : q = delPathAttr(p, t)
  OBVIOUS
<1>4. PICK c : IsWithout(c, b, {t}) /\ Sees(q, c, e \cup {t}) /\ SameButLevels(p, q)
  BY <1>1, <1>3, DelPath
<1>5. SameButLevels(path, q)
  BY <1>1, <1>4 DEF SameButLevels
<1>6. (e \cup {t}) \cap (keep \ {t}) = {}
  BY <1>1
<1> QED
  BY <1>3, <1>4, <1>5, <1>6 DEF Way

LEMMA WayReads ==
  ASSUME NEW p, NEW b, NEW path, NEW keep, Way(p, b, path, keep)
  PROVE  /\ \A t, default : /\ Has(p, t) <=> t \in DOMAIN b
                            /\ AttrOr(p, t, default) = IF t \in DOMAIN b THEN b[t] ELSE default
                            /\ t \in DOMAIN b => Attr(p, t) = b[t]
         /\ GetPathAttrs(p) = b /\ SameButLevels(path, p)
<1>1. PICK e : Sees(p, b, e) /\ e \cap keep = {} /\ SameButLevels(path, p)
  BY DEF Way
<1>2. GetPathAttrs(p) = b
  BY <1>1, SeenAttrs
<1>3. ASSUME NEW t, NEW default
      PROVE  /\ Has(p, t) <=> t \in DOMAIN b
             /\ AttrOr(p, t, default) = IF t \in DOMAIN b THEN b[t] ELSE default
  BY <1>1, SeenAttr
<1>4. \A t \in DOMAIN b : Attr(p, t) = b[t]
  BY <1>1 DEF Sees, Reads
<1> QED
  BY <1>1, <1>2, <1>3, <1>4

LEMMA WayLess ==
  ASSUME NEW p, NEW b, NEW path, NEW keep, Way(p, b, path, keep), NEW less \in SUBSET keep
  PROVE  Way(p, b, path, less)
BY DEF Way

Hops == {"nexthop", "mpreach"}
OneHop(b) == "nexthop" \in DOMAIN b <=> ~("mpreach" \in DOMAIN b)
SameBut(c, b, S) == DOMAIN c \ S = DOMAIN b \ S /\ \A t \in DOMAIN b \ S : c[t] = b[t]

LEMMA HopRead ==
  ASSUME NEW p, NEW b, NEW path, NEW keep, Way(p, b, path, keep), OneHop(b)
  PROVE  GetNexthop(p) = NexthopOf(b)
<1>1. \A t, default : AttrOr(p, t, default) = IF t \in DOMAIN b THEN b[t] ELSE default
  BY WayReads
<1>2. GetNexthop(p) = IF "nexthop" \in DOMAIN b THEN b["nexthop"] ELSE IF "mpreach" \in DOMAIN b THEN b["mpreach"] ELSE Nothing
  BY <1>1 DEF GetNexthop
<1> QED
  BY <1>2 DEF NexthopOf, OneHop

LEMMA HopSet ==
  ASSUME NEW p, NEW b, NEW path, NEW keep, Way(p, b, path, keep), OneHop(b), Hops \subseteq keep, NEW nh, NEW v6
  PROVE  \E c : /\ OneHop(c) /\ NexthopOf(c) = nh /\ SameBut(c, b, Hops)
                /\ Way(PathSetNexthop(p, nh, v6), c, path, keep \ {"nexthop"})
<1>0. "nexthop" \in keep /\ "mpreach" \in keep
  BY DEF Hops
<1>1. \A t, default : Has(p, t) <=> t \in DOMAIN b
  BY WayReads
<1>2. CASE p.family = "ipv4" /\ v6
  <2>1. PICK cut : cut = delPathAttr(p, "nexthop")
    OBVIOUS
  <2>2. PICK b1 : IsWithout(b1, b, {"nexthop"}) /\ Way(cut, b1, path, keep \ {"nexthop"})
    BY <2>1, WayDel
  <2>3. PICK out : out = setPathAttr(cut, "mpreach", nh)
    OBVIOUS
  <2>4. PICK c : IsPut(c, b1, "mpreach", nh) /\ Way(out, c, path, keep \ {"nexthop"})
    <3>1. PICK less : less = keep \ {"nexthop"}
      OBVIOUS
    <3>2. "mpreach" \in less
      BY <1>0, <3>1
    <3> QED
      BY <2>2, <2>3, <3>1, <3>2, WaySet
  <2>5. OneHop(c) /\ NexthopOf(c) = nh /\ SameBut(c, b, Hops)
    BY <2>2, <2>4 DEF IsWithout, IsPut, OneHop, NexthopOf, SameBut, Hops
  <2>6. PathSetNexthop(p, nh, v6) = out
    BY <1>2, <2>1, <2>3 DEF PathSetNexthop
  <2> QED
    BY <2>4, <2>5, <2>6
<1>3. CASE ~(p.family = "ipv4" /\ v6) /\ "nexthop" \in DOMAIN b
  <2>1. PICK out : out = setPathAttr(p, "nexthop", nh)
    OBVIOUS
  <2>2. PICK c : IsPut(c, b, "nexthop", nh) /\ Way(out, c, path, keep)
    BY <1>0, <2>1, WaySet
  <2>3. "mpreach" \notin DOMAIN c
    BY <1>3, <2>2 DEF IsPut, OneHop
  <2>4. \A t, default : Has(out, t) <=> t \in DOMAIN c
    BY <2>2, WayReads
  <2>5. PathSetNexthop(p, nh, v6) = out
    BY <1>1, <1>3, <2>1, <2>3, <2>4 DEF PathSetNexthop
  <2>6. OneHop(c) /\ NexthopOf(c) = nh /\ SameBut(c, b, Hops)
    BY <1>3, <2>2 DEF IsPut, OneHop, NexthopOf, SameBut, Hops
  <2>7. Way(out, c, path, keep \ {"nexthop"})
    BY <2>2, WayLess
  <2> QED
    BY <2>5, <2>6, <2>7
<1>4. CASE ~(p.family = "ipv4" /\ v6) /\ "nexthop" \notin DOMAIN b
  <2>1. PICK out : out = setPathAttr(p, "mpreach", nh)
    OBVIOUS
  <2>2. PICK c : IsPut(c, b, "mpreach", nh) /\ Way(out, c, path, keep)
    BY <1>0, <2>1, WaySet
  <2>3. "mpreach" \in DOMAIN b
    BY <1>4 DEF OneHop
  <2>4. PathSetNexthop(p, nh, v6) = out
    BY <1>1, <1>4, <2>1, <2>3 DEF PathSetNexthop
  <2>5. OneHop(c) /\ NexthopOf(c) = nh /\ SameBut(c, b, Hops)
    BY <1>4, <2>2 DEF IsPut, OneHop, NexthopOf, SameBut, Hops
  <2>6. Way(out, c, path, keep \ {"nexthop"})
    BY <2>2, WayLess
  <2> QED
    BY <2>4, <2>5, <2>6
<1> QED
  BY <1>2, <1>3, <1>4


-----------------------------------------------------------------------------
(* The AS_PATH that is sent *)

SentAs(old, asn, option, confed) ==
  LET P == PrependAsn([aspath |-> PublicOf(old, asn, option)], asn, 1, confed).aspath
  IN  IF confed THEN P ELSE NoConfed(P)

FitsAs(Q, old, asn, option, confed) ==
  /\ AsPathOf(Q) /\ Q # <<>> /\ Q[1].type = IF confed THEN "confedseq" ELSE "seq"
  /\ ~confed => \A i \in DOMAIN Q : Q[i].type \notin Confed
  /\ Head(ASesOf(Q)) = asn
  /\ Tail(ASesOf(Q)) = Bare(ASesOf(IF confed THEN old ELSE NoConfed(old)), asn, option)

LEMMA AsSent ==
  ASSUME NEW old, AsPathOf(old), NEW asn \in Nat, NEW option \in {"none", "all", "replace"}, NEW confed
  PROVE  FitsAs(SentAs(old, asn, option, confed), old, asn, option, confed)
<1>1. PICK new : new = PublicOf(old, asn, option)
  OBVIOUS
<1>2. AsPathOf(new) /\ ASesOf(new) = Bare(ASesOf(old), asn, option)
      /\ ASesOf(NoConfed(new)) = Bare(ASesOf(NoConfed(old)), asn, option)
  BY <1>1, PublicPath
<1>3. PICK P : P = PrependAsn([aspath |-> new], asn, 1, confed).aspath
  OBVIOUS
<1>4. Opens(P, new, asn, IF confed THEN "confedseq" ELSE "seq")
  BY <1>2, <1>3, PrependsOne
<1>5. CASE confed
  <2>1. Opens(P, new, asn, "confedseq")
    BY <1>4, <1>5
  <2>2. /\ AsPathOf(P) /\ P # <<>> /\ P[1].type = "confedseq"
        /\ Head(ASesOf(P)) = asn /\ Tail(ASesOf(P)) = ASesOf(new)
    BY <1>2, <2>1, Opened
  <2>3. SentAs(old, asn, option, confed) = P
    BY <1>1, <1>3, <1>5 DEF SentAs
  <2> QED
    BY <1>2, <1>5, <2>2, <2>3 DEF FitsAs
<1>6. CASE ~confed
  <2>1. Opens(P, new, asn, "seq")
    BY <1>4, <1>6
  <2>2. AsPathOf(P)
    BY <1>2, <2>1, Opened
  <2>3. PICK Q : Q = NoConfed(P)
    OBVIOUS
  <2>4. PICK plain : plain = NoConfed(new)
    OBVIOUS
  <2>5. Opens(Q, plain, asn, "seq")
    BY <2>1, <2>3, <2>4, OpensPlain
  <2>6. AsPathOf(plain)
    BY <1>2, <2>4, AsPathPlain
  <2>7. /\ AsPathOf(Q) /\ Q # <<>> /\ Q[1].type = "seq"
        /\ Head(ASesOf(Q)) = asn /\ Tail(ASesOf(Q)) = ASesOf(plain)
    BY <2>5, <2>6, Opened
  <2>8. \A i \in DOMAIN Q : Q[i].type \notin Confed
    <3>1. P \in Seq(Segs)
      BY <2>2 DEF AsPathOf
    <3> QED
      BY <2>3, <3>1, NoneConfed
  <2>9. SentAs(old, asn, option, confed) = Q
    BY <1>1, <1>3, <1>6, <2>3 DEF SentAs
  <2> QED
    BY <1>2, <1>6, <2>4, <2>7, <2>8, <2>9 DEF FitsAs
<1> QED
  BY <1>5, <1>6

LEMMA PublicEmpty ==
  ASSUME NEW asn, NEW option PROVE PublicOf(<<>>, asn, option) = <<>>
<1>1. PICK none \in Seq(Segs) : none = <<>>
  <2>1. <<>> \in Seq(Segs)
    OBVIOUS
  <2> QED
    BY <2>1
<1>2. Full \in [Segs -> Seq(Segs)]
  BY SegmentLists
<1>3. NonEmpty(none) = <<>>
  BY <1>1, <1>2, NonEmptySpells, SpellEmpty
<1>4. DOMAIN none = {}
  BY <1>1
<1>5. [i \in DOMAIN none |-> [none[i] EXCEPT !.as = Bare(@, asn, option)]] = <<>>
  BY <1>4
<1> QED
  BY <1>1, <1>3, <1>5 DEF PublicOf

AsPathIn(b) == IF "aspath" \in DOMAIN b THEN b["aspath"] ELSE <<>>

LEMMA PublicSeen ==
  ASSUME NEW p, NEW b, NEW path, NEW keep, Way(p, b, path, keep), "aspath" \in keep, NEW asn,
         NEW option \in {"none", "all", "replace"}
  PROVE  \E c : /\ AsPathIn(c) = PublicOf(AsPathIn(b), asn, option) /\ SameBut(c, b, {"aspath"})
                /\ Way(RemovePrivateAS(p, asn, option), c, path, keep)
<1>1. \A t, default : (Has(p, t) <=> t \in DOMAIN b) /\ (t \in DOMAIN b => Attr(p, t) = b[t])
  BY WayReads
<1>2. CASE option = "none" \/ "aspath" \notin DOMAIN b
  <2>1. RemovePrivateAS(p, asn, option) = p
    <3>1. CASE option = "none"
      BY <3>1 DEF RemovePrivateAS
    <3>2. CASE "aspath" \notin DOMAIN b
      <4>1. ~Has(p, "aspath")
        BY <1>1, <3>2
      <4> QED
        BY <4>1 DEF RemovePrivateAS, MapAsPath
    <3> QED
      BY <1>2, <3>1, <3>2
  <2>2. AsPathIn(b) = PublicOf(AsPathIn(b), asn, option)
    <3>1. CASE option = "none"
      BY <3>1 DEF PublicOf
    <3>2. CASE "aspath" \notin DOMAIN b
      BY <3>2, PublicEmpty DEF AsPathIn
    <3> QED
      BY <1>2, <3>1, <3>2
  <2>3. SameBut(b, b, {"aspath"})
    BY DEF SameBut
  <2> QED
    BY <2>1, <2>2, <2>3
<1>3. CASE option # "none" /\ "aspath" \in DOMAIN b
  <2>1. PICK old : old = b["aspath"]
    OBVIOUS
  <2>2. Has(p, "aspath") /\ Attr(p, "aspath") = old
    BY <1>1, <1>3, <2>1
  <2>3. PICK new : new = PublicOf(old, asn, option)
    OBVIOUS
  <2>4. RemovePrivateAS(p, asn, option) = setPathAttr(p, "aspath", new)
    <3>1. CASE option = "all"
      <4>1. RemovePrivateAS(p, asn, option)
              = setPathAttr(p, "aspath", NonEmpty([i \in DOMAIN old |-> [old[i] EXCEPT !.as = Kept(@, ToSet(@) \ PrivateASes)]]))
        BY <2>2, <3>1 DEF RemovePrivateAS, MapAsPath
      <4>2. \A l : Bare(l, asn, option) = Kept(l, ToSet(l) \ PrivateASes)
        BY <3>1 DEF Bare
      <4>3. new = NonEmpty([i \in DOMAIN old |-> [old[i] EXCEPT !.as = Kept(@, ToSet(@) \ PrivateASes)]])
        BY <1>3, <2>3, <4>2 DEF PublicOf
      <4> QED
        BY <4>1, <4>3
    <3>2. CASE option = "replace"
      <4>1. RemovePrivateAS(p, asn, option)
              = setPathAttr(p, "aspath", NonEmpty([i \in DOMAIN old |->
                  [old[i] EXCEPT !.as = [j \in DOMAIN @ |-> IF @[j] \in PrivateASes THEN asn ELSE @[j]]]]))
        BY <2>2, <3>2 DEF RemovePrivateAS, MapAsPath
      <4>2. \A l : Bare(l, asn, option) = [j \in DOMAIN l |-> IF l[j] \in PrivateASes THEN asn ELSE l[j]]
        BY <3>2 DEF Bare
      <4>3. new = NonEmpty([i \in DOMAIN old |->
                  [old[i] EXCEPT !.as = [j \in DOMAIN @ |-> IF @[j] \in PrivateASes THEN asn ELSE @[j]]]])
        BY <1>3, <2>3, <4>2 DEF PublicOf
      <4> QED
        BY <4>1, <4>3
    <3> QED
      BY <1>3, <3>1, <3>2
  <2>5. PICK c : IsPut(c, b, "aspath", new) /\ Way(setPathAttr(p, "aspath", new), c, path, keep)
    BY WaySet
  <2>6. AsPathIn(c) = PublicOf(AsPathIn(b), asn, option) /\ SameBut(c, b, {"aspath"})
    BY <1>3, <2>1, <2>3, <2>5 DEF AsPathIn, SameBut, IsPut
  <2> QED
    BY <2>4, <2>5, <2>6
<1> QED
  BY <1>2, <1>3

LEMMA OwnSeen ==
  ASSUME NEW p, NEW b, NEW path, NEW keep, Way(p, b, path, keep), "aspath" \in keep, NEW peer,
         peer.removePrivate \in {"none", "all", "replace"}
  PROVE  \E c : /\ "aspath" \in DOMAIN c
                /\ c["aspath"] = SentAs(AsPathIn(b), peer.localAs, peer.removePrivate, peer.confed)
                /\ SameBut(c, b, {"aspath"}) /\ Way(OwnAsFirst(p, peer), c, path, keep)
<1>1. PICK asn, option, confed : asn = peer.localAs /\ option = peer.removePrivate /\ confed = peer.confed
  OBVIOUS
<1>2. PICK public : public = RemovePrivateAS(p, asn, option)
  OBVIOUS
<1>3. PICK b1 : /\ AsPathIn(b1) = PublicOf(AsPathIn(b), asn, option) /\ SameBut(b1, b, {"aspath"})
                /\ Way(public, b1, path, keep)
  BY <1>1, <1>2, PublicSeen
<1>4. AttrOr(public, "aspath", <<>>) = AsPathIn(b1)
  <2>1. \A t, default : AttrOr(public, t, default) = IF t \in DOMAIN b1 THEN b1[t] ELSE default
    BY <1>3, WayReads
  <2> QED
    BY <2>1 DEF AsPathIn
<1>5. PICK P : P = PrependAsn([aspath |-> PublicOf(AsPathIn(b), asn, option)], asn, 1, confed).aspath
  OBVIOUS
<1>6. PICK own : own = PathPrependAsn(public, asn, 1, confed)
  OBVIOUS
<1>7. own = setPathAttr(public, "aspath", P)
  BY <1>3, <1>4, <1>5, <1>6 DEF PathPrependAsn
<1>8. PICK b2 : IsPut(b2, b1, "aspath", P) /\ Way(own, b2, path, keep)
  BY <1>3, <1>7, WaySet
<1>9. "aspath" \in DOMAIN b2 /\ b2["aspath"] = P /\ SameBut(b2, b, {"aspath"})
  BY <1>3, <1>8 DEF IsPut, SameBut
<1>10. CASE confed
  <2>1. OwnAsFirst(p, peer) = own
    BY <1>1, <1>2, <1>6, <1>10 DEF OwnAsFirst
  <2>2. SentAs(AsPathIn(b), asn, option, confed) = P
    BY <1>5, <1>10 DEF SentAs
  <2> QED
    BY <1>1, <1>8, <1>9, <2>1, <2>2
<1>11. CASE ~confed
  <2>1. OwnAsFirst(p, peer) = removeConfedAs(own)
    BY <1>1, <1>2, <1>6, <1>11 DEF OwnAsFirst
  <2>2. Has(own, "aspath") /\ Attr(own, "aspath") = P
    <3>1. \A t, default : (Has(own, t) <=> t \in DOMAIN b2) /\ (t \in DOMAIN b2 => Attr(own, t) = b2[t])
      BY <1>8, WayReads
    <3> QED
      BY <1>9, <3>1
  <2>3. PICK Q : Q = NoConfed(P)
    OBVIOUS
  <2>4. removeConfedAs(own) = setPathAttr(own, "aspath", Q)
    BY <2>2, <2>3 DEF removeConfedAs, MapAsPath
  <2>5. PICK c : IsPut(c, b2, "aspath", Q) /\ Way(setPathAttr(own, "aspath", Q), c, path, keep)
    BY <1>8, WaySet
  <2>6. "aspath" \in DOMAIN c /\ c["aspath"] = Q /\ SameBut(c, b, {"aspath"})
    BY <1>9, <2>5 DEF IsPut, SameBut
  <2>7. SentAs(AsPathIn(b), asn, option, confed) = Q
    BY <1>5, <1>11, <2>3 DEF SentAs
  <2> QED
    BY <1>1, <2>1, <2>4, <2>5, <2>6, <2>7
<1> QED
  BY <1>10, <1>11


-----------------------------------------------------------------------------
(* What each kind of neighbor is sent *)

\* A next hop is kept, or it is the address of the session.
HopOf(c, b, kept, address) == OneHop(c) /\ NexthopOf(c) = IF kept THEN NexthopOf(b) ELSE address

\* c: the attributes for an external neighbor, made of b.
External(c, b, path, peer) ==
  /\ HopOf(c, b, path.source.local /\ NexthopOf(b) # Unspecified, peer.address)
  /\ "aspath" \in DOMAIN c /\ c["aspath"] = SentAs(AsPathIn(b), peer.localAs, peer.removePrivate, peer.confed)
  /\ "med" \in DOMAIN c => path.source.local
  /\ SameBut(c, b, Hops \cup {"aspath", "med"})

LEMMA ExternalSeen ==
  ASSUME NEW p, NEW b, NEW path, NEW keep, Way(p, b, path, keep), OneHop(b), Hops \cup {"aspath"} \subseteq keep,
         NEW peer, peer.removePrivate \in {"none", "all", "replace"}
  PROVE  \E c, k : External(c, b, path, peer) /\ Way(ExternalAttrs(p, peer), c, path, k)
<1>1. PICK own : own = (path.source.local /\ NexthopOf(b) # Unspecified)
  OBVIOUS
<1>2. PICK k1 : k1 = keep \ {"nexthop"}
  OBVIOUS
<1>3. "aspath" \in k1
  BY <1>2
<1>4. (~IsLocal(p) \/ GetNexthop(p) = Unspecified) <=> ~own
  <2>1. p.source = path.source
    BY WayReads DEF SameButLevels
  <2>2. GetNexthop(p) = NexthopOf(b)
    BY HopRead
  <2> QED
    BY <1>1, <2>1, <2>2 DEF IsLocal
<1>5. PICK nh : nh = IF own THEN p ELSE PathSetNexthop(p, peer.address, peer.v6)
  OBVIOUS
<1>6. PICK b1 : HopOf(b1, b, own, peer.address) /\ SameBut(b1, b, Hops) /\ Way(nh, b1, path, k1)
  <2>1. CASE own
    <3>1. Way(p, b, path, k1)
      BY <1>2, WayLess
    <3> QED
      BY <1>5, <2>1, <3>1 DEF HopOf, SameBut
  <2>2. CASE ~own
    <3>1. Hops \subseteq keep
      OBVIOUS
    <3>2. PICK address, v6 : address = peer.address /\ v6 = peer.v6
      OBVIOUS
    <3>3. PICK c : /\ OneHop(c) /\ NexthopOf(c) = address /\ SameBut(c, b, Hops)
                   /\ Way(PathSetNexthop(p, address, v6), c, path, k1)
      BY <1>2, <3>1, HopSet
    <3> QED
      BY <1>5, <2>2, <3>2, <3>3 DEF HopOf
  <2> QED
    BY <2>1, <2>2
<1>7. PICK q : q = OwnAsFirst(nh, peer)
  OBVIOUS
<1>8. PICK b2 : /\ "aspath" \in DOMAIN b2
                /\ b2["aspath"] = SentAs(AsPathIn(b1), peer.localAs, peer.removePrivate, peer.confed)
                /\ SameBut(b2, b1, {"aspath"}) /\ Way(q, b2, path, k1)
  BY <1>3, <1>6, <1>7, OwnSeen
<1>9. AsPathIn(b1) = AsPathIn(b)
  BY <1>6 DEF AsPathIn, SameBut, Hops
<1>10. HopOf(b2, b, own, peer.address)
  BY <1>6, <1>8 DEF HopOf, OneHop, NexthopOf, SameBut
<1>11. SameBut(b2, b, Hops \cup {"aspath", "med"})
  BY <1>6, <1>8 DEF SameBut
<1>12. q.source = path.source /\ (Has(q, "med") <=> "med" \in DOMAIN b2)
  BY <1>8, WayReads DEF SameButLevels
<1>13. ExternalAttrs(p, peer) = IF Has(q, "med") /\ ~IsLocal(q) THEN delPathAttr(q, "med") ELSE q
  BY <1>4, <1>5, <1>7 DEF ExternalAttrs
<1>14. CASE Has(q, "med") /\ ~IsLocal(q)
  <2>1. PICK c : IsWithout(c, b2, {"med"}) /\ Way(delPathAttr(q, "med"), c, path, k1 \ {"med"})
    BY <1>8, WayDel
  <2>2. HopOf(c, b, own, peer.address)
    BY <1>10, <2>1 DEF HopOf, OneHop, NexthopOf, IsWithout
  <2>3. "aspath" \in DOMAIN c /\ c["aspath"] = b2["aspath"] /\ "med" \notin DOMAIN c
    BY <1>8, <2>1 DEF IsWithout
  <2>4. SameBut(c, b, Hops \cup {"aspath", "med"})
    BY <1>11, <2>1 DEF SameBut, IsWithout
  <2> QED
    BY <1>1, <1>8, <1>9, <1>13, <1>14, <2>1, <2>2, <2>3, <2>4 DEF External
<1>15. CASE ~(Has(q, "med") /\ ~IsLocal(q))
  <2>1. "med" \in DOMAIN b2 => path.source.local
    BY <1>12, <1>15 DEF IsLocal
  <2> QED
    BY <1>1, <1>8, <1>9, <1>10, <1>11, <1>13, <1>15, <2>1 DEF External
<1> QED
  BY <1>14, <1>15

LEMMA NothingPrepended ==
  PrependAsn([aspath |-> <<>>], 0, 0, FALSE).aspath = <<>>
BY CopiesAre DEF PrependAsn

ClusterIn(b) == IF "cluster" \in DOMAIN b THEN b["cluster"] ELSE <<>>
LocalPrefIn(b) == IF "localpref" \in DOMAIN b THEN b["localpref"] ELSE DefaultLocalPref

\* c: the attributes for an internal neighbor, made of b.
Internal(c, b, path, peer) ==
  /\ HopOf(c, b, NexthopOf(b) # Unspecified \/ ~path.source.local, peer.address)
  /\ "aspath" \in DOMAIN c /\ c["aspath"] = AsPathIn(b)
  /\ "localpref" \in DOMAIN c /\ c["localpref"] = LocalPrefIn(b)
  /\ ~peer.client => SameBut(c, b, Hops \cup {"aspath", "localpref"})
  /\ peer.client => /\ {"cluster", "originator"} \subseteq DOMAIN c
                    /\ c["cluster"] = <<peer.cluster>> \o ClusterIn(b)
                    /\ "originator" \in DOMAIN b => c["originator"] = b["originator"]
                    /\ SameBut(c, b, Hops \cup {"aspath", "localpref", "cluster", "originator"})

LEMMA ReflectedSeen ==
  ASSUME NEW p, NEW b, NEW path, NEW keep, Way(p, b, path, keep), {"cluster", "originator"} \subseteq keep,
         path.family # "rtc", NEW peer, NEW global
  PROVE  \E c : /\ {"cluster", "originator"} \subseteq DOMAIN c /\ c["cluster"] = <<peer.cluster>> \o ClusterIn(b)
                /\ "originator" \in DOMAIN b => c["originator"] = b["originator"]
                /\ SameBut(c, b, {"cluster", "originator"}) /\ Way(Reflected(global, p, peer), c, path, keep)
<1>1. \A t, default : /\ (Has(p, t) <=> t \in DOMAIN b)
                      /\ AttrOr(p, t, default) = IF t \in DOMAIN b THEN b[t] ELSE default
  BY WayReads
<1>2. p.family # "rtc"
  BY WayReads DEF SameButLevels
<1>3. PICK value : value = <<peer.cluster>> \o AttrOr(p, "cluster", <<>>)
  OBVIOUS
<1>4. value = <<peer.cluster>> \o ClusterIn(b)
  BY <1>1, <1>3 DEF ClusterIn
<1>5. PICK v : v = IF IsLocal(p) THEN global.routerId ELSE p.source.id
  OBVIOUS
<1>6. PICK orig : orig = IF Has(p, "originator") THEN p ELSE setPathAttr(p, "originator", v)
  OBVIOUS
<1>7. PICK b1 : /\ "originator" \in DOMAIN b1 /\ ("originator" \in DOMAIN b => b1["originator"] = b["originator"])
                /\ SameBut(b1, b, {"originator"}) /\ Way(orig, b1, path, keep)
  <2>1. CASE "originator" \in DOMAIN b
    BY <1>1, <1>6, <2>1 DEF SameBut
  <2>2. CASE "originator" \notin DOMAIN b
    <3>1. "originator" \in keep
      OBVIOUS
    <3>2. PICK c : IsPut(c, b, "originator", v) /\ Way(setPathAttr(p, "originator", v), c, path, keep)
      BY <3>1, WaySet
    <3> QED
      BY <1>1, <1>6, <2>2, <3>2 DEF IsPut, SameBut
  <2> QED
    BY <2>1, <2>2
<1>8. Reflected(global, p, peer) = setPathAttr(orig, "cluster", value)
  BY <1>2, <1>3, <1>5, <1>6 DEF Reflected
<1>9. PICK c : IsPut(c, b1, "cluster", value) /\ Way(setPathAttr(orig, "cluster", value), c, path, keep)
  <2>1. "cluster" \in keep
    OBVIOUS
  <2> QED
    BY <1>7, <2>1, WaySet
<1>10. /\ {"cluster", "originator"} \subseteq DOMAIN c /\ c["cluster"] = value
       /\ "originator" \in DOMAIN b => c["originator"] = b["originator"]
       /\ SameBut(c, b, {"cluster", "originator"})
  BY <1>7, <1>9 DEF IsPut, SameBut
<1> QED
  BY <1>4, <1>8, <1>9, <1>10

LEMMA InternalSeen ==
  ASSUME NEW p, NEW b, NEW path, NEW keep, Way(p, b, path, keep), OneHop(b),
         Hops \cup {"aspath", "localpref"} \subseteq keep, path.family # "rtc",
         NEW peer, peer.client => {"cluster", "originator"} \subseteq keep, NEW global
  PROVE  \E c, k : Internal(c, b, path, peer) /\ Way(InternalAttrs(global, p, peer), c, path, k)
<1>1. PICK kept : kept = (NexthopOf(b) # Unspecified \/ ~path.source.local)
  OBVIOUS
<1>2. PICK k1 : k1 = keep \ {"nexthop"}
  OBVIOUS
<1>3. "aspath" \in k1 /\ "localpref" \in k1 /\ (peer.client => {"cluster", "originator"} \subseteq k1)
  BY <1>2
<1>4. (IsLocal(p) /\ GetNexthop(p) = Unspecified) <=> ~kept
  <2>1. p.source = path.source
    BY WayReads DEF SameButLevels
  <2>2. GetNexthop(p) = NexthopOf(b)
    BY HopRead
  <2> QED
    BY <1>1, <2>1, <2>2 DEF IsLocal
<1>5. PICK nh : nh = IF kept THEN p ELSE PathSetNexthop(p, peer.address, peer.v6)
  OBVIOUS
<1>6. PICK b1 : HopOf(b1, b, kept, peer.address) /\ SameBut(b1, b, Hops) /\ Way(nh, b1, path, k1)
  <2>1. CASE kept
    <3>1. Way(p, b, path, k1)
      BY <1>2, WayLess
    <3> QED
      BY <1>5, <2>1, <3>1 DEF HopOf, SameBut
  <2>2. CASE ~kept
    <3>1. Hops \subseteq keep
      OBVIOUS
    <3>2. PICK address, v6 : address = peer.address /\ v6 = peer.v6
      OBVIOUS
    <3>3. PICK c : /\ OneHop(c) /\ NexthopOf(c) = address /\ SameBut(c, b, Hops)
                   /\ Way(PathSetNexthop(p, address, v6), c, path, k1)
      BY <1>2, <3>1, HopSet
    <3> QED
      BY <1>5, <2>2, <3>2, <3>3 DEF HopOf
  <2> QED
    BY <2>1, <2>2
<1>7. PICK as2 : as2 = IF Has(nh, "aspath") THEN nh ELSE PathPrependAsn(nh, 0, 0, FALSE)
  OBVIOUS
<1>8. PICK b2 : "aspath" \in DOMAIN b2 /\ b2["aspath"] = AsPathIn(b1) /\ SameBut(b2, b1, {"aspath"}) /\ Way(as2, b2, path, k1)
  <2>1. \A t, default : /\ (Has(nh, t) <=> t \in DOMAIN b1)
                        /\ AttrOr(nh, t, default) = IF t \in DOMAIN b1 THEN b1[t] ELSE default
    BY <1>6, WayReads
  <2>2. CASE "aspath" \in DOMAIN b1
    BY <1>6, <1>7, <2>1, <2>2 DEF SameBut, AsPathIn
  <2>3. CASE "aspath" \notin DOMAIN b1
    <3>1. PathPrependAsn(nh, 0, 0, FALSE) = setPathAttr(nh, "aspath", <<>>)
      BY <2>1, <2>3, NothingPrepended DEF PathPrependAsn
    <3>2. PICK none : none = <<>>
      OBVIOUS
    <3>3. PICK c : IsPut(c, b1, "aspath", none) /\ Way(setPathAttr(nh, "aspath", none), c, path, k1)
      BY <1>3, <1>6, WaySet
    <3> QED
      BY <1>7, <2>1, <2>3, <3>1, <3>2, <3>3 DEF IsPut, SameBut, AsPathIn
  <2> QED
    BY <2>2, <2>3
<1>9. PICK pref : pref = IF Has(as2, "localpref") THEN as2 ELSE setPathAttr(as2, "localpref", DefaultLocalPref)
  OBVIOUS
<1>10. PICK b3 : /\ "localpref" \in DOMAIN b3 /\ b3["localpref"] = LocalPrefIn(b2)
                 /\ SameBut(b3, b2, {"localpref"}) /\ Way(pref, b3, path, k1)
  <2>1. \A t, default : Has(as2, t) <=> t \in DOMAIN b2
    BY <1>8, WayReads
  <2>2. CASE "localpref" \in DOMAIN b2
    BY <1>8, <1>9, <2>1, <2>2 DEF SameBut, LocalPrefIn
  <2>3. CASE "localpref" \notin DOMAIN b2
    <3>1. PICK c : IsPut(c, b2, "localpref", DefaultLocalPref) /\ Way(setPathAttr(as2, "localpref", DefaultLocalPref), c, path, k1)
      BY <1>3, <1>8, WaySet
    <3> QED
      BY <1>9, <2>1, <2>3, <3>1 DEF IsPut, SameBut, LocalPrefIn
  <2> QED
    BY <2>2, <2>3
<1>11. /\ HopOf(b3, b, kept, peer.address) /\ "aspath" \in DOMAIN b3 /\ b3["aspath"] = AsPathIn(b)
       /\ "localpref" \in DOMAIN b3 /\ b3["localpref"] = LocalPrefIn(b)
  <2>1. HopOf(b2, b, kept, peer.address)
    BY <1>6, <1>8 DEF HopOf, OneHop, NexthopOf, SameBut
  <2>2. HopOf(b3, b, kept, peer.address)
    BY <1>10, <2>1 DEF HopOf, OneHop, NexthopOf, SameBut
  <2>3. AsPathIn(b1) = AsPathIn(b)
    BY <1>6 DEF AsPathIn, SameBut, Hops
  <2>4. "aspath" \in DOMAIN b3 /\ b3["aspath"] = AsPathIn(b)
    BY <1>8, <1>10, <2>3 DEF SameBut
  <2>5. LocalPrefIn(b2) = LocalPrefIn(b1)
    BY <1>8 DEF LocalPrefIn, SameBut
  <2>6. LocalPrefIn(b1) = LocalPrefIn(b)
    BY <1>6 DEF LocalPrefIn, SameBut, Hops
  <2> QED
    BY <1>10, <2>2, <2>4, <2>5, <2>6
<1>12. SameBut(b3, b, Hops \cup {"aspath", "localpref"})
  BY <1>6, <1>8, <1>10 DEF SameBut
<1>13. InternalAttrs(global, p, peer) = IF peer.client THEN Reflected(global, pref, peer) ELSE pref
  BY <1>4, <1>5, <1>7, <1>9 DEF InternalAttrs
<1>14. CASE ~peer.client
  BY <1>1, <1>10, <1>11, <1>12, <1>13, <1>14 DEF Internal
<1>15. CASE peer.client
  <2>1. {"cluster", "originator"} \subseteq k1
    BY <1>3, <1>15
  <2>2. PICK c : /\ {"cluster", "originator"} \subseteq DOMAIN c /\ c["cluster"] = <<peer.cluster>> \o ClusterIn(b3)
                 /\ "originator" \in DOMAIN b3 => c["originator"] = b3["originator"]
                 /\ SameBut(c, b3, {"cluster", "originator"}) /\ Way(Reflected(global, pref, peer), c, path, k1)
    BY <1>10, <2>1, ReflectedSeen
  <2>3. ClusterIn(b3) = ClusterIn(b)
    BY <1>12 DEF ClusterIn, SameBut, Hops
  <2>4. "originator" \in DOMAIN b => c["originator"] = b["originator"]
    BY <1>12, <2>2 DEF SameBut, Hops
  <2>5. HopOf(c, b, kept, peer.address)
    BY <1>11, <2>2 DEF HopOf, OneHop, NexthopOf, SameBut
  <2>6. "aspath" \in DOMAIN c /\ c["aspath"] = AsPathIn(b) /\ "localpref" \in DOMAIN c /\ c["localpref"] = LocalPrefIn(b)
    BY <1>11, <2>2 DEF SameBut
  <2>7. SameBut(c, b, Hops \cup {"aspath", "localpref", "cluster", "originator"})
    BY <1>12, <2>2 DEF SameBut
  <2>8. Internal(c, b, path, peer)
    BY <1>1, <1>15, <2>2, <2>3, <2>4, <2>5, <2>6, <2>7 DEF Internal
  <2> QED
    BY <1>13, <1>15, <2>2, <2>8
<1> QED
  BY <1>14, <1>15


CommunitiesIn(c) == IF "communities" \in DOMAIN c THEN c["communities"] ELSE {}

LEMMA PostSeen ==
  ASSUME NEW p, NEW c, NEW path, NEW keep, Way(p, c, path, keep), NEW peer
  PROVE  \E g : /\ GetPathAttrs(PostFilterpath(peer, p)) = g
                /\ IF peer.type # "internal" /\ ~peer.rsClient
                   THEN "localpref" \notin DOMAIN g /\ SameBut(g, c, {"localpref"}) ELSE g = c
                /\ ~peer.llgr /\ "llgrstale" \in CommunitiesIn(c) => PostFilterpath(peer, p).withdraw
<1>1. PICK stale : stale = (~p.withdraw /\ ~peer.llgr /\ "llgrstale" \in AttrOr(p, "communities", {}))
  OBVIOUS
<1>2. PICK out : out = IF stale THEN Clone(p, TRUE) ELSE p
  OBVIOUS
<1>3. AttrOr(p, "communities", {}) = CommunitiesIn(c)
  <2>1. \A t, default : AttrOr(p, t, default) = IF t \in DOMAIN c THEN c[t] ELSE default
    BY WayReads
  <2> QED
    BY <2>1 DEF CommunitiesIn
<1>4. Way(out, c, out, {})
  <2>1. PICK e : Sees(p, c, e)
    BY DEF Way
  <2>2. PICK q : q = Clone(p, TRUE)
    OBVIOUS
  <2>3. Sees(q, c, {})
    BY <2>1, <2>2, CloneSees
  <2>4. \E d : Sees(out, c, d)
    BY <1>2, <2>1, <2>2, <2>3
  <2>5. SameButLevels(out, out)
    BY DEF SameButLevels
  <2> QED
    BY <2>4, <2>5 DEF Way
<1>5. ~peer.llgr /\ "llgrstale" \in CommunitiesIn(c) => out.withdraw
  <2>1. CASE stale
    <3>1. PICK e : Sees(p, c, e)
      BY DEF Way
    <3>2. PICK q, w : q = Clone(p, w) /\ w = TRUE
      OBVIOUS
    <3>3. q.withdraw = w
      BY <3>1, <3>2, CloneSees
    <3> QED
      BY <1>2, <2>1, <3>2, <3>3
  <2>2. CASE ~stale
    BY <1>1, <1>2, <1>3, <2>2
  <2> QED
    BY <2>1, <2>2
<1>6. Has(out, "localpref") <=> "localpref" \in DOMAIN c
  BY <1>4, WayReads
<1>7. PostFilterpath(peer, p)
        = IF peer.type # "internal" /\ ~peer.rsClient /\ Has(out, "localpref") THEN delPathAttr(out, "localpref") ELSE out
  BY <1>1, <1>2 DEF PostFilterpath
<1>8. CASE peer.type # "internal" /\ ~peer.rsClient /\ "localpref" \in DOMAIN c
  <2>1. PICK q : q = delPathAttr(out, "localpref")
    OBVIOUS
  <2>2. PICK g : IsWithout(g, c, {"localpref"}) /\ Way(q, g, out, {} \ {"localpref"})
    BY <1>4, <2>1, WayDel
  <2>3. GetPathAttrs(q) = g /\ q.withdraw = out.withdraw
    BY <2>2, WayReads DEF SameButLevels
  <2>4. "localpref" \notin DOMAIN g /\ SameBut(g, c, {"localpref"})
    BY <2>2 DEF IsWithout, SameBut
  <2>5. PostFilterpath(peer, p) = q
    BY <1>6, <1>7, <1>8, <2>1
  <2> QED
    BY <1>5, <1>8, <2>3, <2>4, <2>5
<1>9. CASE ~(peer.type # "internal" /\ ~peer.rsClient /\ "localpref" \in DOMAIN c)
  <2>1. GetPathAttrs(out) = c
    BY <1>4, WayReads
  <2>2. PostFilterpath(peer, p) = out
    BY <1>6, <1>7, <1>9
  <2>3. SameBut(c, c, {"localpref"})
    BY DEF SameBut
  <2> QED
    BY <1>5, <1>9, <2>1, <2>2, <2>3
<1> QED
  BY <1>8, <1>9

\* What is left for the neighbor, before it is changed.
LEMMA BareSeen ==
  ASSUME NEW path, NEW a, NEW d, Sees(path, a, d), OneHop(a), NEW peer
  PROVE  \E b : /\ IsWithout(b, a, NotForPeer(peer))
                /\ Way(DeleteAll(Clone(path, path.withdraw), NotForPeer(peer)), b, path, KnownTypes \ NotForPeer(peer))
<1>1. PICK types : types = NotForPeer(peer)
  OBVIOUS
<1>2. IsFiniteSet(types)
  <2>1. IsFiniteSet({"cluster", "originator"}) /\ IsFiniteSet({})
    <3>1. IsFiniteSet({"cluster"}) /\ IsFiniteSet({})
      BY FS_Singleton, FS_EmptySet
    <3>2. IsFiniteSet({"cluster"} \cup {"originator"})
      BY <3>1, FS_AddElement
    <3>3. {"cluster"} \cup {"originator"} = {"cluster", "originator"}
      OBVIOUS
    <3> QED
      BY <3>1, <3>2, <3>3
  <2>2. PICK R : IsFiniteSet(R) /\ types = NonTransitive \cup R
    BY <1>1, <2>1 DEF NotForPeer
  <2>3. IsFiniteSet(NonTransitive)
    BY ExportAssumption
  <2> QED
    BY <2>2, <2>3, FS_Union
<1>3. PICK w : w = path.withdraw
  OBVIOUS
<1>4. PICK q : q = Clone(path, w)
  OBVIOUS
<1>5. Sees(q, a, {}) /\ SameButLevels(path, q)
  BY <1>3, <1>4, CloneSees DEF SameButLevels
<1>6. PICK p : p = DeleteAll(q, types)
  OBVIOUS
<1>7. PICK b, e : IsWithout(b, a, types) /\ e \subseteq {} \cup types /\ Sees(p, b, e) /\ SameButLevels(q, p)
  BY <1>2, <1>5, <1>6, DeleteAllSees
<1>8. SameButLevels(path, p)
  BY <1>5, <1>7 DEF SameButLevels
<1>9. e \cap (KnownTypes \ types) = {}
  BY <1>7
<1> QED
  BY <1>1, <1>3, <1>4, <1>6, <1>7, <1>8, <1>9 DEF Way

LEMMA ExternalFits ==
  ASSUME NEW path, NEW a, NEW d, Sees(path, a, d), OneHop(a), AsPathOf(AsPathIn(a)),
         NEW peer, peer.type = "external", peer.localAs \in Nat, peer.removePrivate \in {"none", "all", "replace"},
         NEW b, IsWithout(b, a, NotForPeer(peer)), NEW c, External(c, b, path, peer),
         NEW out, "localpref" \notin DOMAIN out, SameBut(out, c, {"localpref"})
  PROVE  FitsExternal(path, peer, out) /\ HopOf(out, a, path.source.local /\ NexthopOf(a) # Unspecified, peer.address)
<1>1. GetPathAttrs(path) = a
  BY SeenAttrs
<1>2. NotForPeer(peer) = NonTransitive \cup {"cluster", "originator"}
  BY DEF NotForPeer
<1>3. NonTransitive \cap KnownTypes = {}
  BY ExportAssumption
<1>4. NexthopOf(b) = NexthopOf(a) /\ AsPathIn(b) = AsPathIn(a)
  BY <1>2, <1>3 DEF IsWithout, NexthopOf, AsPathIn, KnownTypes, OneHop
<1>5. HopOf(out, a, path.source.local /\ NexthopOf(a) # Unspecified, peer.address)
  <2>1. HopOf(c, b, path.source.local /\ NexthopOf(b) # Unspecified, peer.address)
    BY DEF External
  <2> QED
    BY <1>4, <2>1 DEF HopOf, OneHop, NexthopOf, SameBut
<1>6. PICK Q : Q = SentAs(AsPathIn(a), peer.localAs, peer.removePrivate, peer.confed)
  OBVIOUS
<1>7. "aspath" \in DOMAIN out /\ out["aspath"] = Q
  BY <1>4, <1>6 DEF External, SameBut
<1>8. FitsAs(Q, AsPathIn(a), peer.localAs, peer.removePrivate, peer.confed)
  <2>1. PICK old, asn, option, confed :
          old = AsPathIn(a) /\ asn = peer.localAs /\ option = peer.removePrivate /\ confed = peer.confed
    OBVIOUS
  <2>a. AsPathOf(old) /\ asn \in Nat /\ option \in {"none", "all", "replace"}
    BY <2>1
  <2>2. FitsAs(SentAs(old, asn, option, confed), old, asn, option, confed)
    BY <2>a, AsSent
  <2> QED
    BY <1>6, <2>1, <2>2
<1>9. DOMAIN out \cap ({"localpref", "cluster", "originator"} \cup NonTransitive) = {}
  <2>1. DOMAIN b \cap NotForPeer(peer) = {}
    BY DEF IsWithout
  <2>2. DOMAIN c \subseteq DOMAIN b \cup Hops \cup {"aspath", "med"}
    BY DEF External, SameBut
  <2>3. DOMAIN out \subseteq DOMAIN c
    BY DEF SameBut
  <2>4. (Hops \cup {"aspath", "med"}) \cap (NonTransitive \cup {"cluster", "originator"}) = {}
    BY <1>3 DEF Hops, KnownTypes
  <2>5. DOMAIN out \cap (NonTransitive \cup {"cluster", "originator"}) = {}
    BY <1>2, <2>1, <2>2, <2>3, <2>4
  <2> QED
    BY <2>5
<1>10. "med" \in DOMAIN out => path.source.local
  BY DEF External, SameBut
<1>11. PICK as2 : as2 = out.aspath /\ as2 = Q
  BY <1>7
<1>12. \A i \in DOMAIN Q : Len(Q[i].as) \in 1..MaxSegment
  BY <1>8 DEF FitsAs, AsPathOf
<1>13. PICK kept : kept = ASesOf(IF peer.confed THEN AsPathIn(a) ELSE NoConfed(AsPathIn(a)))
  OBVIOUS
<1>14. Tail(ASesOf(Q)) = CASE peer.removePrivate = "none"    -> kept
                      [] peer.removePrivate = "all"     -> Kept(kept, ToSet(kept) \ PrivateASes)
                      [] peer.removePrivate = "replace" ->
                           [i \in DOMAIN kept |-> IF kept[i] \in PrivateASes THEN peer.localAs ELSE kept[i]]
  <2>1. Tail(ASesOf(Q)) = Bare(kept, peer.localAs, peer.removePrivate)
    BY <1>8, <1>13 DEF FitsAs
  <2> QED
    BY <2>1 DEF Bare
<1>15. /\ Q # <<>> /\ Q[1].type = IF peer.confed THEN "confedseq" ELSE "seq"
       /\ ~peer.confed => \A i \in DOMAIN Q : Q[i].type \notin Confed
       /\ Head(ASesOf(Q)) = peer.localAs
  BY <1>8 DEF FitsAs
<1>16. AsPathIn(a) = IF "aspath" \in DOMAIN a THEN a.aspath ELSE <<>>
  BY DEF AsPathIn
<1>17. FitsExternal(path, peer, out)
  BY <1>1, <1>9, <1>10, <1>11, <1>12, <1>13, <1>14, <1>15, <1>16 DEF FitsExternal
<1> QED
  BY <1>5, <1>17

LEMMA InternalFits ==
  ASSUME NEW path, NEW a, NEW d, Sees(path, a, d), OneHop(a),
         NEW peer, peer.type = "internal", NEW b, IsWithout(b, a, NotForPeer(peer)), NEW out, Internal(out, b, path, peer)
  PROVE  FitsInternal(path, peer, out) /\ HopOf(out, a, NexthopOf(a) # Unspecified \/ ~path.source.local, peer.address)
<1>1. GetPathAttrs(path) = a
  BY SeenAttrs
<1>2. NotForPeer(peer) = NonTransitive \cup (IF peer.client THEN {} ELSE {"cluster", "originator"})
  BY DEF NotForPeer
<1>3. NonTransitive \cap KnownTypes = {}
  BY ExportAssumption
<1>4. NexthopOf(b) = NexthopOf(a) /\ AsPathIn(b) = AsPathIn(a) /\ LocalPrefIn(b) = LocalPrefIn(a)
  BY <1>2, <1>3 DEF IsWithout, NexthopOf, AsPathIn, LocalPrefIn, KnownTypes, OneHop
<1>5. HopOf(out, a, NexthopOf(a) # Unspecified \/ ~path.source.local, peer.address)
  BY <1>4 DEF Internal, HopOf
<1>6. DOMAIN b \cap NotForPeer(peer) = {}
  BY DEF IsWithout
<1>7. DOMAIN out \subseteq DOMAIN b \cup KnownTypes
  BY DEF Internal, SameBut, Hops, KnownTypes
<1>8. DOMAIN out \cap NonTransitive = {}
  BY <1>2, <1>3, <1>6, <1>7
<1>9. ~peer.client => DOMAIN out \cap {"cluster", "originator"} = {}
  <2> SUFFICES ASSUME ~peer.client PROVE DOMAIN out \cap {"cluster", "originator"} = {}
    OBVIOUS
  <2>1. DOMAIN out \subseteq DOMAIN b \cup Hops \cup {"aspath", "localpref"}
    BY DEF Internal, SameBut
  <2> QED
    BY <1>2, <1>6, <2>1 DEF Hops
<1>10. peer.client => /\ {"cluster", "originator"} \subseteq DOMAIN out
                      /\ out["cluster"] = <<peer.cluster>> \o ClusterIn(a)
                      /\ "originator" \in DOMAIN a => out["originator"] = a["originator"]
  <2> SUFFICES ASSUME peer.client
               PROVE  /\ {"cluster", "originator"} \subseteq DOMAIN out
                      /\ out["cluster"] = <<peer.cluster>> \o ClusterIn(a)
                      /\ "originator" \in DOMAIN a => out["originator"] = a["originator"]
    OBVIOUS
  <2>1. ClusterIn(b) = ClusterIn(a) /\ ("originator" \in DOMAIN a => "originator" \in DOMAIN b /\ b["originator"] = a["originator"])
    BY <1>2, <1>3 DEF IsWithout, ClusterIn, KnownTypes
  <2> QED
    BY <2>1 DEF Internal
<1>11. out.aspath = AsPathIn(a) /\ out.localpref = LocalPrefIn(a)
  BY <1>4 DEF Internal
<1>12. FitsInternal(path, peer, out)
  BY <1>1, <1>8, <1>9, <1>10, <1>11 DEF FitsInternal, AsPathIn, LocalPrefIn, ClusterIn
<1> QED
  BY <1>5, <1>12


LEMMA SentHop ==
  ASSUME NEW out, NEW a, NEW own, NEW address, HopOf(out, a, own, address)
  PROVE  /\ NexthopOf(out) = IF own THEN NexthopOf(a) ELSE address
         /\ ~({"nexthop", "mpreach"} \subseteq DOMAIN out)
BY DEF HopOf, OneHop

LEMMA ExportFits ==
  ASSUME QuestionsFit PROVE ExportFitsSession
<1> SUFFICES ASSUME Asked("export")
             PROVE  LET path == question.path
                        peer == question.peer
                        sent == PostFilterpath(peer, ForPeer(Global, peer, path))
                        out  == GetPathAttrs(sent)
                        own  == path.source.local /\ GetNexthop(path) # Unspecified
                        keep == IF peer.type = "external" THEN own ELSE GetNexthop(path) # Unspecified \/ ~path.source.local
                    IN  IF peer.rsClient THEN out = GetPathAttrs(path)
                        ELSE /\ NexthopOf(out) = IF keep THEN GetNexthop(path) ELSE peer.address
                             /\ ~({"nexthop", "mpreach"} \subseteq DOMAIN out)
                             /\ IF peer.type = "external" THEN FitsExternal(path, peer, out) ELSE FitsInternal(path, peer, out)
                             /\ ~peer.llgr /\ "llgrstale" \in AttrOr(path, "communities", {}) => sent.withdraw
  BY DEF ExportFitsSession
<1>1. PICK path \in Paths, peer \in Peers : question.path = path /\ question.peer = peer
  BY DEF QuestionsFit, ExportQuestions
<1>2. /\ ChainOf(path) /\ path.family # "rtc" /\ (Has(path, "nexthop") <=> ~Has(path, "mpreach"))
      /\ AsPathOf(AttrOr(path, "aspath", <<>>))
      /\ peer.type \in {"external", "internal"} /\ peer.localAs \in Nat
      /\ peer.removePrivate \in {"none", "all", "replace"} /\ peer.vrf = Nothing /\ ~peer.replacePeer
      /\ NonTransitive \cap KnownTypes = {}
  BY ExportAssumption
<1>3. PICK a : a = GetPathAttrs(path)
  OBVIOUS
<1>4. PICK d : Sees(path, a, d)
  BY <1>2, <1>3, SeesItsAttrs
<1>5. Way(path, a, path, {})
  BY <1>4 DEF Way, SameButLevels
<1>6. \A t, default : /\ (Has(path, t) <=> t \in DOMAIN a)
                      /\ AttrOr(path, t, default) = IF t \in DOMAIN a THEN a[t] ELSE default
  BY <1>5, WayReads
<1>7. OneHop(a) /\ AsPathOf(AsPathIn(a)) /\ AttrOr(path, "communities", {}) = CommunitiesIn(a)
  BY <1>2, <1>6 DEF OneHop, AsPathIn, CommunitiesIn
<1>8. GetNexthop(path) = NexthopOf(a)
  BY <1>5, <1>7, HopRead
<1>9. PICK for : for = UpdatePathAttrs(Global, peer, path)
  OBVIOUS
<1>10. ForPeer(Global, peer, path) = for
  BY <1>2, <1>9 DEF ForPeer
<1>11. PICK sent : sent = PostFilterpath(peer, for)
  OBVIOUS
<1>12. PICK out : out = GetPathAttrs(sent)
  OBVIOUS
<1>13. CASE peer.rsClient
  <2>1. for = path
    BY <1>9, <1>13 DEF UpdatePathAttrs
  <2>2. GetPathAttrs(PostFilterpath(peer, path)) = a
    BY <1>5, <1>13, PostSeen
  <2>3. out = GetPathAttrs(path)
    BY <1>3, <1>11, <1>12, <2>1, <2>2
  <2> QED
    BY <1>1, <1>10, <1>11, <1>12, <1>13, <2>3
<1>14. CASE ~peer.rsClient
  <2>1. PICK own : own = IF peer.type = "external" THEN path.source.local /\ NexthopOf(a) # Unspecified
                         ELSE NexthopOf(a) # Unspecified \/ ~path.source.local
    OBVIOUS
  <2>2. PICK types : types = NotForPeer(peer)
    OBVIOUS
  <2>3. PICK p, b : /\ p = DeleteAll(Clone(path, path.withdraw), NotForPeer(peer)) /\ IsWithout(b, a, NotForPeer(peer))
                    /\ Way(p, b, path, KnownTypes \ types)
    BY <1>4, <1>7, <2>2, BareSeen
  <2>4. Hops \cup {"aspath", "localpref"} \subseteq KnownTypes \ types
    BY <1>2, <2>2 DEF NotForPeer, Hops, KnownTypes
  <2>5. OneHop(b) /\ CommunitiesIn(b) = CommunitiesIn(a)
    <3>1. "nexthop" \notin types /\ "mpreach" \notin types /\ "communities" \notin types
      BY <1>2, <2>2 DEF NotForPeer, KnownTypes
    <3> QED
      BY <1>7, <2>2, <2>3, <3>1 DEF IsWithout, OneHop, CommunitiesIn
  <2>6. \E c, k : /\ Way(for, c, path, k) /\ CommunitiesIn(c) = CommunitiesIn(b)
                  /\ IF peer.type = "external" THEN External(c, b, path, peer) ELSE Internal(c, b, path, peer)
    <3>1. CASE peer.type = "external"
      <4>1. for = ExternalAttrs(p, peer)
        BY <1>9, <1>14, <2>3, <3>1 DEF UpdatePathAttrs
      <4>2. Hops \cup {"aspath"} \subseteq KnownTypes \ types
        BY <2>4
      <4>3. PICK c, k : External(c, b, path, peer) /\ Way(ExternalAttrs(p, peer), c, path, k)
        BY <1>2, <2>3, <2>5, <4>2, ExternalSeen
      <4>4. CommunitiesIn(c) = CommunitiesIn(b)
        BY <4>3 DEF External, SameBut, CommunitiesIn, Hops
      <4> QED
        BY <3>1, <4>1, <4>3, <4>4
    <3>2. CASE peer.type # "external"
      <4>1. peer.type = "internal"
        BY <1>2, <3>2
      <4>2. PICK global : global = Global
        OBVIOUS
      <4>3. for = InternalAttrs(global, p, peer)
        BY <1>9, <1>14, <2>3, <4>1, <4>2 DEF UpdatePathAttrs
      <4>4. peer.client => {"cluster", "originator"} \subseteq KnownTypes \ types
        BY <1>2, <2>2, <4>1 DEF NotForPeer, KnownTypes
      <4>5. PICK c, k : Internal(c, b, path, peer) /\ Way(InternalAttrs(global, p, peer), c, path, k)
        BY <1>2, <2>3, <2>4, <2>5, <4>4, InternalSeen
      <4>6. CommunitiesIn(c) = CommunitiesIn(b)
        <5>1. SameBut(c, b, Hops \cup {"aspath", "localpref", "cluster", "originator"})
          BY <4>5 DEF Internal, SameBut
        <5> QED
          BY <5>1 DEF SameBut, CommunitiesIn, Hops
      <4> QED
        BY <3>2, <4>3, <4>5, <4>6
    <3> QED
      BY <3>1, <3>2
  <2>7. PICK c, k : /\ Way(for, c, path, k) /\ CommunitiesIn(c) = CommunitiesIn(b)
                    /\ IF peer.type = "external" THEN External(c, b, path, peer) ELSE Internal(c, b, path, peer)
    BY <2>6
  <2>8. /\ IF peer.type # "internal" THEN "localpref" \notin DOMAIN out /\ SameBut(out, c, {"localpref"}) ELSE out = c
        /\ ~peer.llgr /\ "llgrstale" \in CommunitiesIn(c) => sent.withdraw
    BY <1>11, <1>12, <1>14, <2>7, PostSeen
  <2>9. /\ IF peer.type = "external" THEN FitsExternal(path, peer, out) ELSE FitsInternal(path, peer, out)
        /\ HopOf(out, a, own, peer.address)
    <3>1. CASE peer.type = "external"
      <4>1. "localpref" \notin DOMAIN out /\ SameBut(out, c, {"localpref"}) /\ External(c, b, path, peer)
        BY <2>7, <2>8, <3>1
      <4> QED
        BY <1>2, <1>4, <1>7, <2>1, <2>3, <3>1, <4>1, ExternalFits
    <3>2. CASE peer.type # "external"
      <4>1. peer.type = "internal" /\ out = c /\ Internal(out, b, path, peer)
        BY <1>2, <2>7, <2>8, <3>2
      <4> QED
        BY <1>4, <1>7, <2>1, <2>3, <3>2, <4>1, InternalFits
    <3> QED
      BY <3>1, <3>2
  <2>10. /\ NexthopOf(out) = IF own THEN NexthopOf(a) ELSE peer.address
         /\ ~({"nexthop", "mpreach"} \subseteq DOMAIN out)
    BY <2>9, SentHop
  <2>11. ~peer.llgr /\ "llgrstale" \in AttrOr(path, "communities", {}) => sent.withdraw
    BY <1>7, <2>5, <2>7, <2>8
  <2> QED
    BY <1>1, <1>8, <1>10, <1>11, <1>12, <1>14, <2>1, <2>9, <2>10, <2>11
<1> QED
  BY <1>13, <1>14

-----------------------------------------------------------------------------

\* For any prefix sets, lists of policies and paths: a prefix set, put together and taken from, holds the addresses that
\* its entries match, but for nested entries, and never more (PrefixSet.Append, Remove, PrefixCondition.Evaluate); how
\* statements are grouped into policies makes no difference to a path, what a policy rejects no later one lets through,
\* and withdrawals always pass (RoutingPolicy.ApplyPolicy, Policy.Apply, Statement.Apply).
THEOREM PoliciesAgree == EvaluationSpec => []PoliciesMatch
<1>1. QuestionsFit => PoliciesMatch
  BY PrefixesMatch, PoliciesFit DEF PoliciesMatch
<1> QED
  BY <1>1, QuestionsFitAlways, PTL

\* For any paths, any number of clones deep, with any AS_PATHs whose segments are neither empty nor too long, and any
\* neighbors of the global table: what is serialized is what the kind of the neighbor asks for. An external one gets our
\* AS first, of the others all but what had to be removed, no segment longer than its count, nothing that stays within an
\* AS, and a next hop it can reach; an internal one the AS_PATH as it is, a LOCAL_PREF, and the marks of reflection only
\* if it is a client (UpdatePathAttrs, PrependAsn, RemovePrivateAS, removeConfedAs, postFilterpath).
THEOREM ExportsFit == EvaluationSpec => []ExportFitsSession
<1>1. QuestionsFit => ExportFitsSession
  BY ExportFits
<1> QED
  BY <1>1, QuestionsFitAlways, PTL

\* For any paths, any number of clones deep, and any VRFs: a path of a VRF goes to the VRFs that import one of its
\* targets, and to no other; but for the communities that it lost on the way it is there the path it was
\* (Path.ToGlobal, CanImportToVrf, Path.ToLocal).
THEOREM VrfsTurn == EvaluationSpec => []VrfRoundTrip
<1>1. QuestionsFit => VrfRoundTrip
  BY VrfsFit
<1> QED
  BY <1>1, QuestionsFitAlways, PTL

\* For any finite tables of ROAs and any AS_PATHs: only a ROA that names the AS a route comes from makes it valid, another
\* ROA never takes the validity away, what is deleted ROA by ROA or at once leaves no trace, and a route nothing covers
\* is not found (ROATable.Validate, Add, Delete, DeleteAll).
THEOREM OriginsHold == EvaluationSpec => []OriginsAreAuthorized
<1>1. QuestionsFit => OriginsAreAuthorized
  BY OriginsFit
<1> QED
  BY <1>1, QuestionsFitAlways, PTL

=============================================================================
