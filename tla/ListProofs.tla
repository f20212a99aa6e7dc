----------------------------- MODULE ListProofs -----------------------------
(***************************************************************************)
(* Lemmas on lists, and the induction they need. The library's induction    *)
(* theorems are about operators; here a property is the set of the numbers  *)
(* that have it.                                                            *)
(***************************************************************************)
EXTENDS Lists, SequencesExt, FiniteSetTheorems, WellFoundedInduction, TLAPS

Less == {p \in Nat \X Nat : p[1] < p[2]}

LEMMA LessIsWellFounded == IsWellFoundedOn(Less, Nat)
BY NatLessThanWellFounded DEF OpToRel, Less

LEMMA LeastNumber ==
  ASSUME NEW T \in SUBSET Nat, T # {}
  PROVE  \E m \in T : \A k \in T : m <= k
<1>1. PICK m \in T : \A k \in T : <<k, m>> \notin Less
  BY LessIsWellFounded, WFMin
<1>2. ASSUME NEW k \in T, k < m PROVE FALSE
  <2>1. <<k, m>> \in Less
    BY <1>2 DEF Less
  <2> QED
    BY <1>1, <2>1
<1> QED
  BY <1>2

LEMMA SetInduction ==
  ASSUME NEW T \in SUBSET Nat, 0 \in T, \A n \in T : n + 1 \in T
  PROVE  T = Nat
<1> SUFFICES ASSUME Nat \ T # {} PROVE FALSE
  OBVIOUS
<1>1. PICK m \in Nat \ T : \A k \in Nat \ T : m <= k
  BY LeastNumber
<1>2. m # 0 /\ m - 1 \in Nat
  BY <1>1
<1>3. m - 1 \in T
  BY <1>1, <1>2
<1> QED
  BY <1>1, <1>2, <1>3

\* A function that is defined from its value before exists.
Follows(f, n, a, g) == f[0] = a /\ \A i \in 1..n : f[i] = g[<<i, f[i - 1]>>]

LEMMA RecursionExists ==
  ASSUME NEW n \in Nat, NEW V, NEW a \in V, NEW g \in [(1..n) \X V -> V]
  PROVE  \E f \in [0..n -> V] : Follows(f, n, a, g)
<1> USE DEF Follows
<1> DEFINE Good(k, f) == Follows(f, k, a, g)
           T == {k \in Nat : k <= n => \E f \in [0..k -> V] : Good(k, f)}
<1>1. 0 \in T
  <2>1. [i \in 0..0 |-> a] \in [0..0 -> V] /\ Good(0, [i \in 0..0 |-> a])
    OBVIOUS
  <2> QED
    BY <2>1
<1>2. ASSUME NEW k \in T PROVE k + 1 \in T
  <2> SUFFICES ASSUME k + 1 <= n PROVE \E f \in [0..(k + 1) -> V] : Good(k + 1, f)
    OBVIOUS
  <2>1. PICK f \in [0..k -> V] : Good(k, f)
    OBVIOUS
  <2> DEFINE h == [i \in 0..(k + 1) |-> IF i <= k THEN f[i] ELSE g[<<k + 1, f[k]>>]]
  <2>2. f[k] \in V /\ <<k + 1, f[k]>> \in (1..n) \X V
    OBVIOUS
  <2>3. h \in [0..(k + 1) -> V]
    BY <2>2
  <2>4. h[0] = a
    BY <2>1
  <2>5. ASSUME NEW i \in 1..(k + 1) PROVE h[i] = g[<<i, h[i - 1]>>]
    <3>1. CASE i <= k
      <4>1. i \in 1..k /\ i - 1 \in 0..k /\ i \in 0..(k + 1) /\ i - 1 \in 0..(k + 1) /\ i - 1 <= k
        BY <3>1
      <4> QED
        BY <2>1, <3>1, <4>1
    <3>2. CASE i = k + 1
      <4>1. ~(i <= k) /\ i - 1 = k /\ k \in 0..(k + 1) /\ i \in 0..(k + 1) /\ k <= k
        BY <3>2
      <4> QED
        BY <3>2, <4>1
    <3> QED
      BY <3>1, <3>2
  <2> QED
    BY <2>3, <2>4, <2>5
<1>3. T = Nat
  <2>1. T \subseteq Nat
    OBVIOUS
  <2> HIDE DEF T
  <2> QED
    BY <1>1, <1>2, <2>1, SetInduction
<1>4. n \in T
  <2> HIDE DEF T
  <2> QED
    BY <1>3
<1> QED
  BY <1>4

LEMMA IsList ==
  ASSUME NEW S, NEW n \in Nat, NEW s, s = [i \in 1..n |-> s[i]], \A i \in 1..n : s[i] \in S
  PROVE  s \in Seq(S) /\ Len(s) = n
OBVIOUS

LEMMA AppendElements ==
  ASSUME NEW S, NEW s \in Seq(S), NEW e \in S
  PROVE  Append(s, e) \in Seq(S) /\ ToSet(Append(s, e)) = ToSet(s) \cup {e}
<1>1. Len(s) \in Nat /\ DOMAIN s = 1..Len(s) /\ DOMAIN Append(s, e) = 1..(Len(s) + 1)
  OBVIOUS
<1>2. (\A i \in 1..Len(s) : Append(s, e)[i] = s[i]) /\ Append(s, e)[Len(s) + 1] = e
  OBVIOUS
<1>3. \A i : i \in 1..(Len(s) + 1) <=> i \in 1..Len(s) \/ i = Len(s) + 1
  BY <1>1
<1>4. Append(s, e) \in Seq(S)
  OBVIOUS
<1> QED
  BY <1>1, <1>2, <1>3, <1>4 DEF ToSet

LEMMA ConcatElements ==
  ASSUME NEW S, NEW s \in Seq(S), NEW t \in Seq(S)
  PROVE  s \o t \in Seq(S) /\ ToSet(s \o t) = ToSet(s) \cup ToSet(t)
<1>1. /\ Len(s) \in Nat /\ DOMAIN s = 1..Len(s) /\ Len(t) \in Nat /\ DOMAIN t = 1..Len(t)
      /\ DOMAIN (s \o t) = 1..(Len(s) + Len(t)) /\ s \o t \in Seq(S)
  OBVIOUS
<1>2. \A i \in 1..(Len(s) + Len(t)) : (s \o t)[i] = IF i <= Len(s) THEN s[i] ELSE t[i - Len(s)]
  OBVIOUS
<1>3. ToSet(s \o t) \subseteq ToSet(s) \cup ToSet(t)
  <2> SUFFICES ASSUME NEW i \in 1..(Len(s) + Len(t)) PROVE (s \o t)[i] \in ToSet(s) \cup ToSet(t)
    BY <1>1 DEF ToSet
  <2>1. i \in 1..Len(s) \/ (i - Len(s) \in 1..Len(t) /\ ~(i <= Len(s)))
    BY <1>1
  <2> QED
    BY SMTT(30), <1>1, <1>2, <2>1 DEF ToSet
<1>4. ToSet(s) \subseteq ToSet(s \o t)
  <2> SUFFICES ASSUME NEW i \in 1..Len(s) PROVE s[i] \in ToSet(s \o t)
    BY <1>1 DEF ToSet
  <2>1. i \in 1..(Len(s) + Len(t)) /\ i <= Len(s)
    BY <1>1
  <2> QED
    BY <1>1, <1>2, <2>1 DEF ToSet
<1>5. ToSet(t) \subseteq ToSet(s \o t)
  <2> SUFFICES ASSUME NEW i \in 1..Len(t) PROVE t[i] \in ToSet(s \o t)
    BY <1>1 DEF ToSet
  <2>1. i + Len(s) \in 1..(Len(s) + Len(t)) /\ ~(i + Len(s) <= Len(s)) /\ (i + Len(s)) - Len(s) = i
    BY <1>1
  <2> QED
    BY <1>1, <1>2, <2>1 DEF ToSet
<1> QED
  BY <1>1, <1>3, <1>4, <1>5

\* What Kept keeps is what the list and the set have in common.
LEMMA KeptElements ==
  ASSUME NEW S, NEW list \in Seq(S), NEW set
  PROVE  Kept(list, set) \in Seq(S) /\ ToSet(Kept(list, set)) = ToSet(list) \cap set
<1> DEFINE n == Len(list)
           F(f) == [i \in 0..n |->
                      IF i = 0 THEN <<>>
                      ELSE IF list[i] \in set THEN Append(f[i - 1], list[i]) ELSE f[i - 1]]
           kept == CHOOSE f : f = F(f)
           g == [p \in (1..n) \X Seq(S) |-> IF list[p[1]] \in set THEN Append(p[2], list[p[1]]) ELSE p[2]]
<1>1. Kept(list, set) = kept[n]
  BY DEF Kept
<1>2. n \in Nat /\ \A i \in 1..n : list[i] \in S
  OBVIOUS
<1>3. g \in [(1..n) \X Seq(S) -> Seq(S)]
  BY <1>2
<1>4. PICK f \in [0..n -> Seq(S)] : f[0] = <<>> /\ \A i \in 1..n : f[i] = g[<<i, f[i - 1]>>]
  <2>1. <<>> \in Seq(S) /\ n \in Nat
    BY <1>2
  <2> HIDE DEF g, n
  <2>2. \E f \in [0..n -> Seq(S)] : Follows(f, n, <<>>, g)
    BY <1>3, <2>1, RecursionExists
  <2> QED
    BY <2>2 DEF Follows
<1>5. f = F(f)
  <2>1. ASSUME NEW i \in 1..n
        PROVE  f[i] = IF list[i] \in set THEN Append(f[i - 1], list[i]) ELSE f[i - 1]
    <3>1. i - 1 \in 0..n
      BY <1>2
    <3>2. <<i, f[i - 1]>> \in (1..n) \X Seq(S)
      BY <3>1
    <3> QED
      BY <1>4, <3>2
  <2> HIDE DEF n
  <2>2. \A i \in 0..n : i = 0 \/ i \in 1..n
    BY <1>2
  <2> QED
    BY <1>4, <2>1, <2>2
<1>6. kept = F(kept)
  <2> HIDE DEF F
  <2> QED
    BY <1>5
<1> HIDE DEF kept, g
<1>7. kept[0] = <<>> /\ \A i \in 1..n : kept[i] = IF list[i] \in set THEN Append(kept[i - 1], list[i]) ELSE kept[i - 1]
  <2>1. \A i \in 1..n : i \in 0..n /\ i # 0
    BY <1>2
  <2>2. 0 \in 0..n
    BY <1>2
  <2> HIDE DEF n
  <2> QED
    BY <1>6, <2>1, <2>2
<1> DEFINE T == {i \in Nat : i <= n =>
                   /\ kept[i] \in Seq(S)
                   /\ ToSet(kept[i]) = {list[j] : j \in 1..i} \cap set}
<1>8. 0 \in T
  <2>1. ToSet(<<>>) = {} /\ {list[j] : j \in 1..0} = {}
    BY DEF ToSet
  <2>2. <<>> \in Seq(S)
    OBVIOUS
  <2> QED
    BY <1>7, <2>1, <2>2
<1>9. ASSUME NEW i \in T PROVE i + 1 \in T
  <2> SUFFICES ASSUME i + 1 <= n
               PROVE  /\ kept[i + 1] \in Seq(S)
                      /\ ToSet(kept[i + 1]) = {list[j] : j \in 1..(i + 1)} \cap set
    OBVIOUS
  <2>1. i \in Nat /\ i + 1 \in 1..n /\ (i + 1) - 1 = i /\ list[i + 1] \in S
    BY <1>2
  <2>2. kept[i] \in Seq(S) /\ ToSet(kept[i]) = {list[j] : j \in 1..i} \cap set
    BY <2>1
  <2>3. kept[i + 1] = IF list[i + 1] \in set THEN Append(kept[i], list[i + 1]) ELSE kept[i]
    BY <1>7, <2>1
  <2>4. {list[j] : j \in 1..(i + 1)} = {list[j] : j \in 1..i} \cup {list[i + 1]}
    <3>1. \A j : j \in 1..(i + 1) <=> j \in 1..i \/ j = i + 1
      BY <2>1
    <3> QED
      BY <3>1
  <2>5. \A q \in Seq(S), e \in S : Append(q, e) \in Seq(S) /\ ToSet(Append(q, e)) = ToSet(q) \cup {e}
    BY AppendElements
  <2> QED
    BY <2>1, <2>2, <2>3, <2>4, <2>5
<1>10. T = Nat
  <2>1. T \subseteq Nat
    OBVIOUS
  <2> HIDE DEF T
  <2> QED
    BY <1>8, <1>9, <2>1, SetInduction
<1>11. ToSet(list) = {list[j] : j \in 1..n}
  BY DEF ToSet
<1>12. n \in T
  <2> HIDE DEF T
  <2> QED
    BY <1>2, <1>10
<1> HIDE DEF n
<1> QED
  BY <1>1, <1>2, <1>11, <1>12

\* SetToSeq lists every element of a finite set once.
LEMMA SetToSeqFacts ==
  ASSUME NEW S, IsFiniteSet(S)
  PROVE  /\ SetToSeq(S) \in Seq(S) /\ ToSet(SetToSeq(S)) = S
         /\ \A i, j \in DOMAIN SetToSeq(S) : SetToSeq(S)[i] = SetToSeq(S)[j] => i = j
<1>1. Cardinality(S) \in Nat /\ ExistsBijection(1..Cardinality(S), S)
  BY FS_CardinalityType
<1>2. PICK f \in [1..Cardinality(S) -> S] : /\ \A i, j \in 1..Cardinality(S) : f[i] = f[j] => i = j
                                            /\ \A x \in S : \E i \in 1..Cardinality(S) : f[i] = x
  BY <1>1 DEF ExistsBijection, Bijection, Injection, Surjection, IsInjective
<1>3. f \in [1..Cardinality(S) -> S] /\ IsInjective(f)
  BY <1>2 DEF IsInjective
<1>4. SetToSeq(S) \in [1..Cardinality(S) -> S] /\ IsInjective(SetToSeq(S))
  BY <1>3 DEF SetToSeq
<1>5. PICK g : g = SetToSeq(S)
  OBVIOUS
<1>6. g \in Injection(1..Cardinality(S), S) /\ IsFiniteSet(1..Cardinality(S)) /\ Cardinality(1..Cardinality(S)) = Cardinality(S)
  <2>1. g \in Injection(1..Cardinality(S), S)
    BY <1>4, <1>5 DEF Injection
  <2>2. \A n \in Nat : IsFiniteSet(1..n) /\ Cardinality(1..n) = n
    BY FS_Interval
  <2> QED
    BY <1>1, <2>1, <2>2
<1>7. g \in Surjection(1..Cardinality(S), S)
  BY <1>6, FS_Injection
<1> QED
  BY <1>1, <1>4, <1>5, <1>7 DEF ToSet, Surjection, IsInjective

LEMMA FlattenElements ==
  ASSUME NEW E, NEW lists \in Seq(Seq(E))
  PROVE  /\ FlattenSeq(lists) \in Seq(E)
         /\ ToSet(FlattenSeq(lists)) = UNION {ToSet(lists[i]) : i \in DOMAIN lists}
<1> DEFINE n == Len(lists)
           F(f) == [i \in 1..n |-> IF i = 1 THEN lists[i] ELSE f[i - 1] \o lists[i]]
           flat == CHOOSE f : f = F(f)
           g == [p \in (1..n) \X Seq(E) |-> p[2] \o lists[p[1]]]
<1>1. n \in Nat /\ DOMAIN lists = 1..n /\ \A i \in 1..n : lists[i] \in Seq(E)
  OBVIOUS
<1>2. CASE n = 0
  <2>1. lists = <<>> /\ DOMAIN lists = {}
    BY <1>1, <1>2
  <2>2. FlattenSeq(lists) = <<>>
    BY <1>2, <2>1 DEF FlattenSeq
  <2>3. ToSet(<<>>) = {} /\ <<>> \in Seq(E)
    BY DEF ToSet
  <2>4. UNION {ToSet(lists[i]) : i \in DOMAIN lists} = {}
    BY <2>1
  <2> QED
    BY <2>2, <2>3, <2>4
<1>3. CASE n # 0
  <2>1. FlattenSeq(lists) = flat[n]
    BY <1>3 DEF FlattenSeq
  <2>2. g \in [(1..n) \X Seq(E) -> Seq(E)]
    <3>1. ASSUME NEW p \in (1..n) \X Seq(E) PROVE p[2] \o lists[p[1]] \in Seq(E)
      <4>1. p[2] \in Seq(E) /\ lists[p[1]] \in Seq(E)
        BY <1>1
      <4> QED
        BY <4>1, ConcatElements
    <3> QED
      BY <3>1
  <2>3. PICK h \in [0..n -> Seq(E)] : h[0] = <<>> /\ \A i \in 1..n : h[i] = g[<<i, h[i - 1]>>]
    <3>1. <<>> \in Seq(E)
      OBVIOUS
    <3> HIDE DEF g, n
    <3>2. \E h \in [0..n -> Seq(E)] : Follows(h, n, <<>>, g)
      BY <1>1, <2>2, <3>1, RecursionExists
    <3> QED
      BY <3>2 DEF Follows
  <2>4. ASSUME NEW i \in 1..n PROVE i - 1 \in 0..n /\ h[i - 1] \in Seq(E) /\ h[i] = h[i - 1] \o lists[i]
    <3>1. i - 1 \in 0..n
      BY <1>1
    <3>2. <<i, h[i - 1]>> \in (1..n) \X Seq(E)
      BY <3>1
    <3> QED
      BY <2>3, <3>1, <3>2
  <2>5. PICK f : f = [i \in 1..n |-> h[i]]
    OBVIOUS
  <2>6. f = F(f)
    <3>1. h[1] = lists[1]
      <4>1. 1 \in 1..n /\ 1 - 1 = 0
        BY <1>1, <1>3
      <4>2. h[1] = <<>> \o lists[1] /\ lists[1] \in Seq(E)
        <5>1. h[1] = h[1 - 1] \o lists[1]
          BY <2>4, <4>1
        <5>2. h[1 - 1] = <<>>
          BY <2>3, <4>1
        <5>3. lists[1] \in Seq(E)
          BY <1>1, <4>1
        <5> QED
          BY <5>1, <5>2, <5>3
      <4>3. \A q \in Seq(E) : <<>> \o q = q
        OBVIOUS
      <4> QED
        BY <4>2, <4>3
    <3>2. ASSUME NEW i \in 1..n, i # 1 PROVE i - 1 \in 1..n /\ f[i - 1] = h[i - 1]
      BY <1>1, <2>5, <3>2
    <3> HIDE DEF n
    <3>3. \A i \in 1..n : h[i] = IF i = 1 THEN lists[i] ELSE f[i - 1] \o lists[i]
      BY <2>4, <3>1, <3>2
    <3> QED
      BY <2>5, <3>3
  <2>7. flat = F(flat)
    <3> HIDE DEF F
    <3> QED
      BY <2>6
  <2> HIDE DEF flat, g
  <2>8. \A i \in 1..n : flat[i] = IF i = 1 THEN lists[i] ELSE flat[i - 1] \o lists[i]
    <3> HIDE DEF n
    <3> QED
      BY <2>7
  <2> DEFINE T == {i \in Nat : i + 1 <= n =>
                     /\ flat[i + 1] \in Seq(E)
                     /\ ToSet(flat[i + 1]) = UNION {ToSet(lists[j]) : j \in 1..(i + 1)}}
  <2>9. 0 \in T
    <3>1. 1 \in 1..n /\ 0 + 1 = 1
      BY <1>1, <1>3
    <3>2. flat[1] = lists[1] /\ lists[1] \in Seq(E)
      BY <1>1, <2>8, <3>1
    <3>3. {ToSet(lists[j]) : j \in 1..1} = {ToSet(lists[1])}
      <4>1. 1..1 = {1}
        OBVIOUS
      <4> QED
        BY <4>1
    <3>4. UNION {ToSet(lists[j]) : j \in 1..1} = ToSet(lists[1])
      BY <3>3
    <3> QED
      BY <3>1, <3>2, <3>4
  <2>10. ASSUME NEW i \in T PROVE i + 1 \in T
    <3> SUFFICES ASSUME (i + 1) + 1 <= n
                 PROVE  /\ flat[(i + 1) + 1] \in Seq(E)
                        /\ ToSet(flat[(i + 1) + 1]) = UNION {ToSet(lists[j]) : j \in 1..((i + 1) + 1)}
      OBVIOUS
    <3>1. i \in Nat /\ i + 1 <= n
      BY <1>1
    <3>2. PICK k \in 1..n : k = (i + 1) + 1
      BY <1>1, <3>1
    <3>3. k # 1 /\ k - 1 = i + 1
      BY <3>1, <3>2
    <3>4. flat[k - 1] \in Seq(E) /\ ToSet(flat[k - 1]) = UNION {ToSet(lists[j]) : j \in 1..(k - 1)}
      BY <3>1, <3>3
    <3>5. flat[k] = flat[k - 1] \o lists[k] /\ lists[k] \in Seq(E)
      BY <1>1, <2>8, <3>3
    <3>6. flat[k] \in Seq(E) /\ ToSet(flat[k]) = ToSet(flat[k - 1]) \cup ToSet(lists[k])
      <4>1. PICK a \in Seq(E), b \in Seq(E) : a = flat[k - 1] /\ b = lists[k]
        BY <3>4, <3>5
      <4>2. a \o b \in Seq(E) /\ ToSet(a \o b) = ToSet(a) \cup ToSet(b)
        BY ConcatElements
      <4> QED
        BY <3>5, <4>1, <4>2
    <3>7. \A j : j \in 1..k <=> j \in 1..(k - 1) \/ j = k
      BY <1>1
    <3>8. UNION {ToSet(lists[j]) : j \in 1..k} = (UNION {ToSet(lists[j]) : j \in 1..(k - 1)}) \cup ToSet(lists[k])
      BY <3>7
    <3> QED
      BY <3>2, <3>4, <3>6, <3>8
  <2>11. T = Nat
    <3>1. T \subseteq Nat
      OBVIOUS
    <3> HIDE DEF T
    <3> QED
      BY <2>9, <2>10, <3>1, SetInduction
  <2>12. PICK k \in T : k + 1 = n
    <3>1. n - 1 \in Nat /\ (n - 1) + 1 = n
      BY <1>1, <1>3
    <3>2. n - 1 \in T
      <4> HIDE DEF T
      <4> QED
        BY <2>11, <3>1
    <3> QED
      BY <3>1, <3>2
  <2>13. k + 1 <= n
    BY <1>1, <2>12
  <2>14. flat[n] \in Seq(E) /\ ToSet(flat[n]) = UNION {ToSet(lists[j]) : j \in 1..n}
    BY <2>12, <2>13
  <2> HIDE DEF n
  <2> QED
    BY <1>1, <2>1, <2>14
<1> QED
  BY <1>2, <1>3

-----------------------------------------------------------------------------
(* Queues: the last word on a subject. T is what is said of it, S what is true. *)

Silent(q, T) == ToSet(q) \cap T = {}
EndsIn(q, T, S) == \E i \in DOMAIN q : /\ q[i] \in T \cap S
                                       /\ \A j \in DOMAIN q : j > i => q[j] \notin T

LEMMA LastWord ==
  ASSUME NEW E, NEW q \in Seq(E), NEW T, NEW S, ~Silent(q, T), ToSet(q) \cap T \subseteq S
  PROVE  EndsIn(q, T, S)
<1>1. Len(q) \in Nat /\ DOMAIN q = 1..Len(q)
  OBVIOUS
<1> DEFINE Back == {k \in Nat : k < Len(q) /\ q[Len(q) - k] \in T}
<1>2. Back \subseteq Nat /\ Back # {}
  <2>1. PICK i \in 1..Len(q) : q[i] \in T
    BY <1>1 DEF Silent, ToSet
  <2>2. Len(q) - i \in Nat /\ Len(q) - i < Len(q) /\ Len(q) - (Len(q) - i) = i
    BY <1>1
  <2>3. Len(q) - i \in Back
    BY <2>1, <2>2
  <2> QED
    BY <2>3
<1>3. PICK m \in Back : \A k \in Back : m <= k
  <2> HIDE DEF Back
  <2> QED
    BY <1>2, LeastNumber
<1>4. PICK i \in 1..Len(q) : i = Len(q) - m
  <2>1. m \in Nat /\ m < Len(q)
    BY <1>3
  <2> HIDE DEF Back
  <2>2. Len(q) - m \in 1..Len(q)
    BY <1>1, <2>1
  <2> QED
    BY <2>2, Zenon
<1>5. q[i] \in T \cap S
  BY <1>1, <1>3, <1>4 DEF ToSet
<1>6. ASSUME NEW j \in 1..Len(q), j > i PROVE q[j] \notin T
  <2>1. Len(q) - j \in Nat /\ Len(q) - j < m /\ Len(q) - j < Len(q) /\ Len(q) - (Len(q) - j) = j
    BY <1>1, <1>4, <1>6
  <2>2. Len(q) - j \notin Back
    BY <1>1, <1>3, <2>1
  <2> QED
    BY <2>1, <2>2
<1> QED
  BY <1>1, <1>5, <1>6 DEF EndsIn

LEMMA ConcatIndex ==
  ASSUME NEW E, NEW q \in Seq(E), NEW r \in Seq(E)
  PROVE  /\ Len(q) \in Nat /\ Len(r) \in Nat /\ q \o r \in Seq(E)
         /\ DOMAIN q = 1..Len(q) /\ DOMAIN r = 1..Len(r) /\ DOMAIN (q \o r) = 1..(Len(q) + Len(r))
         /\ \A i \in 1..(Len(q) + Len(r)) : (q \o r)[i] = IF i <= Len(q) THEN q[i] ELSE r[i - Len(q)]
OBVIOUS

LEMMA SilentConcat ==
  ASSUME NEW E, NEW q \in Seq(E), NEW r \in Seq(E), NEW T
  PROVE  Silent(q \o r, T) <=> Silent(q, T) /\ Silent(r, T)
<1>1. ToSet(q \o r) = ToSet(q) \cup ToSet(r)
  BY ConcatElements
<1> QED
  BY <1>1 DEF Silent

LEMMA EndsBefore ==
  ASSUME NEW E, NEW q \in Seq(E), NEW r \in Seq(E), NEW T, NEW S, EndsIn(q, T, S), Silent(r, T)
  PROVE  EndsIn(q \o r, T, S)
<1>1. PICK i \in 1..Len(q) : q[i] \in T \cap S /\ \A j \in 1..Len(q) : j > i => q[j] \notin T
  BY ConcatIndex DEF EndsIn
<1>2. PICK s \in Seq(E) : s = q \o r
  BY ConcatIndex
<1>3. /\ Len(q) \in Nat /\ Len(r) \in Nat /\ DOMAIN s = 1..(Len(q) + Len(r))
      /\ \A k \in 1..(Len(q) + Len(r)) : s[k] = IF k <= Len(q) THEN q[k] ELSE r[k - Len(q)]
  BY <1>2, ConcatIndex
<1>4. i \in 1..(Len(q) + Len(r)) /\ i <= Len(q)
  BY <1>1, <1>3
<1>5. s[i] \in T \cap S
  BY <1>1, <1>3, <1>4
<1>6. ASSUME NEW j \in 1..(Len(q) + Len(r)), j > i PROVE s[j] \notin T
  <2>1. CASE j <= Len(q)
    <3>1. j \in 1..Len(q)
      BY <1>3, <2>1
    <3> QED
      BY <1>1, <1>3, <1>6, <2>1, <3>1
  <2>2. CASE ~(j <= Len(q))
    <3>1. j - Len(q) \in 1..Len(r)
      BY <1>3, <2>2
    <3>2. r[j - Len(q)] \notin T
      BY <3>1, ConcatIndex DEF Silent, ToSet
    <3> QED
      BY <1>3, <2>2, <3>2
  <2> QED
    BY <2>1, <2>2
<1> QED
  BY <1>2, <1>3, <1>4, <1>5, <1>6 DEF EndsIn

LEMMA EndsAfter ==
  ASSUME NEW E, NEW q \in Seq(E), NEW r \in Seq(E), NEW T, NEW S, EndsIn(r, T, S)
  PROVE  EndsIn(q \o r, T, S)
<1>1. PICK i \in 1..Len(r) : r[i] \in T \cap S /\ \A j \in 1..Len(r) : j > i => r[j] \notin T
  BY ConcatIndex DEF EndsIn
<1>2. PICK s \in Seq(E) : s = q \o r
  BY ConcatIndex
<1>3. /\ Len(q) \in Nat /\ Len(r) \in Nat /\ DOMAIN s = 1..(Len(q) + Len(r))
      /\ \A k \in 1..(Len(q) + Len(r)) : s[k] = IF k <= Len(q) THEN q[k] ELSE r[k - Len(q)]
  BY <1>2, ConcatIndex
<1>4. PICK m \in 1..(Len(q) + Len(r)) : m = i + Len(q)
  BY <1>1, <1>3
<1>5. ~(m <= Len(q)) /\ m - Len(q) = i
  BY <1>1, <1>3, <1>4
<1>6. s[m] \in T \cap S
  BY <1>1, <1>3, <1>5
<1>7. ASSUME NEW j \in 1..(Len(q) + Len(r)), j > m PROVE s[j] \notin T
  <2>1. ~(j <= Len(q)) /\ j - Len(q) \in 1..Len(r) /\ j - Len(q) > i
    BY <1>1, <1>3, <1>4, <1>7
  <2>2. s[j] = r[j - Len(q)]
    BY <1>3, <2>1
  <2> QED
    BY <1>1, <2>1, <2>2
<1> QED
  BY <1>2, <1>3, <1>6, <1>7 DEF EndsIn

\* What is appended is silent, or has only the truth to say.
LEMMA EndsExtended ==
  ASSUME NEW E, NEW q \in Seq(E), NEW r \in Seq(E), NEW T, NEW S, ~Silent(r, T), ToSet(r) \cap T \subseteq S
  PROVE  EndsIn(q \o r, T, S)
BY LastWord, EndsAfter

LEMMA EndsWider ==
  ASSUME NEW q, NEW T, NEW S, NEW R, EndsIn(q, T, S), T \cap S \subseteq R
  PROVE  EndsIn(q, T, R)
BY DEF EndsIn

LEMMA EndsNotSilent ==
  ASSUME NEW q, NEW T, NEW S, EndsIn(q, T, S)
  PROVE  ~Silent(q, T)
BY DEF EndsIn, Silent, ToSet

LEMMA TailIndex ==
  ASSUME NEW E, NEW q \in Seq(E), q # <<>>
  PROVE  /\ Len(q) \in Nat \ {0} /\ DOMAIN q = 1..Len(q) /\ Head(q) = q[1] /\ Head(q) \in E /\ Tail(q) \in Seq(E)
         /\ DOMAIN Tail(q) = 1..(Len(q) - 1)
         /\ \A i \in 1..(Len(q) - 1) : Tail(q)[i] = q[i + 1]
OBVIOUS

LEMMA SilentTail ==
  ASSUME NEW E, NEW q \in Seq(E), q # <<>>, NEW T, Silent(q, T)
  PROVE  Silent(Tail(q), T) /\ Head(q) \notin T
<1>1. \A i \in 1..Len(q) : q[i] \notin T
  BY TailIndex DEF Silent, ToSet
<1>2. \A i \in 1..(Len(q) - 1) : i + 1 \in 1..Len(q)
  BY TailIndex
<1>3. 1 \in 1..Len(q)
  BY TailIndex
<1>4. \A i \in DOMAIN Tail(q) : Tail(q)[i] \notin T
  BY <1>1, <1>2, TailIndex
<1> QED
  BY <1>1, <1>3, <1>4, TailIndex DEF Silent, ToSet

LEMMA EndsTail ==
  ASSUME NEW E, NEW q \in Seq(E), q # <<>>, NEW T, NEW S, EndsIn(q, T, S)
  PROVE  EndsIn(Tail(q), T, S) \/ (Head(q) \in T \cap S /\ Silent(Tail(q), T))
<1>1. PICK i \in 1..Len(q) : q[i] \in T \cap S /\ \A j \in 1..Len(q) : j > i => q[j] \notin T
  BY TailIndex DEF EndsIn
<1>2. PICK t : t = Tail(q)
  OBVIOUS
<1>3. Len(q) \in Nat \ {0} /\ DOMAIN t = 1..(Len(q) - 1) /\ Head(q) = q[1]
      /\ \A k \in 1..(Len(q) - 1) : t[k] = q[k + 1]
  BY <1>2, TailIndex
<1>4. CASE i = 1
  <2>1. \A j \in 1..(Len(q) - 1) : j + 1 \in 1..Len(q) /\ j + 1 > 1
    BY <1>3
  <2>2. \A j \in DOMAIN t : t[j] \notin T
    BY <1>1, <1>3, <1>4, <2>1
  <2> QED
    BY <1>1, <1>2, <1>3, <1>4, <2>2 DEF Silent, ToSet
<1>5. CASE i # 1
  <2>1. i - 1 \in 1..(Len(q) - 1) /\ (i - 1) + 1 = i
    BY <1>3, <1>5
  <2>2. t[i - 1] \in T \cap S
    BY <1>1, <1>3, <2>1
  <2>3. ASSUME NEW j \in 1..(Len(q) - 1), j > i - 1 PROVE t[j] \notin T
    <3>1. j + 1 \in 1..Len(q) /\ j + 1 > i
      BY <1>1, <1>3, <2>3
    <3> QED
      BY <1>1, <1>3, <3>1
  <2>4. EndsIn(t, T, S)
    BY <1>3, <2>1, <2>2, <2>3 DEF EndsIn
  <2> QED
    BY <1>2, <2>4
<1> QED
  BY <1>4, <1>5

-----------------------------------------------------------------------------
(* Lists that are put together of what stands for each element of another.  *)

Spelled(l, u, F, f) ==
  f \in [0..Len(l) -> Seq(F)] /\ f[0] = <<>> /\ \A i \in 1..Len(l) : f[i] = f[i - 1] \o u[l[i]]

\* The lists that u gives for the elements of l, one after another.
Spell(l, u, F) == (CHOOSE f : Spelled(l, u, F, f))[Len(l)]

LEMMA SpellingExists ==
  ASSUME NEW E, NEW F, NEW l \in Seq(E), NEW u \in [E -> Seq(F)]
  PROVE  \E f : Spelled(l, u, F, f)
<1>1. PICK n \in Nat : n = Len(l) /\ \A i \in 1..n : l[i] \in E
  OBVIOUS
<1>2. PICK g : g = [p \in (1..n) \X Seq(F) |-> p[2] \o u[l[p[1]]]]
  OBVIOUS
<1>3. g \in [(1..n) \X Seq(F) -> Seq(F)]
  <2>1. ASSUME NEW p \in (1..n) \X Seq(F) PROVE p[2] \o u[l[p[1]]] \in Seq(F)
    <3>1. p[2] \in Seq(F) /\ u[l[p[1]]] \in Seq(F)
      BY <1>1
    <3> QED
      BY <3>1, ConcatElements
  <2> QED
    BY <1>2, <2>1
<1>4. PICK f \in [0..n -> Seq(F)] : f[0] = <<>> /\ \A i \in 1..n : f[i] = g[<<i, f[i - 1]>>]
  <2>1. <<>> \in Seq(F)
    OBVIOUS
  <2>2. \E h \in [0..n -> Seq(F)] : Follows(h, n, <<>>, g)
    BY <1>3, <2>1, RecursionExists
  <2> QED
    BY <2>2 DEF Follows
<1>5. ASSUME NEW i \in 1..n PROVE f[i] = f[i - 1] \o u[l[i]]
  <2>1. i - 1 \in 0..n
    BY <1>1
  <2>2. <<i, f[i - 1]>> \in (1..n) \X Seq(F)
    BY <2>1
  <2> QED
    BY <1>2, <1>4, <2>2
<1> QED
  BY <1>1, <1>4, <1>5 DEF Spelled

\* As far as two lists agree so do their spellings.
LEMMA SpellingsAgree ==
  ASSUME NEW E, NEW F, NEW u, NEW l \in Seq(E), NEW m \in Seq(E), NEW f, NEW g,
         Spelled(l, u, F, f), Spelled(m, u, F, g),
         NEW k \in Nat, k <= Len(l), k <= Len(m), \A i \in 1..k : l[i] = m[i]
  PROVE  f[k] = g[k]
<1> DEFINE T == {i \in Nat : i <= k => f[i] = g[i]}
<1>1. 0 \in T
  BY DEF Spelled
<1>2. ASSUME NEW i \in T PROVE i + 1 \in T
  <2> SUFFICES ASSUME i + 1 <= k PROVE f[i + 1] = g[i + 1]
    OBVIOUS
  <2>1. i \in Nat /\ i <= k /\ i + 1 \in 1..k /\ i + 1 \in 1..Len(l) /\ i + 1 \in 1..Len(m) /\ (i + 1) - 1 = i
    OBVIOUS
  <2>2. f[i + 1] = f[i] \o u[l[i + 1]] /\ g[i + 1] = g[i] \o u[m[i + 1]]
    BY <2>1 DEF Spelled
  <2> QED
    BY <2>1, <2>2
<1>3. T = Nat
  <2>1. T \subseteq Nat
    OBVIOUS
  <2> HIDE DEF T
  <2> QED
    BY <1>1, <1>2, <2>1, SetInduction
<1>4. k \in T
  <2> HIDE DEF T
  <2> QED
    BY <1>3
<1> QED
  BY <1>4

LEMMA SpellIs ==
  ASSUME NEW E, NEW F, NEW u, NEW l \in Seq(E), NEW f, Spelled(l, u, F, f)
  PROVE  Spell(l, u, F) = f[Len(l)] /\ Spell(l, u, F) \in Seq(F)
<1>1. PICK g : g = (CHOOSE h : Spelled(l, u, F, h))
  OBVIOUS
<1>2. Spelled(l, u, F, g)
  BY <1>1
<1>3. Len(l) \in Nat /\ Len(l) <= Len(l)
  OBVIOUS
<1>4. f[Len(l)] = g[Len(l)]
  BY <1>2, <1>3, SpellingsAgree
<1>5. f[Len(l)] \in Seq(F)
  BY <1>3 DEF Spelled
<1> QED
  BY <1>1, <1>4, <1>5 DEF Spell

LEMMA SpellType ==
  ASSUME NEW E, NEW F, NEW l \in Seq(E), NEW u \in [E -> Seq(F)]
  PROVE  Spell(l, u, F) \in Seq(F)
BY SpellingExists, SpellIs

LEMMA SpellEmpty ==
  ASSUME NEW E, NEW F, NEW u \in [E -> Seq(F)]
  PROVE  Spell(<<>>, u, F) = <<>>
<1>0. <<>> \in Seq(E)
  OBVIOUS
<1>1. PICK l \in Seq(E) : l = <<>>
  BY <1>0
<1>2. Len(l) = 0
  BY <1>1
<1>3. PICK f : Spelled(l, u, F, f)
  BY SpellingExists
<1>4. f[0] = <<>>
  BY <1>3 DEF Spelled
<1>5. Spell(l, u, F) = f[Len(l)]
  BY <1>3, SpellIs
<1> QED
  BY <1>1, <1>2, <1>4, <1>5

LEMMA AppendIndex ==
  ASSUME NEW E, NEW l \in Seq(E), NEW e \in E
  PROVE  /\ Append(l, e) \in Seq(E) /\ Len(l) \in Nat /\ Len(Append(l, e)) = Len(l) + 1
         /\ DOMAIN l = 1..Len(l) /\ DOMAIN Append(l, e) = 1..(Len(l) + 1)
         /\ (\A i \in 1..Len(l) : Append(l, e)[i] = l[i]) /\ Append(l, e)[Len(l) + 1] = e
OBVIOUS

LEMMA SpellAppend ==
  ASSUME NEW E, NEW F, NEW l \in Seq(E), NEW e \in E, NEW u \in [E -> Seq(F)]
  PROVE  Spell(Append(l, e), u, F) = Spell(l, u, F) \o u[e]
<1>1. PICK m : m = Append(l, e)
  OBVIOUS
<1>2. PICK n \in Nat : n = Len(l) /\ Len(m) = n + 1 /\ m \in Seq(E) /\ (\A i \in 1..n : m[i] = l[i]) /\ m[n + 1] = e
  BY <1>1, AppendIndex
<1>3. PICK f : Spelled(l, u, F, f)
  BY SpellingExists
<1>4. PICK g : Spelled(m, u, F, g)
  BY <1>2, SpellingExists
<1>5. f[n] = g[n]
  <2>1. n <= Len(l) /\ n <= Len(m) /\ m \in Seq(E)
    BY <1>2
  <2>2. \A i \in 1..n : l[i] = m[i]
    BY <1>2
  <2> QED
    BY <1>3, <1>4, <2>1, <2>2, SpellingsAgree
<1>6. g[n + 1] = g[n] \o u[e]
  <2>1. n + 1 \in 1..Len(m) /\ (n + 1) - 1 = n
    BY <1>2
  <2> QED
    BY <1>2, <1>4, <2>1 DEF Spelled
<1>7. Spell(m, u, F) = g[n + 1]
  BY <1>2, <1>4, SpellIs
<1>8. Spell(l, u, F) = f[n]
  BY <1>2, <1>3, SpellIs
<1> QED
  BY <1>1, <1>5, <1>6, <1>7, <1>8

\* Induction over the lists of elements of E.
LEMMA ListInduction ==
  ASSUME NEW E, NEW T \in SUBSET Seq(E), <<>> \in T, \A l \in T, e \in E : Append(l, e) \in T
  PROVE  T = Seq(E)
<1> DEFINE N == {n \in Nat : \A l \in Seq(E) : Len(l) = n => l \in T}
<1>1. 0 \in N
  <2>1. \A l \in Seq(E) : Len(l) = 0 => l = <<>>
    OBVIOUS
  <2> QED
    BY <2>1
<1>2. ASSUME NEW n \in N PROVE n + 1 \in N
  <2> SUFFICES ASSUME NEW l \in Seq(E), Len(l) = n + 1 PROVE l \in T
    OBVIOUS
  <2>1. n \in Nat /\ n + 1 \in 1..Len(l) /\ \A i \in 1..Len(l) : l[i] \in E
    OBVIOUS
  <2>2. PICK m : m = [i \in 1..n |-> l[i]]
    OBVIOUS
  <2>3. m \in Seq(E) /\ Len(m) = n
    <3>1. \A i \in 1..n : i \in 1..Len(l)
      BY <2>1
    <3>2. \A i \in 1..n : m[i] \in E
      BY <2>1, <2>2, <3>1
    <3>3. m = [i \in 1..n |-> m[i]]
      BY <2>2
    <3> QED
      BY <2>1, <3>2, <3>3, IsList
  <2>4. PICK k : k = Append(m, l[n + 1])
    OBVIOUS
  <2>5. /\ k \in Seq(E) /\ Len(k) = n + 1 /\ k[n + 1] = l[n + 1] /\ \A i \in 1..n : k[i] = l[i]
    BY <2>1, <2>2, <2>3, <2>4, AppendIndex
  <2>6. \A i \in 1..(n + 1) : k[i] = l[i]
    <3>1. \A i \in 1..(n + 1) : i \in 1..n \/ i = n + 1
      BY <2>1
    <3> QED
      BY <2>5, <3>1
  <2>7. k = l
    BY <2>5, <2>6
  <2> QED
    BY <2>1, <2>3, <2>4, <2>7
<1>3. N = Nat
  <2>1. N \subseteq Nat
    OBVIOUS
  <2> HIDE DEF N
  <2> QED
    BY <1>1, <1>2, <2>1, SetInduction
<1>4. ASSUME NEW l \in Seq(E) PROVE l \in T
  <2>1. Len(l) \in N
    <3>1. Len(l) \in Nat
      OBVIOUS
    <3> HIDE DEF N
    <3> QED
      BY <1>3, <3>1
  <2> QED
    BY <2>1
<1> QED
  BY <1>4

LEMMA ConcatAppend ==
  ASSUME NEW E, NEW l \in Seq(E), NEW m \in Seq(E), NEW e \in E
  PROVE  l \o <<>> = l /\ <<>> \o l = l /\ l \o Append(m, e) = Append(l \o m, e) /\ Append(l, e) = l \o <<e>>
OBVIOUS

LEMMA ConcatThree ==
  ASSUME NEW E, NEW l \in Seq(E), NEW m \in Seq(E), NEW n \in Seq(E)
  PROVE  (l \o m) \o n = l \o (m \o n)
<1>1. PICK a \in Nat, b \in Nat, c \in Nat : a = Len(l) /\ b = Len(m) /\ c = Len(n)
  OBVIOUS
<1>2. PICK lm \in Seq(E) : lm = l \o m
  BY ConcatIndex
<1>3. PICK mn \in Seq(E) : mn = m \o n
  BY ConcatIndex
<1>4. Len(lm) = a + b /\ \A i \in 1..(a + b) : lm[i] = IF i <= a THEN l[i] ELSE m[i - a]
  BY <1>1, <1>2
<1>5. Len(mn) = b + c /\ \A i \in 1..(b + c) : mn[i] = IF i <= b THEN m[i] ELSE n[i - b]
  BY <1>1, <1>3
<1>6. PICK x \in Seq(E) : x = lm \o n
  BY ConcatIndex
<1>7. PICK y \in Seq(E) : y = l \o mn
  BY ConcatIndex
<1>8. Len(x) = (a + b) + c /\ \A i \in 1..((a + b) + c) : x[i] = IF i <= a + b THEN lm[i] ELSE n[i - (a + b)]
  <2>1. \A i \in 1..(Len(lm) + Len(n)) : (lm \o n)[i] = IF i <= Len(lm) THEN lm[i] ELSE n[i - Len(lm)]
    BY ConcatIndex
  <2>2. Len(lm \o n) = Len(lm) + Len(n)
    OBVIOUS
  <2> QED
    BY <1>1, <1>4, <1>6, <2>1, <2>2
<1>9. Len(y) = a + (b + c) /\ \A i \in 1..(a + (b + c)) : y[i] = IF i <= a THEN l[i] ELSE mn[i - a]
  <2>1. \A i \in 1..(Len(l) + Len(mn)) : (l \o mn)[i] = IF i <= Len(l) THEN l[i] ELSE mn[i - Len(l)]
    BY ConcatIndex
  <2>2. Len(y) = Len(l) + Len(mn)
    BY <1>7
  <2> QED
    BY <1>1, <1>5, <1>7, <2>1, <2>2
<1>10. ASSUME NEW i \in 1..(a + b + c) PROVE x[i] = y[i]
  <2>1. CASE i <= a
    <3>1. i \in 1..(a + b) /\ i <= a + b
      BY <2>1
    <3>2. x[i] = lm[i]
      BY <1>8, <3>1
    <3>3. lm[i] = l[i]
      BY <1>4, <2>1, <3>1
    <3>4. y[i] = l[i]
      BY <1>9, <2>1
    <3> QED
      BY <3>2, <3>3, <3>4
  <2>2. CASE i > a /\ i <= a + b
    <3>1. i \in 1..(a + b) /\ ~(i <= a) /\ i - a \in 1..(b + c) /\ i - a <= b
      BY <2>2
    <3>2. x[i] = m[i - a]
      <4>1. x[i] = lm[i]
        BY <1>8, <2>2
      <4>2. lm[i] = m[i - a]
        BY <1>4, <3>1
      <4> QED
        BY <4>1, <4>2
    <3>3. y[i] = m[i - a]
      <4>1. y[i] = mn[i - a]
        BY <1>9, <3>1
      <4>2. mn[i - a] = m[i - a]
        BY <1>5, <3>1
      <4> QED
        BY <4>1, <4>2
    <3> QED
      BY <3>2, <3>3
  <2>3. CASE i > a + b
    <3>1. ~(i <= a + b) /\ ~(i <= a) /\ i - a \in 1..(b + c) /\ ~(i - a <= b) /\ (i - a) - b = i - (a + b)
      BY <2>3
    <3>2. x[i] = n[i - (a + b)]
      BY <1>8, <3>1
    <3>3. y[i] = n[(i - a) - b]
      BY <1>5, <1>9, <3>1
    <3> QED
      BY <3>1, <3>2, <3>3
  <2> QED
    BY <2>1, <2>2, <2>3
<1>11. x = y
  <2>1. Len(x) = a + b + c /\ Len(y) = a + b + c
    BY <1>8, <1>9
  <2> QED
    BY <1>10, <2>1
<1> QED
  BY <1>2, <1>3, <1>6, <1>7, <1>11

\* Two lists that u spells.
BothSpelled(l, m, u, E, F) == l \in Seq(E) /\ m \in Seq(E) /\ u \in [E -> Seq(F)]

LEMMA SpellConcat ==
  ASSUME NEW E, NEW F, NEW l, NEW m, NEW u, BothSpelled(l, m, u, E, F)
  PROVE  Spell(l \o m, u, F) = Spell(l, u, F) \o Spell(m, u, F)
<1> SUFFICES ASSUME l \in Seq(E), m \in Seq(E), u \in [E -> Seq(F)]
             PROVE  Spell(l \o m, u, F) = Spell(l, u, F) \o Spell(m, u, F)
  BY DEF BothSpelled
<1> DEFINE T == {k \in Seq(E) : Spell(l \o k, u, F) = Spell(l, u, F) \o Spell(k, u, F)}
<1>1. <<>> \in T
  <2>1. <<>> \in Seq(E) /\ l \o <<>> = l
    OBVIOUS
  <2>2. Spell(l, u, F) \in Seq(F)
    BY SpellType
  <2>3. Spell(l, u, F) \o <<>> = Spell(l, u, F)
    BY <2>2
  <2> QED
    BY <2>1, <2>3, SpellEmpty
<1>2. ASSUME NEW k \in T, NEW e \in E PROVE Append(k, e) \in T
  <2>1. k \in Seq(E) /\ l \o k \in Seq(E) /\ Append(k, e) \in Seq(E)
    BY ConcatIndex
  <2>2. l \o Append(k, e) = Append(l \o k, e)
    BY <2>1, ConcatAppend
  <2>3. Spell(Append(l \o k, e), u, F) = Spell(l \o k, u, F) \o u[e]
    <3>1. PICK lk \in Seq(E) : lk = l \o k
      BY <2>1
    <3> HIDE DEF T
    <3>2. Spell(Append(lk, e), u, F) = Spell(lk, u, F) \o u[e]
      BY SMTT(30), SpellAppend
    <3> QED
      BY <3>1, <3>2
  <2>4. Spell(Append(k, e), u, F) = Spell(k, u, F) \o u[e]
    BY <2>1, SpellAppend
  <2>5. Spell(l, u, F) \in Seq(F) /\ Spell(k, u, F) \in Seq(F) /\ u[e] \in Seq(F)
    BY <2>1, SpellType
  <2>6. (Spell(l, u, F) \o Spell(k, u, F)) \o u[e] = Spell(l, u, F) \o (Spell(k, u, F) \o u[e])
    <3>1. PICK x \in Seq(F), y \in Seq(F), z \in Seq(F) : x = Spell(l, u, F) /\ y = Spell(k, u, F) /\ z = u[e]
      BY <2>5
    <3> HIDE DEF T
    <3>2. (x \o y) \o z = x \o (y \o z)
      BY ConcatThree, SMTT(30)
    <3> QED
      BY <3>1, <3>2
  <2> QED
    BY <2>1, <2>2, <2>3, <2>4, <2>6
<1>3. T = Seq(E)
  <2>1. T \in SUBSET Seq(E)
    OBVIOUS
  <2> HIDE DEF T
  <2> QED
    BY <1>1, <1>2, <2>1, ListInduction
<1>4. m \in T
  <2> HIDE DEF T
  <2> QED
    BY <1>3
<1> QED
  BY <1>4

LEMMA SpellOne ==
  ASSUME NEW E, NEW F, NEW e \in E, NEW u \in [E -> Seq(F)]
  PROVE  Spell(<<e>>, u, F) = u[e]
<1>1. <<>> \in Seq(E) /\ Append(<<>>, e) = <<e>> /\ u[e] \in Seq(F)
  OBVIOUS
<1>2. PICK l \in Seq(E) : l = <<>>
  BY <1>1
<1>3. Spell(Append(l, e), u, F) = Spell(l, u, F) \o u[e]
  BY SpellAppend
<1>4. <<>> \o u[e] = u[e]
  BY <1>1
<1> QED
  BY <1>1, <1>2, <1>3, <1>4, SpellEmpty

\* What agrees on each element spells the same list.
Same(l, u, v) == \A e \in ToSet(l) : u[e] = v[e]

LEMMA SpellSame ==
  ASSUME NEW E, NEW F, NEW l \in Seq(E), NEW u \in [E -> Seq(F)], NEW v \in [E -> Seq(F)], Same(l, u, v)
  PROVE  Spell(l, u, F) = Spell(l, v, F)
<1> USE DEF Same
<1> DEFINE T == {k \in Seq(E) : (\A e \in ToSet(k) : u[e] = v[e]) => Spell(k, u, F) = Spell(k, v, F)}
<1>1. <<>> \in T
  <2>1. <<>> \in Seq(E)
    OBVIOUS
  <2> QED
    BY <2>1, SpellEmpty
<1>2. ASSUME NEW k \in T, NEW e \in E PROVE Append(k, e) \in T
  <2>1. k \in Seq(E) /\ Append(k, e) \in Seq(E) /\ ToSet(Append(k, e)) = ToSet(k) \cup {e}
    BY AppendElements
  <2>2. Spell(Append(k, e), u, F) = Spell(k, u, F) \o u[e] /\ Spell(Append(k, e), v, F) = Spell(k, v, F) \o v[e]
    BY <2>1, SpellAppend
  <2> QED
    BY <2>1, <2>2
<1>3. T = Seq(E)
  <2>1. T \in SUBSET Seq(E)
    OBVIOUS
  <2> HIDE DEF T
  <2> QED
    BY <1>1, <1>2, <2>1, ListInduction
<1>4. l \in T
  <2> HIDE DEF T
  <2> QED
    BY <1>3
<1> QED
  BY <1>4

\* A spelling of a spelling is a spelling.
Composed(l, u, v, w, E, F, G) ==
  /\ l \in Seq(E) /\ u \in [E -> Seq(F)] /\ v \in [F -> Seq(G)] /\ w \in [E -> Seq(G)]
  /\ \A e \in E : w[e] = Spell(u[e], v, G)

LEMMA SpellSpell ==
  ASSUME NEW E, NEW F, NEW G, NEW l, NEW u, NEW v, NEW w, Composed(l, u, v, w, E, F, G)
  PROVE  Spell(Spell(l, u, F), v, G) = Spell(l, w, G)
<1> SUFFICES ASSUME l \in Seq(E), u \in [E -> Seq(F)], v \in [F -> Seq(G)], w \in [E -> Seq(G)],
                    \A e \in E : w[e] = Spell(u[e], v, G)
             PROVE  Spell(Spell(l, u, F), v, G) = Spell(l, w, G)
  BY DEF Composed
<1> DEFINE T == {k \in Seq(E) : Spell(Spell(k, u, F), v, G) = Spell(k, w, G)}
<1>1. <<>> \in T
  <2>1. <<>> \in Seq(E)
    OBVIOUS
  <2> QED
    BY <2>1, SpellEmpty
<1>2. ASSUME NEW k \in T, NEW e \in E PROVE Append(k, e) \in T
  <2>1. k \in Seq(E) /\ Append(k, e) \in Seq(E) /\ u[e] \in Seq(F)
    BY AppendElements
  <2>2. Spell(Append(k, e), u, F) = Spell(k, u, F) \o u[e] /\ Spell(Append(k, e), w, G) = Spell(k, w, G) \o w[e]
    <3>1. PICK j \in Seq(E) : j = k
      BY <2>1
    <3> HIDE DEF T
    <3>2. Spell(Append(j, e), u, F) = Spell(j, u, F) \o u[e]
      BY SpellAppend, SMTT(30)
    <3>3. Spell(Append(j, e), w, G) = Spell(j, w, G) \o w[e]
      BY SpellAppend, SMTT(30)
    <3> QED
      BY <3>1, <3>2, <3>3
  <2>3. PICK x \in Seq(F) : x = Spell(k, u, F)
    BY <2>1, SpellType
  <2>4. Spell(x \o u[e], v, G) = Spell(x, v, G) \o Spell(u[e], v, G)
    <3>1. PICK y \in Seq(F) : y = u[e]
      BY <2>1
    <3>2. BothSpelled(x, y, v, F, G)
      BY DEF BothSpelled
    <3>3. Spell(x \o y, v, G) = Spell(x, v, G) \o Spell(y, v, G)
      BY <3>2, SpellConcat
    <3> QED
      BY <3>1, <3>3
  <2> QED
    BY <2>1, <2>2, <2>3, <2>4
<1>3. T = Seq(E)
  <2>1. T \in SUBSET Seq(E)
    OBVIOUS
  <2> HIDE DEF T
  <2> QED
    BY <1>1, <1>2, <2>1, ListInduction
<1>4. l \in T
  <2> HIDE DEF T
  <2> QED
    BY <1>3
<1> QED
  BY <1>4

Keeps(u, E, S) == \A e \in E : u[e] = IF e \in S THEN <<e>> ELSE <<>>

LEMMA KeptSpells ==
  ASSUME NEW E, NEW l \in Seq(E), NEW S, NEW u \in [E -> Seq(E)], Keeps(u, E, S)
  PROVE  Kept(l, S) = Spell(l, u, E)
<1> USE DEF Keeps
<1> DEFINE n == Len(l)
           F(f) == [i \in 0..n |->
                      IF i = 0 THEN <<>>
                      ELSE IF l[i] \in S THEN Append(f[i - 1], l[i]) ELSE f[i - 1]]
           kept == CHOOSE f : f = F(f)
<1>1. u \in [E -> Seq(E)]
  OBVIOUS
<1>2. n \in Nat /\ \A i \in 1..n : l[i] \in E
  OBVIOUS
<1>3. PICK f : Spelled(l, u, E, f)
  BY <1>1, SpellingExists
<1>4. f \in [0..n -> Seq(E)] /\ f[0] = <<>> /\ \A i \in 1..n : f[i] = f[i - 1] \o u[l[i]]
  BY <1>3 DEF Spelled
<1>5. ASSUME NEW i \in 1..n PROVE f[i] = IF l[i] \in S THEN Append(f[i - 1], l[i]) ELSE f[i - 1]
  <2>1. i - 1 \in 0..n /\ i \in 0..n
    BY <1>2
  <2>2. PICK p \in Seq(E) : p = f[i - 1]
    BY <1>4, <2>1
  <2>3. PICK e \in E : e = l[i]
    BY <1>2
  <2>4. f[i] = p \o (IF e \in S THEN <<e>> ELSE <<>>)
    BY <1>4, <2>2, <2>3
  <2>5. p \o <<>> = p /\ p \o <<e>> = Append(p, e)
    OBVIOUS
  <2> QED
    BY <2>2, <2>3, <2>4, <2>5
<1>6. f = F(f)
  <2> HIDE DEF n
  <2>1. \A i \in 0..n : i = 0 \/ i \in 1..n
    BY <1>2
  <2> QED
    BY <1>4, <1>5, <2>1
<1>7. kept = F(kept)
  <2> HIDE DEF F
  <2> QED
    BY <1>6
<1>8. Kept(l, S) = kept[n]
  BY DEF Kept
<1> HIDE DEF kept
<1>9. kept[0] = <<>> /\ \A i \in 1..n : kept[i] = IF l[i] \in S THEN Append(kept[i - 1], l[i]) ELSE kept[i - 1]
  <2>1. \A i \in 1..n : i \in 0..n /\ i # 0
    BY <1>2
  <2>2. 0 \in 0..n
    BY <1>2
  <2> HIDE DEF n
  <2> QED
    BY <1>7, <2>1, <2>2
<1> DEFINE T == {i \in Nat : i <= n => kept[i] = f[i]}
<1>10. 0 \in T
  BY <1>4, <1>9
<1>11. ASSUME NEW i \in T PROVE i + 1 \in T
  <2> SUFFICES ASSUME i + 1 <= n PROVE kept[i + 1] = f[i + 1]
    OBVIOUS
  <2>1. i \in Nat /\ i <= n /\ i + 1 \in 1..n /\ (i + 1) - 1 = i
    BY <1>2
  <2>2. kept[i] = f[i]
    BY <2>1
  <2> HIDE DEF n
  <2> QED
    BY <1>5, <1>9, <2>1, <2>2
<1>12. T = Nat
  <2>1. T \subseteq Nat
    OBVIOUS
  <2> HIDE DEF T
  <2> QED
    BY <1>10, <1>11, <2>1, SetInduction
<1>13. n \in T
  <2> HIDE DEF T
  <2> QED
    BY <1>2, <1>12
<1>14. kept[n] = f[n]
  BY <1>2, <1>13
<1>15. Spell(l, u, E) = f[n]
  BY <1>3, SpellIs
<1> QED
  BY <1>1, <1>8, <1>14, <1>15

LEMMA FlattenSpells ==
  ASSUME NEW E, NEW lists \in Seq(Seq(E)), NEW u \in [Seq(E) -> Seq(E)], \A l \in Seq(E) : u[l] = l
  PROVE  FlattenSeq(lists) = Spell(lists, u, E)
<1> DEFINE n == Len(lists)
           F(f) == [i \in 1..n |-> IF i = 1 THEN lists[i] ELSE f[i - 1] \o lists[i]]
           flat == CHOOSE f : f = F(f)
<1>1. n \in Nat /\ DOMAIN lists = 1..n /\ \A i \in 1..n : lists[i] \in Seq(E)
  OBVIOUS
<1>2. u \in [Seq(E) -> Seq(E)]
  OBVIOUS
<1>3. CASE n = 0
  <2>1. lists = <<>> /\ DOMAIN lists = {}
    BY <1>1, <1>3
  <2>2. FlattenSeq(lists) = <<>>
    BY <1>3, <2>1 DEF FlattenSeq
  <2>3. Spell(<<>>, u, E) = <<>>
    BY <1>2, SpellEmpty
  <2> QED
    BY <1>2, <2>1, <2>2, <2>3
<1>4. CASE n # 0
  <2>1. FlattenSeq(lists) = flat[n]
    BY <1>4 DEF FlattenSeq
  <2>2. PICK h : Spelled(lists, u, E, h)
    BY <1>2, SpellingExists
  <2>3. h \in [0..n -> Seq(E)] /\ h[0] = <<>> /\ \A i \in 1..n : h[i] = h[i - 1] \o lists[i]
    <3>1. \A i \in 1..n : u[lists[i]] = lists[i]
      BY <1>1
    <3> QED
      BY <2>2, <3>1 DEF Spelled
  <2>4. PICK f : f = [i \in 1..n |-> h[i]]
    OBVIOUS
  <2>5. h[1] = lists[1]
    <3>1. 1 \in 1..n /\ 1 - 1 = 0
      BY <1>1, <1>4
    <3>2. PICK x \in Seq(E) : x = lists[1]
      BY <1>1, <3>1
    <3>3. h[1] = <<>> \o x
      BY <2>3, <3>1, <3>2
    <3> QED
      BY <3>2, <3>3
  <2>6. ASSUME NEW i \in 1..n, i # 1 PROVE i - 1 \in 1..n /\ f[i - 1] = h[i - 1]
    <3>1. i - 1 \in 1..n
      BY <1>1, <2>6
    <3> HIDE DEF n
    <3> QED
      BY <2>4, <3>1
  <2>7. f = F(f)
    <3> HIDE DEF n
    <3> QED
      BY <2>3, <2>4, <2>5, <2>6
  <2>8. flat = F(flat)
    <3> HIDE DEF F
    <3> QED
      BY <2>7
  <2> HIDE DEF flat
  <2> DEFINE T == {i \in Nat : i + 1 <= n => flat[i + 1] = h[i + 1]}
  <2>9. 0 \in T
    <3>1. 1 \in 1..n
      BY <1>1, <1>4
    <3>2. flat[1] = lists[1]
      <4> HIDE DEF n
      <4> QED
        BY <2>8, <3>1
    <3> QED
      BY <2>5, <3>2
  <2>10. ASSUME NEW i \in T PROVE i + 1 \in T
    <3> SUFFICES ASSUME (i + 1) + 1 <= n PROVE flat[(i + 1) + 1] = h[(i + 1) + 1]
      OBVIOUS
    <3>1. PICK k \in Nat : k = (i + 1) + 1
      OBVIOUS
    <3>2. k \in 1..n /\ k # 1 /\ k - 1 = i + 1 /\ i + 1 <= n /\ i \in Nat
      BY <1>1, <3>1
    <3>3. flat[k - 1] = h[k - 1]
      BY <3>2
    <3>4. flat[k] = flat[k - 1] \o lists[k]
      <4> HIDE DEF n
      <4> QED
        BY <2>8, <3>2
    <3> QED
      BY <2>3, <3>1, <3>2, <3>3, <3>4
  <2>11. T = Nat
    <3>1. T \subseteq Nat
      OBVIOUS
    <3> HIDE DEF T
    <3> QED
      BY <2>9, <2>10, <3>1, SetInduction
  <2>12. n - 1 \in Nat /\ (n - 1) + 1 = n /\ n <= n
    BY <1>1, <1>4
  <2>13. n - 1 \in T
    <3> HIDE DEF T, n
    <3> QED
      BY <2>11, <2>12
  <2>14. flat[n] = h[n]
    <3> HIDE DEF n
    <3> QED
      BY <2>12, <2>13
  <2>15. Spell(lists, u, E) = h[n]
    <3>1. Spell(lists, u, E) = h[Len(lists)]
      BY <2>2, SpellIs
    <3> QED
      BY <3>1
  <2> QED
    BY <1>2, <2>1, <2>14, <2>15
<1> QED
  BY <1>3, <1>4

Mapped(l, m) == [i \in DOMAIN l |-> m[l[i]]]
Maps(u, m, E, F) == m \in [E -> F] /\ u \in [E -> Seq(F)] /\ \A e \in E : u[e] = <<m[e]>>

LEMMA MapSpells ==
  ASSUME NEW E, NEW F, NEW l \in Seq(E), NEW m, NEW u, Maps(u, m, E, F)
  PROVE  Mapped(l, m) = Spell(l, u, F)
<1> SUFFICES ASSUME m \in [E -> F], u \in [E -> Seq(F)], \A e \in E : u[e] = <<m[e]>>
             PROVE  Mapped(l, m) = Spell(l, u, F)
  BY DEF Maps
<1> USE DEF Mapped
<1>1. u \in [E -> Seq(F)]
  OBVIOUS
<1> DEFINE T == {k \in Seq(E) : [i \in DOMAIN k |-> m[k[i]]] = Spell(k, u, F)}
<1>2. <<>> \in T
  <2>1. <<>> \in Seq(E) /\ DOMAIN <<>> = {}
    OBVIOUS
  <2>2. [i \in DOMAIN <<>> |-> m[<<>>[i]]] = <<>>
    BY <2>1
  <2> QED
    BY <1>1, <2>1, <2>2, SpellEmpty
<1>3. ASSUME NEW k \in T, NEW e \in E PROVE Append(k, e) \in T
  <2>1. PICK n \in Nat : n = Len(k) /\ DOMAIN k = 1..n /\ k \in Seq(E)
    OBVIOUS
  <2>2. PICK a \in Seq(E) : a = Append(k, e)
    BY <2>1, AppendIndex
  <2>3. DOMAIN a = 1..(n + 1) /\ (\A i \in 1..n : a[i] = k[i]) /\ a[n + 1] = e
    BY <2>1, <2>2, AppendIndex
  <2>4. PICK x : x = [i \in 1..n |-> m[k[i]]]
    OBVIOUS
  <2>5. x \in Seq(F) /\ Len(x) = n
    <3>1. \A i \in 1..n : x[i] \in F
      BY <2>1, <2>4
    <3>2. x = [i \in 1..n |-> x[i]]
      BY <2>4
    <3> QED
      BY <3>1, <3>2, IsList
  <2>6. PICK y : y = [i \in 1..(n + 1) |-> m[a[i]]]
    OBVIOUS
  <2>7. y \in Seq(F) /\ Len(y) = n + 1
    <3>1. \A i \in 1..(n + 1) : y[i] \in F
      BY <2>2, <2>3, <2>6
    <3>2. y = [i \in 1..(n + 1) |-> y[i]] /\ n + 1 \in Nat
      BY <2>6
    <3> QED
      BY <3>1, <3>2, IsList
  <2>8. PICK z : z = Append(x, m[e])
    OBVIOUS
  <2>9. /\ z \in Seq(F) /\ Len(z) = n + 1 /\ (\A i \in 1..n : z[i] = x[i]) /\ z[n + 1] = m[e]
    <3>1. PICK v \in F : v = m[e]
      OBVIOUS
    <3> HIDE DEF T
    <3>2. /\ Append(x, v) \in Seq(F) /\ Len(Append(x, v)) = n + 1
          /\ (\A i \in 1..n : Append(x, v)[i] = x[i]) /\ Append(x, v)[n + 1] = v
      BY <2>5, AppendIndex
    <3> QED
      BY <2>8, <3>1, <3>2
  <2>10. y = z
    <3>1. ASSUME NEW i \in 1..(n + 1) PROVE y[i] = z[i]
      <4>1. i \in 1..n \/ i = n + 1
        OBVIOUS
      <4> QED
        BY <2>3, <2>4, <2>6, <2>9, <4>1
    <3> QED
      BY <2>7, <2>9, <3>1
  <2>11. Spell(a, u, F) = Spell(k, u, F) \o u[e]
    <3>1. PICK c \in Seq(E) : c = k
      BY <2>1
    <3>2. PICK v \in [E -> Seq(F)] : v = u
      BY <1>1
    <3> HIDE DEF T
    <3>3. Spell(Append(c, e), v, F) = Spell(c, v, F) \o v[e]
      BY SpellAppend
    <3> QED
      BY <2>2, <3>1, <3>2, <3>3
  <2>12. Spell(k, u, F) = x
    BY <2>1, <2>4
  <2>13. x \o <<m[e]>> = z
    <3>1. m[e] \in F
      OBVIOUS
    <3> QED
      BY <2>5, <2>8, <3>1, ConcatAppend
  <2>14. Spell(a, u, F) = y
    BY <2>10, <2>11, <2>12, <2>13
  <2> QED
    BY <2>2, <2>3, <2>6, <2>14
<1>4. T = Seq(E)
  <2>1. T \in SUBSET Seq(E)
    OBVIOUS
  <2> HIDE DEF T
  <2> QED
    BY <1>2, <1>3, <2>1, ListInduction
<1>5. l \in T
  <2> HIDE DEF T
  <2> QED
    BY <1>4
<1> QED
  BY <1>1, <1>5

\* To join the lists that stand for the elements is to spell.
LEMMA FlattenMapped ==
  ASSUME NEW E, NEW F, NEW l \in Seq(E), NEW m \in [E -> Seq(F)]
  PROVE  FlattenSeq(Mapped(l, m)) = Spell(l, m, F)
<1>1. PICK S : S = Seq(F)
  OBVIOUS
<1>2. PICK u : u = [e \in E |-> <<m[e]>>]
  OBVIOUS
<1>3. PICK id : id = [k \in S |-> k]
  OBVIOUS
<1>4. u \in [E -> Seq(S)] /\ Maps(u, m, E, S) /\ m \in [E -> S]
  <2>1. \A e \in E : <<m[e]>> \in Seq(S)
    BY <1>1
  <2> QED
    BY <1>1, <1>2, <2>1 DEF Maps
<1>5. Mapped(l, m) = Spell(l, u, S)
  BY <1>4, MapSpells
<1>6. PICK lists \in Seq(S) : lists = Spell(l, u, S)
  BY <1>4, SpellType
<1>7. id \in [S -> Seq(F)] /\ \A k \in S : id[k] = k
  BY <1>1, <1>3
<1>8. FlattenSeq(lists) = Spell(lists, id, F)
  BY <1>1, <1>7, FlattenSpells
<1>9. Composed(l, u, id, m, E, S, F)
  <2>1. ASSUME NEW e \in E PROVE m[e] = Spell(u[e], id, F)
    <3>1. PICK k \in S : k = m[e]
      BY <1>4
    <3>2. Spell(<<k>>, id, F) = id[k]
      BY <1>7, SpellOne
    <3>3. u[e] = <<k>> /\ id[k] = k
      BY <1>2, <1>3, <3>1
    <3> QED
      BY <3>1, <3>2, <3>3
  <2> QED
    BY <1>4, <1>7, <2>1 DEF Composed
<1>10. Spell(Spell(l, u, S), id, F) = Spell(l, m, F)
  BY <1>9, SpellSpell
<1> QED
  BY <1>5, <1>6, <1>8, <1>10
=============================================================================
