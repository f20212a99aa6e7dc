---------------------------- MODULE PolicyProofs ----------------------------
(***************************************************************************)
(* Policy: that names stand for what is in use, that no set is taken away   *)
(* under a policy, and that a reload leaves nothing of before, for any      *)
(* types, names and requests.                                               *)
(***************************************************************************)
EXTENDS Policy, ListProofs

-----------------------------------------------------------------------------
(* The operators *)

LEMMA NameOfIsInverse ==
  ASSUME NEW f, IsInjective(f), NEW n \in DOMAIN f
  PROVE  NameOf(f, f[n]) = n
BY DEF NameOf, IsInjective

LEMMA FreshStmtsFit ==
  ASSUME NEW n \in Nat, RoomForStmts(n)
  PROVE  /\ FreshStmts(n) \in [1..n -> StIds \ UsedStmts] /\ IsInjective(FreshStmts(n))
         /\ FreshStmts(n) \in Seq(StIds) /\ Len(FreshStmts(n)) = n
         /\ ToSet(FreshStmts(n)) \cap UsedStmts = {}
<1>1. FreshStmts(n) \in Injection(1..n, StIds \ UsedStmts)
  BY DEF FreshStmts, RoomForStmts
<1>2. FreshStmts(n) \in [1..n -> StIds \ UsedStmts] /\ IsInjective(FreshStmts(n))
  BY <1>1 DEF Injection
<1> QED
  BY <1>2 DEF ToSet

Named == [type : TypeSet, name : SetNames]

LEMMA DescribedType ==
  ASSUME NEW r \in Requests
  PROVE  Described(r) \in Seq(Named)
<1> DEFINE all == [i \in DOMAIN Types |-> [type |-> Types[i], name |-> r.names[Types[i]]]]
<1>1. all \in Seq([type : TypeSet, name : SetNames \cup {Nothing}])
  <2>1. Types \in Seq(TypeSet) /\ \A i \in DOMAIN Types : Types[i] \in TypeSet
    BY TypesAssumption DEF TypeSet
  <2>2. DOMAIN all = 1..Len(Types) /\ Len(Types) \in Nat
    BY <2>1
  <2>3. \A i \in DOMAIN all : all[i] \in [type : TypeSet, name : SetNames \cup {Nothing}]
    BY <2>1 DEF Requests
  <2>4. all = [i \in 1..Len(Types) |-> all[i]]
    BY <2>2
  <2> HIDE DEF all
  <2> QED
    BY <2>2, <2>3, <2>4, IsList
<1> HIDE DEF all
<1>2. Kept(all, Named) \in Seq([type : TypeSet, name : SetNames \cup {Nothing}]) /\ ToSet(Kept(all, Named)) \subseteq Named
  BY <1>1, KeptElements
<1>3. Kept(all, Named) \in Seq(Named)
  BY <1>2 DEF ToSet
<1> QED
  BY <1>3 DEF Described, Named, all

SetMaps == [TypeSet \X SetNames -> SetIds \cup {None}]

\* A condition points to the set its name stands for.
LEMMA ResolvedType ==
  ASSUME NEW r \in Requests, NEW map \in SetMaps, Valid(map, r)
  PROVE  /\ Resolved(map, r) \in Seq(Conds)
         /\ \A c \in ToSet(Resolved(map, r)) : c.set = map[<<c.type, c.name>>]
<1>1. Described(r) \in Seq(Named)
  BY DescribedType
<1>2. DOMAIN Resolved(map, r) = 1..Len(Described(r)) /\ DOMAIN Described(r) = 1..Len(Described(r))
      /\ Len(Described(r)) \in Nat
  BY <1>1 DEF Resolved
<1>3. ASSUME NEW i \in DOMAIN Described(r)
      PROVE  /\ Resolved(map, r)[i] \in Conds
             /\ Resolved(map, r)[i].set = map[<<Resolved(map, r)[i].type, Resolved(map, r)[i].name>>]
  <2> DEFINE d == Described(r)[i]
  <2>1. d \in Named /\ d \in ToSet(Described(r))
    BY <1>1 DEF ToSet
  <2>2. map[<<d.type, d.name>>] \in SetIds
    BY <2>1 DEF Valid, SetMaps, Named
  <2>3. Resolved(map, r)[i] = [type |-> d.type, name |-> d.name, set |-> map[<<d.type, d.name>>]]
    BY DEF Resolved
  <2> HIDE DEF d
  <2> QED
    BY <2>1, <2>2, <2>3 DEF Named, Conds
<1>4. Resolved(map, r) = [i \in 1..Len(Described(r)) |-> Resolved(map, r)[i]]
  BY <1>2 DEF Resolved
<1>5. Resolved(map, r) \in Seq(Conds)
  BY <1>2, <1>3, <1>4, IsList
<1> QED
  BY <1>2, <1>3, <1>5 DEF ToSet

Statements == [name : StNames, conds : Seq(Conds), route : Routes, loose : BOOLEAN]

LEMMA StatementType ==
  ASSUME NEW r \in Requests, NEW map \in SetMaps, Valid(map, r), NEW n \in StNames
  PROVE  Statement(map, n, r) \in Statements
BY ResolvedType DEF Statement, Statements, Requests

LEMMA AddedType ==
  ASSUME NEW r \in Requests, NEW map \in SetMaps, Valid(map, r), NEW st \in Statements
  PROVE  Added(map, st, r) \in Statements /\ Added(map, st, r).name = st.name
<1>1. Resolved(map, r) \in Seq(Conds) /\ r.route \in Routes
  BY ResolvedType DEF Requests
<1>2. st.conds \o Resolved(map, r) \in Seq(Conds)
  BY <1>1 DEF Statements
<1> QED
  BY <1>1, <1>2 DEF Added, Statements

LEMMA RemoveAtType ==
  ASSUME NEW S, NEW s \in Seq(S), NEW i \in Nat \ {0}, ~(i > Len(s))
  PROVE  RemoveAt(s, i) \in Seq(S)
<1>1. SubSeq(s, 1, i - 1) \in Seq(S) /\ SubSeq(s, i + 1, Len(s)) \in Seq(S)
  OBVIOUS
<1> QED
  BY <1>1 DEF RemoveAt

Cuts == [conds : Seq(Conds), ended : {"no", "error", "panic"}]

LEMMA CutOutType ==
  ASSUME NEW c \in Cuts, NEW conds \in Seq(Conds), NEW type
  PROVE  CutOut(c, conds, type) \in Cuts
<1>1. c.conds \in Seq(Conds)
  BY DEF Cuts
<1>2. CASE c.ended = "no" /\ type \in TypesOf(conds) /\ ~(IndexOf(conds, type) > Len(c.conds))
  <2>1. PICK i : i = IndexOf(conds, type)
    OBVIOUS
  <2>2. \E j \in DOMAIN conds : conds[j].type = type
    BY <1>2 DEF TypesOf, ToSet
  <2>3. i \in DOMAIN conds
    BY <2>1, <2>2 DEF IndexOf
  <2>4. i \in Nat \ {0}
    BY <2>3
  <2>5. RemoveAt(c.conds, i) \in Seq(Conds)
    BY <1>1, <1>2, <2>1, <2>4, RemoveAtType
  <2>6. CutOut(c, conds, type) = [c EXCEPT !.conds = RemoveAt(c.conds, i)]
    BY <1>2, <2>1 DEF CutOut
  <2> HIDE DEF CutOut
  <2> QED
    BY <2>5, <2>6 DEF Cuts
<1>3. CASE ~(c.ended = "no" /\ type \in TypesOf(conds) /\ ~(IndexOf(conds, type) > Len(c.conds)))
  <2>1. \/ CutOut(c, conds, type) = c
        \/ CutOut(c, conds, type) = [c EXCEPT !.ended = "error"]
        \/ CutOut(c, conds, type) = [c EXCEPT !.ended = "panic"]
    BY <1>3 DEF CutOut
  <2> QED
    BY <2>1 DEF Cuts
<1> QED
  BY <1>2, <1>3

LEMMA CutType ==
  ASSUME NEW r \in Requests, NEW st \in Statements
  PROVE  Cut(st, r) \in Cuts
<1> DEFINE n == Len(Described(r))
           a == [conds |-> st.conds, ended |-> "no"]
           at(k) == Described(r)[k].type
           F(f) == [k \in 0..n |-> IF k = 0 THEN a ELSE CutOut(f[k - 1], st.conds, at(k))]
           done == CHOOSE f : f = F(f)
           g == [p \in (1..n) \X Cuts |-> CutOut(p[2], st.conds, at(p[1]))]
<1>1. Cut(st, r) = done[n]
  BY DEF Cut
<1>2. Described(r) \in Seq(Named) /\ n \in Nat
  BY DescribedType
<1>3. st.conds \in Seq(Conds)
  BY DEF Statements
<1>4. a \in Cuts
  BY DEF Cuts, Statements
<1>5. ASSUME NEW k \in 1..n, NEW c \in Cuts PROVE CutOut(c, st.conds, at(k)) \in Cuts
  BY <1>3, CutOutType
<1>6. g \in [(1..n) \X Cuts -> Cuts]
  <2> HIDE DEF n, at
  <2> QED
    BY <1>5
<1>7. PICK f \in [0..n -> Cuts] : Follows(f, n, a, g)
  <2> HIDE DEF g, n, a
  <2> QED
    BY <1>2, <1>4, <1>6, RecursionExists
<1>8. f = F(f)
  <2>1. \A k \in 0..n : k = 0 \/ (k \in 1..n /\ k - 1 \in 0..n)
    BY <1>2
  <2> HIDE DEF n, a, at
  <2>2. ASSUME NEW k \in 1..n PROVE f[k] = CutOut(f[k - 1], st.conds, at(k))
    <3>1. k - 1 \in 0..n
      BY <1>2
    <3>2. <<k, f[k - 1]>> \in (1..n) \X Cuts
      BY <3>1
    <3>3. f[k] = g[<<k, f[k - 1]>>]
      BY <1>7 DEF Follows
    <3> QED
      BY <3>2, <3>3
  <2>3. f[0] = a
    BY <1>7 DEF Follows
  <2> QED
    BY <2>1, <2>2, <2>3
<1>9. done = F(done)
  <2> HIDE DEF F
  <2> QED
    BY <1>8
<1> HIDE DEF done
<1> DEFINE T == {k \in Nat : k <= n => done[k] \in Cuts}
<1>10. 0 \in T
  <2>1. 0 \in 0..n
    BY <1>2
  <2> HIDE DEF a, at, n
  <2> QED
    BY <1>4, <1>9, <2>1
<1>11. ASSUME NEW k \in T PROVE k + 1 \in T
  <2> SUFFICES ASSUME k + 1 <= n PROVE done[k + 1] \in Cuts
    OBVIOUS
  <2>1. k \in Nat /\ k + 1 \in 1..n /\ (k + 1) - 1 = k /\ done[k] \in Cuts /\ k + 1 \in 0..n /\ k + 1 # 0
    BY <1>2
  <2> HIDE DEF a, at, n, T
  <2>2. done[k + 1] = CutOut(done[k], st.conds, at(k + 1))
    BY <1>9, <2>1
  <2> QED
    BY <1>5, <2>1, <2>2
<1>12. T = Nat
  <2>1. T \subseteq Nat
    OBVIOUS
  <2> HIDE DEF T
  <2> QED
    BY <1>10, <1>11, <2>1, SetInduction
<1>13. n \in T
  <2> HIDE DEF T
  <2> QED
    BY <1>2, <1>12
<1> HIDE DEF n
<1> QED
  BY <1>1, <1>2, <1>13

LEMMA RemovedType ==
  ASSUME NEW r \in Requests, NEW st \in Statements
  PROVE  Removed(st, r) \in Statements /\ Removed(st, r).name = st.name
<1>1. Cut(st, r).conds \in Seq(Conds)
  BY CutType DEF Cuts
<1> QED
  BY <1>1 DEF Removed, Statements, Routes

-----------------------------------------------------------------------------
(* The invariant *)

\* An object has the name that stands for it.
MapsRight ==
  /\ \A n \in PoNames : poMap[n] # None => pols[poMap[n]].name = n
  /\ \A n \in StNames : stMap[n] # None => stmts[stMap[n]].name = n

NInv == TypeOK /\ MapsRight /\ NamesStand

Stands(s) == stMap[stmts[s].name] = s \/ stmts[s].loose

LEMMA IdsAreSome ==
  \A i \in SetIds \cup StIds \cup PoIds : i # None
BY IdsAssumption DEF None

LEMMA UseFacts ==
  ASSUME TypeOK
  PROVE  /\ \A n \in PoNames : poMap[n] # None => poMap[n] \in Defined(poMap)
         /\ \A p \in Defined(poMap) : p \in PoIds /\ p \in UsedPols /\ \E n \in PoNames : poMap[n] = p
         /\ \A p \in Defined(poMap) : \A s \in ToSet(pols[p].stmts) : s \in StIds /\ s \in UsedStmts
         /\ \A d \in Dirs : \A p \in ToSet(assign[d].pols) : p \in PoIds /\ p \in UsedPols
         /\ \A n \in StNames : stMap[n] # None => stMap[n] \in StIds /\ stMap[n] \in UsedStmts
<1>1. /\ \A n \in PoNames : poMap[n] # None => poMap[n] \in Defined(poMap)
      /\ \A p \in Defined(poMap) : p \in PoIds /\ p \in UsedPols /\ \E n \in PoNames : poMap[n] = p
  BY DEF TypeOK, Defined, UsedPols
<1>2. \A p \in PoIds : ToSet(pols[p].stmts) \subseteq StIds
  BY DEF TypeOK, ToSet
<1>3. \A p \in Defined(poMap) : \A s \in ToSet(pols[p].stmts) : s \in StIds /\ s \in UsedStmts
  BY <1>1, <1>2 DEF UsedStmts
<1>4. \A d \in Dirs : ToSet(assign[d].pols) \subseteq PoIds
  BY DEF TypeOK, ToSet
<1>5. \A d \in Dirs : \A p \in ToSet(assign[d].pols) : p \in PoIds /\ p \in UsedPols
  BY <1>4 DEF UsedPols
<1>6. \A n \in StNames : stMap[n] # None => stMap[n] \in StIds /\ stMap[n] \in UsedStmts
  BY DEF TypeOK, UsedStmts, Defined
<1> QED
  BY <1>1, <1>3, <1>5, <1>6

LEMMA InitNames == Init => NInv
<1> SUFFICES ASSUME Init PROVE NInv
  OBVIOUS
<1>1. Hollow \in Statements /\ Unfilled \in [name : PoNames, stmts : Seq(StIds)]
  BY NamesAssumption DEF Hollow, Unfilled, Statements, Routes
<1>2. TypeOK
  BY <1>1 DEF Init, TypeOK, Statements, Dirs, Routes
<1>3. MapsRight
  BY DEF Init, MapsRight
<1>4. Defined(poMap) = {} /\ ToSet(assign["export"].pols) = {}
  BY DEF Init, Defined, ToSet, Dirs
<1> QED
  BY <1>2, <1>3, <1>4 DEF NInv, NamesStand, ExportDefined, StatementsDefined

\* Statements, policies and assignments are as they were.
LEMMA FrameNames ==
  ASSUME NInv, TypeOK', UNCHANGED <<stMap, stmts, poMap, pols, assign>>
  PROVE  NInv'
BY DEF NInv, MapsRight, NamesStand, ExportDefined, StatementsDefined, Defined

LEMMA RefuseNames ==
  ASSUME NInv, Refuse
  PROVE  NInv'
<1>1. TypeOK'
  BY DEF NInv, TypeOK, Refuse
<1> QED
  BY <1>1, FrameNames DEF Refuse

\* Only statements change.
LEMMA StatementsNames ==
  ASSUME NInv, TypeOK', MapsRight', UNCHANGED <<poMap, pols, assign>>,
         \A p \in Defined(poMap) : \A s \in ToSet(pols[p].stmts) : Stands(s) => Stands(s)'
  PROVE  NInv'
BY DEF NInv, NamesStand, ExportDefined, StatementsDefined, Defined, Stands

-----------------------------------------------------------------------------
(* Defined sets *)

LEMMA SetStepNames ==
  ASSUME NInv, SetStep
  PROVE  NInv'
<1>0. TypeOK
  BY DEF NInv
<1>1. PICK type \in TypeSet, name \in SetNames :
        \/ \E m \in SUBSET Members : AddDefinedSet(type, name, m)
        \/ DeleteDefinedSet(type, name)
        \/ \E m \in SUBSET Members : RemoveMembers(type, name, m)
  BY DEF SetStep
<1> DEFINE k == <<type, name>>
<1>2. k \in TypeSet \X SetNames /\ setMap[k] \in SetIds \cup {None}
  BY <1>0 DEF TypeOK
<1>3. ASSUME NEW m \in SUBSET Members, AddDefinedSet(type, name, m) PROVE NInv'
  <2> DEFINE new == IF setMap[k] = None THEN FreshSet ELSE setMap[k]
  <2>1. new \in SetIds
    BY <1>2, <1>3 DEF AddDefinedSet, FreshSet
  <2>2. /\ sets' = [sets EXCEPT ![new] = IF setMap[k] = None THEN m ELSE @ \cup m]
        /\ setMap' = [setMap EXCEPT ![k] = new]
        /\ outcome' = "ok" /\ UNCHANGED <<stMap, stmts, poMap, pols, assign>>
    BY <1>3 DEF AddDefinedSet
  <2> HIDE DEF new, k
  <2>3. TypeOK'
    BY <1>0, <1>2, <2>1, <2>2 DEF TypeOK
  <2> QED
    BY <2>2, <2>3, FrameNames
<1>4. CASE DeleteDefinedSet(type, name)
  <2>1. CASE Refuse
    BY <2>1, RefuseNames
  <2>2. CASE setMap' = [setMap EXCEPT ![k] = None] /\ outcome' = "ok"
             /\ UNCHANGED <<sets, stMap, stmts, poMap, pols, assign>>
    <3>1. TypeOK'
      BY <1>0, <1>2, <2>2 DEF TypeOK
    <3> QED
      BY <2>2, <3>1, FrameNames
  <2> QED
    BY <1>4, <2>1, <2>2 DEF DeleteDefinedSet
<1>5. ASSUME NEW m \in SUBSET Members, RemoveMembers(type, name, m) PROVE NInv'
  <2>1. CASE Refuse
    BY <2>1, RefuseNames
  <2>2. CASE setMap[k] # None /\ sets' = [sets EXCEPT ![setMap[k]] = @ \ m] /\ outcome' = "ok"
             /\ UNCHANGED <<setMap, stMap, stmts, poMap, pols, assign>>
    <3>1. TypeOK'
      BY <1>0, <1>2, <2>2 DEF TypeOK
    <3> QED
      BY <2>2, <3>1, FrameNames
  <2> QED
    BY <1>5, <2>1, <2>2 DEF RemoveMembers
<1> QED
  BY <1>1, <1>3, <1>4, <1>5

-----------------------------------------------------------------------------
(* Statements *)

LEMMA AddStatementNames ==
  ASSUME NInv, NEW n \in StNames, NEW r \in Requests, AddStatement(n, r)
  PROVE  NInv'
<1>0. TypeOK /\ MapsRight /\ setMap \in SetMaps
  BY DEF NInv, TypeOK, SetMaps
<1>1. CASE Refuse
  BY <1>1, RefuseNames
<1>2. CASE Valid(setMap, r) /\ stMap[n] = None /\ ~Refuse
  <2>1. PICK new : new = FreshStmts(1)[1]
    OBVIOUS
  <2>2. RoomForStmts(1)
    BY <1>2 DEF AddStatement
  <2>3. new \in StIds /\ new \notin UsedStmts /\ new # None
    BY <2>1, <2>2, FreshStmtsFit, IdsAreSome
  <2>4. /\ stMap' = [stMap EXCEPT ![n] = new] /\ stmts' = [stmts EXCEPT ![new] = Statement(setMap, n, r)]
        /\ outcome' = "ok" /\ UNCHANGED <<setMap, sets, poMap, pols, assign>>
    BY <1>2, <2>1 DEF AddStatement
  <2>5. Statement(setMap, n, r) \in Statements /\ Statement(setMap, n, r).name = n
    BY <1>0, <1>2, StatementType DEF Statement
  <2>6. TypeOK'
    BY <1>0, <2>3, <2>4, <2>5 DEF TypeOK, Statements
  <2>7. MapsRight'
    <3>1. \A m \in StNames : stMap[m] # None => stMap[m] # new
      BY <1>0, <2>3, UseFacts
    <3> QED
      BY <1>0, <2>3, <2>4, <2>5, <3>1 DEF MapsRight, TypeOK
  <2>8. ASSUME NEW p \in Defined(poMap), NEW s \in ToSet(pols[p].stmts), Stands(s) PROVE Stands(s)'
    <3>1. s \in StIds /\ s # new /\ s # None
      BY <1>0, <2>3, UseFacts, IdsAreSome
    <3>2. stmts'[s] = stmts[s] /\ stmts[s].name \in StNames
      BY <1>0, <2>4, <3>1 DEF TypeOK
    <3> QED
      BY <1>0, <1>2, <2>4, <2>8, <3>1, <3>2 DEF Stands, TypeOK
  <2> QED
    BY <2>4, <2>6, <2>7, <2>8, StatementsNames
<1>3. CASE Valid(setMap, r) /\ stMap[n] # None /\ ~Refuse
  <2>1. stMap[n] \in StIds
    BY <1>0, <1>3 DEF TypeOK
  <2>2. /\ stMap' = stMap /\ stmts' = [stmts EXCEPT ![stMap[n]] = Added(setMap, @, r)]
        /\ outcome' = "ok" /\ UNCHANGED <<setMap, sets, poMap, pols, assign>>
    BY <1>3 DEF AddStatement
  <2>3. stmts[stMap[n]] \in Statements
    BY <1>0, <2>1 DEF TypeOK, Statements
  <2>4. /\ Added(setMap, stmts[stMap[n]], r) \in Statements
        /\ Added(setMap, stmts[stMap[n]], r).name = stmts[stMap[n]].name
    BY <1>0, <1>3, <2>3, AddedType
  <2>5. TypeOK'
    BY <1>0, <2>1, <2>2, <2>4 DEF TypeOK, Statements
  <2>6. \A s \in StIds : stmts'[s].name = stmts[s].name /\ (s # stMap[n] => stmts'[s] = stmts[s])
    BY <1>0, <2>1, <2>2, <2>4 DEF TypeOK
  <2>7. MapsRight'
    BY <1>0, <2>2, <2>6 DEF MapsRight, TypeOK
  <2>8. ASSUME NEW p \in Defined(poMap), NEW s \in ToSet(pols[p].stmts), Stands(s) PROVE Stands(s)'
    <3>1. s \in StIds
      BY <1>0, UseFacts
    <3>2. CASE s = stMap[n]
      BY <1>0, <1>3, <2>2, <2>6, <3>1, <3>2 DEF Stands, MapsRight
    <3>3. CASE s # stMap[n]
      BY <2>2, <2>6, <2>8, <3>1, <3>3 DEF Stands
    <3> QED
      BY <3>2, <3>3
  <2> QED
    BY <2>2, <2>5, <2>7, <2>8, StatementsNames
<1> QED
  BY <1>1, <1>2, <1>3 DEF AddStatement

LEMMA RemoveFromStatementNames ==
  ASSUME NInv, NEW n \in StNames, NEW r \in Requests, RemoveFromStatement(n, r)
  PROVE  NInv'
<1>0. TypeOK /\ MapsRight
  BY DEF NInv
<1>1. CASE Refuse
  BY <1>1, RefuseNames
<1>2. CASE outcome' = "panic" /\ UNCHANGED <<setMap, sets, stMap, stmts, poMap, pols, assign>>
  <2>1. TypeOK'
    BY <1>0, <1>2 DEF TypeOK
  <2> QED
    BY <1>2, <2>1, FrameNames
<1>3. CASE /\ stMap[n] # None
           /\ stmts' = [stmts EXCEPT ![stMap[n]] = Removed(@, r)]
           /\ outcome' = "ok" /\ UNCHANGED <<setMap, sets, stMap, poMap, pols, assign>>
  <2>1. stMap[n] \in StIds /\ stmts[stMap[n]] \in Statements
    BY <1>0, <1>3 DEF TypeOK, Statements
  <2>2. Removed(stmts[stMap[n]], r) \in Statements /\ Removed(stmts[stMap[n]], r).name = stmts[stMap[n]].name
    BY <1>3, <2>1, RemovedType
  <2>3. TypeOK'
    BY <1>0, <1>3, <2>1, <2>2 DEF TypeOK, Statements
  <2>4. \A s \in StIds : stmts'[s].name = stmts[s].name /\ (s # stMap[n] => stmts'[s] = stmts[s])
    BY <1>0, <1>3, <2>1, <2>2 DEF TypeOK
  <2>5. MapsRight'
    BY <1>0, <1>3, <2>4 DEF MapsRight, TypeOK
  <2>6. ASSUME NEW p \in Defined(poMap), NEW s \in ToSet(pols[p].stmts), Stands(s) PROVE Stands(s)'
    <3>1. s \in StIds
      BY <1>0, UseFacts
    <3>2. CASE s = stMap[n]
      BY <1>0, <1>3, <2>4, <3>1, <3>2 DEF Stands, MapsRight
    <3>3. CASE s # stMap[n]
      BY <1>3, <2>4, <2>6, <3>1, <3>3 DEF Stands
    <3> QED
      BY <3>2, <3>3
  <2> QED
    BY <1>3, <2>3, <2>5, <2>6, StatementsNames
<1> QED
  BY <1>1, <1>2, <1>3 DEF RemoveFromStatement

LEMMA DeleteStatementNames ==
  ASSUME NInv, NEW n \in StNames, DeleteStatement(n)
  PROVE  NInv'
<1>0. TypeOK /\ MapsRight
  BY DEF NInv
<1>1. CASE Refuse
  BY <1>1, RefuseNames
<1>2. CASE /\ ~StatementInUse(poMap, pols, n) /\ stMap' = [stMap EXCEPT ![n] = None]
           /\ outcome' = "ok" /\ UNCHANGED <<setMap, sets, stmts, poMap, pols, assign>>
  <2>1. TypeOK'
    BY <1>0, <1>2 DEF TypeOK
  <2>2. MapsRight'
    BY <1>0, <1>2 DEF MapsRight, TypeOK
  <2>3. \A p \in Defined(poMap) : \A s \in ToSet(pols[p].stmts) : Stands(s) => Stands(s)'
    BY <1>0, <1>2 DEF Stands, StatementInUse, TypeOK
  <2> QED
    BY <1>2, <2>1, <2>2, <2>3, StatementsNames
<1> QED
  BY <1>1, <1>2 DEF DeleteStatement

-----------------------------------------------------------------------------
(* Policies *)

\* A policy is stored or gets more statements.
LEMMA StoreNames ==
  ASSUME NInv, NEW n \in PoNames, NEW objs \in Seq(StIds), Store(n, objs), UNCHANGED <<setMap, sets, assign>>,
         outcome' \in {"ok", "error"},
         stMap' \in [StNames -> StIds \cup {None}], stmts' \in [StIds -> Statements],
         \A m \in StNames : stMap'[m] # None => stmts'[stMap'[m]].name = m,
         \A s \in ToSet(objs) : Stands(s)',
         \A p \in Defined(poMap) : \A s \in ToSet(pols[p].stmts) : Stands(s) => Stands(s)'
  PROVE  NInv'
<1>0. TypeOK /\ MapsRight /\ ExportDefined /\ StatementsDefined
  BY DEF NInv, NamesStand
<1>1. CASE poMap[n] = None
  <2>1. PICK new : new = FreshPol
    OBVIOUS
  <2>2. new \in PoIds /\ new \notin UsedPols /\ new # None
    BY <1>1, <2>1, IdsAreSome DEF Store, RoomForPol, FreshPol
  <2>3. /\ poMap' = [poMap EXCEPT ![n] = new]
        /\ pols' = [pols EXCEPT ![new] = [name |-> n, stmts |-> objs]]
    BY <1>1, <2>1 DEF Store
  <2>4. TypeOK'
    BY <1>0, <2>2, <2>3 DEF TypeOK, Statements
  <2>5. \A p \in PoIds : p # new => pols'[p] = pols[p]
    BY <1>0, <2>3 DEF TypeOK
  <2>6. pols'[new].name = n /\ pols'[new].stmts = objs
    BY <1>0, <2>2, <2>3 DEF TypeOK
  <2>7. MapsRight'
    <3>1. \A m \in PoNames : poMap[m] # None => poMap[m] # new /\ poMap[m] \in PoIds
      BY <1>0, <2>2, UseFacts
    <3> QED
      BY <1>0, <2>3, <2>5, <2>6, <3>1 DEF MapsRight, TypeOK
  <2>8. ExportDefined'
    <3> SUFFICES ASSUME NEW p \in ToSet(assign["export"].pols) PROVE poMap'[pols'[p].name] = p
      BY DEF ExportDefined
    <3>1. p \in PoIds /\ p # new /\ p # None
      BY <1>0, <2>2, UseFacts, IdsAreSome DEF Dirs
    <3>2. poMap[pols[p].name] = p /\ pols[p].name \in PoNames
      BY <1>0, <3>1 DEF ExportDefined, TypeOK
    <3> QED
      BY <1>0, <1>1, <2>3, <2>5, <3>1, <3>2 DEF TypeOK
  <2>9. StatementsDefined'
    <3> SUFFICES ASSUME NEW p \in Defined(poMap'), NEW s \in ToSet(pols'[p].stmts) PROVE Stands(s)'
      BY DEF StatementsDefined, Stands, Defined
    <3>1. p = new \/ p \in Defined(poMap)
      BY <1>0, <2>3 DEF Defined, TypeOK
    <3>2. CASE p = new
      BY <2>6, <3>2
    <3>3. CASE p # new /\ p \in Defined(poMap)
      <4>1. s \in ToSet(pols[p].stmts)
        BY <1>0, <2>5, <3>3, UseFacts
      <4> QED
        BY <1>0, <3>3, <4>1 DEF StatementsDefined, Stands
    <3> QED
      BY <3>1, <3>2, <3>3
  <2> QED
    BY <2>4, <2>7, <2>8, <2>9 DEF NInv, NamesStand
<1>2. CASE poMap[n] # None
  <2>1. PICK old : old = poMap[n]
    OBVIOUS
  <2>2. poMap' = poMap /\ pols' = [pols EXCEPT ![old].stmts = @ \o objs] /\ old \in PoIds /\ old \in Defined(poMap)
    BY <1>0, <1>2, <2>1, UseFacts DEF Store
  <2>3. pols[old].stmts \in Seq(StIds) /\ pols[old].name \in PoNames
    BY <1>0, <2>2 DEF TypeOK
  <2>4. /\ pols[old].stmts \o objs \in Seq(StIds)
        /\ ToSet(pols[old].stmts \o objs) = ToSet(pols[old].stmts) \cup ToSet(objs)
    BY <2>3, ConcatElements
  <2>5. TypeOK'
    <3>1. pols \in [PoIds -> [name : PoNames, stmts : Seq(StIds)]]
      BY <1>0 DEF TypeOK
    <3>2. PICK list \in Seq(StIds) : list = pols[old].stmts \o objs
      BY <2>4
    <3>3. pols' = [pols EXCEPT ![old].stmts = list]
      BY <2>2, <3>2
    <3>4. pols' \in [PoIds -> [name : PoNames, stmts : Seq(StIds)]]
      BY <2>2, <3>1, <3>3
    <3> QED
      BY ZenonT(30), <1>0, <2>2, <3>4 DEF TypeOK, Statements
  <2>6. /\ \A p \in PoIds : pols'[p].name = pols[p].name /\ (p # old => pols'[p] = pols[p])
        /\ pols'[old].stmts = pols[old].stmts \o objs
    BY <1>0, <2>2, <2>3 DEF TypeOK
  <2>7. MapsRight'
    BY <1>0, <2>2, <2>6 DEF MapsRight, TypeOK
  <2>8. ExportDefined'
    BY <1>0, <2>2, <2>6, UseFacts DEF ExportDefined, Dirs
  <2>9. StatementsDefined'
    <3> SUFFICES ASSUME NEW p \in Defined(poMap), NEW s \in ToSet(pols'[p].stmts) PROVE Stands(s)'
      BY <2>2 DEF StatementsDefined, Stands, Defined
    <3>1. p \in PoIds
      BY <1>0, UseFacts
    <3>2. s \in ToSet(pols[p].stmts) \/ s \in ToSet(objs)
      BY <2>4, <2>6, <3>1
    <3> QED
      BY <1>0, <3>2 DEF StatementsDefined, Stands
  <2> QED
    BY <2>5, <2>7, <2>8, <2>9 DEF NInv, NamesStand
<1> QED
  BY <1>1, <1>2

LEMMA OwnFacts ==
  ASSUME TypeOK, NEW d \in StNames \X Requests, Valid(setMap, d[2])
  PROVE  Own(d) \in Statements /\ Own(d).loose
<1>1. Statement(setMap, d[1], d[2]) \in Statements
  BY StatementType DEF TypeOK, SetMaps
<1> QED
  BY <1>1 DEF Own, Statements

LEMMA ReferStatementsNames ==
  ASSUME NInv, NEW n \in PoNames, NEW descs \in Seq(StNames \X Requests), ReferStatements(n, descs)
  PROVE  NInv'
<1>0. TypeOK /\ MapsRight
  BY DEF NInv
<1>9. CASE Refuse
  BY <1>9, RefuseNames
<1> SUFFICES ASSUME ~Refuse PROVE NInv'
  BY <1>9
<1>1. /\ Store(n, FilledUp(descs)) /\ outcome' \in {"ok", "error"} /\ UNCHANGED <<setMap, sets, stMap, assign>>
      /\ \A i \in DOMAIN descs : Valid(setMap, descs[i][2])
  BY DEF ReferStatements
<1>2. stMap \in [StNames -> StIds \cup {None}] /\ stmts \in [StIds -> Statements]
  BY <1>0 DEF TypeOK, Statements
<1>3. CASE AllDefined(descs)
  <2>1. PICK objs : objs = FilledUp(descs)
    OBVIOUS
  <2>2. objs = [i \in 1..Len(descs) |-> stMap[descs[i][1]]] /\ stmts' = stmts
    BY <1>3, <2>1 DEF FilledUp, ReferStatements
  <2>3. \A i \in 1..Len(descs) : /\ descs[i] \in StNames \X Requests /\ objs[i] = stMap[descs[i][1]]
                                 /\ objs[i] \in StIds /\ objs[i] # None
    <3> SUFFICES ASSUME NEW i \in 1..Len(descs)
                 PROVE  /\ descs[i] \in StNames \X Requests /\ objs[i] = stMap[descs[i][1]]
                        /\ objs[i] \in StIds /\ objs[i] # None
      OBVIOUS
    <3>1. descs[i] \in StNames \X Requests /\ objs[i] = stMap[descs[i][1]]
      BY <2>2
    <3>2. stMap[descs[i][1]] # None
      BY <1>3 DEF AllDefined
    <3> QED
      BY <1>2, <3>1, <3>2
  <2>4. objs \in Seq(StIds)
    BY <2>2, <2>3, IsList
  <2>5. \A s \in ToSet(objs) : Stands(s)
    <3> SUFFICES ASSUME NEW i \in 1..Len(descs) PROVE Stands(objs[i])
      BY <2>2 DEF ToSet
    <3>1. descs[i][1] \in StNames /\ stMap[descs[i][1]] # None /\ objs[i] = stMap[descs[i][1]]
      BY <2>3
    <3> QED
      BY <1>0, <3>1 DEF Stands, MapsRight
  <2>6. \A s : Stands(s)' <=> Stands(s)
    BY <1>1, <2>2 DEF Stands
  <2> QED
    BY <1>0, <1>1, <1>2, <2>1, <2>2, <2>4, <2>5, <2>6, StoreNames DEF MapsRight
<1>4. CASE ~AllDefined(descs)
  <2>1. PICK new : new = FreshStmts(Len(descs)) /\ new = FilledUp(descs)
    BY <1>4 DEF FilledUp
  <2>2. /\ new \in Seq(StIds) /\ DOMAIN new = DOMAIN descs /\ IsInjective(new)
        /\ ToSet(new) \cap UsedStmts = {}
    <3>1. RoomForStmts(Len(descs)) /\ Len(descs) \in Nat /\ DOMAIN descs = 1..Len(descs)
      BY <1>4 DEF ReferStatements
    <3> QED
      BY <2>1, <3>1, FreshStmtsFit
  <2>3. stmts' = [s \in StIds |-> IF s \in ToSet(new) THEN Own(descs[NameOf(new, s)]) ELSE stmts[s]]
    BY <1>4, <2>1 DEF ReferStatements
  <2>4. \A s \in ToSet(new) : NameOf(new, s) \in DOMAIN descs
    BY <2>2, NameOfIsInverse DEF ToSet
  <2>5. ASSUME NEW s \in ToSet(new)
        PROVE  s \in StIds /\ Own(descs[NameOf(new, s)]) \in Statements /\ Own(descs[NameOf(new, s)]).loose
    <3>1. PICK d : d = descs[NameOf(new, s)]
      OBVIOUS
    <3>2. d \in StNames \X Requests /\ Valid(setMap, d[2])
      BY <1>1, <2>4, <3>1
    <3>3. s \in StIds
      BY <2>2 DEF ToSet
    <3> QED
      BY <1>0, <3>1, <3>2, <3>3, OwnFacts
  <2>6. stmts' \in [StIds -> Statements]
    BY <1>2, <2>3, <2>5
  <2>7. \A s \in ToSet(new) : Stands(s)'
    BY <2>3, <2>5 DEF Stands
  <2>8. \A s \in StIds : s \in UsedStmts => stmts'[s] = stmts[s]
    BY <2>2, <2>3
  <2>9. \A m \in StNames : stMap'[m] # None => stmts'[stMap'[m]].name = m
    BY <1>0, <1>1, <2>8, UseFacts DEF MapsRight
  <2>10. \A p \in Defined(poMap) : \A s \in ToSet(pols[p].stmts) : Stands(s) => Stands(s)'
    BY <1>0, <1>1, <2>8, UseFacts DEF Stands
  <2> QED
    BY <1>1, <1>2, <2>1, <2>2, <2>6, <2>7, <2>9, <2>10, StoreNames
<1> QED
  BY <1>3, <1>4

\* Each statement must be new; those before the first that is not are defined.
LEMMA DefineStatementsNames ==
  ASSUME NInv, NEW n \in PoNames, NEW descs \in Seq(StNames \X Requests), DefineStatements(n, descs)
  PROVE  NInv'
<1> DEFINE new == {i \in DOMAIN descs : /\ stMap[descs[i][1]] = None
                                       /\ \A j \in 1..(i-1) : descs[j][1] # descs[i][1]}
           good == CHOOSE k \in 0..Len(descs) : 1..k \subseteq new /\ k + 1 \notin new
           ids  == FreshStmts(good)
           place(m) == CHOOSE i \in 1..good : descs[i][1] = m
           desc(s)  == descs[NameOf(ids, s)]
<1>0. TypeOK /\ MapsRight /\ setMap \in SetMaps
  BY DEF NInv, TypeOK, SetMaps
<1>1. CASE Refuse
  BY <1>1, RefuseNames
<1> SUFFICES ASSUME ~Refuse PROVE NInv'
  BY <1>1
<1>2. /\ \A i \in DOMAIN descs : Valid(setMap, descs[i][2])
      /\ RoomForStmts(good)
      /\ stMap' = [m \in StNames |-> IF \E i \in 1..good : descs[i][1] = m THEN ids[place(m)] ELSE stMap[m]]
      /\ stmts' = [s \in StIds |-> IF s \in ToSet(ids) THEN Statement(setMap, desc(s)[1], desc(s)[2])
                                   ELSE stmts[s]]
      /\ \/ Store(n, ids) /\ outcome' = "ok"
         \/ UNCHANGED <<poMap, pols>> /\ outcome' = "error"
      /\ UNCHANGED <<setMap, sets, assign>>
  BY DEF DefineStatements
<1>3. Len(descs) \in Nat /\ DOMAIN descs = 1..Len(descs) /\ new \subseteq 1..Len(descs)
  OBVIOUS
<1>4. good \in 0..Len(descs) /\ 1..good \subseteq new
  <2>1. Len(descs) + 1 \in Nat \ ({0} \cup new)
    BY <1>3
  <2>2. PICK m \in Nat \ ({0} \cup new) : \A k \in Nat \ ({0} \cup new) : m <= k
    <3> HIDE DEF new
    <3> QED
      BY <2>1, LeastNumber
  <2>3. m - 1 \in 0..Len(descs)
    BY <2>1, <2>2, <1>3
  <2>4. 1..(m - 1) \subseteq new
    <3> SUFFICES ASSUME NEW k \in 1..(m - 1), k \notin new PROVE FALSE
      OBVIOUS
    <3>1. k \in Nat \ ({0} \cup new) /\ ~(m <= k)
      BY <2>2
    <3> QED
      BY <2>2, <3>1
  <2>5. (m - 1) + 1 \notin new
    BY <2>2
  <2> HIDE DEF new
  <2> QED
    BY <2>3, <2>4, <2>5
<1>5. \A i \in 1..good : /\ i \in DOMAIN descs /\ stMap[descs[i][1]] = None
                         /\ descs[i] \in StNames \X Requests
                         /\ \A j \in 1..good : descs[j][1] = descs[i][1] => j = i
  <2> SUFFICES ASSUME NEW i \in 1..good
               PROVE  /\ i \in DOMAIN descs /\ stMap[descs[i][1]] = None
                      /\ descs[i] \in StNames \X Requests
                      /\ \A j \in 1..good : descs[j][1] = descs[i][1] => j = i
    OBVIOUS
  <2>1. i \in new
    BY <1>4
  <2>2. ASSUME NEW j \in 1..good, descs[j][1] = descs[i][1] PROVE j = i
    <3>1. j \in new
      BY <1>4
    <3> HIDE DEF good
    <3>2. i \in Int /\ j \in Int /\ i >= 1 /\ j >= 1
      BY <1>4
    <3>3. ~(j < i)
      <4>1. j < i => j \in 1..(i - 1)
        BY <3>2
      <4> QED
        BY <2>1, <2>2, <4>1
    <3>4. ~(i < j)
      <4>1. i < j => i \in 1..(j - 1)
        BY <3>2
      <4> QED
        BY <2>2, <3>1, <4>1
    <3> QED
      BY <3>2, <3>3, <3>4
  <2> QED
    BY <1>3, <2>1, <2>2
<1> HIDE DEF good, new
<1>6. good \in Nat
  BY <1>3, <1>4
<1>7. /\ ids \in [1..good -> StIds \ UsedStmts] /\ IsInjective(ids) /\ ids \in Seq(StIds)
      /\ ToSet(ids) \cap UsedStmts = {}
  BY <1>2, <1>6, FreshStmtsFit
<1>8. \A i \in 1..good : NameOf(ids, ids[i]) = i
  BY <1>7, NameOfIsInverse
<1> HIDE DEF ids
<1>9. \A i \in 1..good : /\ ids[i] \in StIds /\ stmts'[ids[i]] = Statement(setMap, descs[i][1], descs[i][2])
                         /\ stMap'[descs[i][1]] = ids[i]
  <2> SUFFICES ASSUME NEW i \in 1..good
               PROVE  /\ ids[i] \in StIds /\ stmts'[ids[i]] = Statement(setMap, descs[i][1], descs[i][2])
                      /\ stMap'[descs[i][1]] = ids[i]
    OBVIOUS
  <2>1. ids[i] \in StIds /\ ids[i] \in ToSet(ids)
    BY <1>7 DEF ToSet
  <2>2. desc(ids[i]) = descs[i]
    BY <1>8
  <2>3. place(descs[i][1]) = i
    BY <1>5
  <2> QED
    BY <1>2, <1>5, <2>1, <2>2, <2>3
<1>10. \A s \in ToSet(ids) : \E i \in 1..good : s = ids[i]
  BY <1>7 DEF ToSet
<1>11. \A i \in 1..good : /\ Statement(setMap, descs[i][1], descs[i][2]) \in Statements
                          /\ Statement(setMap, descs[i][1], descs[i][2]).name = descs[i][1]
  <2> SUFFICES ASSUME NEW i \in 1..good
               PROVE  /\ Statement(setMap, descs[i][1], descs[i][2]) \in Statements
                      /\ Statement(setMap, descs[i][1], descs[i][2]).name = descs[i][1]
    OBVIOUS
  <2>1. descs[i][1] \in StNames /\ descs[i][2] \in Requests /\ Valid(setMap, descs[i][2])
    BY <1>2, <1>5
  <2> QED
    BY <1>0, <2>1, StatementType DEF Statement
<1>12. \A s \in StIds : s \notin ToSet(ids) => stmts'[s] = stmts[s]
  BY <1>2
<1>13. stmts \in [StIds -> Statements] /\ stMap \in [StNames -> StIds \cup {None}]
  BY <1>0 DEF TypeOK, Statements
<1>14. stmts' \in [StIds -> Statements]
  <2>1. \A s \in StIds : stmts'[s] \in Statements
    BY <1>9, <1>10, <1>11, <1>12, <1>13
  <2>2. stmts' = [s \in StIds |-> stmts'[s]]
    BY <1>2
  <2> QED
    BY <2>1, <2>2
<1>15. \A m \in StNames : \/ stMap'[m] = stMap[m]
                          \/ \E i \in 1..good : descs[i][1] = m /\ stMap'[m] = ids[i]
  BY <1>2, <1>9
<1>16. stMap' \in [StNames -> StIds \cup {None}]
  <2>1. \A m \in StNames : stMap'[m] \in StIds \cup {None}
    BY <1>7, <1>13, <1>15
  <2>2. stMap' = [m \in StNames |-> stMap'[m]]
    BY <1>2
  <2> QED
    BY <2>1, <2>2
<1>17. \A m \in StNames : stMap'[m] # None => stmts'[stMap'[m]].name = m
  <2> SUFFICES ASSUME NEW m \in StNames, stMap'[m] # None PROVE stmts'[stMap'[m]].name = m
    OBVIOUS
  <2>1. CASE stMap'[m] = stMap[m]
    <3>1. stMap[m] \in StIds /\ stMap[m] \notin ToSet(ids)
      BY <1>0, <1>7, <2>1, UseFacts
    <3> QED
      BY <1>0, <1>12, <2>1, <3>1 DEF MapsRight
  <2>2. CASE \E i \in 1..good : descs[i][1] = m /\ stMap'[m] = ids[i]
    BY <1>9, <1>11, <2>2
  <2> QED
    BY <1>15, <2>1, <2>2
<1>18. \A s \in ToSet(ids) : Stands(s)'
  BY <1>9, <1>10, <1>11 DEF Stands
<1>19. \A p \in Defined(poMap) : \A s \in ToSet(pols[p].stmts) : Stands(s) => Stands(s)'
  <2> SUFFICES ASSUME NEW p \in Defined(poMap), NEW s \in ToSet(pols[p].stmts), Stands(s) PROVE Stands(s)'
    OBVIOUS
  <2>1. s \in StIds /\ s \in UsedStmts /\ s # None
    BY <1>0, UseFacts, IdsAreSome
  <2>2. stmts'[s] = stmts[s] /\ stmts[s].name \in StNames
    BY <1>7, <1>12, <1>13, <2>1 DEF Statements
  <2>3. stMap[stmts[s].name] = s => stMap'[stmts[s].name] = s
    BY <1>5, <1>15, <2>1, <2>2
  <2> QED
    BY <2>2, <2>3 DEF Stands
<1>20. CASE Store(n, ids) /\ outcome' = "ok"
  BY <1>2, <1>7, <1>14, <1>16, <1>17, <1>18, <1>19, <1>20, StoreNames
<1>21. CASE UNCHANGED <<poMap, pols>> /\ outcome' = "error"
  <2>1. TypeOK'
    BY <1>0, <1>2, <1>14, <1>16, <1>21 DEF TypeOK, Statements
  <2>2. MapsRight'
    BY <1>0, <1>17, <1>21 DEF MapsRight
  <2> QED
    BY <1>2, <1>19, <1>21, <2>1, <2>2, StatementsNames
<1> QED
  BY <1>2, <1>20, <1>21

\* What is dropped is in no policy that stays.
LEMMA DropUnusedNames ==
  ASSUME TypeOK, MapsRight, NEW map, NEW objs, NEW list, DropUnused(map, objs, list), UNCHANGED stmts
  PROVE  /\ stMap' \in [StNames -> StIds \cup {None}]
         /\ \A m \in StNames : stMap'[m] # None => stMap'[m] = stMap[m]
         /\ \A p \in Defined(map) : \A s \in ToSet(objs[p].stmts) : s \in StIds /\ Stands(s) => Stands(s)'
<1>1. \A m \in StNames : stMap'[m] = stMap[m] \/ (stMap'[m] = None /\ ~StatementInUse(map, objs, m))
  BY DEF DropUnused
<1>2. stMap' \in [StNames -> StIds \cup {None}]
  BY DEF DropUnused, TypeOK
<1>3. ASSUME NEW p \in Defined(map), NEW s \in ToSet(objs[p].stmts), s \in StIds, Stands(s) PROVE Stands(s)'
  <2>1. StatementInUse(map, objs, stmts[s].name) /\ stmts[s].name \in StNames
    BY <1>3 DEF StatementInUse, TypeOK
  <2> QED
    BY <1>1, <1>3, <2>1 DEF Stands
<1> QED
  BY <1>1, <1>2, <1>3

LEMMA DeletePolicyNames ==
  ASSUME NInv, NEW n \in PoNames, NEW preserve \in BOOLEAN, DeletePolicy(n, preserve)
  PROVE  NInv'
<1> DEFINE map == [poMap EXCEPT ![n] = None]
<1>0. TypeOK /\ MapsRight /\ ExportDefined /\ StatementsDefined
  BY DEF NInv, NamesStand
<1>1. CASE Refuse
  BY <1>1, RefuseNames
<1> SUFFICES ASSUME ~Refuse PROVE NInv'
  BY <1>1
<1>2. /\ ~PolicyInUse(n) /\ poMap' = map /\ outcome' = "ok" /\ UNCHANGED <<setMap, sets, stmts, pols, assign>>
      /\ stMap' = stMap \/ DropUnused(map, pols, pols[poMap[n]].stmts)
  BY DEF DeletePolicy
<1>3. Defined(map) \subseteq Defined(poMap)
  BY <1>0 DEF Defined, TypeOK
<1>4. /\ stMap' \in [StNames -> StIds \cup {None}]
      /\ \A m \in StNames : stMap'[m] # None => stMap'[m] = stMap[m]
      /\ \A p \in Defined(map) : \A s \in ToSet(pols[p].stmts) : Stands(s) => Stands(s)'
  <2>1. CASE stMap' = stMap
    BY <1>0, <1>2, <2>1 DEF TypeOK, Stands
  <2>2. CASE DropUnused(map, pols, pols[poMap[n]].stmts)
    <3> HIDE DEF map
    <3> QED
      BY <1>0, <1>2, <1>3, <2>2, DropUnusedNames, UseFacts
  <2> QED
    BY <1>2, <2>1, <2>2
<1>5. TypeOK'
  BY <1>0, <1>2, <1>4 DEF TypeOK
<1>6. MapsRight'
  BY <1>0, <1>2, <1>4 DEF MapsRight, TypeOK
<1>7. ExportDefined'
  <2> SUFFICES ASSUME NEW p \in ToSet(assign["export"].pols) PROVE map[pols[p].name] = p
    BY <1>2 DEF ExportDefined
  <2>1. pols[p].name # n /\ poMap[pols[p].name] = p /\ p \in PoIds
    BY <1>0, <1>2, UseFacts DEF PolicyInUse, ExportDefined, Dirs
  <2> QED
    BY <1>0, <2>1 DEF TypeOK
<1>8. StatementsDefined'
  BY <1>0, <1>2, <1>3, <1>4 DEF StatementsDefined, Stands, Defined
<1> QED
  BY <1>5, <1>6, <1>7, <1>8 DEF NInv, NamesStand

LEMMA RemoveFromPolicyNames ==
  ASSUME NInv, NEW n \in PoNames, NEW names \in SUBSET StNames, NEW preserve \in BOOLEAN,
         RemoveFromPolicy(n, names, preserve)
  PROVE  NInv'
<1>0. TypeOK /\ MapsRight /\ ExportDefined /\ StatementsDefined
  BY DEF NInv, NamesStand
<1>1. CASE Refuse
  BY <1>1, RefuseNames
<1> SUFFICES ASSUME ~Refuse PROVE NInv'
  BY <1>1
<1>2. PICK p, left : p = poMap[n] /\ left = Kept(pols[p].stmts, {s \in StIds : stmts[s].name \notin names})
  OBVIOUS
<1>3. /\ p # None /\ pols' = [pols EXCEPT ![p].stmts = left]
      /\ outcome' = "ok" /\ UNCHANGED <<setMap, sets, stmts, poMap, assign>>
      /\ stMap' = stMap \/ DropUnused(poMap, [pols EXCEPT ![p].stmts = left], left)
  BY <1>2 DEF RemoveFromPolicy
<1>4. p \in PoIds /\ pols[p].stmts \in Seq(StIds) /\ pols[p].name \in PoNames
  BY <1>0, <1>2, <1>3 DEF TypeOK
<1>5. left \in Seq(StIds) /\ ToSet(left) \subseteq ToSet(pols[p].stmts)
  BY <1>2, <1>4, KeptElements
<1>6. /\ \A q \in PoIds : pols'[q].name = pols[q].name /\ (q # p => pols'[q] = pols[q])
      /\ pols'[p].stmts = left
  BY <1>0, <1>3, <1>4 DEF TypeOK
<1>7. \A q \in Defined(poMap) : \A s \in ToSet(pols'[q].stmts) : s \in ToSet(pols[q].stmts) /\ s \in StIds
  BY <1>0, <1>5, <1>6, UseFacts
<1>8. /\ stMap' \in [StNames -> StIds \cup {None}]
      /\ \A m \in StNames : stMap'[m] # None => stMap'[m] = stMap[m]
      /\ \A q \in Defined(poMap) : \A s \in ToSet(pols'[q].stmts) : Stands(s) => Stands(s)'
  <2>1. CASE stMap' = stMap
    BY <1>0, <1>3, <2>1 DEF TypeOK, Stands
  <2>2. CASE DropUnused(poMap, pols', left)
    BY <1>0, <1>3, <1>7, <2>2, DropUnusedNames
  <2> QED
    BY <1>3, <2>1, <2>2
<1>9. TypeOK'
  BY ZenonT(30), <1>0, <1>3, <1>4, <1>5, <1>8 DEF TypeOK
<1>10. MapsRight'
  BY <1>0, <1>3, <1>6, <1>8 DEF MapsRight, TypeOK
<1>11. ExportDefined'
  BY <1>0, <1>3, <1>6, UseFacts DEF ExportDefined, Dirs
<1>12. StatementsDefined'
  BY <1>0, <1>3, <1>7, <1>8 DEF StatementsDefined, Stands, Defined
<1> QED
  BY <1>9, <1>10, <1>11, <1>12 DEF NInv, NamesStand

-----------------------------------------------------------------------------
(* Assignments *)

LEMMA AssignNames ==
  ASSUME NInv, NEW d \in Dirs, NEW list \in Seq(PoIds), NEW default \in Routes, Assign(d, list, default),
         d = "export" => \A p \in ToSet(list) : poMap[pols[p].name] = p
  PROVE  NInv'
<1>1. /\ assign' = [assign EXCEPT ![d] = [pols |-> list,
                                          default |-> IF default = "none" THEN @.default ELSE default]]
      /\ outcome' = "ok" /\ UNCHANGED <<setMap, sets, stMap, stmts, poMap, pols>>
  BY DEF Assign
<1>2. TypeOK'
  BY <1>1 DEF NInv, TypeOK
<1>3. assign'["export"].pols = IF d = "export" THEN list ELSE assign["export"].pols
  BY <1>1 DEF NInv, TypeOK, Dirs
<1>4. ExportDefined'
  BY <1>1, <1>3 DEF NInv, NamesStand, ExportDefined
<1> QED
  BY <1>1, <1>2, <1>4 DEF NInv, MapsRight, NamesStand, StatementsDefined, Defined

LEMMA ObjectsStand ==
  ASSUME NInv, NEW names \in Seq(PoNames), Known(names)
  PROVE  Objects(names) \in Seq(PoIds) /\ \A p \in ToSet(Objects(names)) : poMap[pols[p].name] = p
<1>1. \A i \in 1..Len(names) : /\ Objects(names)[i] \in PoIds
                               /\ poMap[pols[Objects(names)[i]].name] = Objects(names)[i]
  BY DEF Known, Objects, NInv, TypeOK, MapsRight
<1>2. Objects(names) = [i \in 1..Len(names) |-> Objects(names)[i]] /\ Len(names) \in Nat
  BY DEF Objects
<1>3. Objects(names) \in Seq(PoIds)
  BY <1>1, <1>2, IsList
<1> QED
  BY <1>1, <1>2, <1>3 DEF ToSet

LEMMA AssignmentStepNames ==
  ASSUME NInv, AssignmentStep
  PROVE  NInv'
<1>1. PICK d \in Dirs :
        \/ \E l \in PoLists, r \in Routes : AddPolicyAssignment(d, l, r) \/ SetPolicyAssignment(d, l, r)
        \/ \E l \in PoLists : DeletePolicyAssignment(d, l)
        \/ ClearPolicyAssignment(d)
  BY DEF AssignmentStep
<1>2. CASE Refuse
  BY <1>2, RefuseNames
<1>3. /\ assign[d].pols \in Seq(PoIds)
      /\ d = "export" => \A p \in ToSet(assign[d].pols) : poMap[pols[p].name] = p
  BY DEF NInv, TypeOK, NamesStand, ExportDefined
<1>4. ASSUME NEW l \in PoLists, NEW r \in Routes, AddPolicyAssignment(d, l, r), ~Refuse PROVE NInv'
  <2>1. Known(l) /\ Assign(d, assign[d].pols \o Objects(l), r)
    BY <1>4 DEF AddPolicyAssignment
  <2>2. Objects(l) \in Seq(PoIds) /\ \A p \in ToSet(Objects(l)) : poMap[pols[p].name] = p
    BY <2>1, ObjectsStand, ListsAssumption
  <2>3. /\ assign[d].pols \o Objects(l) \in Seq(PoIds)
        /\ ToSet(assign[d].pols \o Objects(l)) = ToSet(assign[d].pols) \cup ToSet(Objects(l))
    BY <1>3, <2>2, ConcatElements
  <2> QED
    BY <1>3, <2>1, <2>2, <2>3, AssignNames
<1>5. ASSUME NEW l \in PoLists, NEW r \in Routes, SetPolicyAssignment(d, l, r), ~Refuse PROVE NInv'
  <2>1. Known(l) /\ Assign(d, Objects(l), r)
    BY <1>5 DEF SetPolicyAssignment
  <2> QED
    BY <2>1, ObjectsStand, ListsAssumption, AssignNames
<1>6. ASSUME NEW l \in PoLists, DeletePolicyAssignment(d, l), ~Refuse PROVE NInv'
  <2>1. PICK list : list = Kept(assign[d].pols, {p \in PoIds : pols[p].name \notin ToSet(l)})
    OBVIOUS
  <2>2. Assign(d, list, "none")
    BY <1>6, <2>1 DEF DeletePolicyAssignment
  <2>3. list \in Seq(PoIds) /\ ToSet(list) \subseteq ToSet(assign[d].pols)
    BY <1>3, <2>1, KeptElements
  <2> QED
    BY <1>3, <2>2, <2>3, AssignNames DEF Routes
<1>7. CASE ClearPolicyAssignment(d)
  <2>1. /\ assign' = [assign EXCEPT ![d] = [pols |-> <<>>, default |-> "none"]]
        /\ outcome' = "ok" /\ UNCHANGED <<setMap, sets, stMap, stmts, poMap, pols>>
    BY <1>7 DEF ClearPolicyAssignment
  <2>2. TypeOK'
    BY <2>1 DEF NInv, TypeOK, Routes
  <2>3. ToSet(assign'["export"].pols) \subseteq ToSet(assign["export"].pols)
    BY <2>1 DEF NInv, TypeOK, Dirs, ToSet
  <2> QED
    BY <2>1, <2>2, <2>3 DEF NInv, MapsRight, NamesStand, ExportDefined, StatementsDefined, Defined
<1> QED
  BY <1>1, <1>2, <1>4, <1>5, <1>6, <1>7

-----------------------------------------------------------------------------
(* A reload *)

LEMMA InjectionFacts ==
  ASSUME NEW D, NEW Ids, Ids \subseteq SetIds \cup StIds \cup PoIds, NEW f \in Injection(D, Ids), NEW names, D \subseteq names
  PROVE  /\ MapOf(f, names) \in [names -> Ids \cup {None}]
         /\ \A n \in D : MapOf(f, names)[n] = f[n] /\ f[n] \in Ids /\ f[n] \in Range(f) /\ NameOf(f, f[n]) = n
         /\ \A n \in names : MapOf(f, names)[n] # None => n \in D
         /\ \A i \in Range(f) : i \in Ids /\ NameOf(f, i) \in D /\ f[NameOf(f, i)] = i
         /\ Defined(MapOf(f, names)) = Range(f)
<1>1. f \in [D -> Ids] /\ IsInjective(f) /\ \A i \in Ids : i # None
  BY IdsAreSome DEF Injection
<1>2. \A n \in D : NameOf(f, f[n]) = n
  BY <1>1, NameOfIsInverse
<1>3. /\ MapOf(f, names) \in [names -> Ids \cup {None}]
      /\ \A n \in D : MapOf(f, names)[n] = f[n] /\ f[n] \in Ids /\ f[n] \in Range(f)
      /\ \A n \in names : MapOf(f, names)[n] # None => n \in D
      /\ \A i \in Range(f) : \E n \in D : i = f[n]
  BY <1>1 DEF MapOf, Range
<1>4. \A i \in Range(f) : i \in Ids /\ NameOf(f, i) \in D /\ f[NameOf(f, i)] = i
  BY <1>2, <1>3
<1>5. Defined(MapOf(f, names)) = Range(f)
  <2>1. Range(f) \subseteq Defined(MapOf(f, names))
    BY <1>1, <1>3 DEF Defined
  <2>2. Defined(MapOf(f, names)) \subseteq Range(f)
    <3> SUFFICES ASSUME NEW n \in names, MapOf(f, names)[n] # None PROVE MapOf(f, names)[n] \in Range(f)
      BY <1>3 DEF Defined
    <3> QED
      BY <1>3
  <2> QED
    BY <2>1, <2>2
<1> QED
  BY <1>2, <1>3, <1>4, <1>5

\* What a statement of a configuration is.
LEMMA ConfigStatements ==
  ASSUME NEW config \in Configs
  PROVE  /\ StatementsOf(config) \subseteq StNames \X Requests
         /\ StNamesOf(config) \subseteq StNames
         /\ \A n \in DOMAIN config.policies : \A j \in DOMAIN config.policies[n] :
              config.policies[n][j][1] \in StNamesOf(config)
<1>1. \A n \in DOMAIN config.policies : \A j \in DOMAIN config.policies[n] :
        config.policies[n][j] \in StNames \X Requests /\ config.policies[n][j] \in StatementsOf(config)
  BY ConfigsAssumption DEF StatementsOf, ToSet
<1>2. StatementsOf(config) \subseteq StNames \X Requests
  BY <1>1 DEF StatementsOf, ToSet
<1> QED
  BY <1>1, <1>2 DEF StNamesOf

LEMMA NewStatementFacts ==
  ASSUME NEW config \in Configs, Consistent(config), RoomForConfig(config), NEW m \in StNamesOf(config)
  PROVE  /\ NewStatement(config, m) \in Statements /\ NewStatement(config, m).name = m
         /\ \A c \in ToSet(NewStatement(config, m).conds) :
              c.set = MapOf(SetOf(config), TypeSet \X SetNames)[<<c.type, c.name>>]
<1> DEFINE map == MapOf(SetOf(config), TypeSet \X SetNames)
           d == CHOOSE x \in StatementsOf(config) : x[1] = m
<1>1. d \in StatementsOf(config) /\ d[1] = m
  BY DEF StNamesOf
<1>2. d[2] \in Requests /\ m \in StNames
  BY <1>1, ConfigStatements
<1>3. SetOf(config) \in Injection(DOMAIN config.sets, SetIds) /\ DOMAIN config.sets \subseteq TypeSet \X SetNames
  BY ConfigsAssumption DEF SetOf, RoomForConfig
<1>4. /\ map \in SetMaps
      /\ \A k \in DOMAIN config.sets : map[k] \in SetIds /\ map[k] # None
  BY <1>3, InjectionFacts, IdsAreSome DEF SetMaps
<1> HIDE DEF map
<1>5. Valid(map, d[2])
  BY <1>1, <1>4 DEF Valid, Consistent
<1> HIDE DEF d
<1>6. NewStatement(config, m) = Statement(map, m, d[2])
  BY DEF NewStatement, map, d
<1>7. Statement(map, m, d[2]).name = m /\ Statement(map, m, d[2]).conds = Resolved(map, d[2])
  BY DEF Statement
<1>8. \A c \in ToSet(Resolved(map, d[2])) : c.set = map[<<c.type, c.name>>]
  BY <1>2, <1>4, <1>5, ResolvedType
<1> QED
  BY <1>2, <1>4, <1>5, <1>6, <1>7, <1>8, StatementType DEF map

\* The tables after a reload: names and objects fit.
LEMMA NewTables ==
  ASSUME TypeOK, NEW config \in Configs, SetPolicies(config), ~Refuse
  PROVE  /\ setMap' \in SetMaps /\ sets' \in [SetIds -> SUBSET Members]
         /\ stMap' \in [StNames -> StIds \cup {None}] /\ stmts' \in [StIds -> Statements]
         /\ poMap' \in [PoNames -> PoIds \cup {None}] /\ pols' \in [PoIds -> [name : PoNames, stmts : Seq(StIds)]]
         /\ \A n \in PoNames : poMap'[n] # None => pols'[poMap'[n]].name = n
         /\ \A n \in StNames : stMap'[n] # None => stmts'[stMap'[n]].name = n
         /\ \A p \in Defined(poMap') : ToSet(pols'[p].stmts) \subseteq Defined(stMap')
         /\ \A s \in StIds : \A c \in ToSet(stmts'[s].conds) : c.set = setMap'[<<c.type, c.name>>]
<1>1. PICK f, g, h : f = SetOf(config) /\ g = StOf(config) /\ h = PoOf(config)
  OBVIOUS
<1>2. /\ Consistent(config) /\ RoomForConfig(config)
      /\ setMap' = MapOf(f, TypeSet \X SetNames)
      /\ sets' = [i \in SetIds |-> IF i \in Range(f) THEN config.sets[NameOf(f, i)] ELSE {}]
      /\ stMap' = MapOf(g, StNames)
      /\ stmts' = [i \in StIds |-> IF i \in Range(g) THEN NewStatement(config, NameOf(g, i)) ELSE Hollow]
      /\ poMap' = MapOf(h, PoNames)
      /\ pols' = [i \in PoIds |-> IF i \in Range(h) THEN NewPolicy(config, NameOf(h, i)) ELSE Unfilled]
  BY <1>1 DEF SetPolicies
<1>3. /\ f \in Injection(DOMAIN config.sets, SetIds) /\ DOMAIN config.sets \subseteq TypeSet \X SetNames
      /\ g \in Injection(StNamesOf(config), StIds) /\ StNamesOf(config) \subseteq StNames
      /\ h \in Injection(DOMAIN config.policies, PoIds) /\ DOMAIN config.policies \subseteq PoNames
  BY <1>1, <1>2, ConfigsAssumption, ConfigStatements DEF SetOf, StOf, PoOf, RoomForConfig
<1>4. /\ setMap' \in SetMaps
      /\ \A i \in Range(f) : NameOf(f, i) \in DOMAIN config.sets
  BY <1>2, <1>3, InjectionFacts DEF SetMaps
<1>5. /\ stMap' \in [StNames -> StIds \cup {None}]
      /\ \A n \in StNamesOf(config) : stMap'[n] = g[n] /\ g[n] \in StIds /\ g[n] \in Range(g) /\ NameOf(g, g[n]) = n
      /\ \A n \in StNames : stMap'[n] # None => n \in StNamesOf(config)
      /\ \A i \in Range(g) : NameOf(g, i) \in StNamesOf(config)
      /\ Defined(stMap') = Range(g)
  BY <1>2, <1>3, InjectionFacts
<1>6. /\ poMap' \in [PoNames -> PoIds \cup {None}]
      /\ \A n \in DOMAIN config.policies :
           poMap'[n] = h[n] /\ h[n] \in PoIds /\ h[n] \in Range(h) /\ NameOf(h, h[n]) = n
      /\ \A n \in PoNames : poMap'[n] # None => n \in DOMAIN config.policies
      /\ \A i \in Range(h) : NameOf(h, i) \in DOMAIN config.policies /\ i \in PoIds
      /\ Defined(poMap') = Range(h)
  BY <1>2, <1>3, InjectionFacts
<1>7. sets' \in [SetIds -> SUBSET Members]
  BY <1>2, <1>4, ConfigsAssumption
<1>8. Hollow \in Statements /\ ToSet(Hollow.conds) = {} /\ Unfilled \in [name : PoNames, stmts : Seq(StIds)]
  BY NamesAssumption DEF Hollow, Unfilled, Statements, Routes, ToSet
<1>9. /\ stmts' \in [StIds -> Statements]
      /\ \A s \in StIds : \A c \in ToSet(stmts'[s].conds) : c.set = setMap'[<<c.type, c.name>>]
  <2> SUFFICES ASSUME NEW s \in StIds
               PROVE  stmts'[s] \in Statements /\ \A c \in ToSet(stmts'[s].conds) : c.set = setMap'[<<c.type, c.name>>]
    BY <1>2
  <2>1. CASE s \in Range(g)
    <3>1. PICK m \in StNamesOf(config) : m = NameOf(g, s)
      BY <1>5, <2>1
    <3>2. stmts'[s] = NewStatement(config, m)
      BY <1>2, <2>1, <3>1
    <3>3. /\ NewStatement(config, m) \in Statements
          /\ \A c \in ToSet(NewStatement(config, m).conds) :
               c.set = MapOf(SetOf(config), TypeSet \X SetNames)[<<c.type, c.name>>]
      BY <1>2, NewStatementFacts
    <3>4. setMap' = MapOf(SetOf(config), TypeSet \X SetNames)
      BY <1>1, <1>2
    <3> QED
      BY <3>2, <3>3, <3>4
  <2>2. CASE s \notin Range(g)
    BY <1>2, <1>8, <2>2
  <2> QED
    BY <2>1, <2>2
<1>10. \A n \in StNames : stMap'[n] # None => stmts'[stMap'[n]].name = n
  <2> SUFFICES ASSUME NEW n \in StNamesOf(config) PROVE stmts'[g[n]].name = n
    BY <1>5
  <2> QED
    BY <1>2, <1>5, NewStatementFacts
<1>11. ASSUME NEW n \in DOMAIN config.policies
       PROVE  /\ NewPolicy(config, n) \in [name : PoNames, stmts : Seq(StIds)]
              /\ NewPolicy(config, n).name = n /\ ToSet(NewPolicy(config, n).stmts) \subseteq Range(g)
  <2> DEFINE list == [j \in DOMAIN config.policies[n] |-> g[config.policies[n][j][1]]]
  <2>1. config.policies[n] \in Seq(StNames \X Requests) /\ n \in PoNames
    BY <1>3, ConfigsAssumption
  <2>2. list = [j \in 1..Len(config.policies[n]) |-> list[j]] /\ Len(config.policies[n]) \in Nat
        /\ DOMAIN list = DOMAIN config.policies[n] /\ DOMAIN list = 1..Len(config.policies[n])
    BY <2>1
  <2>3. \A j \in DOMAIN list : list[j] \in Range(g) /\ list[j] \in StIds
    BY <1>5, ConfigStatements
  <2>4. NewPolicy(config, n) = [name |-> n, stmts |-> list]
    BY <1>1 DEF NewPolicy
  <2> HIDE DEF list
  <2>5. list \in Seq(StIds)
    BY <2>2, <2>3, IsList
  <2> QED
    BY <2>1, <2>3, <2>4, <2>5 DEF ToSet
<1>12. pols' \in [PoIds -> [name : PoNames, stmts : Seq(StIds)]]
  BY <1>2, <1>6, <1>8, <1>11
<1>13. \A n \in PoNames : poMap'[n] # None => pols'[poMap'[n]].name = n
  BY <1>2, <1>6, <1>11
<1>14. \A p \in Defined(poMap') : ToSet(pols'[p].stmts) \subseteq Defined(stMap')
  BY <1>2, <1>5, <1>6, <1>11
<1> QED
  BY <1>4, <1>5, <1>6, <1>7, <1>9, <1>10, <1>12, <1>13, <1>14

\* What is assigned after a reload is in the new tables.
LEMMA ReassignedFacts ==
  ASSUME TypeOK, NEW map \in [PoNames -> PoIds \cup {None}]
  PROVE  /\ Reassigned(map) \in [Dirs -> [pols : Seq(PoIds), default : Routes]]
         /\ \A d \in Dirs : \A p \in ToSet(Reassigned(map)[d].pols) : \E n \in PoNames : map[n] = p /\ p # None
<1> SUFFICES ASSUME NEW d \in Dirs
             PROVE  /\ Reassigned(map)[d] \in [pols : Seq(PoIds), default : Routes]
                    /\ \A p \in ToSet(Reassigned(map)[d].pols) : \E n \in PoNames : map[n] = p /\ p # None
  BY DEF Reassigned
<1> DEFINE names == NamesOf(assign[d].pols)
<1>1. /\ assign[d].pols \in Seq(PoIds) /\ DOMAIN names = 1..Len(assign[d].pols) /\ Len(assign[d].pols) \in Nat
      /\ \A i \in DOMAIN names : names[i] \in PoNames
  BY DEF NamesOf, TypeOK
<1>2. CASE IsInjective(names) /\ \A i \in DOMAIN names : map[names[i]] # None
  <2> DEFINE list == [i \in DOMAIN names |-> map[names[i]]]
  <2>1. /\ Reassigned(map)[d].pols = list
        /\ Reassigned(map)[d] = [pols |-> list, default |-> IF assign[d].default = "reject" THEN "reject" ELSE "accept"]
    BY <1>2 DEF Reassigned
  <2>2. list = [i \in 1..Len(assign[d].pols) |-> list[i]] /\ DOMAIN list = DOMAIN names
    BY <1>1
  <2>3. \A i \in DOMAIN list : list[i] \in PoIds /\ list[i] = map[names[i]] /\ list[i] # None
    BY <1>1, <1>2
  <2> HIDE DEF list, names
  <2>4. list \in Seq(PoIds)
    BY <1>1, <2>2, <2>3, IsList
  <2> QED
    BY <1>1, <2>1, <2>2, <2>3, <2>4 DEF ToSet, Routes
<1>3. CASE ~(IsInjective(names) /\ \A i \in DOMAIN names : map[names[i]] # None)
  <2>1. Reassigned(map)[d] = [pols |-> <<>>, default |-> "accept"]
    BY <1>3 DEF Reassigned
  <2> QED
    BY <2>1 DEF ToSet, Routes
<1> QED
  BY <1>2, <1>3

LEMMA SetPoliciesNames ==
  ASSUME NInv, NEW config \in Configs, SetPolicies(config)
  PROVE  NInv'
<1>0. TypeOK
  BY DEF NInv
<1>1. CASE Refuse
  BY <1>1, RefuseNames
<1> SUFFICES ASSUME ~Refuse PROVE NInv'
  BY <1>1
<1>2. assign' = Reassigned(poMap') /\ outcome' = "reloaded"
  BY DEF SetPolicies
<1>3. poMap' \in [PoNames -> PoIds \cup {None}]
  BY <1>0, NewTables
<1>4. /\ assign' \in [Dirs -> [pols : Seq(PoIds), default : Routes]]
      /\ \A d \in Dirs : \A p \in ToSet(assign'[d].pols) : \E n \in PoNames : poMap'[n] = p /\ p # None
  BY <1>0, <1>2, <1>3, ReassignedFacts
<1>5. TypeOK'
  BY <1>0, <1>2, <1>4, NewTables DEF TypeOK, SetMaps, Statements
<1>6. MapsRight'
  BY <1>0, NewTables DEF MapsRight
<1>7. ExportDefined'
  BY <1>4, <1>6 DEF ExportDefined, MapsRight, Dirs
<1>8. StatementsDefined'
  <2> SUFFICES ASSUME NEW p \in Defined(poMap'), NEW s \in ToSet(pols'[p].stmts) PROVE Stands(s)'
    BY DEF StatementsDefined, Stands, Defined
  <2>1. s \in Defined(stMap')
    BY <1>0, NewTables
  <2>2. PICK n \in StNames : stMap'[n] = s /\ s # None
    BY <1>5, <2>1 DEF Defined, TypeOK
  <2> QED
    BY <1>6, <2>2 DEF MapsRight, Stands
<1> QED
  BY <1>5, <1>6, <1>7, <1>8 DEF NInv, NamesStand

LEMMA StepNames == NInv /\ [Next]_vars => NInv'
<1> SUFFICES ASSUME NInv, [Next]_vars PROVE NInv'
  OBVIOUS
<1>1. CASE SetStep
  BY <1>1, SetStepNames
<1>2. CASE StatementStep
  BY <1>2, AskedAssumption, AddStatementNames, RemoveFromStatementNames, DeleteStatementNames DEF StatementStep
<1>3. CASE PolicyStep
  <2>1. PICK n \in PoNames :
          \/ \E l \in StLists : \E r \in [DOMAIN l -> Asked] :
               \/ ReferStatements(n, [i \in DOMAIN l |-> <<l[i], r[i]>>])
               \/ DefineStatements(n, [i \in DOMAIN l |-> <<l[i], r[i]>>])
          \/ \E b \in BOOLEAN : DeletePolicy(n, b)
          \/ \E names \in SUBSET StNames, b \in BOOLEAN : RemoveFromPolicy(n, names, b)
    BY <1>3 DEF PolicyStep
  <2>3. ASSUME NEW l \in StLists, NEW r \in [DOMAIN l -> Asked],
               \/ ReferStatements(n, [i \in DOMAIN l |-> <<l[i], r[i]>>])
               \/ DefineStatements(n, [i \in DOMAIN l |-> <<l[i], r[i]>>])
        PROVE  NInv'
    <3>1. l \in Seq(StNames)
      BY ListsAssumption
    <3>2. PICK descs : descs = [i \in DOMAIN l |-> <<l[i], r[i]>>]
      OBVIOUS
    <3>3. descs = [i \in 1..Len(l) |-> descs[i]] /\ Len(l) \in Nat
      BY <3>1, <3>2
    <3>4. \A i \in 1..Len(l) : descs[i] \in StNames \X Requests
      BY <3>1, <3>2, AskedAssumption
    <3>5. descs \in Seq(StNames \X Requests)
      BY <3>3, <3>4, IsList
    <3> QED
      BY <2>3, <3>2, <3>5, ReferStatementsNames, DefineStatementsNames
  <2>4. ASSUME NEW b \in BOOLEAN, DeletePolicy(n, b) PROVE NInv'
    BY <2>4, DeletePolicyNames
  <2>5. ASSUME NEW names \in SUBSET StNames, NEW b \in BOOLEAN, RemoveFromPolicy(n, names, b) PROVE NInv'
    BY <2>5, RemoveFromPolicyNames
  <2> QED
    BY <2>1, <2>3, <2>4, <2>5
<1>4. CASE AssignmentStep
  BY <1>4, AssignmentStepNames
<1>5. CASE \E c \in Configs : SetPolicies(c)
  BY <1>5, SetPoliciesNames
<1>6. CASE UNCHANGED vars
  <2>1. TypeOK'
    BY <1>6 DEF NInv, TypeOK, vars
  <2> QED
    BY <1>6, <2>1, FrameNames DEF vars
<1> QED
  BY <1>1, <1>2, <1>3, <1>4, <1>5, <1>6 DEF Next

\* The tables of RoutingPolicy (definedSetMap, statementMap, policyMap, assignmentMap) and their
\* objects keep their types through every call of the API and every reload.
THEOREM PolicyTypeCorrect == Spec => []TypeOK
<1>1. Init => NInv
  BY InitNames
<1>2. NInv => TypeOK
  BY DEF NInv
<1> QED
  BY <1>1, <1>2, StepNames, PTL DEF Spec

\* What decides about the routes is what the API reaches by name: "can't delete. policy is in use"
\* of DeletePolicy keeps every policy assigned for export, and the statements of every policy are
\* the ones DeleteStatement and Statement.mod find, except those AddPolicy leaves when FillUp fails.
THEOREM NamesAlwaysStand == Spec => []NamesStand
<1>1. Init => NInv
  BY InitNames
<1>2. NInv => NamesStand
  BY DEF NInv
<1> QED
  BY <1>1, <1>2, StepNames, PTL DEF Spec

-----------------------------------------------------------------------------
(* The sets of conditions *)

SetsStayStep ==
  \A p \in Defined(poMap) \cap Defined(poMap)' :
    \A s \in ToSet(pols[p].stmts) \cap ToSet(pols[p].stmts)' :
      \A c \in ToSet(stmts[s].conds) \cap ToSet(stmts[s].conds)' :
        setMap[<<c.type, c.name>>] = c.set => setMap'[<<c.type, c.name>>] = c.set

\* A condition of a policy's statement is of a type and a name, and points to an object.
LEMMA CondsType ==
  ASSUME TypeOK, NEW p \in Defined(poMap), NEW s \in ToSet(pols[p].stmts), NEW c \in ToSet(stmts[s].conds)
  PROVE  s \in StIds /\ c \in Conds /\ c.set # None
<1>1. p \in PoIds
  BY DEF TypeOK, Defined
<1>2. s \in StIds
  BY <1>1 DEF TypeOK, ToSet
<1>3. c \in Conds
  BY <1>2 DEF TypeOK, ToSet
<1> QED
  BY <1>2, <1>3, IdsAreSome DEF Conds

\* Most operations leave the names of sets alone.
LEMMA OnlySetsMove ==
  ASSUME [Next]_vars, ~SetStep, \A config \in Configs : ~SetPolicies(config)
  PROVE  setMap' = setMap
<1>1. CASE StatementStep
  BY <1>1 DEF StatementStep, AddStatement, RemoveFromStatement, DeleteStatement, Refuse
<1>2. CASE PolicyStep
  <2>1. \A n, l : ReferStatements(n, l) => setMap' = setMap
    BY DEF ReferStatements, Refuse
  <2>2. \A n, l : DefineStatements(n, l) => setMap' = setMap
    BY DEF DefineStatements, Refuse
  <2>3. \A n, b : DeletePolicy(n, b) => setMap' = setMap
    BY DEF DeletePolicy, Refuse
  <2>4. \A n, l, b : RemoveFromPolicy(n, l, b) => setMap' = setMap
    BY DEF RemoveFromPolicy, Refuse
  <2> QED
    BY <1>2, <2>1, <2>2, <2>3, <2>4 DEF PolicyStep
<1>3. CASE AssignmentStep
  BY <1>3 DEF AssignmentStep, AddPolicyAssignment, SetPolicyAssignment, DeletePolicyAssignment,
              ClearPolicyAssignment, Assign, Refuse
<1> QED
  BY <1>1, <1>2, <1>3 DEF Next, vars

LEMMA SetsStayNow == NInv /\ [Next]_vars => SetsStayStep
<1> SUFFICES ASSUME TypeOK, [Next]_vars,
                    NEW p \in Defined(poMap), NEW s \in ToSet(pols[p].stmts), NEW c \in ToSet(stmts[s].conds),
                    s \in StIds, c \in ToSet(stmts'[s].conds), setMap[<<c.type, c.name>>] = c.set
             PROVE  setMap'[<<c.type, c.name>>] = c.set
  BY CondsType DEF NInv, SetsStayStep
<1>1. c \in Conds /\ c.set # None /\ setMap \in [TypeSet \X SetNames -> SetIds \cup {None}]
  BY CondsType DEF TypeOK
<1>2. ASSUME NEW type \in TypeSet, NEW name \in SetNames, NEW m \in SUBSET Members,
             AddDefinedSet(type, name, m)
      PROVE  setMap'[<<c.type, c.name>>] = c.set
  <2>1. CASE <<type, name>> = <<c.type, c.name>>
    BY <1>1, <1>2, <2>1 DEF AddDefinedSet, Conds
  <2>2. CASE <<type, name>> # <<c.type, c.name>>
    BY <1>1, <1>2, <2>2 DEF AddDefinedSet, Conds
  <2> QED
    BY <2>1, <2>2
<1>3. ASSUME NEW type \in TypeSet, NEW name \in SetNames, DeleteDefinedSet(type, name)
      PROVE  setMap'[<<c.type, c.name>>] = c.set
  <2>1. CASE setMap' = setMap
    BY <2>1
  <2>2. CASE ~SetInUse(name) /\ setMap' = [setMap EXCEPT ![<<type, name>>] = None]
    <3>1. c.name # name
      BY <2>2 DEF SetInUse
    <3> QED
      BY <1>1, <2>2, <3>1 DEF Conds
  <2> QED
    BY <1>3, <2>1, <2>2 DEF DeleteDefinedSet, Refuse
<1>4. ASSUME NEW type \in TypeSet, NEW name \in SetNames, NEW m \in SUBSET Members,
             RemoveMembers(type, name, m)
      PROVE  setMap'[<<c.type, c.name>>] = c.set
  BY <1>4 DEF RemoveMembers, Refuse
<1>5. ASSUME NEW config \in Configs, SetPolicies(config)
      PROVE  setMap'[<<c.type, c.name>>] = c.set
  <2>1. CASE Refuse
    BY <2>1 DEF Refuse
  <2>2. CASE ~Refuse
    BY <1>5, <2>2, NewTables
  <2> QED
    BY <2>1, <2>2
<1> QED
  BY <1>2, <1>3, <1>4, <1>5, OnlySetsMove DEF SetStep

\* DeleteDefinedSet refuses while an installed policy has a condition on the name; no other call
\* moves a name to another set object, and a reload resolves the new conditions anew.
THEOREM SetsStay == Spec => SetsStayUnder
<1>1. Init => NInv
  BY InitNames
<1>2. NInv /\ [Next]_vars => [SetsStayStep]_vars
  BY SetsStayNow
<1>3. [][SetsStayStep]_vars => SetsStayUnder
  BY PTL DEF SetsStayUnder, SetsStayStep
<1> QED
  BY <1>1, <1>2, <1>3, StepNames, PTL DEF Spec

-----------------------------------------------------------------------------
(* A reload *)

LEMMA OnlyReloadReloads ==
  ASSUME Next, outcome' = "reloaded"
  PROVE  \E config \in Configs : SetPolicies(config) /\ ~Refuse
<1>1. ~SetStep
  BY DEF SetStep, AddDefinedSet, DeleteDefinedSet, RemoveMembers, Refuse
<1>2. ~StatementStep
  BY DEF StatementStep, AddStatement, RemoveFromStatement, DeleteStatement, Refuse
<1>3. ~PolicyStep
  BY DEF PolicyStep, ReferStatements, DefineStatements, DeletePolicy, RemoveFromPolicy, Refuse
<1>4. ~AssignmentStep
  BY DEF AssignmentStep, AddPolicyAssignment, SetPolicyAssignment, DeletePolicyAssignment,
         ClearPolicyAssignment, Assign, Refuse
<1> QED
  BY <1>1, <1>2, <1>3, <1>4 DEF Next, Refuse

LEMMA ReloadLeaves == NInv /\ ReloadLeavesNothing /\ [Next]_vars => ReloadLeavesNothing'
<1> SUFFICES ASSUME NInv, ReloadLeavesNothing, [Next]_vars, outcome' = "reloaded"
             PROVE  /\ UsedPols' = Defined(poMap')
                    /\ UsedStmts' = Defined(stMap')
                    /\ UsedSets' = Defined(setMap')
  BY DEF ReloadLeavesNothing, Defined
<1>0. TypeOK
  BY DEF NInv
<1>1. CASE UNCHANGED vars
  <2>1. UsedPols' = UsedPols /\ Defined(poMap') = Defined(poMap)
    BY <1>1 DEF vars, UsedPols, Defined
  <2>2. UsedStmts' = UsedStmts /\ Defined(stMap') = Defined(stMap)
    BY <1>1, <2>1 DEF vars, UsedStmts, Defined
  <2>3. UsedSets' = UsedSets /\ Defined(setMap') = Defined(setMap)
    BY <1>1, <2>2 DEF vars, UsedSets, Defined
  <2> QED
    BY <1>1, <2>1, <2>2, <2>3 DEF vars, ReloadLeavesNothing
<1>2. CASE Next
  <2>1. PICK config \in Configs : SetPolicies(config) /\ ~Refuse
    BY <1>2, OnlyReloadReloads
  <2>2. TypeOK' /\ MapsRight'
    BY <2>1, SetPoliciesNames DEF NInv
  <2>3. /\ poMap' \in [PoNames -> PoIds \cup {None}] /\ stMap' \in [StNames -> StIds \cup {None}]
        /\ setMap' \in SetMaps /\ stmts' \in [StIds -> Statements]
        /\ \A p \in Defined(poMap') : ToSet(pols'[p].stmts) \subseteq Defined(stMap')
        /\ \A s \in StIds : \A c \in ToSet(stmts'[s].conds) : c.set = setMap'[<<c.type, c.name>>]
    BY <1>0, <2>1, NewTables
  <2>4. \A d \in Dirs : \A p \in ToSet(assign'[d].pols) : p \in Defined(poMap')
    <3>1. assign' = Reassigned(poMap')
      BY <2>1 DEF SetPolicies
    <3>2. \A d \in Dirs : \A p \in ToSet(assign'[d].pols) : \E n \in PoNames : poMap'[n] = p /\ p # None
      BY <1>0, <2>3, <3>1, ReassignedFacts
    <3> QED
      BY <2>3, <3>2 DEF Defined
  <2>5. UsedPols' = Defined(poMap')
    BY <2>4 DEF UsedPols, Defined
  <2>6. UsedStmts' = Defined(stMap')
    BY <2>3, <2>5 DEF UsedStmts, Defined
  <2>7. \A s \in Defined(stMap') : \A c \in ToSet(stmts'[s].conds) : c.set \in Defined(setMap')
    <3> SUFFICES ASSUME NEW s \in Defined(stMap'), NEW c \in ToSet(stmts'[s].conds)
                 PROVE  c.set \in Defined(setMap')
      OBVIOUS
    <3>1. s \in StIds
      BY <2>3 DEF Defined
    <3>2. c \in Conds
      BY <2>3, <3>1 DEF Statements, ToSet
    <3> QED
      BY ZenonT(30), <2>3, <3>1, <3>2, IdsAreSome DEF Conds, SetMaps, Defined
  <2>8. UsedSets' = Defined(setMap')
    BY <2>6, <2>7 DEF UsedSets, Defined
  <2> QED
    BY <2>5, <2>6, <2>8
<1> QED
  BY <1>1, <1>2

\* SetPolicies builds all tables anew and assigns by name: whatever policy, statement or set had
\* come loose from its name before, nothing of it decides about a route afterwards.
THEOREM ReloadsLeaveNothing == Spec => []ReloadLeavesNothing
<1>1. Init => NInv /\ ReloadLeavesNothing
  BY InitNames DEF Init, ReloadLeavesNothing
<1> QED
  BY <1>1, StepNames, ReloadLeaves, PTL DEF Spec
=============================================================================
