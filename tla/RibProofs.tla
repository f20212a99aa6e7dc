------------------------------ MODULE RibProofs ------------------------------
(***************************************************************************)
(* The safety of Rib for any neighbors, announcements and policies, and     *)
(* that it implements Routing.                                              *)
(***************************************************************************)
EXTENDS Rib, FiniteSetTheorems, TLAPS

\* The constants as the lemmas below use them.
LEMMA AttrFacts ==
  ASSUME NEW s \in Sources, NEW a \in Routes[s]
  PROVE  a \in Attrs /\ a # NoAttr /\ a.tag \in Tags /\ a.mine \in BOOLEAN
BY RoutesAssumption, SourcesAssumption DEF Attrs, NoAttr

LEMMA RouteFacts ==
  ASSUME NEW r \in Route
  PROVE  r # NoRoute /\ r.attr \in Attrs /\ r.attr # NoAttr
<1>1. PICK s \in Sources : r.attr \in Routes[s]
  BY DEF Route, Attrs
<1>2. r.attr # NoAttr
  BY <1>1, AttrFacts
<1> QED
  BY <1>2 DEF Route, NoRoute

LEMMA SourcesFinite == IsFiniteSet(Sources)
BY PeersAssumption, FS_AddElement DEF Sources

-----------------------------------------------------------------------------
\* Calculate keeps the types of the Loc-RIB and leaves the other sources alone.

IsListOf(q, r) ==
  q \in Seq(Sources) /\ {q[i] : i \in 1..Len(q)} = {x \in Sources : r[x] # NoRoute}

LEMMA SortedType ==
  ASSUME NEW r, NEW s, NEW q \in SortedLists(r, s)
  PROVE  IsListOf(q, r)
<1>1. IsFiniteSet(Held(r)) /\ Held(r) \subseteq Sources
  BY SourcesFinite, FS_Subset DEF Held
<1>2. Cardinality(Held(r)) \in Nat
  BY <1>1, FS_CardinalityType
<1>3. q \in [1..Cardinality(Held(r)) -> Held(r)] /\ {q[i] : i \in DOMAIN q} = Held(r)
  BY DEF SortedLists
<1>4. q \in Seq(Held(r)) /\ DOMAIN q = 1..Len(q)
  BY <1>2, <1>3
<1>5. q \in Seq(Sources)
  BY <1>1, <1>4
<1> QED
  BY <1>3, <1>4, <1>5 DEF Held, IsListOf

\* The part of TypeOK about the Loc-RIB, for any value of it.
IsRib(r, q) ==
  /\ r \in [Sources -> Route \cup {NoRoute}]
  /\ \A s \in Sources : r[s].attr \in Routes[s] \cup {NoAttr}
  /\ IsListOf(q, r)

\* A route that source s may have in the Loc-RIB.
IsRouteOf(s, route) == route \in Route \cup {NoRoute} /\ route.attr \in Routes[s] \cup {NoAttr}

LEMMA CalculateType ==
  ASSUME IsRib(rib, known), NEW s \in Sources, NEW route, IsRouteOf(s, route),
         Calculate(s, route)
  PROVE  IsRib(rib', known') /\ rib' = [rib EXCEPT ![s] = route]
<1> DEFINE r == rib'
           q == known'
<1>1. r = [rib EXCEPT ![s] = route] /\ q \in SortedLists(r, s)
  BY DEF Calculate
<1>2. r \in [Sources -> Route \cup {NoRoute}]
  BY <1>1 DEF IsRib, IsRouteOf
<1>3. \A x \in Sources : r[x].attr \in Routes[x] \cup {NoAttr}
  BY <1>1 DEF IsRib, IsRouteOf
<1> HIDE DEF r, q
<1>4. IsListOf(q, r)
  BY <1>1, SortedType
<1>5. IsRib(r, q) /\ r = [rib EXCEPT ![s] = route]
  BY <1>1, <1>2, <1>3, <1>4 DEF IsRib
<1> QED
  BY <1>5 DEF r, q

\* The best path is a path of the Loc-RIB.
LEMMA BestType ==
  ASSUME NEW r, NEW q, IsRib(r, q), BestOf(r, q) # NoPath
  PROVE  LET best == BestOf(r, q)
         IN /\ best \in Path /\ best.attr \in Routes[best.src]
            /\ r[best.src] # NoRoute /\ r[best.src].attr = best.attr
<1>1. q # <<>>
  BY DEF BestOf
<1>2. 1 \in 1..Len(q) /\ q[1] \in Sources
  BY <1>1 DEF IsRib, IsListOf
<1>3. r[q[1]] # NoRoute
  BY <1>2 DEF IsRib, IsListOf
<1>4. r[q[1]] \in Route
  BY <1>2, <1>3 DEF IsRib
<1>5. r[q[1]].attr \in Attrs /\ r[q[1]].attr # NoAttr
  BY <1>4, RouteFacts
<1>6. r[q[1]].attr \in Routes[q[1]]
  BY <1>2, <1>5 DEF IsRib
<1>7. BestOf(r, q) = [src |-> q[1], attr |-> r[q[1]].attr]
  BY <1>1 DEF BestOf
<1> QED
  BY <1>2, <1>3, <1>5, <1>6, <1>7 DEF Path

-----------------------------------------------------------------------------
\* Types

LEMMA SendToType ==
  ASSUME IsRib(rib', known'), sent \in [Peers -> Path \cup {NoPath}], NEW live, SendTo(live)
  PROVE  sent' \in [Peers -> Path \cup {NoPath}]
<1>1. BestOf(rib', known') \in Path \cup {NoPath}
  BY BestType
<1>2. \A p \in Peers : AfterChange(p, BestOf(rib', known'), Best) \in Path \cup {NoPath}
  BY <1>1 DEF AfterChange
<1> QED
  BY <1>2 DEF SendTo

\* What a step may do to the Loc-RIB and to what has been sent.
RibStep == IsRib(rib', known') /\ sent' \in [Peers -> Path \cup {NoPath}]

LEMMA TypeParts ==
  ASSUME TypeOK
  PROVE  IsRib(rib, known) /\ sent \in [Peers -> Path \cup {NoPath}]
BY DEF TypeOK, IsRib, IsListOf

LEMMA PropagateType ==
  ASSUME TypeOK, NEW s \in Sources, NEW route, IsRouteOf(s, route), NEW live,
         Propagate(s, route, live)
  PROVE  RibStep /\ rib' = [rib EXCEPT ![s] = route]
<1>1. IsRib(rib', known') /\ rib' = [rib EXCEPT ![s] = route]
  BY TypeParts, CalculateType DEF Propagate
<1>2. sent' \in [Peers -> Path \cup {NoPath}]
  BY <1>1, TypeParts, SendToType DEF Propagate
<1> QED
  BY <1>1, <1>2 DEF RibStep

LEMMA NothingType ==
  ASSUME TypeOK, NEW live, PropagateNothing(live)
  PROVE  RibStep /\ rib' = rib
<1>1. IsRib(rib', known')
  BY TypeParts DEF PropagateNothing
<1> QED
  BY <1>1, TypeParts DEF PropagateNothing, RibStep

LEMMA RoutesOfPeer ==
  ASSUME TypeOK, NEW p \in Peers
  PROVE  /\ IsRouteOf(p, NoRoute) /\ IsRouteOf(p, adjIn[p])
         /\ \A a \in Routes[p] : IsRouteOf(p, NewRoute(p, a)) /\ NewRoute(p, a) \in Route
<1>1. p \in Sources
  BY DEF Sources
<1>2. IsRouteOf(p, NoRoute)
  BY DEF IsRouteOf, NoRoute
<1>3. IsRouteOf(p, adjIn[p])
  BY DEF TypeOK, IsRouteOf
<1>4. ASSUME NEW a \in Routes[p]
      PROVE  IsRouteOf(p, NewRoute(p, a)) /\ NewRoute(p, a) \in Route
  <2>1. a \in Attrs /\ a # NoAttr
    BY <1>1, AttrFacts
  <2>2. 0 \in 0..MaxClock /\ Age(p) \in 0..MaxClock
    BY ClockAssumption DEF Age, TypeOK
  <2>3. adjIn[p].attr = a => adjIn[p].at \in 0..MaxClock
    BY <2>1 DEF TypeOK, Route, NoRoute
  <2> QED
    BY <2>1, <2>2, <2>3 DEF NewRoute, IsRouteOf, Route
<1> QED
  BY <1>2, <1>3, <1>4

LEMMA ImportType ==
  ASSUME NEW s, NEW route, IsRouteOf(s, route)
  PROVE  IsRouteOf(s, ImportPolicy(route)) /\ ImportPolicy(route) \in {route, NoRoute}
BY DEF ImportPolicy, IsRouteOf, NoRoute

LEMMA LocalRoute ==
  ASSUME NEW a \in Routes[Local]
  PROVE  Local \in Sources /\ IsRouteOf(Local, [attr |-> a, at |-> 0])
BY ClockAssumption, AttrFacts DEF Sources, IsRouteOf, Route

\* Dropping the route of p touches nothing else.
LEMMA DropType ==
  ASSUME TypeOK, NEW p \in Peers, NEW live, Drop(p, live)
  PROVE  /\ RibStep
         /\ (rib' = rib /\ adjIn[p] = NoRoute) \/ rib' = [rib EXCEPT ![p] = NoRoute]
         /\ adjIn' = [adjIn EXCEPT ![p] = NoRoute] /\ stale' = stale \ {p}
<1>1. p \in Sources /\ IsRouteOf(p, NoRoute)
  BY RoutesOfPeer DEF Sources
<1>2. CASE adjIn[p] = NoRoute
  BY <1>2, NothingType DEF Drop, DropFromRib
<1>3. CASE adjIn[p] # NoRoute
  BY <1>1, <1>3, PropagateType DEF Drop, DropFromRib
<1> QED
  BY <1>2, <1>3

\* Re-applying the import policy to the route of p.
LEMMA ReimportType ==
  ASSUME TypeOK, NEW p \in Peers, NEW live, Propagate(p, ImportPolicy(adjIn[p]), live)
  PROVE  /\ RibStep
         /\ \/ rib' = [rib EXCEPT ![p] = adjIn[p]]
            \/ rib' = [rib EXCEPT ![p] = NoRoute]
<1>1. p \in Sources /\ IsRouteOf(p, adjIn[p])
  BY RoutesOfPeer DEF Sources
<1>2. IsRouteOf(p, ImportPolicy(adjIn[p])) /\ ImportPolicy(adjIn[p]) \in {adjIn[p], NoRoute}
  BY <1>1, ImportType
<1> QED
  BY <1>1, <1>2, PropagateType

-----------------------------------------------------------------------------
\* The inductive invariant

\* A route that names this speaker never reaches the Loc-RIB.
NothingOwn == \A s \in Sources : rib[s] # NoRoute => ~rib[s].attr.mine

IInv == TypeOK /\ RibFromAdjIn /\ StaleIsPending /\ NothingOwn

\* The rest of TypeOK.
OtherTypes ==
  /\ up \subseteq Peers /\ restarting \subseteq Peers /\ stale \subseteq Peers /\ dirty \subseteq up
  /\ adjIn \in [Peers -> Route \cup {NoRoute}]
  /\ \A p \in Peers : adjIn[p].attr \in Routes[p] \cup {NoAttr}
  /\ denyIn \subseteq Tags /\ denyOut \subseteq Tags
  /\ now \in 0..MaxClock

LEMMA TypeFromParts ==
  /\ TypeOK => OtherTypes
  /\ OtherTypes' /\ RibStep => TypeOK'
BY DEF TypeOK, OtherTypes, RibStep, IsRib, IsListOf

LEMMA NoRouteFacts ==
  NoRoute.attr = NoAttr /\ ~NoRoute.attr.mine /\ ~NoAttr.mine
BY DEF NoRoute, NoAttr

LEMMA InitInv == Init => IInv
<1> SUFFICES ASSUME Init PROVE IInv
  OBVIOUS
<1>1. IsRib(rib, known) /\ sent \in [Peers -> Path \cup {NoPath}]
  <2>1. \A s \in Sources : rib[s] = NoRoute /\ rib[s].attr = NoAttr
    BY NoRouteFacts DEF Init
  <2>2. known \in Seq(Sources) /\ 1..Len(known) = {}
    BY DEF Init
  <2>3. IsListOf(known, rib)
    BY <2>1, <2>2 DEF IsListOf
  <2> QED
    BY <2>1, <2>3 DEF Init, IsRib
<1>2. OtherTypes
  BY NoRouteFacts, ClockAssumption DEF Init, OtherTypes
<1>3. TypeOK
  BY <1>1, <1>2 DEF TypeOK, OtherTypes, IsRib, IsListOf
<1> QED
  BY <1>3, Zenon DEF Init, IInv, RibFromAdjIn, StaleIsPending, NothingOwn, Sources

\* A message or the loss of a session may change the routes of one neighbor only.
LEMMA RecvRouteInv ==
  ASSUME IInv, NEW p \in Peers, NEW a \in Routes[p], RecvRoute(p, a)
  PROVE  IInv'
<1> DEFINE route == NewRoute(p, a)
<1>1. TypeOK /\ p \in Sources
  BY DEF IInv, Sources
<1>2. IsRouteOf(p, route) /\ route \in Route /\ route.attr = a /\ route # NoRoute
  BY <1>1, RoutesOfPeer, RouteFacts DEF NewRoute
<1> HIDE DEF route
<1>3. /\ p \in up /\ adjIn' = [adjIn EXCEPT ![p] = route] /\ stale' = stale \ {p}
      /\ UNCHANGED <<up, restarting, denyIn, denyOut, dirty, now>>
  BY DEF RecvRoute, route, policyVars
<1>4. OtherTypes'
  BY <1>1, <1>2, <1>3, TypeFromParts DEF OtherTypes, IsRouteOf
<1>5. /\ RibStep
      /\ \/ a.mine /\ rib' = rib
         \/ ~a.mine /\ rib' = [rib EXCEPT ![p] = route]
         \/ rib' = [rib EXCEPT ![p] = NoRoute]
  <2>1. CASE a.mine /\ PropagateNothing(up)
    BY <1>1, <2>1, NothingType
  <2>2. CASE ~a.mine /\ Propagate(p, ImportPolicy(route), up)
    <3>1. IsRouteOf(p, ImportPolicy(route)) /\ ImportPolicy(route) \in {route, NoRoute}
      BY <1>2, ImportType
    <3> QED
      BY <1>1, <2>2, <3>1, PropagateType
  <2> QED
    BY <2>1, <2>2 DEF RecvRoute, route
<1>6. TypeOK'
  BY <1>4, <1>5, TypeFromParts
<1>7. RibFromAdjIn'
  BY <1>1, <1>2, <1>3, <1>5 DEF IInv, TypeOK, RibFromAdjIn, Sources
<1>8. StaleIsPending'
  BY <1>1, <1>2, <1>3 DEF IInv, TypeOK, StaleIsPending
<1>9. NothingOwn'
  BY <1>1, <1>2, <1>5 DEF IInv, TypeOK, NothingOwn
<1> QED
  BY <1>6, <1>7, <1>8, <1>9 DEF IInv

\* Whatever drops the route of p.
LEMMA DropInv ==
  ASSUME IInv, NEW p \in Peers, NEW live, Drop(p, live), OtherTypes',
         restarting' \cup {p} = restarting \cup {p}
  PROVE  IInv'
<1>1. TypeOK /\ p \in Sources
  BY DEF IInv, Sources
<1>2. /\ RibStep
      /\ (rib' = rib /\ adjIn[p] = NoRoute) \/ rib' = [rib EXCEPT ![p] = NoRoute]
      /\ adjIn' = [adjIn EXCEPT ![p] = NoRoute] /\ stale' = stale \ {p}
  BY <1>1, DropType
<1>3. rib'[p] = NoRoute
  BY <1>1, <1>2, NoRouteFacts DEF IInv, RibFromAdjIn, TypeOK
<1>4. TypeOK'
  BY <1>2, TypeFromParts
<1>5. RibFromAdjIn'
  BY <1>1, <1>2, <1>3 DEF IInv, TypeOK, RibFromAdjIn, Sources
<1>6. StaleIsPending'
  BY <1>1, <1>2 DEF IInv, TypeOK, StaleIsPending
<1>7. NothingOwn'
  BY <1>1, <1>2 DEF IInv, TypeOK, NothingOwn
<1> QED
  BY <1>4, <1>5, <1>6, <1>7 DEF IInv

LEMMA PeerDownInv ==
  ASSUME IInv, NEW p \in Peers, PeerDown(p)
  PROVE  IInv'
<1>1. TypeOK /\ OtherTypes
  BY TypeFromParts DEF IInv
<1>2. /\ Drop(p, up \ {p}) /\ up' = up \ {p} /\ dirty' = dirty \ {p}
      /\ restarting' \in {restarting, restarting \cup {p}}
      /\ UNCHANGED <<denyIn, denyOut, now>>
  BY DEF PeerDown, SessionEnds, policyVars
<1>3. adjIn' = [adjIn EXCEPT ![p] = NoRoute] /\ stale' = stale \ {p}
  BY <1>2 DEF Drop
<1>4. OtherTypes'
  BY <1>1, <1>2, <1>3, NoRouteFacts DEF OtherTypes
<1> QED
  BY <1>2, <1>4, DropInv

LEMMA RecvWithdrawInv ==
  ASSUME IInv, NEW p \in Peers, RecvWithdraw(p)
  PROVE  IInv'
<1>1. TypeOK /\ OtherTypes /\ p \in Sources /\ IsRouteOf(p, NoRoute)
  BY TypeFromParts, RoutesOfPeer DEF IInv, Sources
<1>2. /\ Propagate(p, NoRoute, up)
      /\ adjIn' = [adjIn EXCEPT ![p] = NoRoute] /\ stale' = stale \ {p}
      /\ UNCHANGED <<up, restarting, denyIn, denyOut, dirty, now>>
  BY DEF RecvWithdraw, policyVars
<1>3. RibStep /\ rib' = [rib EXCEPT ![p] = NoRoute]
  BY <1>1, <1>2, PropagateType
<1>4. OtherTypes'
  BY <1>1, <1>2, NoRouteFacts DEF OtherTypes
<1>5. TypeOK'
  BY <1>3, <1>4, TypeFromParts
<1>6. RibFromAdjIn'
  BY <1>1, <1>2, <1>3 DEF IInv, TypeOK, RibFromAdjIn, Sources
<1>7. StaleIsPending'
  BY <1>1, <1>2 DEF IInv, TypeOK, StaleIsPending
<1>8. NothingOwn'
  BY <1>1, <1>3 DEF IInv, TypeOK, NothingOwn
<1> QED
  BY <1>5, <1>6, <1>7, <1>8 DEF IInv

LEMMA RestartEndsInv ==
  ASSUME IInv, NEW p \in Peers, RestartEnds(p)
  PROVE  IInv'
<1>1. TypeOK /\ OtherTypes
  BY TypeFromParts DEF IInv
<1>2. /\ Drop(p, up) /\ restarting' = restarting \ {p}
      /\ UNCHANGED <<up, denyIn, denyOut, dirty, now>>
  BY DEF RestartEnds, policyVars
<1>3. adjIn' = [adjIn EXCEPT ![p] = NoRoute] /\ stale' = stale \ {p}
  BY <1>2 DEF Drop
<1>4. OtherTypes'
  BY <1>1, <1>2, <1>3, NoRouteFacts DEF OtherTypes
<1> QED
  BY <1>2, <1>4, DropInv

\* Steps that leave adjIn alone and bring the Loc-RIB at most closer to it.
LEMMA KeepInv ==
  ASSUME IInv, NEW p \in Peers, OtherTypes', RibStep, UNCHANGED adjIn,
         \/ rib' = rib
         \/ Accepted(adjIn[p]) /\ rib' = [rib EXCEPT ![p] = adjIn[p]]
         \/ rib' = [rib EXCEPT ![p] = NoRoute],
         \A q \in stale' : q \in restarting' /\ adjIn[q] # NoRoute
  PROVE  IInv'
<1>1. TypeOK /\ p \in Sources
  BY DEF IInv, Sources
<1>2. TypeOK'
  BY TypeFromParts
<1>3. RibFromAdjIn'
  BY <1>1 DEF IInv, TypeOK, RibFromAdjIn, Sources
<1>4. StaleIsPending'
  BY DEF StaleIsPending
<1>5. NothingOwn'
  BY <1>1 DEF IInv, TypeOK, NothingOwn, Accepted
<1> QED
  BY <1>2, <1>3, <1>4, <1>5 DEF IInv

LEMMA GracefulPeerDownInv ==
  ASSUME IInv, NEW p \in Peers, GracefulPeerDown(p)
  PROVE  IInv'
<1>1. TypeOK /\ OtherTypes /\ StaleIsPending
  BY TypeFromParts DEF IInv
<1>2. /\ up' = up \ {p} /\ dirty' = dirty \ {p} /\ restarting' = restarting \cup {p}
      /\ stale' = IF adjIn[p] = NoRoute THEN stale ELSE stale \cup {p}
      /\ UNCHANGED <<adjIn, denyIn, denyOut, now>>
  BY DEF GracefulPeerDown, SessionEnds, PeerRestarts, StaleKept, policyVars
<1>3. OtherTypes'
  BY <1>1, <1>2 DEF OtherTypes
<1>4. \A q \in stale' : q \in restarting' /\ adjIn[q] # NoRoute
  BY <1>1, <1>2 DEF StaleIsPending
<1>5. CASE Accepted(adjIn[p]) /\ Propagate(p, ImportPolicy(adjIn[p]), up \ {p})
  <2>1. /\ RibStep
        /\ rib' = [rib EXCEPT ![p] = adjIn[p]] \/ rib' = [rib EXCEPT ![p] = NoRoute]
    BY <1>1, <1>5, ReimportType
  <2> QED
    BY <1>2, <1>3, <1>4, <1>5, <2>1, KeepInv
<1>6. CASE PropagateNothing(up \ {p})
  <2>1. RibStep /\ rib' = rib
    BY <1>1, <1>6, NothingType
  <2> QED
    BY <1>2, <1>3, <1>4, <2>1, KeepInv
<1> QED
  BY <1>5, <1>6 DEF GracefulPeerDown

LEMMA RecvEorInv ==
  ASSUME IInv, NEW p \in Peers, RecvEor(p)
  PROVE  IInv'
<1>1. TypeOK /\ OtherTypes /\ StaleIsPending
  BY TypeFromParts DEF IInv
<1>2. restarting' = restarting \ {p} /\ UNCHANGED <<up, denyIn, denyOut, dirty, now>>
  BY DEF RecvEor, policyVars
<1>3. CASE Drop(p, up)
  <2>1. adjIn' = [adjIn EXCEPT ![p] = NoRoute] /\ stale' = stale \ {p}
    BY <1>3 DEF Drop
  <2>2. OtherTypes'
    BY <1>1, <1>2, <2>1, NoRouteFacts DEF OtherTypes
  <2> QED
    BY <1>2, <1>3, <2>2, DropInv
<1>4. CASE p \notin stale /\ PropagateNothing(up) /\ UNCHANGED <<adjIn, stale>>
  <2>1. RibStep /\ rib' = rib
    BY <1>1, <1>4, NothingType
  <2>2. OtherTypes'
    BY <1>1, <1>2, <1>4 DEF OtherTypes
  <2>3. \A q \in stale' : q \in restarting' /\ adjIn[q] # NoRoute
    BY <1>1, <1>2, <1>4 DEF StaleIsPending
  <2> QED
    BY <1>4, <2>1, <2>2, <2>3, KeepInv
<1> QED
  BY <1>3, <1>4 DEF RecvEor

\* The API adds or deletes the local route.
LEMMA LocalInv ==
  ASSUME IInv, NEW route, IsRouteOf(Local, route), ~route.attr.mine, Propagate(Local, route, up),
         UNCHANGED <<up, restarting, stale, adjIn, denyIn, denyOut, dirty, now>>
  PROVE  IInv'
<1>1. TypeOK /\ OtherTypes /\ Local \in Sources /\ Local \notin Peers
  BY TypeFromParts, SourcesAssumption DEF IInv, Sources
<1>2. RibStep /\ rib' = [rib EXCEPT ![Local] = route]
  BY <1>1, PropagateType
<1>3. OtherTypes'
  BY <1>1 DEF OtherTypes
<1>4. TypeOK'
  BY <1>2, <1>3, TypeFromParts
<1>5. RibFromAdjIn'
  BY <1>1, <1>2 DEF IInv, TypeOK, RibFromAdjIn, Sources
<1>6. StaleIsPending'
  BY DEF IInv, StaleIsPending
<1>7. NothingOwn'
  BY <1>1, <1>2 DEF IInv, TypeOK, NothingOwn
<1> QED
  BY <1>4, <1>5, <1>6, <1>7 DEF IInv

LEMMA AddPathInv ==
  ASSUME IInv, NEW a \in Routes[Local], AddPath(a)
  PROVE  IInv'
<1> DEFINE route == [attr |-> a, at |-> 0]
<1>1. IsRouteOf(Local, route) /\ ~route.attr.mine
  BY LocalRoute, RoutesAssumption
<1>2. /\ Propagate(Local, ImportPolicy(route), up)
      /\ UNCHANGED <<up, restarting, stale, adjIn, denyIn, denyOut, dirty, now>>
  BY DEF AddPath, policyVars
<1> HIDE DEF route
<1>3. IsRouteOf(Local, ImportPolicy(route)) /\ ~ImportPolicy(route).attr.mine
  BY <1>1, ImportType, NoRouteFacts
<1> QED
  BY <1>2, <1>3, LocalInv

LEMMA DeletePathInv ==
  ASSUME IInv, DeletePath
  PROVE  IInv'
<1>1. IsRouteOf(Local, NoRoute) /\ ~NoRoute.attr.mine
  BY NoRouteFacts DEF IsRouteOf
<1> QED
  BY <1>1, LocalInv DEF DeletePath, policyVars

LEMMA SoftResetInInv ==
  ASSUME IInv, NEW p \in Peers, SoftResetIn(p)
  PROVE  IInv'
<1>1. TypeOK /\ OtherTypes /\ StaleIsPending
  BY TypeFromParts DEF IInv
<1>2. /\ RibStep
      /\ rib' = [rib EXCEPT ![p] = adjIn[p]] \/ rib' = [rib EXCEPT ![p] = NoRoute]
  BY <1>1, ReimportType DEF SoftResetIn
<1>3. /\ Accepted(adjIn[p])
      /\ UNCHANGED <<up, restarting, stale, adjIn, denyIn, denyOut, dirty, now>>
  BY DEF SoftResetIn, policyVars
<1>4. OtherTypes' /\ \A q \in stale' : q \in restarting' /\ adjIn[q] # NoRoute
  BY <1>1, <1>3 DEF OtherTypes, StaleIsPending
<1> QED
  BY <1>2, <1>3, <1>4, KeepInv

\* Steps that only send something, or change the policies or the clock.
LEMMA SendInv ==
  ASSUME IInv, OtherTypes', UNCHANGED <<restarting, stale, adjIn, rib, known>>,
         sent' \in [Peers -> Path \cup {NoPath}]
  PROVE  IInv'
<1>1. IsRib(rib, known)
  BY TypeParts DEF IInv
<1>2. RibStep
  BY <1>1 DEF RibStep
<1>3. TypeOK'
  BY <1>2, TypeFromParts
<1> QED
  BY <1>3 DEF IInv, RibFromAdjIn, StaleIsPending, NothingOwn

LEMMA ExportType ==
  ASSUME TypeOK, NEW p \in Peers
  PROVE  Best \in Path \cup {NoPath} /\ Export(p) \in Path \cup {NoPath}
BY TypeParts, BestType DEF Best, Export

LEMMA EstablishInv ==
  ASSUME IInv, NEW p \in Peers, Establish(p)
  PROVE  IInv'
<1>1. TypeOK /\ OtherTypes
  BY TypeFromParts DEF IInv
<1>2. OtherTypes'
  BY <1>1 DEF OtherTypes, Establish, policyVars
<1>3. sent' \in [Peers -> Path \cup {NoPath}]
  BY <1>1, TypeParts, ExportType DEF Establish
<1> QED
  BY <1>2, <1>3, SendInv DEF Establish

LEMMA RouteRefreshInv ==
  ASSUME IInv, NEW p \in Peers, RouteRefresh(p)
  PROVE  IInv'
<1>1. TypeOK /\ OtherTypes
  BY TypeFromParts DEF IInv
<1>2. OtherTypes'
  BY <1>1 DEF OtherTypes, RouteRefresh, policyVars
<1>3. sent' \in [Peers -> Path \cup {NoPath}]
  BY <1>1, TypeParts, ExportType DEF RouteRefresh
<1> QED
  BY <1>2, <1>3, SendInv DEF RouteRefresh

LEMMA SetPolicyInv ==
  ASSUME IInv, NEW in \in Policies, NEW out \in Policies, SetPolicy(in, out)
  PROVE  IInv'
<1>1. OtherTypes /\ sent \in [Peers -> Path \cup {NoPath}]
  BY TypeFromParts, TypeParts DEF IInv
<1>2. OtherTypes'
  BY <1>1, PoliciesAssumption DEF OtherTypes, SetPolicy
<1> QED
  BY <1>1, <1>2, SendInv DEF SetPolicy

LEMMA TickInv ==
  ASSUME IInv, Tick
  PROVE  IInv'
<1>1. OtherTypes /\ sent \in [Peers -> Path \cup {NoPath}]
  BY TypeFromParts, TypeParts DEF IInv
<1>2. OtherTypes'
  BY <1>1, ClockAssumption DEF OtherTypes, Tick, policyVars
<1> QED
  BY <1>1, <1>2, SendInv DEF Tick

LEMMA StepInv == IInv /\ [Next]_vars => IInv'
<1> SUFFICES ASSUME IInv, [Next]_vars PROVE IInv'
  OBVIOUS
<1>1. ASSUME NEW p \in Peers, PeerStep(p) PROVE IInv'
  <2>1. ASSUME NEW a \in Routes[p], RecvRoute(p, a) PROVE IInv'
    BY <2>1, RecvRouteInv
  <2>2. CASE RecvWithdraw(p)
    BY <2>2, RecvWithdrawInv
  <2>3. CASE RecvEor(p)
    BY <2>3, RecvEorInv
  <2>4. CASE RouteRefresh(p)
    BY <2>4, RouteRefreshInv
  <2>5. CASE Establish(p)
    BY <2>5, EstablishInv
  <2>6. CASE PeerDown(p)
    BY <2>6, PeerDownInv
  <2>7. CASE GracefulPeerDown(p)
    BY <2>7, GracefulPeerDownInv
  <2>8. CASE RestartEnds(p)
    BY <2>8, RestartEndsInv
  <2> QED
    BY <1>1, <2>1, <2>2, <2>3, <2>4, <2>5, <2>6, <2>7, <2>8 DEF PeerStep
<1>2. CASE ApiStep
  BY <1>2, AddPathInv, DeletePathInv, SoftResetInInv, SetPolicyInv DEF ApiStep
<1>3. CASE Tick
  BY <1>3, TickInv
<1>4. CASE UNCHANGED vars
  <2>1. OtherTypes /\ sent \in [Peers -> Path \cup {NoPath}]
    BY TypeFromParts, TypeParts DEF IInv
  <2>2. OtherTypes'
    BY <1>4, <2>1 DEF OtherTypes, vars, policyVars
  <2> QED
    BY <1>4, <2>1, <2>2, SendInv DEF vars
<1> QED
  BY <1>1, <1>2, <1>3, <1>4 DEF Next

LEMMA Invariant == Spec => []IInv
BY InitInv, StepInv, PTL DEF Spec

\* Every reachable state is type correct: the list that the best path is taken from holds
\* exactly the sources with a route, and only announced routes are stored or sent.
THEOREM RibTypeCorrect == Spec => []TypeOK
<1>1. IInv => TypeOK
  BY DEF IInv
<1> QED
  BY <1>1, Invariant, PTL

\* Through any announcements, session losses, graceful restarts, soft resets and policies
\* no route outlives its announcement in the Loc-RIB, but for one that was replaced by a
\* route that names this speaker.
THEOREM RibFollowsAdjIn == Spec => []RibFromAdjIn
<1>1. IInv => RibFromAdjIn
  BY DEF IInv
<1> QED
  BY <1>1, Invariant, PTL

\* A stale route always has a restart of its neighbor that will confirm or remove it.
THEOREM StaleIsAlwaysPending == Spec => []StaleIsPending
<1>1. IInv => StaleIsPending
  BY DEF IInv
<1> QED
  BY <1>1, Invariant, PTL

-----------------------------------------------------------------------------
\* What the neighbors hold.  The export filters keep it right as long as no route may be
\* withheld for where it has been: no route that is propagated leads through the AS of
\* another neighbor or carries our cluster, and internal neighbors are alike.
NoRouteThroughPeers ==
  \A p \in Peers : \A s \in Sources : \A a \in Routes[s] :
    s # p /\ ~a.mine => PeerAs[p] \notin a.ases
NoClusterLoop == \A s \in Sources : \A a \in Routes[s] : ~a.cluster
InternalsAlike == Clients = {} \/ \A p \in Peers : Internal(p) => p \in Clients

\* A path the Loc-RIB may offer.
IsOffer(path) ==
  path.src \in Sources /\ path.attr \in Routes[path.src] /\ ~path.attr.mine

LEMMA BestIsOffer ==
  ASSUME NEW r, NEW q, IsRib(r, q), \A s \in Sources : r[s] # NoRoute => ~r[s].attr.mine
  PROVE  BestOf(r, q) = NoPath \/ IsOffer(BestOf(r, q))
<1>1. CASE BestOf(r, q) # NoPath
  <2> DEFINE best == BestOf(r, q)
  <2>1. /\ best \in Path /\ best.attr \in Routes[best.src]
        /\ r[best.src] # NoRoute /\ r[best.src].attr = best.attr
    BY <1>1, BestType
  <2>2. best.src \in Sources
    BY <2>1 DEF Path
  <2> QED
    BY <2>1, <2>2 DEF IsOffer
<1> QED
  BY <1>1

\* A neighbor that held what it should before a change of the best path does so after it.
LEMMA AfterIsExport ==
  ASSUME NoRouteThroughPeers, NoClusterLoop, InternalsAlike,
         NEW p \in Peers, NEW new, NEW old,
         new = NoPath \/ IsOffer(new), old = NoPath \/ IsOffer(old),
         sent[p] = IF Exportable(p, old) THEN old ELSE NoPath
  PROVE  AfterChange(p, new, old) = IF Exportable(p, new) THEN new ELSE NoPath
<1>1. CASE new = old \/ Exportable(p, new)
  BY <1>1 DEF AfterChange
<1>2. CASE new # old /\ ~Exportable(p, new)
  <2>1. SUFFICES ASSUME Exportable(p, old) PROVE IsWithdrawn(p, new, old)
    BY <1>2 DEF AfterChange
  <2>2. old # NoPath /\ Reaches(p, old) /\ old.attr.tag \notin denyOut
    BY <2>1 DEF Exportable
  <2>3. CASE new = NoPath
    BY <2>2, <2>3 DEF IsWithdrawn
  <2>4. CASE new # NoPath
    <3>1. IsOffer(new) /\ IsOffer(old) /\ ~InClusterList(p, new)
      BY <2>2, <2>4 DEF NoClusterLoop, InClusterList, IsOffer
    <3>2. CASE FromSameAs(p, new)
      <4>1. Internal(p) /\ p \notin Clients /\ Clients = {}
        BY <3>2 DEF FromSameAs, InternalsAlike
      <4>2. ~Internal(old.src)
        BY <2>2, <4>1 DEF Reaches, FromSameAs
      <4>3. old.src = Local \/ PeerAs[old.src] # PeerAs[p]
        BY <3>1, <4>1, <4>2 DEF Internal, IsOffer, Sources
      <4> QED
        BY <2>2, <2>4, <3>1, <3>2, <4>3 DEF IsWithdrawn, WithdrawsOld, OldWasSent
    <3>3. CASE ~FromSameAs(p, new) /\ new.src = p
      BY <2>2, <2>4, <3>1, <3>3 DEF IsWithdrawn, WithdrawsOld, Reaches
    <3>4. CASE ~FromSameAs(p, new) /\ new.src # p
      <4>1. Reaches(p, new)
        BY <3>1, <3>4 DEF Reaches, IsAsLoop, NoRouteThroughPeers, IsOffer
      <4>2. new.attr.tag \in denyOut
        BY <1>2, <2>4, <4>1 DEF Exportable
      <4> QED
        BY <2>2, <2>4, <3>1, <4>1, <4>2 DEF IsWithdrawn, WithdrawsOld
    <3> QED
      BY <3>2, <3>3, <3>4
  <2> QED
    BY <2>3, <2>4
<1> QED
  BY <1>1, <1>2

\* What every step but those of the policies leaves alone for the neighbors that stay up.
KeepsUp(live) ==
  up' = live /\ live \subseteq up /\ up' \ dirty' \subseteq up \ dirty /\ denyOut' = denyOut

LEMMA ExportPrimed ==
  ASSUME denyOut' = denyOut, NEW p \in Peers
  PROVE  (Export(p))' =
           IF Exportable(p, BestOf(rib', known')) THEN BestOf(rib', known') ELSE NoPath
BY DEF Export, Best, BestOf, Exportable, Reaches, InClusterList, FromSameAs, IsAsLoop, Internal

LEMMA SendToView ==
  ASSUME NoRouteThroughPeers, NoClusterLoop, InternalsAlike,
         IInv, IInv', ViewIsExport, NEW live, SendTo(live), KeepsUp(live)
  PROVE  ViewIsExport'
<1> DEFINE new == BestOf(rib', known')
<1>1. new = NoPath \/ IsOffer(new)
  <2>1. IsRib(rib', known') /\ \A s \in Sources : rib'[s] # NoRoute => ~rib'[s].attr.mine
    BY DEF IInv, TypeOK, IsRib, IsListOf, NothingOwn
  <2> QED
    BY <2>1, BestIsOffer
<1>2. Best = NoPath \/ IsOffer(Best)
  BY TypeParts, BestIsOffer DEF IInv, NothingOwn, Best
<1> HIDE DEF new
<1>3. ASSUME NEW p \in up' \ dirty' PROVE sent'[p] = (Export(p))'
  <2>1. p \in Peers /\ p \in live /\ p \in up \ dirty
    BY <1>3 DEF KeepsUp, IInv, TypeOK
  <2>2. sent[p] = IF Exportable(p, Best) THEN Best ELSE NoPath
    BY <2>1 DEF ViewIsExport, Export
  <2>3. AfterChange(p, new, Best) = IF Exportable(p, new) THEN new ELSE NoPath
    BY <1>1, <1>2, <2>1, <2>2, AfterIsExport
  <2>4. sent'[p] = AfterChange(p, new, Best)
    BY <2>1 DEF SendTo, new
  <2>5. (Export(p))' = IF Exportable(p, new) THEN new ELSE NoPath
    BY <2>1, ExportPrimed DEF KeepsUp, new
  <2> QED
    BY <2>3, <2>4, <2>5
<1> QED
  BY <1>3 DEF ViewIsExport

\* Nothing changes that the exports depend on.
LEMMA SameView ==
  ASSUME IInv, ViewIsExport, NEW live, KeepsUp(live), UNCHANGED <<rib, known>>,
         \A p \in live : sent'[p] = sent[p]
  PROVE  ViewIsExport'
<1>1. ASSUME NEW p \in up' \ dirty' PROVE sent'[p] = (Export(p))'
  <2>1. p \in Peers /\ p \in live /\ p \in up \ dirty
    BY <1>1 DEF KeepsUp, IInv, TypeOK
  <2>2. (Export(p))' = IF Exportable(p, Best) THEN Best ELSE NoPath
    BY <2>1, ExportPrimed DEF KeepsUp, Best
  <2> QED
    BY <2>1, <2>2 DEF ViewIsExport, Export
<1> QED
  BY <1>1 DEF ViewIsExport

LEMMA NothingView ==
  ASSUME IInv, ViewIsExport, NEW live, PropagateNothing(live), KeepsUp(live)
  PROVE  ViewIsExport'
<1>1. \A p \in live : sent'[p] = sent[p]
  BY DEF PropagateNothing, KeepsUp, IInv, TypeOK
<1> QED
  BY <1>1, SameView DEF PropagateNothing

LEMMA DropView ==
  ASSUME NoRouteThroughPeers, NoClusterLoop, InternalsAlike,
         IInv, IInv', ViewIsExport, NEW p, NEW live, Drop(p, live), KeepsUp(live)
  PROVE  ViewIsExport'
BY SendToView, NothingView DEF Drop, DropFromRib, Propagate

LEMMA ViewStep ==
  ASSUME NoRouteThroughPeers, NoClusterLoop, InternalsAlike,
         IInv, IInv', ViewIsExport, [Next]_vars
  PROVE  ViewIsExport'
<1>1. ASSUME NEW p \in Peers, PeerStep(p) PROVE ViewIsExport'
  <2>1. ASSUME NEW a \in Routes[p], RecvRoute(p, a) PROVE ViewIsExport'
    <3>1. KeepsUp(up)
      BY <2>1 DEF RecvRoute, policyVars, KeepsUp
    <3> QED
      BY <2>1, <3>1, SendToView, NothingView DEF RecvRoute, Propagate
  <2>2. CASE RecvWithdraw(p)
    <3>1. KeepsUp(up)
      BY <2>2 DEF RecvWithdraw, policyVars, KeepsUp
    <3> QED
      BY <2>2, <3>1, SendToView DEF RecvWithdraw, Propagate
  <2>3. CASE RecvEor(p)
    <3>1. KeepsUp(up)
      BY <2>3 DEF RecvEor, policyVars, KeepsUp
    <3> QED
      BY <2>3, <3>1, DropView, NothingView DEF RecvEor
  <2>4. CASE RouteRefresh(p)
    <3>1. KeepsUp(up) /\ UNCHANGED <<rib, known>>
      BY <2>4 DEF RouteRefresh, policyVars, KeepsUp
    <3>2. ASSUME NEW q \in up \ dirty PROVE sent'[q] = sent[q]
      BY <2>4, <3>2 DEF RouteRefresh, ViewIsExport, Export, IInv, TypeOK
    <3>3. ASSUME NEW q \in up' \ dirty' PROVE sent'[q] = (Export(q))'
      <4>1. q \in Peers /\ q \in up \ dirty
        BY <3>1, <3>3 DEF KeepsUp, IInv, TypeOK
      <4>2. (Export(q))' = IF Exportable(q, Best) THEN Best ELSE NoPath
        BY <3>1, <4>1, ExportPrimed DEF KeepsUp, Best
      <4> QED
        BY <3>2, <4>1, <4>2 DEF ViewIsExport, Export
    <3> QED
      BY <3>3 DEF ViewIsExport
  <2>5. CASE Establish(p)
    <3>1. /\ up' = up \cup {p} /\ sent' = [sent EXCEPT ![p] = Export(p)]
          /\ UNCHANGED <<rib, known, denyOut, dirty>>
      BY <2>5 DEF Establish, policyVars
    <3>2. ASSUME NEW q \in up' \ dirty' PROVE sent'[q] = (Export(q))'
      <4>1. q \in Peers /\ q \in up \cup {p} /\ q \notin dirty
        BY <3>1, <3>2 DEF IInv, TypeOK
      <4>2. (Export(q))' = Export(q)
        BY <3>1, <4>1, ExportPrimed DEF Export, Best
      <4>3. sent'[q] = Export(q)
        BY <3>1, <4>1 DEF ViewIsExport, IInv, TypeOK
      <4> QED
        BY <4>2, <4>3
    <3> QED
      BY <3>2 DEF ViewIsExport
  <2>6. CASE PeerDown(p)
    <3>1. KeepsUp(up \ {p})
      BY <2>6 DEF PeerDown, SessionEnds, policyVars, KeepsUp
    <3> QED
      BY <2>6, <3>1, DropView DEF PeerDown
  <2>7. CASE GracefulPeerDown(p)
    <3>1. KeepsUp(up \ {p})
      BY <2>7 DEF GracefulPeerDown, SessionEnds, policyVars, KeepsUp
    <3> QED
      BY <2>7, <3>1, SendToView, NothingView DEF GracefulPeerDown, Propagate
  <2>8. CASE RestartEnds(p)
    <3>1. KeepsUp(up)
      BY <2>8 DEF RestartEnds, policyVars, KeepsUp
    <3> QED
      BY <2>8, <3>1, DropView DEF RestartEnds
  <2> QED
    BY <1>1, <2>1, <2>2, <2>3, <2>4, <2>5, <2>6, <2>7, <2>8 DEF PeerStep
<1>2. CASE ApiStep
  <2>1. ASSUME NEW a \in Routes[Local], AddPath(a) PROVE ViewIsExport'
    <3>1. KeepsUp(up)
      BY <2>1 DEF AddPath, policyVars, KeepsUp
    <3> QED
      BY <2>1, <3>1, SendToView DEF AddPath, Propagate
  <2>2. CASE DeletePath
    <3>1. KeepsUp(up)
      BY <2>2 DEF DeletePath, policyVars, KeepsUp
    <3> QED
      BY <2>2, <3>1, SendToView DEF DeletePath, Propagate
  <2>3. ASSUME NEW p \in Peers, SoftResetIn(p) PROVE ViewIsExport'
    <3>1. KeepsUp(up)
      BY <2>3 DEF SoftResetIn, policyVars, KeepsUp
    <3> QED
      BY <2>3, <3>1, SendToView DEF SoftResetIn, Propagate
  <2>4. ASSUME NEW in \in Policies, NEW out \in Policies, SetPolicy(in, out)
        PROVE  ViewIsExport'
    <3>1. CASE out = denyOut
      <4>1. KeepsUp(up) /\ \A q \in up : sent'[q] = sent[q]
        BY <2>4, <3>1 DEF SetPolicy, KeepsUp
      <4> QED
        BY <2>4, <4>1, SameView DEF SetPolicy
    <3>2. CASE out # denyOut
      BY <2>4, <3>2 DEF SetPolicy, ViewIsExport
    <3> QED
      BY <3>1, <3>2
  <2> QED
    BY <1>2, <2>1, <2>2, <2>3, <2>4 DEF ApiStep
<1>3. CASE Tick \/ UNCHANGED vars
  <2>1. KeepsUp(up) /\ UNCHANGED <<rib, known>> /\ \A q \in up : sent'[q] = sent[q]
    BY <1>3 DEF Tick, vars, policyVars, KeepsUp
  <2> QED
    BY <2>1, SameView
<1> QED
  BY <1>1, <1>2, <1>3 DEF Next

\* When no propagated route leads through another neighbor's AS or carries our cluster, and
\* internal neighbors are all clients or none is, then every established neighbor holds
\* exactly what the best path and the export policy give it, unless that policy changed.
THEOREM ViewsAreExports ==
  ASSUME NoRouteThroughPeers, NoClusterLoop, InternalsAlike
  PROVE  Spec => []ViewIsExport
<1>1. Init => ViewIsExport
  BY DEF Init, ViewIsExport
<1>2. IInv /\ IInv' /\ ViewIsExport /\ [Next]_vars => ViewIsExport'
  BY ViewStep
<1> QED
  BY <1>1, <1>2, Invariant, PTL DEF Spec

-----------------------------------------------------------------------------
(***************************************************************************)
(* Rib implements Routing, for any number of neighbors and any attributes,  *)
(* under the conditions of ViewsAreExports: every step keeps the chosen     *)
(* path unbeaten and what the settled neighbors hold due to them.           *)
(***************************************************************************)

\* What BetterPath compares are numbers.
LEMMA ComparedTypes ==
  ASSUME NEW r, NEW q, IsRib(r, q), NEW s \in Sources, r[s] # NoRoute
  PROVE  /\ r[s].attr.lp \in Nat /\ Cardinality(r[s].attr.ases) \in Nat /\ r[s].at \in Nat
         /\ s \in Peers => RouterId[s] \in Nat
<1>1. r[s] \in Route /\ r[s].attr \in Routes[s] \cup {NoAttr}
  BY DEF IsRib
<1>2. r[s].attr \in Routes[s]
  BY <1>1, RouteFacts
<1>3. r[s].attr.lp \in Nat /\ IsFiniteSet(r[s].attr.ases)
  BY <1>2, RoutesAssumption, PathsAssumption
<1>4. r[s].at \in Nat
  BY <1>1, ClockAssumption DEF Route
<1> QED
  BY <1>3, <1>4, FS_CardinalityType, AsAssumption

\* Of two routes at most one is better.
LEMMA BetterIsOneWay ==
  ASSUME NEW r, NEW q, IsRib(r, q), NEW s \in Sources, NEW t \in Sources,
         r[s] # NoRoute, r[t] # NoRoute, BetterPath(r, s, t)
  PROVE  ~BetterPath(r, t, s)
<1> DEFINE x == Cardinality(r[s].attr.ases)
           y == Cardinality(r[t].attr.ases)
<1>1. r[s].attr.lp \in Nat /\ r[t].attr.lp \in Nat /\ x \in Nat /\ y \in Nat
  BY ComparedTypes
<1>2. r[s].at \in Nat /\ r[t].at \in Nat
  BY ComparedTypes
<1>3. Internal(s) => RouterId[s] \in Nat
  BY ComparedTypes DEF Internal
<1>4. Internal(t) => RouterId[t] \in Nat
  BY ComparedTypes DEF Internal
<1>5. ~(External(s) /\ Internal(s)) /\ ~(External(t) /\ Internal(t))
  BY DEF External, Internal
<1>6. BetterPath(r, s, t) <=>
        \/ r[s].attr.lp > r[t].attr.lp
        \/ r[s].attr.lp = r[t].attr.lp /\ s = Local /\ t # Local
        \/ /\ r[s].attr.lp = r[t].attr.lp /\ s # Local /\ t # Local
           /\ \/ x - y < 0
              \/ x - y = 0 /\ External(s) /\ Internal(t)
              \/ x - y = 0 /\ External(s) /\ External(t) /\ r[s].at < r[t].at
              \/ x - y = 0 /\ Internal(s) /\ Internal(t) /\ RouterId[s] < RouterId[t]
  BY DEF BetterPath
<1>7. BetterPath(r, t, s) <=>
        \/ r[t].attr.lp > r[s].attr.lp
        \/ r[t].attr.lp = r[s].attr.lp /\ t = Local /\ s # Local
        \/ /\ r[t].attr.lp = r[s].attr.lp /\ t # Local /\ s # Local
           /\ \/ y - x < 0
              \/ y - x = 0 /\ External(t) /\ Internal(s)
              \/ y - x = 0 /\ External(t) /\ External(s) /\ r[t].at < r[s].at
              \/ y - x = 0 /\ Internal(t) /\ Internal(s) /\ RouterId[t] < RouterId[s]
  BY DEF BetterPath
<1> DEFINE lp == r[s].attr.lp
           mp == r[t].attr.lp
           since == r[s].at
           then == r[t].at
<1>8. lp \in Nat /\ mp \in Nat /\ since \in Nat /\ then \in Nat
  BY <1>1, <1>2
<1> HIDE DEF x, y, lp, mp, since, then
<1>9. CASE lp # mp
  BY <1>6, <1>7, <1>8, <1>9, BetterPath(r, s, t) DEF lp, mp
<1>10. CASE lp = mp /\ (s = Local \/ t = Local)
  BY <1>6, <1>7, <1>8, <1>10, BetterPath(r, s, t) DEF lp, mp
<1>11. CASE lp = mp /\ s # Local /\ t # Local
  <2>1. \/ x - y < 0
        \/ x - y = 0 /\ External(s) /\ Internal(t)
        \/ x - y = 0 /\ External(s) /\ External(t) /\ since < then
        \/ x - y = 0 /\ Internal(s) /\ Internal(t) /\ RouterId[s] < RouterId[t]
    BY <1>6, <1>8, <1>11, BetterPath(r, s, t) DEF lp, mp, since, then
  <2>2. BetterPath(r, t, s) =>
          \/ y - x < 0
          \/ y - x = 0 /\ External(t) /\ Internal(s)
          \/ y - x = 0 /\ External(t) /\ External(s) /\ then < since
          \/ y - x = 0 /\ Internal(t) /\ Internal(s) /\ RouterId[t] < RouterId[s]
    BY <1>7, <1>8, <1>11 DEF lp, mp, since, then
  <2> QED
    BY <1>1, <1>3, <1>4, <1>5, <1>8, <2>1, <2>2
<1> QED
  BY <1>9, <1>10, <1>11

\* The head of the sorted list is not beaten.
LEMMA CalculateChooses ==
  ASSUME NEW s, NEW route, Calculate(s, route), IsRib(rib', known')
  PROVE  Abstract!Chosen(rib', BestOf(rib', known'))
<1> DEFINE r == rib'
           q == known'
<1>1. q \in SortedLists(r, s)
  BY DEF Calculate
<1>2. IsRib(r, q)
  OBVIOUS
<1> HIDE DEF r, q
<1>3. CASE q = <<>>
  <2>1. \A t \in Sources : r[t] = NoRoute
    BY <1>2, <1>3 DEF IsRib, IsListOf
  <2> QED
    BY <1>3, <2>1 DEF BestOf, Abstract!Chosen, r, q
<1>4. CASE q # <<>>
  <2>1. 1 \in 1..Len(q) /\ q[1] \in Sources /\ r[q[1]] # NoRoute /\ DOMAIN q = 1..Len(q)
    BY <1>2, <1>4 DEF IsRib, IsListOf
  <2>2. ASSUME NEW t \in Sources, r[t] # NoRoute PROVE ~BetterPath(r, t, q[1])
    <3>1. PICK j \in 1..Len(q) : q[j] = t
      BY <1>2, <2>2 DEF IsRib, IsListOf
    <3>2. CASE j = 1
      <4>1. t = q[1]
        BY <3>1, <3>2
      <4> QED
        BY <1>2, <2>1, <2>2, <4>1, BetterIsOneWay
    <3>3. CASE j # 1
      <4>1. j \in DOMAIN q /\ 1 \in DOMAIN q /\ 1 < j
        BY <2>1, <3>1, <3>3
      <4>2. GoesAhead(r, s, q[1], q[j])
        BY <1>1, <4>1 DEF SortedLists
      <4>3. BetterPath(r, q[1], t) \/ ~BetterPath(r, t, q[1])
        BY <3>1, <4>2 DEF GoesAhead
      <4> QED
        BY <1>2, <2>1, <2>2, <4>3, BetterIsOneWay
    <3> QED
      BY <3>2, <3>3
  <2>3. BestOf(r, q) = PathOf(q[1], r[q[1]])
    BY <1>4 DEF BestOf, PathOf
  <2> QED
    BY <2>1, <2>2, <2>3 DEF Abstract!Chosen, r, q
<1> QED
  BY <1>3, <1>4

-----------------------------------------------------------------------------
Good == IInv /\ ViewIsExport

\* What is due to a neighbor is the export of the best path.
LEMMA DueIsExport ==
  ASSUME NEW p \in Peers
  PROVE  Abstract!Due(denyOut, p, Best) = Export(p)
BY DEF Abstract!Due, Allowed, Export, Exportable

\* A change of the Loc-RIB is an offer.
LEMMA PropagateOffers ==
  ASSUME Good, Good', NEW s \in Sources, NEW route, NEW live, Propagate(s, route, live),
         KeepsUp(live)
  PROVE  Abstract!Offer
<1>1. rib' = [rib EXCEPT ![s] = route]
  BY DEF Propagate, Calculate
<1>2. \E x \in Sources : \A t \in Sources \ {x} : rib'[t] = rib[t]
  <2>1. rib \in [Sources -> Route \cup {NoRoute}]
    BY DEF Good, IInv, TypeOK
  <2> QED
    BY <1>1, <2>1
<1>3. IsRib(rib', known') /\ Best' = BestOf(rib', known')
  BY DEF Good, IInv, TypeOK, IsRib, IsListOf, Best, BestOf
<1>4. Abstract!Chosen(rib', Best')
  BY <1>3, CalculateChooses DEF Propagate
<1>5. up' \ dirty' \subseteq up \ dirty /\ denyOut' = denyOut
  BY DEF KeepsUp
<1>6. ASSUME NEW p \in up' \ dirty' PROVE sent'[p] = Abstract!Due(denyOut, p, Best')
  <2>1. p \in Peers
    BY <1>6 DEF Good, IInv, TypeOK
  <2>2. sent'[p] = (Export(p))'
    BY <1>6 DEF Good, ViewIsExport
  <2>3. (Export(p))' = IF Exportable(p, Best') THEN Best' ELSE NoPath
    BY <1>3, <1>5, <2>1, ExportPrimed
  <2> QED
    BY <2>2, <2>3 DEF Abstract!Due, Allowed, Exportable
<1> QED
  BY <1>2, <1>4, <1>5, <1>6 DEF Abstract!Offer

\* A step that leaves the Loc-RIB and what the neighbors that stay hold alone.
LEMMA QuietLeaves ==
  ASSUME Good, NEW live, KeepsUp(live), UNCHANGED <<rib, known>>,
         \A p \in live \ dirty : sent'[p] = sent[p]
  PROVE  Abstract!Leave
<1>1. Best' = Best
  BY DEF Best, BestOf
<1>2. \A p \in up' \ dirty' : sent'[p] = sent[p]
  BY DEF KeepsUp
<1> QED
  BY <1>1, <1>2 DEF Abstract!Leave, KeepsUp

LEMMA NothingLeaves ==
  ASSUME Good, NEW live, PropagateNothing(live), KeepsUp(live)
  PROVE  Abstract!Leave
<1>1. \A p \in live : sent'[p] = sent[p]
  BY DEF PropagateNothing, KeepsUp, Good, IInv, TypeOK
<1> QED
  BY <1>1, QuietLeaves DEF PropagateNothing

LEMMA DropMaps ==
  ASSUME Good, Good', NEW p \in Peers, NEW live, Drop(p, live), KeepsUp(live)
  PROVE  Abstract!Next
<1>1. p \in Sources
  BY DEF Sources
<1> QED
  BY <1>1, PropagateOffers, NothingLeaves DEF Drop, DropFromRib, Abstract!Next

LEMMA StepMaps ==
  ASSUME Good, Good', [Next]_vars
  PROVE  [Abstract!Next]_(Abstract!vars)
<1>1. ASSUME NEW p \in Peers, PeerStep(p) PROVE Abstract!Next
  <2>0. p \in Sources
    BY DEF Sources
  <2>1. ASSUME NEW a \in Routes[p], RecvRoute(p, a) PROVE Abstract!Next
    <3>1. KeepsUp(up)
      BY <2>1 DEF RecvRoute, policyVars, KeepsUp
    <3> QED
      BY <2>0, <2>1, <3>1, PropagateOffers, NothingLeaves DEF RecvRoute, Abstract!Next
  <2>2. CASE RecvWithdraw(p)
    <3>1. KeepsUp(up)
      BY <2>2 DEF RecvWithdraw, policyVars, KeepsUp
    <3> QED
      BY <2>0, <2>2, <3>1, PropagateOffers DEF RecvWithdraw, Abstract!Next
  <2>3. CASE RecvEor(p)
    <3>1. KeepsUp(up)
      BY <2>3 DEF RecvEor, policyVars, KeepsUp
    <3> QED
      BY <2>3, <3>1, DropMaps, NothingLeaves DEF RecvEor, Abstract!Next
  <2>4. CASE RouteRefresh(p)
    <3>1. KeepsUp(up) /\ UNCHANGED <<rib, known>>
      BY <2>4 DEF RouteRefresh, policyVars, KeepsUp
    <3>2. \A q \in up \ dirty : sent'[q] = sent[q]
      BY <2>4 DEF RouteRefresh, ViewIsExport, Export, Good, IInv, TypeOK
    <3> QED
      BY <3>1, <3>2, QuietLeaves DEF Abstract!Next
  <2>5. CASE Establish(p)
    <3>1. /\ up' = up \cup {p} /\ sent' = [sent EXCEPT ![p] = Export(p)] /\ p \notin up
          /\ UNCHANGED <<rib, known, denyOut, dirty>>
      BY <2>5 DEF Establish, policyVars
    <3>2. up' \ dirty' = (up \ dirty) \cup {p}
      BY <3>1 DEF Good, IInv, TypeOK
    <3>3. sent'[p] = Abstract!Due(denyOut, p, Best)
      BY <3>1, DueIsExport DEF Good, IInv, TypeOK
    <3>4. \A q \in (up \ dirty) \ {p} : sent'[q] = sent[q]
      BY <3>1 DEF Good, IInv, TypeOK
    <3>5. Best' = Best
      BY <3>1 DEF Best, BestOf
    <3> QED
      BY <3>1, <3>2, <3>3, <3>4, <3>5 DEF Abstract!Settle, Abstract!Next
  <2>6. CASE PeerDown(p)
    <3>1. KeepsUp(up \ {p})
      BY <2>6 DEF PeerDown, SessionEnds, policyVars, KeepsUp
    <3> QED
      BY <2>6, <3>1, DropMaps DEF PeerDown
  <2>7. CASE GracefulPeerDown(p)
    <3>1. KeepsUp(up \ {p})
      BY <2>7 DEF GracefulPeerDown, SessionEnds, policyVars, KeepsUp
    <3> QED
      BY <2>0, <2>7, <3>1, PropagateOffers, NothingLeaves DEF GracefulPeerDown, Abstract!Next
  <2>8. CASE RestartEnds(p)
    <3>1. KeepsUp(up)
      BY <2>8 DEF RestartEnds, policyVars, KeepsUp
    <3> QED
      BY <2>8, <3>1, DropMaps DEF RestartEnds
  <2> QED
    BY <1>1, <2>1, <2>2, <2>3, <2>4, <2>5, <2>6, <2>7, <2>8 DEF PeerStep
<1>2. ASSUME ApiStep PROVE Abstract!Next
  <2>0. Local \in Sources /\ Peers \subseteq Sources
    BY DEF Sources
  <2>1. ASSUME NEW a \in Routes[Local], AddPath(a) PROVE Abstract!Next
    <3>1. KeepsUp(up)
      BY <2>1 DEF AddPath, policyVars, KeepsUp
    <3> QED
      BY <2>0, <2>1, <3>1, PropagateOffers DEF AddPath, Abstract!Next
  <2>2. CASE DeletePath
    <3>1. KeepsUp(up)
      BY <2>2 DEF DeletePath, policyVars, KeepsUp
    <3> QED
      BY <2>0, <2>2, <3>1, PropagateOffers DEF DeletePath, Abstract!Next
  <2>3. ASSUME NEW p \in Peers, SoftResetIn(p) PROVE Abstract!Next
    <3>1. KeepsUp(up)
      BY <2>3 DEF SoftResetIn, policyVars, KeepsUp
    <3> QED
      BY <2>0, <2>3, <3>1, PropagateOffers DEF SoftResetIn, Abstract!Next
  <2>4. ASSUME NEW in \in Policies, NEW out \in Policies, SetPolicy(in, out)
        PROVE  Abstract!Next
    <3>1. CASE out = denyOut
      <4>1. KeepsUp(up) /\ \A q \in up : sent'[q] = sent[q]
        BY <2>4, <3>1 DEF SetPolicy, KeepsUp
      <4> QED
        BY <2>4, <4>1, QuietLeaves DEF SetPolicy, Abstract!Next
    <3>2. CASE out # denyOut
      <4>1. up' \ dirty' = {} /\ UNCHANGED <<rib, known, sent>>
        BY <2>4, <3>2 DEF SetPolicy
      <4>2. Best' = Best
        BY <4>1 DEF Best, BestOf
      <4> QED
        BY <4>1, <4>2 DEF Abstract!SetFilter, Abstract!Next
    <3> QED
      BY <3>1, <3>2
  <2> QED
    BY <1>2, <2>1, <2>2, <2>3, <2>4 DEF ApiStep
<1>3. CASE Tick \/ UNCHANGED vars
  <2>1. UNCHANGED <<up, dirty, rib, known, sent, denyOut>>
    BY <1>3 DEF Tick, vars, policyVars
  <2>2. Best' = Best
    BY <2>1 DEF Best, BestOf
  <2> QED
    BY <2>1, <2>2 DEF Abstract!vars
<1> QED
  BY <1>1, <1>2, <1>3 DEF Next

\* Whatever the neighbors, the operator and the clock do, in the order the server takes it: every
\* step of it is a step of the speaker that Routing promises, or none.
THEOREM RibImplementsRouting ==
  ASSUME NoRouteThroughPeers, NoClusterLoop, InternalsAlike
  PROVE  Spec => ImplementsRouting
<1>1. Init => Abstract!Init
  BY DEF Init, Abstract!Init, Best, BestOf
<1>2. Good /\ Good' /\ [Next]_vars => [Abstract!Next]_(Abstract!vars)
  BY StepMaps
<1>3. Spec => []Good
  BY Invariant, ViewsAreExports, PTL DEF Good
<1> QED
  BY <1>1, <1>2, <1>3, PTL DEF Spec, ImplementsRouting, Abstract!Spec
=============================================================================
