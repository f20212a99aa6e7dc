--------------------------------- MODULE Rib ---------------------------------
(***************************************************************************)
(* How the routes to one prefix go through the BGP server: from the peers' *)
(* UPDATEs into their Adj-RIB-In (internal/pkg/table/adj.go), through the  *)
(* import policy into the Loc-RIB and its best path (destination.go), and  *)
(* through the export filters to every established neighbor (server.go).   *)
(*                                                                         *)
(* All of it runs on the server goroutine, one event after the other; what *)
(* a neighbor has been sent is the last message put into its outgoingCh.   *)
(***************************************************************************)
EXTENDS Integers, Sequences, FiniteSets

CONSTANTS
  Peers,       \* the configured neighbors
  Local,       \* the source of the routes that are added by the API
  PeerAs,      \* the AS of each neighbor
  LocalAs,
  RouterId,    \* the BGP identifier of each neighbor
  Clients,     \* the neighbors that are route reflector clients
  Graceful,    \* the neighbors that negotiate graceful restart
  Routes,      \* the attributes each source may announce the prefix with
  Tags,        \* what a policy can tell routes apart by
  Policies,    \* the policies that can be set: the tags they reject
  MaxClock     \* bound: seconds that are told apart

Sources == Peers \cup {Local}

\* The attributes: LOCAL_PREF; the ASes of AS_PATH, each of them once; whether AS_PATH or
\* ORIGINATOR_ID name this speaker; whether CLUSTER_LIST holds its cluster; and a tag that
\* stands for all that policies look at.
NoAttr  == [lp |-> 0, ases |-> {}, mine |-> FALSE, cluster |-> FALSE, tag |-> "none"]
NoRoute == [attr |-> NoAttr, at |-> 0]
NoPath  == [src |-> "none", attr |-> NoAttr]

ASSUME SourcesAssumption == Local \notin Peers /\ "none" \notin Sources /\ "none" \notin Tags
ASSUME PeersAssumption == IsFiniteSet(Peers)
ASSUME AsAssumption ==
  /\ LocalAs \in Nat /\ PeerAs \in [Peers -> Nat] /\ RouterId \in [Peers -> Nat]
  /\ Clients \subseteq {p \in Peers : PeerAs[p] = LocalAs} /\ Graceful \subseteq Peers
ASSUME RoutesAssumption ==
  /\ DOMAIN Routes = Sources
  /\ \A s \in Sources : Routes[s] \subseteq
       [lp : Nat, ases : SUBSET Nat, mine : BOOLEAN, cluster : BOOLEAN, tag : Tags]
  /\ \A a \in Routes[Local] : ~a.mine
ASSUME PathsAssumption == \A s \in Sources : \A a \in Routes[s] : IsFiniteSet(a.ases)
ASSUME PoliciesAssumption == Policies \subseteq SUBSET Tags
ASSUME ClockAssumption == MaxClock \in Nat

VARIABLES
  up,          \* the neighbors whose session is ESTABLISHED
  restarting,  \* the neighbors with GracefulRestart.State.PeerRestarting
  stale,       \* the neighbors whose route in adjRibIn is marked stale
  adjIn,       \* adjRibIn: the route of each neighbor
  rib,         \* the Loc-RIB: the route of each source
  known,       \* knownPathList: the sources of these routes, the best one first
  sent,        \* what each neighbor has been sent and not withdrawn
  denyIn,      \* the import policy: the tags it rejects
  denyOut,     \* the export policy
  dirty,       \* history: the export policy changed while the neighbor was up
  now          \* the clock, in seconds

policyVars == <<denyIn, denyOut>>
vars == <<up, restarting, stale, adjIn, rib, known, sent, policyVars, dirty, now>>

Attrs == UNION {Routes[s] : s \in Sources}
Route == [attr : Attrs, at : 0..MaxClock]
Path  == [src : Sources, attr : Attrs]

TypeOK ==
  /\ up \subseteq Peers /\ restarting \subseteq Peers /\ stale \subseteq Peers /\ dirty \subseteq up
  /\ adjIn \in [Peers -> Route \cup {NoRoute}] /\ rib \in [Sources -> Route \cup {NoRoute}]
  /\ \A p \in Peers : adjIn[p].attr \in Routes[p] \cup {NoAttr}
  /\ \A s \in Sources : rib[s].attr \in Routes[s] \cup {NoAttr}
  /\ known \in Seq(Sources)
  /\ {known[i] : i \in 1..Len(known)} = {s \in Sources : rib[s] # NoRoute}
  /\ sent \in [Peers -> Path \cup {NoPath}]
  /\ denyIn \subseteq Tags /\ denyOut \subseteq Tags
  /\ now \in 0..MaxClock

-----------------------------------------------------------------------------
\* The Loc-RIB: Destination.Calculate

Internal(s) == s \in Peers /\ PeerAs[s] = LocalAs
External(s) == s \in Peers /\ PeerAs[s] # LocalAs

\* The steps of sort: the route of s in r beats the route of t.  ORIGIN and MED are taken as
\* equal, next hops as reachable.
BetterPath(r, s, t) ==
  LET x == r[s].attr
      y == r[t].attr
      length == Cardinality(x.ases) - Cardinality(y.ases)
  IN \/ x.lp > y.lp
     \/ x.lp = y.lp /\ s = Local /\ t # Local
     \/ /\ x.lp = y.lp /\ s # Local /\ t # Local
        /\ \/ length < 0
           \/ length = 0 /\ External(s) /\ Internal(t)
           \/ length = 0 /\ External(s) /\ External(t) /\ r[s].at < r[t].at
           \/ length = 0 /\ Internal(s) /\ Internal(t) /\ RouterId[s] < RouterId[t]

\* Where sort puts two routes of the list: the comparison answers TRUE for equal routes in
\* both directions, so the one that came later in the list goes ahead.  The list before the
\* sort is known without s, followed by s.
LaterInList(s, t, u) ==
  t # u /\ u # s /\ (t = s \/ \E i, j \in 1..Len(known) : i > j /\ known[i] = t /\ known[j] = u)
GoesAhead(r, s, t, u) ==
  BetterPath(r, t, u) \/ (~BetterPath(r, u, t) /\ LaterInList(s, t, u))

Held(r) == {s \in Sources : r[s] # NoRoute}
SortedLists(r, s) ==
  {q \in [1..Cardinality(Held(r)) -> Held(r)] :
     /\ {q[i] : i \in DOMAIN q} = Held(r)
     /\ \A i, j \in DOMAIN q : i < j => GoesAhead(r, s, q[i], q[j])}

\* mutant: the list is sorted before the change
SortThenChange(s, route) ==
  rib' = [rib EXCEPT ![s] = route] /\ known' \in SortedLists(rib, s)
Calculate(s, route) ==
  rib' = [rib EXCEPT ![s] = route] /\ known' \in SortedLists(rib', s)

\* GetBestPath
BestOf(r, q) == IF q = <<>> THEN NoPath ELSE [src |-> q[1], attr |-> r[q[1]].attr]
Best == BestOf(rib, known)

-----------------------------------------------------------------------------
\* What is sent to neighbor p: filterpath and BgpServer.filterpath

\* From an iBGP peer to another one, neither of them a client of the route reflector.
FromSameAs(p, path) ==
  Internal(p) /\ p \notin Clients /\ Internal(path.src) /\ path.src \notin Clients
InClusterList(p, path) == p \in Clients /\ path.src # Local /\ path.attr.cluster
IsAsLoop(p, path) == PeerAs[p] \in path.attr.ases

Reaches(p, path) ==
  ~InClusterList(p, path) /\ ~FromSameAs(p, path) /\ path.src # p /\ ~IsAsLoop(p, path)

\* The new best path may not be advertised to p: the old one is withdrawn where the code
\* takes it to have been sent.
LocalWasSent(p, new, old) ==                       \* mutant: eBGP routes are forgotten
  FromSameAs(p, new) /\ old.src = Local
OldWasSent(p, new, old) ==
  FromSameAs(p, new) /\ (old.src = Local \/ PeerAs[old.src] # PeerAs[p])
WithdrawsOld(p, new, old) ==
  /\ old # NoPath /\ ~InClusterList(p, new)
  /\ \/ OldWasSent(p, new, old)
     \/ ~FromSameAs(p, new) /\ new.src = p /\ old.src # p /\ ~IsAsLoop(p, old)
     \/ Reaches(p, new) /\ new.attr.tag \in denyOut /\ old.attr.tag \notin denyOut

Exportable(p, path) == path # NoPath /\ Reaches(p, path) /\ path.attr.tag \notin denyOut

\* GetChanges and processOutgoingPaths: what p holds after the best path changed.
IsWithdrawn(p, new, old) == IF new = NoPath THEN Reaches(p, old) ELSE WithdrawsOld(p, new, old)
AfterChange(p, new, old) ==
  IF new # old /\ Exportable(p, new) THEN new
  ELSE IF new # old /\ IsWithdrawn(p, new, old) THEN NoPath
  ELSE sent[p]

\* getBestFromLocal: what p is sent of the best path alone.
Export(p) == IF Exportable(p, Best) THEN Best ELSE NoPath

SendTo(live) ==
  sent' = [p \in Peers |->
             IF p \in live THEN AfterChange(p, BestOf(rib', known'), Best) ELSE NoPath]

\* propagateUpdate, while the sessions in live are established; an empty path list is nothing.
Propagate(s, route, live) == Calculate(s, route) /\ SendTo(live)
PropagateNothing(live) ==
  /\ sent' = [p \in Peers |-> IF p \in live THEN sent[p] ELSE NoPath]
  /\ UNCHANGED <<rib, known>>

\* The import policy: a route it rejects is withdrawn.
ImportPolicy(route) == IF route.attr.tag \in denyIn THEN NoRoute ELSE route

-----------------------------------------------------------------------------
\* Messages of neighbor p

\* The age of a route is compared between external peers only.
Age(p) == IF External(p) THEN now ELSE 0
NewRoute(p, a) == [attr |-> a, at |-> IF adjIn[p].attr = a THEN adjIn[p].at ELSE Age(p)]

Accepted(route) == route # NoRoute /\ ~route.attr.mine

\* handleUpdate: a route that names this speaker is kept as rejected and not propagated.
RecvRoute(p, a) ==
  /\ p \in up
  /\ adjIn' = [adjIn EXCEPT ![p] = NewRoute(p, a)]
  /\ stale' = stale \ {p}
  /\ \/ a.mine /\ PropagateNothing(up)
     \/ ~a.mine /\ Propagate(p, ImportPolicy(NewRoute(p, a)), up)
  /\ UNCHANGED <<up, restarting, policyVars, dirty, now>>

RecvWithdraw(p) ==
  /\ p \in up
  /\ adjIn' = [adjIn EXCEPT ![p] = NoRoute] /\ stale' = stale \ {p}
  /\ Propagate(p, NoRoute, up)
  /\ UNCHANGED <<up, restarting, policyVars, dirty, now>>

\* Drop, DropAll and DropStale: the routes of p go, rejected ones included.
DropQuietly(p, live) == PropagateNothing(live)     \* mutant: nothing is withdrawn
DropFromRib(p, live) ==
  IF adjIn[p] = NoRoute THEN PropagateNothing(live) ELSE Propagate(p, NoRoute, live)
Drop(p, live) ==
  /\ adjIn' = [adjIn EXCEPT ![p] = NoRoute] /\ stale' = stale \ {p}
  /\ DropFromRib(p, live)

\* The last End-of-RIB that was awaited ends the restart: stale routes go.
RecvEor(p) ==
  /\ p \in up /\ p \in restarting
  /\ restarting' = restarting \ {p}
  /\ \/ p \in stale /\ Drop(p, up)
     \/ p \notin stale /\ PropagateNothing(up) /\ UNCHANGED <<adjIn, stale>>
  /\ UNCHANGED <<up, policyVars, dirty, now>>

RouteRefresh(p) ==
  /\ p \in up
  /\ sent' = [sent EXCEPT ![p] = IF Exportable(p, Best) THEN Best ELSE @]
  /\ UNCHANGED <<up, restarting, stale, adjIn, rib, known, policyVars, dirty, now>>

-----------------------------------------------------------------------------
\* Sessions: handleFSMMessage

Establish(p) ==
  /\ p \notin up /\ up' = up \cup {p}
  /\ sent' = [sent EXCEPT ![p] = Export(p)]
  /\ UNCHANGED <<restarting, stale, adjIn, rib, known, policyVars, dirty, now>>

SessionEnds(p) == p \in up /\ up' = up \ {p} /\ dirty' = dirty \ {p}

\* Without graceful restart, or without the family in it, the routes are dropped.
PeerDown(p) ==
  /\ SessionEnds(p)
  /\ Drop(p, up \ {p})
  /\ \/ UNCHANGED restarting
     \/ p \in Graceful /\ restarting' = restarting \cup {p}
  /\ UNCHANGED <<policyVars, now>>

NotRestarting(p) == UNCHANGED restarting           \* mutant: PeerRestarting is not set
PeerRestarts(p) == restarting' = restarting \cup {p}
StaleKept(p) == stale' = IF adjIn[p] = NoRoute THEN stale ELSE stale \cup {p}
GracefulPeerDown(p) ==
  /\ SessionEnds(p) /\ p \in Graceful
  /\ PeerRestarts(p) /\ StaleKept(p)
  /\ \/ Accepted(adjIn[p]) /\ Propagate(p, ImportPolicy(adjIn[p]), up \ {p})
     \/ ~Accepted(adjIn[p]) /\ PropagateNothing(up \ {p})
  /\ UNCHANGED <<adjIn, policyVars, now>>

\* The restart timer expired, or a handshake failed: the change to IDLE ends the restart.
RestartEnds(p) ==
  /\ p \notin up /\ p \in restarting
  /\ restarting' = restarting \ {p}
  /\ Drop(p, up)
  /\ UNCHANGED <<up, policyVars, dirty, now>>

-----------------------------------------------------------------------------
\* The API

AddPath(a) ==
  /\ Propagate(Local, ImportPolicy([attr |-> a, at |-> 0]), up)
  /\ UNCHANGED <<up, restarting, stale, adjIn, policyVars, dirty, now>>

DeletePath ==
  /\ Propagate(Local, NoRoute, up)
  /\ UNCHANGED <<up, restarting, stale, adjIn, policyVars, dirty, now>>

SoftResetIn(p) ==
  /\ Accepted(adjIn[p]) /\ Propagate(p, ImportPolicy(adjIn[p]), up)
  /\ UNCHANGED <<up, restarting, stale, adjIn, policyVars, dirty, now>>

SetPolicy(in, out) ==
  /\ denyIn' = in /\ denyOut' = out
  /\ dirty' = IF out = denyOut THEN dirty ELSE up
  /\ UNCHANGED <<up, restarting, stale, adjIn, rib, known, sent, now>>

Tick ==
  /\ now < MaxClock /\ now' = now + 1
  /\ UNCHANGED <<up, restarting, stale, adjIn, rib, known, sent, policyVars, dirty>>

Init ==
  /\ up = {} /\ restarting = {} /\ stale = {} /\ dirty = {}
  /\ adjIn = [p \in Peers |-> NoRoute] /\ rib = [s \in Sources |-> NoRoute]
  /\ known = <<>> /\ sent = [p \in Peers |-> NoPath]
  /\ denyIn = {} /\ denyOut = {} /\ now = 0

PeerStep(p) ==
  \/ \E a \in Routes[p] : RecvRoute(p, a)
  \/ RecvWithdraw(p) \/ RecvEor(p) \/ RouteRefresh(p)
  \/ Establish(p) \/ PeerDown(p) \/ GracefulPeerDown(p) \/ RestartEnds(p)

ApiStep ==
  \/ \E a \in Routes[Local] : AddPath(a)
  \/ DeletePath
  \/ \E p \in Peers : SoftResetIn(p)
  \/ \E in, out \in Policies : SetPolicy(in, out)

Next == (\E p \in Peers : PeerStep(p)) \/ ApiStep \/ Tick

Spec == Init /\ [][Next]_vars

-----------------------------------------------------------------------------
\* Properties

\* Every established neighbor holds exactly what the present best path gives it: nothing
\* that was replaced or withdrawn, and nothing it should have been sent is missing.
ViewIsExport == \A p \in up \ dirty : sent[p] = Export(p)

\* The Loc-RIB holds no route that its neighbor has withdrawn or replaced, or lost with its
\* session; except that a route naming this speaker does not replace the one before it.
RibFromAdjIn ==
  \A p \in Peers : rib[p] # NoRoute => adjIn[p] = rib[p] \/ adjIn[p].attr.mine

\* A stale route is there to be confirmed, and its restart has not ended.
StaleIsPending == \A p \in stale : p \in restarting /\ adjIn[p] # NoRoute

\* RFC 5004, to which compareByRouterID refers: the best path is not given up for a path
\* that is no better, as long as its own source announces it unchanged.
BestIsStable ==
  [][known # <<>> /\ rib'[known[1]] = rib[known[1]] /\ known'[1] # known[1]
       => BetterPath(rib', known'[1], known[1])]_vars

\* The speaker that Routing promises: the Loc-RIB is what is on offer, and the neighbors that
\* have been up since the export policy changed are settled.
PathOf(s, route) == [src |-> s, attr |-> route.attr]
Allowed(deny, p, path) == Reaches(p, path) /\ path.attr.tag \notin deny

Abstract == INSTANCE Routing WITH
  Neighbors <- Peers, Path <- PathOf, Beats <- BetterPath, Allowed <- Allowed,
  offered <- rib, best <- Best, filter <- denyOut, settled <- up \ dirty, holds <- sent

\* Everything the server does with a prefix is a step of such a speaker, or nothing to it.
ImplementsRouting == Abstract!Spec
=============================================================================
