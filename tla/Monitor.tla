------------------------------ MODULE Monitor ------------------------------
(***************************************************************************)
(* Who listens to the server. A watcher (server.go) gets a snapshot of what *)
(* it asks for and then every event, in order, over a channel without a     *)
(* bound. Two of them are modelled: the dataplane, which installs the best  *)
(* paths in the kernel (netlink/dataplane.go), and a BMP client, which      *)
(* tells a collector of peers and routes over a connection it may lose      *)
(* (bmp.go). Neighbors are internal ones, the policy is RejectedPrefs, and  *)
(* sessions end without graceful restart.                                   *)
(***************************************************************************)
EXTENDS Integers, Sequences, FiniteSets, SequencesExt

CONSTANTS
  NPeers,         \* neighbors are numbered in the order of their router ids
  V4, Other,      \* IPv4 prefixes, and NLRIs of another family
  Prefs,          \* local preferences a path may have
  RejectedPrefs,  \* those the import policy rejects
  MaxServerChanges, MaxCuts  \* bounds: changes of sessions and routes, lost connections of the client

ASSUME PrefsAssumption ==
  NPeers \in Nat /\ Prefs \subseteq Nat \ {0} /\ V4 \cap Other = {} /\ IsFiniteSet(V4 \cup Other)

Peers == 1 .. NPeers
Local == 0                 \* the source of the agent's own paths: it has no address
Sources == Peers \cup {Local}
Nlris == V4 \cup Other
None == -1

VARIABLES
  up,          \* neighbors whose session is established
  adj,         \* preference of what each source announces, 0 if it does not (Adj-RIB-In)
  multipath,   \* use-multiple-paths
  watching,    \* monitorBest has its watcher
  kernelQ,     \* events of that watcher: lists of paths
  modRibCh,    \* lists of paths for modRib
  kernel,      \* the neighbors a prefix is routed to
  missed,      \* prefixes of a snapshot that was not installed, as long as they do not change
  conn,        \* the BMP connection: "down", "up", or "lost" and the client has not noticed
  bmpQ,        \* events of the client's watcher
  ribout,      \* what the client has sent of the paths that passed the policy
  collector,   \* what the collector knows
  serverChanges, cuts

serverVars == <<up, adj, multipath>>
dataplane == <<watching, kernelQ, modRibCh, kernel, missed>>
bmp == <<conn, bmpQ, ribout, collector>>
monitorVars == <<serverVars, dataplane, bmp, serverChanges, cuts>>

-----------------------------------------------------------------------------
(* The table. A path is [n, src, v]; v = 0 is a withdrawal. *)

Path(n, s, v) == [n |-> n, src |-> s, v |-> v]

Accepted(a, s, n) == IF s # Local /\ a[s][n] \in RejectedPrefs THEN 0 ELSE a[s][n]
Known(a, n) == {s \in Sources : Accepted(a, s, n) > 0}

BestOf(a, n) ==
  IF Known(a, n) = {} THEN None
  ELSE CHOOSE s \in Known(a, n) : \A t \in Known(a, n) :
         a[s][n] > a[t][n] \/ (a[s][n] = a[t][n] /\ s <= t)

\* getMultiBestPath: the best path and those no comparison prefers it to; an own path ties with none.
MultiOf(a, n) ==
  LET b == BestOf(a, n)
  IN {s \in Known(a, n) : s = b \/ (b # Local /\ s # Local /\ a[s][n] = a[b][n])}

\* The best path without a look at its attributes.
BestOfSource(a, b, n) ==
  LET old == BestOf(a, n)  new == BestOf(b, n)
  IN CASE new = old -> <<>>
       [] new = None /\ old # None -> <<Path(n, old, 0)>>
       [] OTHER -> <<Path(n, new, b[new][n])>>

\* GetChanges: the new best path of n, if it is another than before, or the old one withdrawn, ...
BestChange(a, b, n) ==
  LET old == BestOf(a, n)  new == BestOf(b, n)
  IN CASE new = old /\ (new = None \/ a[old][n] = b[new][n]) -> <<>>
       [] new = None /\ old # None -> <<Path(n, old, 0)>>
       [] OTHER -> <<Path(n, new, b[new][n])>>

\* ... and the new equal paths, if any of them changed.
Multi(a, n) == {Path(n, s, a[s][n]) : s \in MultiOf(a, n)}
MultiChange(a, b, n) ==
  CASE ~multipath \/ Multi(a, n) = Multi(b, n) -> <<>>
    [] multipath /\ Multi(a, n) # Multi(b, n) /\ Multi(b, n) = {} -> BestChange(a, b, n)
    [] OTHER -> SetToSeq(Multi(b, n))

-----------------------------------------------------------------------------
(* Events *)

PeerUp(p)          == [type |-> "up", peer |-> p]
PeerDown(p)        == [type |-> "down", peer |-> p]
PreUpdate(p, n, v) == [type |-> "pre", path |-> Path(n, p, v)]
PostUpdate(p, n, v, init) == [type |-> "post", path |-> Path(n, p, v), init |-> init]
BestPath(l)        == [type |-> "best", list |-> l]

\* What monitorBest takes from an event: the equal paths if there are any. (An event without paths
\* has no effect on either watcher and is left out.)
BestLists(a, b, n) ==
  LET l == IF MultiChange(a, b, n) # <<>> THEN MultiChange(a, b, n) ELSE BestChange(a, b, n)
  IN IF l = <<>> THEN <<>> ELSE <<l>>
BestEvents(a, b, n) ==
  IF BestChange(a, b, n) = <<>> THEN <<>> ELSE <<BestPath(BestChange(a, b, n))>>

\* notifyWatcher, for each of the two that is there
Notify(lists, events) ==
  /\ kernelQ' = IF watching THEN kernelQ \o lists ELSE kernelQ
  /\ bmpQ' = IF conn # "down" THEN bmpQ \o events ELSE bmpQ
  /\ UNCHANGED <<multipath, watching, modRibCh, kernel, missed, conn, ribout, collector, cuts>>

MonitorInit ==
  /\ up = {} /\ adj = [s \in Sources |-> [n \in Nlris |-> 0]] /\ multipath \in BOOLEAN
  /\ watching = FALSE /\ kernelQ = <<>> /\ modRibCh = <<>>
  /\ kernel = [n \in V4 |-> {}] /\ missed = {}
  /\ conn = "down" /\ bmpQ = <<>> /\ ribout = [n \in Nlris |-> [p \in Peers |-> 0]]
  /\ collector = [up |-> {}, pre |-> {}, post |-> {}, loc |-> {}]
  /\ serverChanges = 0 /\ cuts = 0

Count == serverChanges < MaxServerChanges /\ serverChanges' = serverChanges + 1

\* handleFSMMessage: a session comes up, ...
SessionUp(p) ==
  /\ p \notin up /\ Count
  /\ up' = up \cup {p} /\ UNCHANGED adj
  /\ Notify(<<>>, <<PeerUp(p)>>)

\* ... or is lost: the routes of the neighbor are withdrawn one by one, then the watchers hear of it.
SessionDown(p) ==
  LET routes == SetToSeq({n \in Nlris : adj[p][n] > 0})
      gone == [n \in Nlris |-> [adj EXCEPT ![p][n] = 0]]
  IN /\ p \in up /\ Count
     /\ up' = up \ {p}
     /\ adj' = [adj EXCEPT ![p] = [n \in Nlris |-> 0]]
     /\ Notify(FlattenSeq([i \in DOMAIN routes |-> BestLists(adj, gone[routes[i]], routes[i])]),
               Append(FlattenSeq([i \in DOMAIN routes |->
                        <<PostUpdate(p, routes[i], 0, FALSE)>> \o BestEvents(adj, gone[routes[i]], routes[i])]),
                      PeerDown(p)))

\* An UPDATE of a neighbor announces a route, or withdraws it.
Update(p, n, v) ==
  LET new == [adj EXCEPT ![p][n] = v]
  IN /\ p \in up /\ Count
     /\ adj' = new /\ UNCHANGED up
     /\ Notify(BestLists(adj, new, n),
               <<PreUpdate(p, n, v), PostUpdate(p, n, Accepted(new, p, n), FALSE)>>
                 \o BestEvents(adj, new, n))

\* AddPath and DeletePath; the watchers of UPDATEs are not told.
OwnPath(n, v) ==
  LET new == [adj EXCEPT ![Local][n] = v]
  IN /\ adj[Local][n] # v /\ Count
     /\ adj' = new /\ UNCHANGED up
     /\ Notify(BestLists(adj, new, n), BestEvents(adj, new, n))

-----------------------------------------------------------------------------
(* The kernel's routes *)

\* WatchBestPath(true): GetBestPathList or, with equal paths, GetBestMultiPathList
Snapshot ==
  SetToSeq(UNION {IF multipath THEN Multi(adj, n)
                  ELSE {Path(n, s, adj[s][n]) : s \in {BestOf(adj, n)} \ {None}} : n \in Nlris})

MonitorBest ==
  /\ ~watching /\ watching' = TRUE
  /\ kernelQ' = <<Snapshot>>
  /\ UNCHANGED <<serverVars, modRibCh, kernel, missed, bmp, serverChanges, cuts>>

PrefixesOf(l) == {l[i].n : i \in DOMAIN l}
PathsOf(l, n) == {l[i] : i \in {j \in DOMAIN l : l[j].n = n}}

\* A list with one path of another family is dropped as a whole.
BestEvent ==
  LET l == Head(kernelQ)
  IN /\ kernelQ # <<>> /\ kernelQ' = Tail(kernelQ)
     /\ IF PrefixesOf(l) \subseteq V4
        THEN modRibCh' = Append(modRibCh, l) /\ UNCHANGED missed
        ELSE missed' = missed \cup (PrefixesOf(l) \cap V4) /\ UNCHANGED modRibCh
     /\ UNCHANGED <<serverVars, watching, kernel, bmp, serverChanges, cuts>>

\* modRib that takes a withdrawn path for a route.
ModRibReplaces ==
  LET l == Head(modRibCh)
      own == {n \in PrefixesOf(l) : Cardinality(PathsOf(l, n)) = 1 /\ \E q \in PathsOf(l, n) : q.src = Local}
  IN /\ modRibCh # <<>> /\ modRibCh' = Tail(modRibCh)
     /\ IF own # {}
        THEN missed' = missed \cup PrefixesOf(l) /\ UNCHANGED kernel
        ELSE /\ kernel' = [n \in V4 |-> IF n \in PrefixesOf(l) THEN {q.src : q \in PathsOf(l, n)} \ {Local}
                                         ELSE kernel[n]]
             /\ missed' = missed \ PrefixesOf(l)
     /\ UNCHANGED <<serverVars, watching, kernelQ, bmp, serverChanges, cuts>>

\* modRib: a withdrawn path is all of a list that is looked at; an own path that is the only one of
\* its prefix ends the call before any route is installed.
ModRib ==
  LET l == Head(modRibCh)
      withdrawn == {i \in DOMAIN l : l[i].v = 0}
      first == l[CHOOSE i \in withdrawn : \A j \in withdrawn : i <= j]
      own == {n \in PrefixesOf(l) : Cardinality(PathsOf(l, n)) = 1 /\ \E q \in PathsOf(l, n) : q.src = Local}
  IN /\ modRibCh # <<>> /\ modRibCh' = Tail(modRibCh)
     /\ CASE withdrawn # {} ->
               /\ kernel' = [kernel EXCEPT ![first.n] = {}]
               /\ missed' = (missed \cup PrefixesOf(l)) \ {first.n}
          [] withdrawn = {} /\ own # {} ->
               missed' = missed \cup PrefixesOf(l) /\ UNCHANGED kernel
          [] OTHER ->
               /\ kernel' = [n \in V4 |-> IF n \in PrefixesOf(l) THEN {q.src : q \in PathsOf(l, n)} \ {Local}
                                           ELSE kernel[n]]
               /\ missed' = missed \ PrefixesOf(l)
     /\ UNCHANGED <<serverVars, watching, kernelQ, bmp, serverChanges, cuts>>

-----------------------------------------------------------------------------
(* The BMP client *)

\* The snapshot without the neighbors that are up.
SnapshotOfRoutes ==
  <<BestPath(SetToSeq({Path(n, BestOf(adj, n), adj[BestOf(adj, n)][n]) : n \in {m \in Nlris : Known(adj, m) # {}}}))>>
  \o SetToSeq({PreUpdate(x[1], x[2], adj[x[1]][x[2]]) : x \in {y \in up \X Nlris : adj[y[1]][y[2]] > 0}})
  \o SetToSeq({PostUpdate(x[1], x[2], adj[x[1]][x[2]], TRUE) :
                 x \in {y \in up \X Nlris : Accepted(adj, y[1], y[2]) > 0}})

\* Watch, with all its options and the current state: the sessions, the best paths, what the
\* neighbors have announced, and what of it has passed the policy.
BmpSnapshot == SetToSeq({PeerUp(p) : p \in up}) \o SnapshotOfRoutes

\* tryConnect gets through; the collector knows nothing yet.
BmpConnect ==
  /\ conn = "down"
  /\ conn' = "up" /\ bmpQ' = BmpSnapshot
  /\ collector' = [up |-> {}, pre |-> {}, post |-> {}, loc |-> {}]
  /\ UNCHANGED <<serverVars, dataplane, ribout, serverChanges, cuts>>

BmpLose ==
  /\ conn = "up" /\ cuts < MaxCuts
  /\ conn' = "lost" /\ cuts' = cuts + 1
  /\ UNCHANGED <<serverVars, dataplane, bmpQ, ribout, collector, serverChanges>>

\* ribout.update: is there anything to tell the collector?
RiboutNews(q) ==
  IF q.v = 0 THEN \E p \in Peers : ribout[q.n][p] > 0 ELSE ribout[q.n][q.src] # q.v

\* The collector (external): a route replaces that of its prefix and neighbor, and a neighbor that
\* goes down takes its routes along.
Received(routes, q) == {r \in routes : r.n # q.n \/ r.src # q.src} \cup {r \in {q} : r.v > 0}
Collected(e) ==
  CASE e.type = "up"   -> [collector EXCEPT !.up = @ \cup {e.peer}]
    [] e.type = "down" -> [up |-> collector.up \ {e.peer}, loc |-> collector.loc,
                           pre  |-> {r \in collector.pre : r.src # e.peer},
                           post |-> {r \in collector.post : r.src # e.peer}]
    [] e.type = "pre"  -> [collector EXCEPT !.pre = Received(@, e.path)]
    [] e.type = "post" -> [collector EXCEPT !.post = Received(@, e.path)]
    [] e.type = "best" -> [collector EXCEPT !.loc =
                             {r \in @ : r.n \notin PrefixesOf(e.list)} \cup {r \in ToSet(e.list) : r.v > 0}]

\* loop: an event is noted and written. The first write on a lost connection fails: the client
\* gives up its watcher and connects again, with the ribout it has.
BmpEvent ==
  LET e == Head(bmpQ)
      live == e.type = "post" /\ ~e.init
      write == (live => RiboutNews(e.path)) /\ (e.type = "best" => e.list # <<>>)
  IN /\ conn # "down" /\ bmpQ # <<>>
     /\ ribout' = IF live /\ RiboutNews(e.path) THEN [ribout EXCEPT ![e.path.n][e.path.src] = e.path.v]
                  ELSE ribout
     /\ collector' = IF write /\ conn = "up" THEN Collected(e) ELSE collector
     /\ conn' = IF write /\ conn = "lost" THEN "down" ELSE conn
     /\ bmpQ' = IF write /\ conn = "lost" THEN <<>> ELSE Tail(bmpQ)
     /\ UNCHANGED <<serverVars, dataplane, serverChanges, cuts>>

\* The ticker of the statistics reports writes too.
BmpTick ==
  /\ conn = "lost" /\ up # {}
  /\ conn' = "down" /\ bmpQ' = <<>>
  /\ UNCHANGED <<serverVars, dataplane, ribout, collector, serverChanges, cuts>>

MonitorNext ==
  \/ \E p \in Peers : SessionUp(p) \/ SessionDown(p)
  \/ \E p \in Peers, n \in Nlris, v \in Prefs \cup {0} : Update(p, n, v)
  \/ \E n \in V4, v \in {0, 1} : OwnPath(n, v)
  \/ MonitorBest \/ BestEvent \/ ModRib
  \/ BmpConnect \/ BmpLose \/ BmpEvent \/ BmpTick

MonitorSpec == MonitorInit /\ [][MonitorNext]_monitorVars

-----------------------------------------------------------------------------
Paths == [n : Nlris, src : Sources, v : Prefs \cup {0, 1}]
PeerPaths == {q \in Paths : q.src \in Peers}
Events == [type : {"up", "down"}, peer : Peers] \cup [type : {"pre"}, path : PeerPaths]
          \cup [type : {"post"}, path : PeerPaths, init : BOOLEAN] \cup [type : {"best"}, list : Seq(Paths)]

MonitorTypeOK ==
  /\ up \subseteq Peers /\ adj \in [Sources -> [Nlris -> Prefs \cup {0, 1}]] /\ multipath \in BOOLEAN
  /\ watching \in BOOLEAN /\ kernelQ \in Seq(Seq(Paths)) /\ modRibCh \in Seq(Seq(Paths))
  /\ kernel \in [V4 -> SUBSET Peers] /\ missed \subseteq V4
  /\ conn \in {"down", "up", "lost"} /\ bmpQ \in Seq(Events)
  /\ ribout \in [Nlris -> [Peers -> Prefs \cup {0, 1}]]
  /\ collector \in [up : SUBSET Peers, pre : SUBSET PeerPaths, post : SUBSET PeerPaths, loc : SUBSET Paths]
  /\ serverChanges \in Nat /\ cuts \in Nat

\* When all is handled the kernel routes each prefix to the neighbors the table has for it, and
\* none that the table has not: unless the agent has a better path of its own, or the prefix has not
\* changed since a list it was in was dropped.
KernelFollows ==
  watching /\ kernelQ = <<>> /\ modRibCh = <<>> =>
    \A n \in {m \in V4 \ missed : BestOf(adj, m) # Local} :
      kernel[n] = IF multipath THEN MultiOf(adj, n) ELSE {BestOf(adj, n)} \ {None}

\* A collector that has heard all knows the sessions that are up, what each neighbor announces and
\* the best path of every NLRI, over any losses of its connection.
Heard == conn = "up" /\ bmpQ = <<>>
CollectorFollows ==
  Heard =>
    /\ collector.up = up
    /\ collector.pre = {Path(x[2], x[1], adj[x[1]][x[2]]) : x \in {y \in Peers \X Nlris : adj[y[1]][y[2]] > 0}}
    /\ collector.loc =
         {Path(n, BestOf(adj, n), adj[BestOf(adj, n)][n]) : n \in {m \in Nlris : Known(adj, m) # {}}}

\* bmp.go:39, "return true if we need to send the path to the BMP server": it also knows what has
\* passed the policy.
PostPolicyFollows ==
  Heard => collector.post =
    {Path(x[2], x[1], adj[x[1]][x[2]]) : x \in {y \in Peers \X Nlris : Accepted(adj, y[1], y[2]) > 0}}
=============================================================================
