-------------------------------- MODULE Evpn --------------------------------
(***************************************************************************)
(* The EVPN/VXLAN overlay: on every PE a BGP server with an EVPN table and  *)
(* one virtual network, whose loop turns what the kernel learns on the      *)
(* sniffed interfaces into MAC routes, and the best routes of the others    *)
(* into the FDB of its VTEP and into the connections it floods over. One    *)
(* MAC address moves between the PEs; each network also announces itself    *)
(* with a multicast route. The sessions are iBGP, a full mesh.              *)
(***************************************************************************)
EXTENDS Integers, Sequences, FiniteSets, SequencesExt, FiniteSetsExt

CONSTANTS
  Pe,          \* the PEs, ordered by router ID
  Rd,          \* the route distinguisher of each PE's network
  Esi,         \* the Ethernet segment in its MAC routes (always zero for goplane's own)
  MaxMoves,    \* bounds: changes of the kernel's table, ...
  MaxFlaps,    \* ... lost sessions, ...
  MaxStarts,   \* ... starts of networks, ...
  MaxStops,    \* ... stops of networks ...
  MaxFails     \* ... and calls of the loop's that fail

ASSUME PeAssumption == Pe \subseteq Nat \ {0} /\ IsFiniteSet(Pe)
ASSUME RdAssumption == DOMAIN Rd = Pe /\ DOMAIN Esi = Pe

Kinds == {"mac", "multicast"}
Pairs == {c \in Pe \X Pe : c[1] # c[2]}

None == -2     \* no route
Plain == -1    \* a route without a MAC mobility community; from 0 on, its sequence number

VARIABLES
  learned,    \* the PEs whose kernel has the MAC on a sniffed interface
  netlinkCh,  \* per PE, what the kernel said and the loop has not read: was it learned?
  loop,       \* the loop of each PE's network: "off", "running" or "stopped"; "failed" or "dead" if it
              \* ended at an error: of a call it made, or at what it could not take away
  table,      \* table[p][k][q]: q's route of kind k in p's table
  up,         \* <<p, q>>: p's end of its session with q is established
  wire,       \* wire[<<p, q>>]: the updates p has sent to q
  events,     \* events[p][k]: the best routes the loop has not read
  reach,      \* the PEs the FDB, and the connections, of p lead to
  missed,     \* the PEs whose last best route of a kind p's loop has dropped
  moves, flaps, starts, stops, fails

vars == <<learned, netlinkCh, loop, table, up, wire, events, reach, missed, moves, flaps,
          starts, stops, fails>>

Init ==
  /\ learned = {}
  /\ netlinkCh = [p \in Pe |-> <<>>]
  /\ loop = [p \in Pe |-> "off"]
  /\ table = [p \in Pe |-> [k \in Kinds |-> [q \in Pe |-> None]]]
  /\ up = Pairs
  /\ wire = [c \in Pairs |-> <<>>]
  /\ events = [p \in Pe |-> [k \in Kinds |-> <<>>]]
  /\ reach = [p \in Pe |-> [k \in Kinds |-> {}]]
  /\ missed = [p \in Pe |-> [k \in Kinds |-> {}]]
  /\ moves = 0 /\ flaps = 0 /\ starts = 0 /\ stops = 0 /\ fails = 0

-----------------------------------------------------------------------------
(* The EVPN table *)

\* The NLRI of a route: a MAC route has the RD and the MAC, a multicast one also the router ID.
Nlri(k, q) == IF k = "mac" THEN <<Rd[q]>> ELSE <<Rd[q], q>>

\* The best of p's routes with NLRI n: its own, else that of the lowest router ID.
Best(p, k, t, n) ==
  LET known == {q \in Pe : Nlri(k, q) = n /\ t[q] # None}
  IN IF known = {} THEN 0 ELSE IF p \in known THEN p ELSE Min(known)

BestRoutes(p, k, t) == {Best(p, k, t, Nlri(k, q)) : q \in Pe} \ {0}

\* A loop that does not skip its own network's withdrawals.
ChangesOfOwn(p, k, t, u) ==
  LET lost == {q \in BestRoutes(p, k, t) : Best(p, k, u, Nlri(k, q)) = 0}
      new  == {q \in BestRoutes(p, k, u) \ {p} : q \notin BestRoutes(p, k, t) \/ u[q] # t[q]}
  IN SetToSeq([pe : lost, withdraw : {TRUE}] \cup [pe : new, withdraw : {FALSE}])

\* What the watchers of p hear when its routes of kind k change from t to u: the withdrawn best
\* routes of the NLRIs that have none any more, and the new ones of the others. (The loop skips a
\* next hop of 0.0.0.0, that is p's own.)
Changes(p, k, t, u) ==
  LET lost == {q \in BestRoutes(p, k, t) \ {p} : Best(p, k, u, Nlri(k, q)) = 0}
      new  == {q \in BestRoutes(p, k, u) \ {p} : q \notin BestRoutes(p, k, t) \/ u[q] # t[q]}
  IN SetToSeq([pe : lost, withdraw : {TRUE}] \cup [pe : new, withdraw : {FALSE}])

\* The sequence number, if any, that a route of p for the MAC gets: the highest one of the best
\* routes, one more if the route that has it (of several, any one) is another PE's.
MacMobility(p) ==
  LET t == table[p]["mac"]
      best == BestRoutes(p, "mac", t)
      high == Max({t[q] : q \in best})
  IN IF best = {} THEN {Plain}
     ELSE {IF q = p THEN high ELSE high + 1 : q \in {r \in best : t[r] = high}}

\* A PE that yields only to a number that is higher by more than one.
YieldsLate(p, q, s) ==
  LET mine == table[p]["mac"][p]
  IN mine # None /\ Esi[p] # Esi[q] /\ s > mine + 1

\* A route of q with sequence number s makes p withdraw its own, if theirs are different segments.
\* (With equal numbers the addresses decide, and that of the local source is nil: never lower.)
HandleMacMobility(p, q, s) ==
  LET mine == table[p]["mac"][p]
  IN mine # None /\ Esi[p] # Esi[q] /\ s > mine

\* p's table changes to t: its loop hears of the best routes; its neighbors of its own ones.
Update(p, t) ==
  /\ table' = [table EXCEPT ![p] = t]
  /\ events' = [events EXCEPT ![p] = [k \in Kinds |->
       events[p][k] \o (IF loop[p] = "running" THEN Changes(p, k, table[p][k], t[k]) ELSE <<>>)]]

Sent(p, t) ==
  LET changed == {k \in Kinds : t[k][p] # table[p][k][p]}
  IN SetToSeq({[kind |-> k, value |-> t[k][p]] : k \in changed})

\* What is written to a session that the other end has closed is lost.
Propagate(p, t) ==
  [c \in Pairs |-> IF c[1] = p /\ {c, <<c[2], p>>} \subseteq up THEN wire[c] \o Sent(p, t)
                   ELSE wire[c]]

-----------------------------------------------------------------------------
(* Sessions *)

\* p reads an update of q.
Receive(p, q) ==
  LET m == Head(wire[<<q, p>>])
      t == [table[p] EXCEPT ![m.kind][q] = m.value]
      u == IF m.kind = "mac" /\ m.value # None /\ HandleMacMobility(p, q, m.value)
           THEN [t EXCEPT !["mac"][p] = None] ELSE t
  IN /\ <<p, q>> \in up /\ wire[<<q, p>>] # <<>>
     /\ Update(p, u)
     /\ wire' = [Propagate(p, u) EXCEPT ![<<q, p>>] = Tail(@)]
     /\ UNCHANGED <<learned, netlinkCh, loop, up, reach, missed, moves, flaps, starts, stops,
                    fails>>

\* A lost session whose routes go without a word to the watchers.
PeerDownUnheard(p, q) ==
  /\ <<p, q>> \in up
  /\ IF <<q, p>> \in up THEN flaps < MaxFlaps /\ flaps' = flaps + 1 ELSE flaps' = flaps
  /\ up' = up \ {<<p, q>>}
  /\ table' = [table EXCEPT ![p] = [k \in Kinds |-> [table[p][k] EXCEPT ![q] = None]]]
  /\ wire' = [wire EXCEPT ![<<q, p>>] = <<>>]
  /\ UNCHANGED <<learned, netlinkCh, loop, events, reach, missed, moves, starts, stops, fails>>

\* p loses its session with q, or finds that q has closed it: q's routes go.
PeerDown(p, q) ==
  /\ <<p, q>> \in up
  /\ IF <<q, p>> \in up THEN flaps < MaxFlaps /\ flaps' = flaps + 1 ELSE flaps' = flaps
  /\ up' = up \ {<<p, q>>}
  /\ Update(p, [k \in Kinds |-> [table[p][k] EXCEPT ![q] = None]])
  /\ wire' = [wire EXCEPT ![<<q, p>>] = <<>>]
  /\ UNCHANGED <<learned, netlinkCh, loop, reach, missed, moves, starts, stops, fails>>

\* A session that comes back without a synchronisation.
PeerUpSilent(p, q) ==
  /\ {<<p, q>>, <<q, p>>} \cap up = {} /\ p < q
  /\ up' = up \cup {<<p, q>>, <<q, p>>}
  /\ wire' = [wire EXCEPT ![<<p, q>>] = <<>>, ![<<q, p>>] = <<>>]
  /\ UNCHANGED <<learned, netlinkCh, loop, table, events, reach, missed, moves, flaps, starts,
                 stops, fails>>

\* Both ends send the routes of their own.
PeerUp(p, q) ==
  LET own(r) == LET ks == {k \in Kinds : table[r][k][r] # None}
                IN SetToSeq({[kind |-> k, value |-> table[r][k][r]] : k \in ks})
  IN /\ {<<p, q>>, <<q, p>>} \cap up = {} /\ p < q
     /\ up' = up \cup {<<p, q>>, <<q, p>>}
     /\ wire' = [wire EXCEPT ![<<p, q>>] = own(p), ![<<q, p>>] = own(q)]
     /\ UNCHANGED <<learned, netlinkCh, loop, table, events, reach, missed, moves, flaps,
                    starts, stops, fails>>

-----------------------------------------------------------------------------
(* The virtual network *)

\* sendMulticast: the network's own multicast route
SendMulticast(p) == [table[p] EXCEPT !["multicast"][p] = Plain]

\* The routes without the local ones that have the RD of p's VRF, which are all of its own.
DeletePathsByVrf(p) == [k \in Kinds |-> [table[p][k] EXCEPT ![p] = None]]

\* Serve makes the bridge and the VTEP afresh, adds the VRF, announces the network and watches the
\* best routes, beginning with those of now. (A VRF that is still there ends the process.)
Start(p) ==
  LET t == SendMulticast(p)
      now(k) == SetToSeq([pe : BestRoutes(p, k, t[k]) \ {p}, withdraw : {FALSE}])
  IN /\ loop[p] \in {"off", "stopped"} /\ starts < MaxStarts
     /\ starts' = starts + 1
     /\ loop' = [loop EXCEPT ![p] = "running"]
     /\ table' = [table EXCEPT ![p] = t]
     /\ wire' = Propagate(p, t)
     /\ events' = [events EXCEPT ![p] = [k \in Kinds |-> now(k)]]
     /\ reach' = [reach EXCEPT ![p] = [k \in Kinds |-> {}]]
     /\ missed' = [missed EXCEPT ![p] = [k \in Kinds |-> {}]]
     /\ learned' = learned \ {p}
     /\ netlinkCh' = [netlinkCh EXCEPT ![p] = <<>>]
     /\ UNCHANGED <<up, moves, flaps, stops, fails>>

\* The loop is told to end: it closes the connections and deletes the VRF, and with it the routes
\* of its own that have the VRF's RD. The VTEP stays as it is.
Stop(p) ==
  LET t == DeletePathsByVrf(p)
  IN /\ loop[p] = "running" /\ stops < MaxStops
     /\ stops' = stops + 1
     /\ loop' = [loop EXCEPT ![p] = "stopped"]
     /\ table' = [table EXCEPT ![p] = t]
     /\ wire' = Propagate(p, t)
     /\ events' = [events EXCEPT ![p] = [k \in Kinds |-> <<>>]]
     /\ reach' = [reach EXCEPT ![p]["multicast"] = {}]
     /\ UNCHANGED <<learned, netlinkCh, up, missed, moves, flaps, starts, fails>>

\* The kernel learns the MAC on a sniffed interface, or refreshes or forgets it.
Kernel(p, new) ==
  /\ loop[p] = "running" /\ moves < MaxMoves
  /\ new \/ p \in learned
  /\ moves' = moves + 1
  /\ learned' = IF new THEN learned \cup {p} ELSE learned \ {p}
  /\ netlinkCh' = [netlinkCh EXCEPT ![p] = Append(@, new)]
  /\ UNCHANGED <<loop, table, up, wire, events, reach, missed, flaps, starts, stops, fails>>

\* Of what fails the loop ends, without withdrawing anything.
Fail(p) ==
  /\ fails < MaxFails /\ fails' = fails + 1
  /\ loop' = [loop EXCEPT ![p] = "failed"]
  /\ UNCHANGED <<reach, missed>>

\* modPath advertises or withdraws the MAC route, unless the server refuses it.
ModPath(p) ==
  /\ loop[p] = "running" /\ netlinkCh[p] # <<>>
  /\ netlinkCh' = [netlinkCh EXCEPT ![p] = Tail(@)]
  /\ \/ /\ \E s \in IF Head(netlinkCh[p]) THEN MacMobility(p) ELSE {None} :
             LET t == [table[p] EXCEPT !["mac"][p] = s]
             IN Update(p, t) /\ wire' = Propagate(p, t)
        /\ UNCHANGED <<loop, reach, missed, fails>>
     \/ Fail(p) /\ UNCHANGED <<table, events, wire>>
  /\ UNCHANGED <<learned, up, moves, flaps, starts, stops>>

\* A packet is flooded over the connections, which changes nothing unless a write fails.
Flood(p) ==
  /\ loop[p] = "running" /\ reach[p]["multicast"] # {}
  /\ Fail(p)
  /\ UNCHANGED <<learned, netlinkCh, table, up, wire, events, moves, flaps, starts, stops>>

\* The best route of q is carried out, and r is what p reaches now; ...
Carried(p, k, q, r) ==
  /\ reach' = [reach EXCEPT ![p][k] = r]
  /\ missed' = [missed EXCEPT ![p][k] = @ \ {q}]
  /\ UNCHANGED <<loop, fails>>

\* ... it is dropped, with no more than a line in the log; ...
Missed(p, k, q, r) ==
  /\ fails < MaxFails /\ fails' = fails + 1
  /\ reach' = [reach EXCEPT ![p][k] = r]
  /\ missed' = [missed EXCEPT ![p][k] = @ \cup {q}]
  /\ UNCHANGED loop

\* ... or the loop ends, because what it is to take away is not there.
Dies(p) == loop' = [loop EXCEPT ![p] = "dead"] /\ UNCHANGED <<reach, missed, fails>>

\* A connection that is closed and left in the map.
ModConnMapKept(p, q, withdraw) ==
  LET conns == reach[p]["multicast"]
  IN \/ withdraw /\ q \in conns /\ Carried(p, "multicast", q, conns)
     \/ withdraw /\ q \notin conns /\ Dies(p)
     \/ ~withdraw /\ Carried(p, "multicast", q, conns \cup {q})
     \/ ~withdraw /\ Missed(p, "multicast", q, conns \ {q})

\* modConnMap hangs up, or dials (again); a dial that fails leaves no connection.
ModConnMap(p, q, withdraw) ==
  LET conns == reach[p]["multicast"]
  IN \/ withdraw /\ q \in conns /\ Carried(p, "multicast", q, conns \ {q})
     \/ withdraw /\ q \notin conns /\ Dies(p)
     \/ ~withdraw /\ Carried(p, "multicast", q, conns \cup {q})
     \/ ~withdraw /\ Missed(p, "multicast", q, conns \ {q})

\* modFdb deletes from the FDB, or appends to it; without the VTEP it does nothing.
ModFdb(p, q, withdraw) ==
  LET fdb == reach[p]["mac"]
  IN \/ Missed(p, "mac", q, fdb)
     \/ withdraw /\ q \in fdb /\ Carried(p, "mac", q, fdb \ {q})
     \/ withdraw /\ q \notin fdb /\ Dies(p)
     \/ ~withdraw /\ Carried(p, "mac", q, fdb \cup {q})
     \/ Fail(p)

\* The loop reads a best route.
ModReach(p, k) ==
  LET e == Head(events[p][k])
  IN /\ loop[p] = "running" /\ events[p][k] # <<>>
     /\ events' = [events EXCEPT ![p][k] = Tail(@)]
     /\ \/ k = "multicast" /\ ModConnMap(p, e.pe, e.withdraw)
        \/ k = "mac" /\ ModFdb(p, e.pe, e.withdraw)
     /\ UNCHANGED <<learned, netlinkCh, table, up, wire, moves, flaps, starts, stops>>

Next ==
  \/ \E c \in Pairs : Receive(c[1], c[2]) \/ PeerDown(c[1], c[2]) \/ PeerUp(c[1], c[2])
  \/ \E p \in Pe :
       \/ Start(p) \/ Stop(p) \/ ModPath(p) \/ Flood(p)
       \/ \E new \in BOOLEAN : Kernel(p, new)
       \/ \E k \in Kinds : ModReach(p, k)

Spec == Init /\ [][Next]_vars

-----------------------------------------------------------------------------
TypeOK ==
  /\ learned \subseteq Pe
  /\ netlinkCh \in [Pe -> Seq(BOOLEAN)]
  /\ loop \in [Pe -> {"off", "running", "stopped", "failed", "dead"}]
  /\ table \in [Pe -> [Kinds -> [Pe -> Int]]]
  /\ up \subseteq Pairs
  /\ wire \in [Pairs -> Seq([kind : Kinds, value : Int])]
  /\ events \in [Pe -> [Kinds -> Seq([pe : Pe, withdraw : BOOLEAN])]]
  /\ reach \in [Pe -> [Kinds -> SUBSET Pe]] /\ missed \in [Pe -> [Kinds -> SUBSET Pe]]
  /\ moves \in Nat /\ flaps \in Nat /\ starts \in Nat /\ stops \in Nat /\ fails \in Nat

DistinctRds == \A p, q \in Pe : Rd[p] = Rd[q] => p = q

\* Where every network has an RD of its own, a loop that has read all its events has an FDB that
\* leads to exactly the PEs that have announced the MAC, and floods to exactly those that have
\* announced themselves, whatever sessions and networks went and came; except for the PEs whose
\* last route it dropped: to those it has no connection, and an FDB entry or none. (With one RD
\* for all, as in test/netlink, the best route passes from one PE to the next without a
\* withdrawal, and the FDB keeps both.)
ReachFollowsTable ==
  DistinctRds =>
    \A p \in Pe, k \in Kinds : loop[p] = "running" /\ events[p][k] = <<>> =>
      LET announced == {q \in Pe \ {p} : table[p][k][q] # None}
      IN /\ reach[p][k] \ missed[p][k] = announced \ missed[p][k]
         /\ k = "multicast" => reach[p][k] \cap missed[p][k] = {}

\* The loop is not asked to take away what it has not made: if it ended at the withdrawal of a PE
\* that its FDB or its connections did not lead to, it had dropped a route of that PE's (a dial
\* that failed, or no VTEP) and not made good for it since. (It ends, too, when a call of the
\* kernel, of a socket or of the server fails.)
LoopLives ==
  \A p \in Pe : loop[p] = "dead" => \E k \in Kinds : missed[p][k] \ reach[p][k] # {}

\* Once nothing is under way, a MAC that is behind one PE, whose route no other segment's has
\* superseded, is reached there and nowhere else by every other PE whose network runs. (A loop
\* that failed no longer withdraws what it announced, and one that dropped a route has it wrong.)
Quiet ==
  /\ \A c \in Pairs : c \in up /\ wire[c] = <<>>
  /\ \A p \in Pe : netlinkCh[p] = <<>> /\ events[p]["mac"] = <<>>

MacSettles ==
  DistinctRds /\ Quiet /\ (\A p \in Pe : loop[p] # "failed") =>
    \A p \in Pe : learned = {p} /\ loop[p] = "running" /\ table[p]["mac"][p] # None =>
      \A q \in Pe \ {p} : loop[q] = "running" =>
        reach[q]["mac"] \ missed[q]["mac"] = {p} \ missed[q]["mac"]

\* Of two Ethernet segments that have announced the MAC, only the one with the higher sequence
\* number keeps its route once all updates are read.
SegmentYields ==
  DistinctRds /\ Quiet =>
    \A c \in Pairs : LET one == table[c[1]]["mac"][c[1]]
                        two == table[c[2]]["mac"][c[2]]
                    IN Esi[c[1]] # Esi[c[2]] /\ None \notin {one, two} => one = two

\* table_manager.go: "If the PE is the originator of the MAC route and it receives the same MAC
\* address with the same sequence number that it generated, it will compare its own IP address with
\* the IP address of the remote PE and will select the lowest IP. If its own route is not the best
\* one, it will withdraw the route."
TieIsBroken ==
  DistinctRds /\ Quiet =>
    \A c \in Pairs : Esi[c[1]] # Esi[c[2]] =>
      \E p \in {c[1], c[2]} : table[p]["mac"][p] = None
=============================================================================
