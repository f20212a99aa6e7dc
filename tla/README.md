# goplane in TLA+

goplane is an agent that runs a BGP speaker (a fork of GoBGP, `src/pkg/server` and
`src/internal/pkg`) in one process with a netlink dataplane (`src/netlink`): for every
virtual network of its configuration file it keeps a VRF in the BGP server, VXLAN devices
and MAC routes in the kernel, and it installs the best unicast routes into the kernel's
tables. This directory holds models of its concurrent and stateful parts, the TLC
configurations that check them on small instances, and TLAPS proofs of their main safety
properties for every instance.

    tlc -workers 2 -config RibMesh.cfg MCRib      # one run
    tlapm RibProofs.tla                           # the proofs of one module

`PROJECT.json` lists the runs, for each property a mutation of the model that breaks it,
the lines of the source every definition stands for, the findings and the hazards.

## 1. Inventory

### 1.1 The parts, their state and what makes them correct

| part | source | state | operations | correct when |
|---|---|---|---|---|
| main loop | `main.go` | current configuration, the `Dataplaner`, a channel for signals (one place) and three unbuffered ones | take a signal, take the BGP part of a configuration, take the rest and diff it against the current one | every reload is carried out, the difference is applied exactly once |
| configuration reader | `config/serve.go` | the file being read | wait for a reload, read, hand over in two parts | it can always hand over |
| dataplane | `netlink/dataplane.go` | its configuration, `vnMap`, the tomb `d.t`, the kernel's routes | wait for BGP, add and delete networks, install routes (`modRib`, `monitorBest`) | networks follow the configuration; the kernel follows the best paths |
| virtual network | `netlink/virtualnetwork.go`, `vxlan.go`, `pf_packet.go` | VRF, devices, `connMap`, two path channels, `floodCh`, own tomb `n.t` | set up, watch best paths and netlink, flood broadcasts, tear down | its VRF is its own and lives as long as it does; no MAC entry outlives its route |
| peer FSM | `pkg/server/fsm.go` | FSM state, connection, timers, channels, administrative state, one handler goroutine and its helpers | five state functions, dialling, receiving, sending, administrative requests | no goroutine or connection is left, messages keep their order, a disabled or deleted peer goes down |
| server loop | `pkg/server/server.go` | neighbors, incoming channels, listeners, `mgmtCh` | select over all of them, one event at a time; start and stop | no event of a neighbor is lost or taken for another session's; the loop never blocks |
| graceful restart | `server.go`, `peer.go`, `adj.go` | `GracefulRestart.State`, marks on routes, restart timers, deferral timers | mark, refresh, drop, defer | stale routes are always removed in the end, fresh ones never |
| propagation | `server.go`, `peer.go`, `adj.go`, `table_manager.go` | Adj-RIB-In of each peer, Loc-RIB, what each peer has been sent (not stored) | update, withdrawal, session up and down, soft reset, route refresh, API paths | each peer holds what the best path gives it |
| best path selection | `destination.go`, `path.go` | `knownPathList` | add, remove, sort, compare | an order; a change only for something better |
| policy | `policy.go` | maps of sets, statements and policies by name, assignments, all pointing to each other | add, delete, replace, reload; evaluate for a path | the object a name stands for is the one that decides |
| configuration | `config/serve.go`, `default.go`, `util.go`, `main.go` | the current file, groups with copies of their members | fill in defaults, compare two files, call the API | what runs is what a fresh start with the file would run |
| peer groups, dynamic neighbors | `server.go`, `peer.go` | `peerGroupMap`, dynamic peers | accept, create, drop | a dynamic peer that goes down leaves nothing |
| RPKI | `rpki.go`, `roa.go` | RTR sessions, ROA trees, lifetime timers | connect, reset and serial queries, expire | the table holds what the cache announces, while it is there |
| MAC mobility | `server.go`, `table_manager.go` | sequence numbers | compare, withdraw own | one owner of a MAC |
| messages | `message.go`, `path.go` | none: clones of paths that share attributes | attributes for a neighbor, AS4 translation, packing | nothing is lost or added on the way |
| watchers, BMP | `server.go`, `bmp.go` | queues of events, `ribout` | snapshot, then every event | a watcher that has read all knows the tables |
| MRT, Zebra, gRPC | `mrt.go`, `zclient.go`, `grpc_server.go`, `zebra`, `apiutil` | subscriptions, sockets | convert and forward | no event blocks the server |

### 1.2 How they interact

* **main → reader → main**: unbuffered channels in both directions, a rendezvous each time.
* **main → dataplane**: `addVnCh`, `delVnCh`, unbuffered; the dataplane runs networks as
  goroutines of its own tomb, so the failure of one kills all of them, and so does the end
  of the last one.
* **dataplane, network → BGP server**: gRPC calls into the same process (`AddVRF`,
  `AddPath`, `MonitorTable`), each of them a rendezvous with the server goroutine over
  `mgmtCh`.
* **handler → server**: `incomingCh` of each neighbor, unbounded. A handler waits for its
  goroutines and then reports a state change; the server moves the FSM, changes the RIBs
  and starts the next handler.
* **server → sender**: `outgoingCh`, unbounded and replaced at every state change.
* **handler ↔ helpers**: `stateReasonCh` with room for two, `msgCh` with room for one,
  contexts, and the connection, which any of them may close.
* **server → RIBs → all neighbors**: function calls on the server goroutine.
* **server → watchers**: unbounded channels; the dataplane, each virtual network and each BMP
  client are watchers with goroutines of their own.
* **timers → server**: restart, long-lived and deferral timers call back through `mgmtCh`; the
  RTR client's through a channel of its manager.

### 1.3 What is hard

The `hazards` in `PROJECT.json` give each of them its line. In short: goroutines of a
handler that end in any order and report over bounded channels; timers whose ticks are read
by a later state; administrative state that changes under the FSM; stale routes over any
sequence of losses; a server goroutine that waits for a handler; two goroutines that send to
each other; networks of the same RD that overlap; what a neighbor was sent being inferred,
not stored; a sort with a comparison that is no order; restarts whose timers, one for each
family, outlive the outage they were started for; names and pointers of policies that come
apart; copies of group members that are not kept up; a cache of ROAs that comes back with
another session while a timer for the old one is under way.

## 2. Modules

| module | what it is | checked by | proved in |
|---|---|---|---|
| `PeerFsm` | one neighbor: handler, helpers, server goroutine, API, remote peer, timers | `MCPeerFsm` | `PeerFsmProofs` |
| `Restart` | restarts of several neighbors with several families: graceful, long-lived, of this speaker itself | `MCRestart` | `RestartProofs` |
| `Agent` | the goplane process: main, reader, dataplane, virtual networks | `MCAgent` | `MainProofs` |
| `Rib` | the routes to one prefix, from any neighbor through the Loc-RIB to every other one | `MCRib` | `RibProofs` |
| `Routing` | the abstract speaker that `Rib` implements | `MCRib` (`ImplementsRouting`) | `RibProofs` |
| `Configuration` | from a configuration file to the neighbors, groups and policies of the server | `MCConfiguration` | `MainProofs` |
| `Policy` | the tables of policies, statements and sets | `MCPolicy` | `PolicyProofs` |
| `Lists` | the loop that keeps some elements of a slice, for `Policy`, `Configuration`, `Message` and `PathAttributes` | with these | `ListProofs` |
| `PolicyEval` | what a policy makes of a path | `MCEvaluation` | `RouteProofs` |
| `PathAttributes` | the attributes of a path on its way to a neighbor, and to and from a VRF | `MCEvaluation` | `RouteProofs` |
| `Message` | AS4 translation, packing into UPDATEs | `MCEvaluation` | |
| `Roa` | the table of ROAs, validation of an origin | `MCEvaluation` | `RouteProofs` |
| `Evaluation` | questions to the four above, and what their answers must be | `MCEvaluation` | `RouteProofs`, partly |
| `Rpki` | an RTR client, its cache and its timers | `MCRpki` | `ClientProofs` |
| `Evpn` | virtual networks on several PEs with their EVPN tables; a MAC that moves | `MCEvpn` | `RouteProofs` |
| `Monitor` | watchers: the dataplane's kernel routes and a BMP client | `MCMonitor` | `ClientProofs` |

Definitions come in the order state, operations, `Next`, properties. Operators commented
`mutant`, or described as what the code does with one thing changed, are not used by the
specification; they are the plausible bugs that show that each property depends on the code
it is about. The `TypeOK` of every module
that has proofs is proved. `MainProofs` is about both halves of what follows a configuration file, so it extends `Agent` and
`Configuration`; for that the common names of `Agent` are its own (`AgentSpec`, `AgentInit`, `AgentTypeOK`, `AgentFiles`). So are those of
`Evaluation` (`EvaluationSpec`), which `RouteProofs` extends together with `Evpn`.

How they fit together: `Agent` is the process around the server and hands it files, which
`Configuration` follows into the server; `PeerFsm` is what happens between two events of one
neighbor that `Restart` and `Rib` see as *up* and *down*; `Rib` takes policies as the set of
routes they reject, `Policy` says which policy is used and `PolicyEval` what it decides;
`PathAttributes` and `Message` are the way from the routes `Rib` sends to the wire; `Evpn` and
`Monitor` start at the events the RIB gives to its watchers; `Rpki` keeps the table that `Roa`
evaluates.

### 2.1 PeerFsm

A handler is `hpc` (in its select loop, in `wg.Wait`, ended) with the state it serves and
`exit`, what its state function returned. Its goroutines are `dial` (connectLoop), `recv`
(recvMessage and recvMessageloop) and `tx` (sendMessageloop; a value other than off and run
is the reason it is about to push, since it pushes with a blocking send). Channels are
sequences with the capacity they have in the code; `outgoing` and `incoming` are unbounded
there and bounded here by `MaxOut` and `MaxIn`, which the guards of the producers name.
Messages that the code appends whatever the length (a kill, a state change, an error) have
no bound. `ReportStateChange` is the end of `loop`; `HandleStateChange` is `handleFSMMessage`
from the old state, through `PeerDown`, graceful or not, and the end of a restart, to the
next handler (`NextHandler`), all in one step because the server goroutine does it without
giving way to another event of this neighbor. `grTick` is the channel of the restart timer:
*stale* when it was there before the last Stop or Reset, which do not drain it.

Abstracted: OPEN, KEEPALIVE and UPDATE are *expected*, *unexpected* or *error*; routes are
the kinds *current* and *stale*; hold, keepalive and connect timers may expire at any time
(a write may fail for the same reason); the negotiated capabilities are those of graceful
restart. One address family.

### 2.2 Restart

A neighbor is *down*, *open* (its OPEN has been taken in) or *up*; of its routes one for each
family is followed. What `opensent` switches on (`grEnabled`, `kept`, `llEnabled`, `llKept`) is
never switched off by a later OPEN. `SessionLost` is the first part of `handleFSMMessage`,
`BackToIdle` what it does when a restarting neighbor enters IDLE again: each time a new timer for
every long-lived family. A long-lived timer runs (`llRunning`, can be stopped) or waits for the
server goroutine (`llQueued`, cannot). `deferral` counts the `time.AfterFunc`s that call
`softResetOut`: for all families, at the restart of this speaker, or for one, when the route
targets come first; none is ever stopped. The End-of-RIB markers of a neighbor may end the restart of
this speaker, its own restart and the wait for its route targets in one step (`ReceiveEor`).

### 2.3 Agent

`main` is at its select (`MainSelects`) or on its way to send to `reloadCh`, or has networks
to add or delete; the reader is `rpc`; a rendezvous is one action (`MainTakesConfig`,
`MainSendsReload`, `MainAdds`). `log.Fatal`, a nil pointer and a panic of tomb end the
process: `agent` says how. A network is named by its RD; as the network of an RD that was
deleted may still be ending when the next one starts, each RD has several generations
(`Gens`). `tomb` is `d.t`: it dies with the first error and is dead when its last goroutine
ends, so that deleting the last network ends the dataplane (`VnReturns`). `failed` is a
history variable. Not in it: two networks with the same RD in one file; the Remote mode of the
dataplane without a server of its own.

### 2.4 Rib and Routing

One prefix, `Peers` and one local source. A route is its LOCAL_PREF, the set of ASes on its
path, two flags (it names this speaker; it carries our cluster) and a tag, the only thing
policies look at. `known` is `knownPathList`, in its order; `SortedLists` is what the sort
makes of it, including that the comparison answers TRUE both ways for equal paths, which
reverses them. `AfterChange` is what a neighbor holds after `GetChanges`,
`filterpath`, `filterPathFromSourcePeer` and the export policy were applied to the new and
the old best path: the new path, nothing (a withdrawal), or what it held before. `sent` is
not in the program: it is what the messages put into `outgoingCh` add up to. One action is
one event of the server goroutine with everything it causes. `dirty` is a history variable: the
neighbors that were up when the export policy changed.

`Routing` knows no Adj-RIBs, lists or filters: sources offer routes, one that none beats is
chosen, every settled neighbor holds what is due to it. `Rib` maps its Loc-RIB to `offered`, the
head of `known` to `best`, `up \ dirty` to `settled` and `sent` to `holds`.

ORIGIN, MED, next-hop reachability and the weight are taken as equal. Not in it: route
server clients, add-path, route target filtering, neighbors in a VRF, long-lived graceful
restart (see `Restart`), the prefix limit, soft reset out.

### 2.5 Configuration

A file is its neighbors, groups, dynamic prefixes, defined and global policies. A neighbor's
settings are a function from `Fields`; one field stands for settings that the code treats alike:
those that need a new session (`NeedsResendOpenMessage`), those compared one by one, those never looked
at again (`FrozenFields`), those an API message loses (`LostFields`). `SetDefaultConfigValues` is the
reader; `LaterCalls` the difference of two files as main's list of calls; each call goes through
`NeighborOverApi` or `GroupOverApi` and is one step of the server, in which it may fail
(`Failed`) or panic. Clients of the API and dynamic neighbors step in between. `touched` is a
history variable: what clients changed (`About`, and `AlsoReached`: the members of a group they update, or all
neighbors when they set policies) or a failed call was about.

### 2.6 Policy

Objects (sets, statements, policies) are numbers, maps give the object of a name, and an
object points to others as pointers do; an object that nothing points to may be used again
for a new one. Each action is one call of the API with all its error paths, in particular what
a call that fails half way has done already (`AddPolicy`), and a reload (`SetPolicies`).
Objects for what is new are an injection into those that are free (`FreshStmts`, `SetOf`, `StOf`,
`PoOf`): which ones makes no difference, so one is chosen. `AddPolicy` of statements that are there already
(`ReferStatements`) and of new ones (`DefineStatements`) are two actions. The statements of a request have conditions and
an action in both; when a reference fails the first stores them instead of those they refer to, conditions, action and all
(`Own`), and the history field `loose` marks them. To remove conditions from a statement cuts one after the
other out of a copy, each at the place it has in the statement itself (`Cut`).

### 2.7 Evaluation

A state is one question: a prefix set and an address; policies, a path and the peer's options; a path
and a neighbor; a path and two VRFs; an AS_PATH and a number of old speakers; a batch of paths;
ROAs and a route. A batch whose attributes leave no room for a prefix is not sent, or makes the packer panic, whichever the
code does (`Room`, `SplitPanics`). `Next` only changes the question: these definitions are functions, and the
invariants are their specification. A prefix is the sequence of its bits, a regular expression the
set it matches, a path a chain of levels of attributes set and deleted. What may be asked is named by five assumptions on the
inputs, each a fact of the code that makes them: a prefix is a sequence of bits, a list of policies a list; a path is a chain
of at least one level (`ChainOf`) and has its next hop in NEXT_HOP if its family is IPv4 and in MP_REACH_NLRI if not, since
that is how `PathSetNexthop` and the receiver keep them; route targets are transitive, and a VRF imports nothing else
(`TargetsOnly`); a table of ROAs is finite and its maximum lengths are numbers, and the segments of an AS_PATH are of the four
types there are; and (`ExportAssumption`) a path that is
sent has its next hop in exactly one attribute and an AS_PATH whose segments are neither empty nor longer than
`MaxSegment`, since one octet counts their ASes (the packet library that parses them is not in the repository). Paths of
route targets, which have an ORIGINATOR_ID of their own, neighbors in a VRF and neighbors whose AS is replaced are not asked
about in that question.

### 2.8 Rpki, Evpn, Monitor

`Rpki`: the cache is external; its ROAs change, of which it may or may not notify the client, and its
session restarts; it answers queries in order. An answer is read one PDU at a time, with anything else in
between (`ReadAnswer`); what is left of it stays at the head of `wire`. The client is `roaManager` and its goroutines: a timer that fires is `due` until the loop
takes its event, and one that `client.timer` no longer points to is `forgotten`. `spoiled` is a
history variable: since the last full answer such a timer has emptied the table, or differences have
come from a version the client has left already, because two serial queries were under way.

`Evpn`: what the kernel says waits in `netlinkCh`, best routes in `events`, updates in
`wire`; each end of a session goes down on its own (`up`). What a change of the table tells the
watchers (`Changes`) is the best routes that are gone and those that are new, each once. `ModPath` announces and withdraws,
`Flood` sends a packet to the others, `ModReach` is `modFdb` and `modConnMap`. Every call they make may fail, as often as
`MaxFails` says, and what follows is what the code does: an error of the server, of a socket or of a change of the FDB is
returned and ends the loop (*failed*); so does a withdrawal of what is not there (*dead*); a dial that fails, or a VTEP that is not
found, is logged and the route is dropped. `missed` is a history variable: the PEs whose last route was dropped so. A loop that
ended by an error takes nothing back, and what it announced stays in the table. A PE's FDB is the set of the next hops it has
for the MAC, to which an append adds.

`Monitor`: neighbors and their routes as far as watchers see them; `BestLists` and `BestEvents`
are the lists in an event, `MonitorBest` and `BmpConnect` the snapshots. `missed` is a
history variable: prefixes of a list that was dropped or not looked at to its end. The collector is
external.

## 3. Runs

| run | configuration | expects | what it shows |
|---|---|---|---|
| `session` | `PeerFsmSession` | pass | Enable, disable, updates, resets, prefix limit and deletion at any moment of connecting, handshakes and sessions: order of messages, connections, idle timer, no logic-bug panic, and (liveness) every handler reports, a disabled neighbor goes down, a deleted one is freed |
| `dynamic` | `PeerFsmDynamic` | pass | a dynamic neighbor with NOTIFICATION graceful restart: retained routes always have something that will remove them, no fresh one outlives its session, and (liveness) stale ones go |
| `restart` | `RestartFamilies` | pass | no stale route is forgotten, of a session everything is sent or under way, and (liveness) the restart of this speaker ends |
| `reload` | `AgentReload` | pass | any reloads of any files: the map of networks, the VRFs, and (liveness) that the running networks end up as configured |
| `rib` | `RibMesh` | pass | two external and two internal neighbors, a local path, changing policies: every neighbor holds what the best path gives it; `Rib` implements `Routing` |
| `configuration` | `ConfigurationFiles` | pass | any sequence of files with clients in between: what main configured alone runs as after a fresh start, with the policies in force, and groups know their members |
| `policy` | `PolicyTables` | pass | names and the objects that decide come apart only where the code lets them; a reload repairs everything |
| `evaluation` | `Evaluation` | pass | what the stateless parts answer, for every question of the instance |
| `evpn` | `EvpnMove` | pass | FDB and connections follow the table, a MAC is reached where it is, the lower sequence number yields; where a call of the loop's fails, what does not follow is what was dropped, and a loop that is asked to take away what is not there has dropped a route |
| `evpn_tie` | `EvpnTie` | violation | of two segments with the same sequence number neither yields |
| `rpki` | `RpkiCache` | pass | a client in step holds every ROA of its cache, and (liveness) those of a cache that stays away go |
| `monitor` | `MonitorViews` | pass | the kernel's routes and the collector's view follow the tables |

### 3.1 Bounds

* **Queues of PeerFsm** (`MaxOut`, `MaxIn` = 1). One message of each kind that may be dropped or
  delayed is enough for every race between a message and the end of its session, since kills, errors and
  state changes come on top. The proofs have no bound.
* **Modes of PeerFsm** (`Passive`, `Dynamic`, `AdminDown`, `OpenGr`, `PeerNotifies`,
  `PrefixLimit`) are those of the question: in `session` the neighbor dials, starts disabled
  and has a prefix limit; in `dynamic` restarts are negotiated. `session`
  leaves out NOTIFICATIONs of the peer because with them `HandlerReports` fails (see 4).
* **Restart**: two neighbors, one long-lived, for one family or for both, one graceful only that is
  also waited for; two families of which one is that of route targets. `MaxTimers` = 1 lets
  the timer of an earlier outage meet the next one. The proofs have neither bound, and are about routes that refuse
  long-lived restart as well.
* **`RDs` = 2, `Gens` = 2**: two networks, to add one and delete another in one reload, with
  two lives each, the old one ending while the new one starts. What the networks of one RD do to
  each other needs two of them; the proofs have no bound.
* **Files of Agent**: every combination of unreadable, with or without BGP, with or without a netlink
  dataplane, with any set of networks.
* **`Rib`**: the four neighbors are one for each way of filtering (two ASes, two internal
  peers of which one only listens); `e1` announces a path that a policy may reject and one
  that names this speaker; `e2` ties with it; `i1` has the highest LOCAL_PREF, then comes the
  local path, which policies may reject too. `MaxClock` = 1 gives two
  ages. No announced path leads through another neighbor's AS and nothing is reflected:
  with those the property fails (see 4).
* **Configuration**: files that differ in one setting of each kind, with and without a group and a
  dynamic prefix, and one with a neighbor of a group that does not exist; `MaxCalls` = 2 calls of clients, of every kind (one sets the policies), so that one can undo or hide
  what another did.
* **Policy**: two types of sets, one name each, two statements, one policy, two objects of each kind, the
  least with which a name and the object in use can differ. The `VIEW` leaves out objects nothing points
  to.
* **Evaluation**: sizes are scaled down (three ASes to a segment, four octet ASes above 7,
  messages of 20 octets) so that every overflow happens; attributes leave room for two prefixes, for one, for none, or are
  longer than a message.
* **Evpn**: two PEs on different segments, three changes of the kernel's table (there, away, back), one lost
  session, one stopped network, one call that fails. The proofs have no bound on PEs, changes or failures.
* **Rpki**: one ROA, two changes (to withdraw and announce it) and one restart of the cache, two losses (two
  overlapping timers), one request of the API. ROAs do not affect each other; the proofs have no bound
  but that serial numbers do not come round twice (`ModulusAssumption`).
* **Monitor**: two neighbors, a prefix and an NLRI of another family (which makes a list be dropped),
  four changes, one lost collector connection.

### 3.2 Fairness

`PeerFsm` assumes weak fairness of what a goroutine does once it can: a handler that may take
a reason, a tick or its cancellation, helpers that find their context done or their
connection closed, the sender and the server with something to take. A Go select picks at
random among its ready cases, so a case that stays ready is taken in the end; weak fairness
of the action says that. The restart timer fires. Nothing is assumed of the operator, the
remote peer, a dial or a hold timer. `Agent` assumes weak fairness of the reader, of main, of
the dataplane and of each network, and nothing of signals and failures. `Restart` assumes that the
deferral timers fire, and nothing of neighbors: an End-of-RIB may never come. `Rpki` assumes that its
timers fire and that its loop takes the events it is offered, and nothing of the cache. The other modules have
safety properties only.

Deadlock is checked except where the program, or a bound of the model, may really stop it: in `dynamic`,
where the handler and its sender may block each other; in `reload`, where main and the reader may; in
`restart`, `policy`, `configuration`, `evpn`, `evpn_tie`, `rpki` and `monitor`, where the environment may have
nothing left to do, or a panic ends the process.

## 4. Findings and known limits

One disagreement between the code and its own comment is a run:

* **Two owners of a MAC** (`evpn_tie`, `table_manager.go:253`): of two routes with the same
  sequence number, the comment says, the PE with the higher address withdraws its own. The address of
  a local path's source is nil, which is never higher, so both keep theirs.

Other behaviour that a property had to make room for has a configuration that shows it; each is
checked by `tlc -workers 2 -config X.cfg M` and ends in a counterexample (with `-continue` for `EvaluationPrefixes`, which has one for
each of two properties). The first row is a disagreement with a comment, too.

| configuration, module | property | what happens |
|---|---|---|
| `EvaluationPrefixes`, `MCEvaluation` | `EmptySetMatches` | a prefix set without entries matches every path, says the comment of `PrefixCondition.Evaluate` (`policy.go:1440`); the code compares the family of the set first, which is 0 if there was never a prefix to take it from, and finds nothing in the tree of a set that lost its prefixes, so that it matches none (`policy.go:1442`) |
| `AgentSignal`, `MCAgent` | `ReloadIsDone` | a SIGHUP during a reload: main sends to `reloadCh` while the reader sends the configuration; both wait for ever (`main.go:433`) |
| `PeerFsmHang`, `MCPeerFsm` | `HandlerReports` | two reasons fill `stateReasonCh`, the sender blocks on a third, the handler waits for the sender (`fsm.go:1654`) |
| `PeerFsmDelete`, `MCPeerFsm` | `DeletedIsFreed` | a neighbor is deleted as its hold timer expires: the server goroutine waits for a handler that does not end (`fsm.go:1823`, `server.go:335`) |
| `PeerFsmTick`, `MCPeerFsm` | `ExpiryIsOfThisRestart` | an unread tick of the restart timer ends the next restart at once (`fsm.go:1801`) |
| `RestartPartial`, `MCRestart` | `StaleIsRestarting` | a neighbor that is long-lived for one of its two families: the timer of an earlier outage fires in a later one, finds no other long-lived family and ends the restart; the stale routes of the other family stay with nothing to remove them (`peer.go:319`, `server.go:1397`) |
| `RestartPlain`, `MCRestart` | `SentOrPending` | this speaker restarts, a neighbor configured for graceful restart does not do it: it is passed over at the end and its own timer is disarmed; it is never sent a route (`server.go:1503`) |
| `RibLoop`, `MCRib` | `ViewIsExport` | a neighbor keeps a route that is gone when the new best path leads through its AS (`server.go:558`) |
| `RibFlip`, `MCRib` | `BestIsStable` | of two tied external paths the other one becomes best at every announcement (`destination.go:487`) |
| `RpkiStale`, `MCRpki` | `StaleRoasGo` | a ROA that was withdrawn while the client was away, in one session of the cache, stays (`rpki.go:240`) |
| `RpkiTwoQueries`, `MCRpki` | `IncrementsAddUp` | a serial query that goes out (after a Serial Notify, or for `EnableRpki`) while an earlier query has not been answered to the end: it is answered with the differences from the old version, although the client has another one by then; a ROA withdrawn and announced again is missing (`rpki.go:104`, `rpki.go:205`) |
| `EvaluationPrefixes`, `MCEvaluation` | `NestedEntriesMatch` | of prefixes of a set that lie within each other only the longest one around the route is asked for its range of lengths; a route that a shorter one allows does not match (`policy.go:1450`) |
| `MonitorPolicy`, `MCMonitor` | `PostPolicyFollows` | what the collector is told of the routes that pass the policy depends on what it was told on an earlier connection (`bmp.go:178`) |

With two long-lived families `llgrRestartTimerExpired` never answers that all have expired, because
it marks a copy of the family's configuration (`peer.go:319`): the restart then ends with the
next markers only. Seen while reading, and not the subject of a property: `DisableMrt` passes on an empty
configuration (`server.go:3573`); `DeleteRpki` looks for a host without its port
(`server.go:3659`); `OverwriteNeighborConfigWithPeerGroup` gives up, without an error, at the first neighbor of an unknown group (`default.go:441`);
`AddDynamicNeighbor` panics for an unknown group (`server.go:2867`; in `Configuration`);
`DeletePeer` leaves the group's copy of the neighbor when it is named by address only (`server.go:2887`; in `Configuration`);
`DeletePolicy` looks at the export assignments twice (`policy.go:3638`; in `Policy`);
`AddPolicy` that is to refer to existing statements stores those of the request where one does not exist, and answers with an error
(`policy.go:3592`; in `Policy`); attributes that fill a message make the packer panic, and paths whose attributes leave less than one prefix are not
sent, without a word (`message.go:400`, `message.go:414`; in `Message`); `UpdatePathAttrs4ByteAs` notes where AS_PATH is before it takes AS4_PATH out, so that it
is wrong if AS4_PATH came first (`message.go:111`; `Message` has AS_PATH first, as the order of their types is).

## 5. Proofs

Nothing is assumed but the named ASSUMEs on the constants of each module, which give
their types (for `Rib` also that the neighbors are finitely many and that a local path does
not name this speaker), and the hypotheses a theorem states.

**PeerFsm** (`TypeCorrect`, `MessagesInOrder`, `LogicBugUnreachable`, `ConnectionReleased`,
`RetentionIsBounded`, `PeerDownIsSeen`, `IdleIsLeft`). The properties are not inductive: that a message cannot
follow the state change of its session needs to know that no goroutine is left that could
write one, that needs which goroutines which state starts, and that the connection is closed
in IDLE needs who holds it in every other situation. `IInv` collects this: `Control`
(which helpers run, with what a state function may have returned, when a peer must be
administratively up), `ConnOwned`, `KillIsLast` and `Retention`. It is kept by each action;
the theorems follow from it.

**Restart** (`RestartTypeCorrect`, `StaleIsNeverForgotten`, `RoutesAreNotForgotten`). The invariants are for one
neighbor at a time, since a step leaves the others alone but for the end of this speaker's
restart (`SyncSent`). For `StaleIsWatched` one has to know where stale routes come from: they are of
families in `kept`, long-lived ones of families in `llKept` and with a timer (`Remembered`), a
session that is down has only stale ones, and what counts as a marker of the session counts for the restart
(`heard` is within `eor`). That `kept` stays within `llKept` (`Watched`) is what `LongForAll` is
needed for, and `RestartPartial` is what happens without it. For `SentOrPending` the invariant
(`SentInv`) adds that a neighbor that is part of this speaker's restart has its timer, has no timer of a single
family, and that a restarting neighbor is never made to wait for route targets. The hypothesis `AllAnswer`
cannot be dropped (`RestartPlain`).

**Agent** (`AgentTypeCorrect`, `MapIsRight`, `VrfIsExclusive`, `RefusalNeedsOld`). The type invariant contains that what is
still to be added is configured and what is still to be deleted is not; with it the next two
are inductive. `RefusalNeedsOld` needs `Refusals`: BGP was started before any network, a network that serves has
its VRF, and the dataplane's map leads to a network that was not told to stop.

**Configuration** (`ConfigurationTypeCorrect`, `GroupsStand`, `PoliciesInForce`, `FilesRun`). `GroupsExist` is kept by each call of the
server, wherever it fails: `Good` adds that a neighbor and a group's member are kept under their own address and that
only a group that exists has prefixes, and one lemma for each call says that a good server stays good and what else it
changed at most (`OnlyIn`, `NoneRuns`, `NoneJoins`). An update of a group is a loop over its members in any order, of
which any may fail (`UpdateGroupFacts`, by `SetInduction`). `PolicyInForce` is about the end of a list of calls, so
`IInv` says what is ahead of main whenever routes have not passed the policies (`ResetAhead`: main knows of the reset
and has calls left, or the reset is what is left), that the policies only change while main knows or before it configured
anyone (`PoliciesAhead`, `NothingConfigured`), and that members of groups are touched (`MembersTouched`): a file in which a neighbor names a group the file defines ends
the process (`LoadFails`), and one that names another is not filled in and counts as touched (`Unfilled`), so that only
clients make members, and a group's update, after which no reset need follow, can only reach those.
`FileIsRunning` needs `FilesAhead`, the same idea for every neighbor and group that is not touched: each call about it
that main has still to make says what the file says (an add or an update has the one entry of the file, a delete means there is
none), and when no call is left the server already agrees. `LaterNeighborAhead` is the heart of it: it shows of the
difference between two files (`LaterCallsElements`) that an entry for which main does nothing is one that both files
have. That what comes back from the API is what a fresh start makes of it, although defaults are filled in twice, is
`TookIsFresh`. The hypothesis of `FilesRun` is that a file names a neighbor once: of two entries
with one address at most one can be what runs. The files of the run do so.

**Rib** (`RibTypeCorrect`, `RibFollowsAdjIn`, `StaleIsAlwaysPending`, `ViewsAreExports`). `IInv` adds to the
properties that no route naming this speaker is in the Loc-RIB. The lemmas follow an event:
`SortedType` and `CalculateType` (a change of one route leaves the others and gives a list of exactly
the sources with a route), `BestType`, then one lemma for each handler. `ViewsAreExports`
is conditional. Whether a neighbor has to be sent a withdrawal is inferred in the code from
the new and the old best path alone; `AfterIsExport` shows by cases that the inference is right if no
propagated path leads through another neighbor's AS, none carries our cluster, and internal
neighbors are all clients of the route reflector or none is. The first hypothesis cannot be
dropped (`RibLoop`), nor the third: a client's path that was reflected to a non-client stays
there when a non-client's path becomes the best.

**Rib implements Routing** (`RibImplementsRouting`, under the same hypotheses). `BetterIsOneWay` and
the lemmas on sorting show that the head of the list is beaten by nobody although the
comparison is no order; with `ViewsAreExports` every step maps to a step of `Routing` or to a stutter.

**Policy** (`PolicyTypeCorrect`, `NamesAlwaysStand`, `SetsStay`, `ReloadsLeaveNothing`). `NInv` adds to
`NamesStand` that an object a name leads to has that name (`MapsRight`), without which the check for use of
`DeletePolicy` would look at the wrong policy. What keeps it is that objects for new names are free: nothing
in use points to them. The statements of a failed reference point to no name: they are `loose`, and the proof shows that no other
call makes such ones (`ReferStatementsNames` against the lemmas of the other calls). `SetsStay` is an action property: a set that a statement of a policy points to, as its
name stands for it, is not deleted or replaced. `ReloadsLeaveNothing` needs that a configuration
fills all objects it takes, and that `Reassigned` leaves only policies of the new table assigned.

**Lists** (`ListProofs`). The library's induction theorems take an operator, which no prover here can
instantiate. An induction over the length of a list is therefore stated about the *set* of the numbers that
have the property (`SetInduction`, from the well-founded order of the naturals), and that a function
defined from its value before exists (`RecursionExists`) is proved in the same way; `KeptElements`
follows. `Spell(l, u, F)` is the list made by the lists that `F` has for the elements of `l`, one after the other;
keeping some elements (`KeptSpells`), flattening (`FlattenMapped`) and changing each element (`MapSpells`) are all of this
kind, it distributes over concatenation (`SpellConcat`), and a spelling of a spelling is one (`SpellSpell`).

**Rpki** (`RpkiTypeCorrect`, `RoasAreComplete`). `RoasComplete` speaks of a client that has heard all, so
the invariant must say what the client has, together with what is on its way: `WireOK` that a full answer brings all
of a version and an incremental one all that the version before lacks (`AnswerOK`), also half read (`Brings`); `TableOK`
that the table has the version of the serial number, but for what an answer that is being read withdraws
(`Withdrawn`). A reset query or a full answer under way (`ResetDue`) repairs whatever is wrong, so neither is
demanded while there is one. `QueriesOK` is what rules out that an answer for one session is taken for
another's.

**Evpn** (`EvpnTypeCorrect`, `LoopsLive`, `ReachFollows`, `MacIsReached`, `SegmentsYield`). The whole content of three
queues decides. `Standing(list, base, i)` is what is reached once the first `i` events are read, and `Hears` says that
all the events lead to the best routes of the table, and that none of them withdraws what is not there
(`Sound`). The loop itself reaches something else when calls have failed, so the invariant (`HInv`) starts from some set that
differs from what is reached by PEs in `missed` only (`Heard`), and none of those is connected (`Dialled`). A loop that finds nothing to take away
has therefore missed that PE: `LoopLives`, for any RDs; that it has followed the table for all others is `ReachFollowsTable`, for distinct ones. `InStep` says that the
updates between two PEs lead from what one has to what the other announces (`Leads`), `OwnFollows` that the last
thing the kernel said is true, and `Yielded` that nobody keeps a route against a higher number of another segment;
the other two theorems are what these say when every queue is empty.

**Monitor** (`MonitorTypes`, `KernelIsFollowed`, `CollectorIsFollowed`; in `ClientProofs` with `Rpki`). What the dataplane or
the collector knows differs from the tables as long as anything waits, and every element of what waits changes what
the next one means. What is invariant is said of one subject at a time, a prefix, a session, a route or a best path: the
*last* thing that waits and speaks of the subject tells the truth (`EndsIn`), or nothing that waits does and the
listener has it right (`Silent`). `KernelInv` and `CollectorInv` add that a list has one NLRI unless it is the first
that waits (only the snapshot has more, and only of a list with more can the dataplane leave anything undone without
`missed` saying so) and that a session that is down has no routes. Each of the server's changes is summed up by what its
lists and events tell (`ListsTell`, `EventsTell`), so that `SessionUp`, `SessionDown`, `Update` and `OwnPath` have one
argument (`HearsOf`). That a best path exists at all is a fact about finite tables, hence the assumption that there are
finitely many NLRIs.

**Evaluation** (`PoliciesAgree`, `VrfsTurn`, `OriginsHold`, `ExportsFit`; in `RouteProofs` with `Evpn`). A question is one of the inputs
(`QuestionsFit`); `PoliciesAgree` speaks of sets that have entries, and `OriginsHold` says who a route comes from (`ComesFrom`, `HasOrigin`)
without the code's choice of an AS, so that `OriginMeans` has to show that the switch over the last segment finds just that AS. What is left is about the functions, most of which fold over a list or a set. A fold is met by its values
on the first `k` elements: `FoldsExist` shows that the function the library defines it by exists, and `FoldSteps` that each
value is the next step on the one before (`Runs`); the three folds proved about are the cases of one operator (`Step`), since a
lemma cannot take a step as a parameter. From this `PolicyConcat` says that statements may be regrouped and `AddedAll` and
`DeletedAll` what a table of ROAs is after any order of calls. That several clones amount to one map of attributes is
`AttrsRead`: `GetPathAttrs`, which goes down the levels with what it has seen, has exactly the attributes that `Has` and `Attr`
find by looking for the first level that speaks of a type. Given this, `SetPath`, `DelPath` and `CloneSees` say what a change does to
the map, and `ToGlobalFacts` and `ToLocalFacts` what a VRF makes of a path. A CASE with guards that overlap
means any of its open arms, so `Validate` has guards that exclude each other.

For `ExportsFit`, `UpdatePathAttrs` is followed change by change as a `Way`: a path under way, with the map of attributes it
has by now and the types that are still to be set, since a type is set once per level. `DeleteAllSees` sums up the fold of
deletions. AS_PATHs are lists made by what stands for each segment (`Spell` in `ListProofs`), so that the ASes of a path,
those without private ASes and those without confederation segments are all spelled the same way: `ChangedAses` and
`PublicPath` say what removing private ASes leaves, `Opened` and `OpensPlain` that our AS comes first, in the first segment
if it has room and in a new one if not, and that this goes through confederation segments. Then `ExternalSeen` and
`InternalSeen` have the map at the end for each kind of session, and `PostSeen` what the rest of the export makes of it.

Only model-checked: all liveness (`HandlerReports`, `DeletedIsFreedOrHeld`,
`DisabledGoesIdle`, `StaleRoutesGo`, `RunsAsConfigured`, `RestartEnds`, `RoasExpire`), which is out of the
prover's reach, and two properties of `Evaluation`: `OldSpeakerRoundTrip` and `PackedOnce`, which say
what recursive functions make of whole AS_PATHs and batches.

## 6. Plan

1. *done* `PeerFsm`, `Restart`, `Agent`, `Rib` with proofs, `Routing` as what `Rib` implements.
2. *done* `Configuration`, `Policy`, `Evaluation` with its four modules, `Evpn`, `Rpki`, `Monitor`.
3. *done* Proofs about `Policy`, `Rpki` and `Evpn`, with invariants about the elements of their lists and queues.
4. *done* Proofs about `Configuration`, `Monitor` and most of `Evaluation`; every safety property of the other runs has one.
5. Route reflection, route server clients and route target filtering in `Rib`.
6. `ServerLife`: the list of incoming channels, listeners, `StopBgp`, `mgmtOperation` from callbacks.
7. The shared sniffing buffer and the flooding of packets in `Evpn`.

## 7. Not modelled

API conversion (`apiutil`), the Zebra protocol, MRT dumps, statistics reports, the encoding of BGP, RTR and BMP
messages, and logging only convert. The list of incoming channels of the server, its
listeners and its stop, and the count of prefixes against their limit have no module.
Route target filtering, add-path and route server clients are left out of `Rib`. The flooded packets of a network
are not followed, so neither is the buffer they share. Adding and deleting an RTR server is left out of
`Rpki`. Time is abstract except for the age of routes in `Rib`: timers fire at any moment after they are set.
