--------------------------- MODULE Configuration ---------------------------
(***************************************************************************)
(* How a configuration file becomes the neighbors, peer groups and policies *)
(* of the server: the reader fills in defaults (config/serve.go,            *)
(* internal/pkg/config/default.go), main compares the file with the one     *)
(* before and issues a list of calls (main.go), each call converts a        *)
(* configuration to an API message and back (util.go, grpc_server.go), and  *)
(* the server applies it (server.go).  Between two calls of main, clients   *)
(* of the API make their own and dynamic neighbors come and go.             *)
(*                                                                          *)
(* The settings of a neighbor are a function from Fields to numbers, 0 for  *)
(* what is not set; a field stands for the settings the code treats alike.  *)
(***************************************************************************)
EXTENDS Integers, Sequences, SequencesExt, FiniteSets, Lists

CONSTANTS
  Addresses, GroupNames, Policies,
  Files,       \* what the configuration file may hold when it is read
  ApiCalls,    \* calls that clients of the API may make
  MaxCalls,    \* bound: how many they make
  Vrfs,        \* the VRFs of the server
  Nothing, Global

LocalAs == 1   \* the AS of the server; a neighbor in AS 2 is an external one
HoldTime == 90
IdleHoldTime == 30

\* The settings of address families, and the ones whose change closes the session,
FamilyFields == {"families", "familyAddPaths", "limits", "longLived"}
OpenFields == {"peerAs", "localAs", "description", "removePrivateAs", "sendCommunity", "adminDown", "vrf",
               "passive", "tcpMss", "bindInterface", "addPaths", "allowOwnAs", "graceful", "restartTime",
               "families", "familyAddPaths"}
\* ... that change while the session is up, and that do not change until it is closed for another reason.
TimerFields == {"holdTime", "keepalive", "idleHold"}
FrozenFields == {"multihop", "reflector", "routeServer", "ttlSecurity"}
Fields == FamilyFields \cup OpenFields \cup TimerFields \cup FrozenFields

NotOfGroups == {"adminDown", "vrf"}
\* What the API cannot carry, or the server does not read.
LostFields == {"sendCommunity", "tcpMss", "addPaths", "idleHold", "ttlSecurity"}
LostInGroups == LostFields \cup {"removePrivateAs", "allowOwnAs", "bindInterface"}

\* What a file and an API message may hold. A neighbor that was filled in has its address as state.
Neighbors == [address : Addresses, state : Addresses \cup {Nothing}, group : GroupNames \cup {Nothing},
              filled : BOOLEAN, set : [Fields -> Nat], policies : SUBSET Policies]
GroupConfs == [name : GroupNames, set : [Fields -> Nat], policies : SUBSET Policies]
PrefixConfs == [prefix : Addresses, group : GroupNames]
FileType == [neighbors : Seq(Neighbors), groups : Seq(GroupConfs), prefixes : SUBSET PrefixConfs,
             policies : SUBSET Policies, global : SUBSET Policies]
Operations ==
  [op : {"addGroup", "updateGroup"}, arg : GroupConfs] \cup [op : {"deleteGroup"}, arg : GroupNames]
    \cup [op : {"prefix"}, arg : PrefixConfs] \cup [op : {"add", "delete", "update"}, arg : Neighbors]
    \cup [op : {"policies", "global"}, arg : SUBSET Policies] \cup [op : {"softResetIn"}, arg : {Nothing}]

ASSUME NamesAssumption ==
  /\ IsFiniteSet(Addresses)
  /\ Nothing \notin Addresses \cup GroupNames \cup Neighbors \cup GroupConfs \cup FileType /\ Global \notin Addresses
ASSUME FilesAssumption ==
  Files \subseteq
    {f \in FileType : /\ \A i \in DOMAIN f.neighbors : f.neighbors[i].state = Nothing /\ ~f.neighbors[i].filled
                      /\ IsFiniteSet(f.prefixes)}
ASSUME CallsAssumption == ApiCalls \subseteq Operations

VARIABLES
  current,    \* main's c: the file before, or Nothing
  todo,       \* the calls that main has still to make
  reset,      \* main's updatePolicy
  server,     \* the server's neighbors, groups and assigned policies
  defined,    \* the policies that are defined
  panicked,   \* the process has ended
  calls,      \* calls that clients have made
  touched     \* history: neighbors and groups not configured by main alone, or whose call failed

vars == <<current, todo, reset, server, defined, panicked, calls, touched>>

-----------------------------------------------------------------------------
\* Defaults

\* A group's settings take the place of all of the neighbor's: which of them the file gives for the
\* neighbor itself is never registered.
OverwriteConfig(n, group) ==
  IF group = Nothing THEN n
  ELSE [n EXCEPT !.set = [f \in Fields |-> IF f \in NotOfGroups THEN n.set[f] ELSE group.set[f]],
                 !.policies = group.policies]

Filled(set) ==
  LET Or(f, v) == IF set[f] = 0 THEN v ELSE set[f]
  IN [f \in Fields |->
       CASE f = "localAs" -> Or(f, LocalAs)
         [] f = "holdTime" -> Or(f, HoldTime)
         [] f = "keepalive" -> Or(f, Or("holdTime", HoldTime) \div 3)
         [] f = "idleHold" -> Or(f, IdleHoldTime)
         [] f = "families" -> Or(f, 1)
         [] f = "familyAddPaths" -> IF set["addPaths"] # 0 THEN set["addPaths"] ELSE set[f]
         [] f = "restartTime" -> IF set["graceful"] # 0 THEN Or(f, Or("holdTime", HoldTime)) ELSE set[f]
         [] OTHER -> set[f]]

\* Settings that exclude each other.
Contradicts(set) ==
  \/ set["removePrivateAs"] # 0 /\ set["peerAs"] = Filled(set)["localAs"]
  \/ set["multihop"] # 0 /\ set["ttlSecurity"] # 0

SetDefaults(n, group) ==
  IF n.filled THEN n
  ELSE LET m == OverwriteConfig(n, group)
       IN [m EXCEPT !.set = Filled(m.set), !.filled = TRUE, !.state = IF n.state = Nothing THEN n.address ELSE n.state]
DefaultsFail(n, group) == ~n.filled /\ Contradicts(OverwriteConfig(n, group).set)

\* The file: a neighbor without a group gets its defaults; the first that names a group the file does
\* not define ends the work, with no error; one that names a group it defines ends the process, for
\* there is no list of configured fields to look the neighbor up in.
InFile(f, name) == \E i \in DOMAIN f.groups : f.groups[i].name = name
Reached(f, i) == \A j \in 1..i : f.neighbors[j].group = Nothing \/ InFile(f, f.neighbors[j].group)
LoadFails(f) ==
  \/ \E i \in DOMAIN f.neighbors :
       Reached(f, i) /\ (f.neighbors[i].group # Nothing \/ Contradicts(f.neighbors[i].set))
  \/ Reached(f, Len(f.neighbors)) /\ \E d \in f.prefixes : ~InFile(f, d.group)
SetDefaultConfigValues(f) ==
  [f EXCEPT !.neighbors = [i \in DOMAIN f.neighbors |->
     IF Reached(f, i) THEN SetDefaults(f.neighbors[i], Nothing) ELSE f.neighbors[i]]]

-----------------------------------------------------------------------------
\* To an API message and back

Dropping(c, lost) == [c EXCEPT !.set = [f \in Fields |-> IF f \in lost THEN 0 ELSE c.set[f]]]
NeighborOverApi(n) == [Dropping(n, LostFields) EXCEPT !.filled = FALSE]
GroupOverApi(g) == Dropping(g, LostInGroups)

-----------------------------------------------------------------------------
\* The server.  An operation gives the new state, whether it succeeded and whether routes must pass the
\* import policies again.

Done(s) == [server |-> s, ok |-> TRUE, reset |-> FALSE]
Failed(s) == [server |-> s, ok |-> FALSE, reset |-> FALSE]

Address(n) == IF n.state # Nothing THEN n.state ELSE n.address
GroupOf(s, n) == IF n.group = Nothing THEN Nothing ELSE s.groups[n.group].conf
GroupMissing(s, n) == n.group # Nothing /\ s.groups[n.group].conf = Nothing

\* Policies are assigned when all of them are defined; otherwise the assignment stays as it is.
SetPeerPolicy(s, id, names) == IF names \subseteq defined THEN [s EXCEPT !.assigned[id] = names] ELSE s

\* The group's copy of a member, which outlives what later happens to the neighbor.
Member(s, n) == IF n.group = Nothing THEN s ELSE [s EXCEPT !.groups[n.group].members[Address(n)] = n]

NotAcceptable(n) ==
  \/ n.set["vrf"] # 0 /\ (n.set["routeServer"] # 0 \/ n.set["vrf"] \notin Vrfs)
  \/ n.set["routeServer"] # 0 /\ n.set["reflector"] # 0

Start(s, n) ==
  LET a == Address(n)
  IN [Member(SetPeerPolicy(s, a, n.policies), n) EXCEPT
        !.running[a] = n, !.dynamic = @ \ {a}, !.unsettled = @ \ {a}]

AddNeighbor(s, c) ==
  LET n == SetDefaults(c, GroupOf(s, c))
  IN IF s.running[Address(c)] # Nothing \/ GroupMissing(s, c) \/ DefaultsFail(c, GroupOf(s, c)) \/ NotAcceptable(n)
     THEN Failed(s) ELSE Done(Start(s, n))

\* DeletePeer passes the address alone, so the group keeps its copy of the member.
DeleteNeighbor(s, c) ==
  LET a == Address(c)
      t == IF c.group = Nothing \/ GroupMissing(s, c) THEN s
           ELSE [s EXCEPT !.groups[c.group].members[a] = Nothing]
  IN IF a = Nothing \/ s.running[a] = Nothing THEN Failed(t)
     ELSE Done([t EXCEPT !.running[a] = Nothing, !.dynamic = @ \ {a}, !.unsettled = @ \ {a}])

NeedsResendOpenMessage(old, new) ==
  \/ old.group # new.group
  \/ \E f \in OpenFields : old.set[f] # new.set[f]

TimersOnly(old, new) == [old EXCEPT !.set = [f \in Fields |-> IF f \in TimerFields THEN new.set[f] ELSE old.set[f]]]

\* What changes while the session stays up. A configuration of a neighbor without a group has no defaults here.
UpdateLive(old, new) ==
  [old EXCEPT !.set = [f \in Fields |-> IF f \in TimerFields \cup FamilyFields THEN new.set[f] ELSE old.set[f]]]

UpdateNeighbor(s, c) ==
  LET n == IF c.group = Nothing THEN c ELSE SetDefaults(c, GroupOf(s, c))
      a == Address(n)
      old == s.running[a]
      newPolicy == old.policies # n.policies
      t == IF newPolicy
           THEN [SetPeerPolicy(s, a, n.policies) EXCEPT !.running[a].policies = n.policies, !.unsettled = @ \cup {a}]
           ELSE s
      r == IF NeedsResendOpenMessage(old, n)
           THEN AddNeighbor(DeleteNeighbor(t, t.running[a]).server, n)
           ELSE Done([t EXCEPT !.running[a] = UpdateLive(t.running[a], n)])
  IN IF GroupMissing(s, c) \/ (c.group # Nothing /\ DefaultsFail(c, GroupOf(s, c))) \/ old = Nothing THEN Failed(s)
     ELSE [r EXCEPT !.reset = newPolicy \/ old.set["allowOwnAs"] # n.set["allowOwnAs"]]

AddGroup(s, g) ==
  IF s.groups[g.name].conf # Nothing THEN Failed(s)
  ELSE Done([s EXCEPT !.groups[g.name] = [conf |-> g, members |-> [a \in Addresses |-> Nothing], prefixes |-> {}]])

DeleteGroupInUse(s, name) ==
  Done([s EXCEPT !.groups[name] = [conf |-> Nothing, members |-> [a \in Addresses |-> Nothing], prefixes |-> {}]])

DeleteGroup(s, name) ==
  IF \/ s.groups[name].conf = Nothing
     \/ \E a \in Addresses : s.running[a] # Nothing /\ s.running[a].group = name
  THEN Failed(s)
  ELSE Done([s EXCEPT !.groups[name] = [conf |-> Nothing, members |-> [a \in Addresses |-> Nothing], prefixes |-> {}]])

\* The members are updated in any order, until one of them fails.
UpdateGroup(s, g) ==
  LET members == s.groups[g.name].members
      present == {a \in Addresses : members[a] # Nothing}
      After(order) ==
        LET r[i \in 0..Len(order)] ==
              IF i = 0 THEN Done([s EXCEPT !.groups[g.name].conf = g])
              ELSE IF ~r[i - 1].ok THEN r[i - 1]
              ELSE LET u == UpdateNeighbor(r[i - 1].server, members[order[i]])
                   IN [u EXCEPT !.reset = @ \/ r[i - 1].reset]
        IN r[Len(order)]
  IN IF s.groups[g.name].conf = Nothing THEN {Failed(s)}
     ELSE {After(order) : order \in SetToSeqs(present)}

AddDynamicNeighbor(s, d) == Done([s EXCEPT !.groups[d.group].prefixes = @ \cup {d.prefix}])

\* Each assignment is read back by name and set again once the policies are replaced.
SetPolicies(s, names) ==
  LET Again(id) == IF s.assigned[id] \subseteq names /\ (id = Global \/ s.running[id] # Nothing)
                  THEN s.assigned[id] ELSE {}
  IN Done([s EXCEPT !.assigned = [id \in DOMAIN s.assigned |-> Again(id)],
                    !.unsettled = {a \in Addresses : s.running[a] # Nothing}])

SetPolicyAssignment(s, names) ==
  IF names \subseteq defined
  THEN Done([s EXCEPT !.assigned[Global] = names, !.unsettled = {a \in Addresses : s.running[a] # Nothing}])
  ELSE Failed(s)

SoftResetIn(s) == Done([s EXCEPT !.unsettled = {}])

-----------------------------------------------------------------------------
\* Calls: of main in the order of its list, and of clients

Call(op, arg) == [op |-> op, arg |-> arg]

Results(s, c) ==
  CASE c.op = "addGroup" -> {AddGroup(s, GroupOverApi(c.arg))}
    [] c.op = "deleteGroup" -> {DeleteGroup(s, c.arg)}
    [] c.op = "updateGroup" -> UpdateGroup(s, GroupOverApi(c.arg))
    [] c.op = "prefix" -> {AddDynamicNeighbor(s, c.arg)}
    [] c.op = "add" -> {AddNeighbor(s, NeighborOverApi(c.arg))}
    [] c.op = "delete" -> {DeleteNeighbor(s, [c.arg EXCEPT !.group = Nothing, !.address = Nothing])}
    [] c.op = "update" -> {UpdateNeighbor(s, NeighborOverApi(c.arg))}
    [] c.op = "policies" -> {SetPolicies(s, c.arg)}
    [] c.op = "global" -> {SetPolicyAssignment(s, c.arg)}
    [] c.op = "softResetIn" -> {SoftResetIn(s)}

\* There is no peer group to add a dynamic neighbor to.
Panics(s, c) == c.op = "prefix" /\ s.groups[c.arg.group].conf = Nothing

\* What a call is about: a neighbor or a group.
About(c) ==
  CASE c.op \in {"add", "delete", "update"} -> {Address(c.arg)}
    [] c.op \in {"addGroup", "updateGroup"} -> {c.arg.name}
    [] c.op = "deleteGroup" -> {c.arg}
    [] OTHER -> {}

-----------------------------------------------------------------------------
\* The main goroutine

Each(op, list) == [i \in DOMAIN list |-> Call(op, list[i])]
SameNeighbor(n, m) == n.state = m.state
SameGroup(g, h) == g.name = h.name
Differ(n, m) == n # m      \* Equal of every section
Added(old, new, Same(_, _)) == Kept(new, {n \in ToSet(new) : \A i \in DOMAIN old : ~Same(n, old[i])})
Updated(old, new, Same(_, _)) ==
  Kept(new, {n \in ToSet(new) :
    \E i \in DOMAIN old : Same(n, old[i]) /\ (\A j \in 1..i-1 : ~Same(n, old[j])) /\ Differ(n, old[i])})
Names(list) == [i \in DOMAIN list |-> list[i].name]

Changes(old, new, Same(_, _)) ==
  [added |-> Added(old, new, Same), deleted |-> Added(new, old, Same), updated |-> Updated(old, new, Same)]
UpdatePeerGroupConfig(c, f) == Changes(c.groups, f.groups, SameGroup)
UpdateNeighborConfig(c, f) == Changes(c.neighbors, f.neighbors, SameNeighbor)

\* The first file: everything in it is added. The global policies are not assigned.
FirstCalls(f) ==
  <<Call("policies", f.policies)>> \o Each("addGroup", f.groups) \o Each("prefix", SetToSeq(f.prefixes))
    \o Each("add", f.neighbors)

\* A later one: what changed, groups before neighbors, each update of a group twice.
LaterCalls(c, f) ==
  LET pg == UpdatePeerGroupConfig(c, f)
      nb == UpdateNeighborConfig(c, f)
  IN  (IF f.policies # c.policies THEN <<Call("policies", f.policies)>> ELSE <<>>)
        \o (IF f.global # c.global THEN <<Call("global", f.global)>> ELSE <<>>)
        \o Each("addGroup", pg.added) \o Each("deleteGroup", Names(pg.deleted))
        \o Each("updateGroup", pg.updated) \o Each("updateGroup", pg.updated)
        \o Each("prefix", SetToSeq(f.prefixes))
        \o Each("add", nb.added) \o Each("delete", nb.deleted) \o Each("update", nb.updated)

Unfilled(f) == {f.neighbors[i].address : i \in {j \in DOMAIN f.neighbors : ~f.neighbors[j].filled}}

\* main reads a file while it has nothing to do. The new file takes the place of the old one, whatever
\* becomes of the calls.
Reload ==
  /\ ~panicked /\ todo = <<>>
  /\ \E f \in Files :
       IF LoadFails(f)
       THEN panicked' = TRUE /\ UNCHANGED <<current, todo, reset, server, defined, calls, touched>>
       ELSE /\ current' = SetDefaultConfigValues(f)
            /\ todo' = IF current = Nothing THEN FirstCalls(current') ELSE LaterCalls(current, current')
            /\ reset' = (current # Nothing /\ (f.policies # current.policies \/ f.global # current.global))
            /\ touched' = touched \cup Unfilled(current')
            /\ UNCHANGED <<server, defined, panicked, calls>>

LastResets(r) == r.ok /\ r.reset

Resets(r) == reset \/ (r.ok /\ r.reset)

MainCalls ==
  LET c == Head(todo)
  IN /\ ~panicked /\ todo # <<>>
     /\ IF Panics(server, c)
        THEN panicked' = TRUE /\ UNCHANGED <<current, todo, reset, server, defined, calls, touched>>
        ELSE \E r \in Results(server, c) :
               /\ server' = r.server
               /\ touched' = IF r.ok THEN touched ELSE touched \cup About(c)
               /\ defined' = IF c.op = "policies" THEN c.arg ELSE defined
               /\ todo' = IF Len(todo) = 1 /\ Resets(r) THEN <<Call("softResetIn", Nothing)>> ELSE Tail(todo)
               /\ reset' = (Resets(r) /\ Len(todo) > 1)
               /\ UNCHANGED <<current, panicked, calls>>

\* The neighbors that a call reaches besides the one it is about.
AlsoReached(c) ==
  CASE c.op = "updateGroup" -> {a \in Addresses : server.groups[c.arg.name].members[a] # Nothing}
    [] c.op \in {"policies", "global"} -> {a \in Addresses : server.running[a] # Nothing}
    [] OTHER -> {}

\* A client makes a call; it is told when routes must pass the policies again, and resets them itself.
ClientCalls ==
  /\ ~panicked /\ current # Nothing /\ calls < MaxCalls
  /\ calls' = calls + 1
  /\ \E c \in ApiCalls :
       IF Panics(server, c)
       THEN panicked' = TRUE /\ UNCHANGED <<current, todo, reset, server, defined, touched>>
       ELSE \E r \in Results(server, c) :
              /\ server' = r.server
              /\ touched' = touched \cup About(c) \cup AlsoReached(c)
              /\ defined' = IF c.op = "policies" THEN c.arg ELSE defined
              /\ UNCHANGED <<current, todo, reset, panicked>>

\* A connection from an address that only a dynamic prefix covers, and the loss of such a session.
DynamicArrives(a, g) ==
  LET c == [address |-> a, state |-> a, group |-> g, filled |-> FALSE, policies |-> {},
            set |-> [f \in Fields |-> IF f = "passive" THEN 1 ELSE 0]]
      n == SetDefaults(c, GroupOf(server, c))
  IN /\ ~panicked /\ server.running[a] = Nothing /\ a \in server.groups[g].prefixes
     /\ ~DefaultsFail(c, GroupOf(server, c))
     /\ server' = [SetPeerPolicy(server, a, n.policies) EXCEPT !.running[a] = n, !.dynamic = @ \cup {a}]
     /\ touched' = touched \cup {a}
     /\ UNCHANGED <<current, todo, reset, defined, panicked, calls>>

DynamicLeaves(a) ==
  /\ ~panicked /\ a \in server.dynamic
  /\ server' = [server EXCEPT !.running[a] = Nothing, !.dynamic = @ \ {a}, !.unsettled = @ \ {a}]
  /\ UNCHANGED <<current, todo, reset, defined, panicked, calls, touched>>

Init ==
  /\ current = Nothing /\ todo = <<>> /\ reset = FALSE
  /\ server = [running |-> [a \in Addresses |-> Nothing],
               groups |-> [g \in GroupNames |->
                             [conf |-> Nothing, members |-> [a \in Addresses |-> Nothing], prefixes |-> {}]],
               dynamic |-> {}, unsettled |-> {},
               assigned |-> [id \in Addresses \cup {Global} |-> {}]]
  /\ defined = {} /\ panicked = FALSE /\ calls = 0 /\ touched = {}

Next ==
  \/ Reload \/ MainCalls \/ ClientCalls
  \/ \E a \in Addresses : DynamicLeaves(a) \/ \E g \in GroupNames : DynamicArrives(a, g)

Spec == Init /\ [][Next]_vars

-----------------------------------------------------------------------------
Server ==
  [running : [Addresses -> Neighbors \cup {Nothing}],
   groups : [GroupNames -> [conf : GroupConfs \cup {Nothing}, members : [Addresses -> Neighbors \cup {Nothing}],
                            prefixes : SUBSET Addresses]],
   dynamic : SUBSET Addresses, unsettled : SUBSET Addresses,
   assigned : [Addresses \cup {Global} -> SUBSET Policies]]

TypeOK ==
  /\ current \in FileType \cup {Nothing} /\ todo \in Seq(Operations) /\ reset \in BOOLEAN
  /\ server \in Server /\ defined \subseteq Policies
  /\ panicked \in BOOLEAN /\ calls \in Nat /\ touched \subseteq Addresses \cup GroupNames

Idle == ~panicked /\ todo = <<>> /\ current # Nothing
NeighborsInFile == {i \in DOMAIN current.neighbors : current.neighbors[i].filled}

\* After any sequence of files, once main has made its calls, every neighbor of the file that no client
\* touched and no call of which failed runs with the settings that a fresh start with the last file would
\* give it, but for those the code leaves until the session is closed and those the API loses; and nothing
\* else that main configured is left running.
FileIsRunning ==
  Idle =>
    /\ \A i \in NeighborsInFile :
         LET n == current.neighbors[i]
             fresh == SetDefaults(NeighborOverApi(n), Nothing)
             now == server.running[n.address]
         IN n.address \notin touched =>
              /\ now # Nothing /\ now.policies = fresh.policies
              /\ \A f \in Fields \ (FrozenFields \cup LostFields) : now.set[f] = fresh.set[f]
    /\ \A a \in Addresses \ touched :
         server.running[a] # Nothing => \E i \in NeighborsInFile : current.neighbors[i].address = a
    /\ \A g \in GroupNames \ touched : server.groups[g].conf # Nothing <=> InFile(current, g)

\* Once main has made its calls the routes of every neighbor it configured alone have passed the policies
\* that apply now: whatever changed them was followed by a soft reset.
PolicyInForce == Idle => server.unsettled \subseteq touched

\* Whatever clients and files do, the group of a neighbor exists, and it knows every neighbor configured
\* with its name, with the settings that decide the session.
GroupsExist ==
  \A a \in Addresses :
    LET n == server.running[a]
    IN n # Nothing /\ n.group # Nothing =>
         /\ server.groups[n.group].conf # Nothing
         /\ a \notin server.dynamic =>
              LET m == server.groups[n.group].members[a] IN m # Nothing /\ ~NeedsResendOpenMessage(n, m)
=============================================================================
