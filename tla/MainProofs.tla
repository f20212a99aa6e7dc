---------------------------- MODULE MainProofs ----------------------------
(***************************************************************************)
(* The safety of the two that follow the configuration file: Configuration *)
(* for any addresses, groups, policies, files and clients' calls, and then *)
(* Agent for any RDs, files and number of networks of one RD.              *)
(*                                                                         *)
(* For Configuration: the operators on its data come first, then what each *)
(* call does to a Good server (one whose neighbors and groups fit), then   *)
(* the calls of main as a list, and last IInv, which adds what main still  *)
(* has to do to the properties: a reset of the routes is ahead of it, or   *)
(* nobody depends on one that is not.  FilesAhead does the same for the    *)
(* last file: what the calls ahead of main say of a neighbor or a group is *)
(* what the file says, and where there is none the server already agrees.  *)
(***************************************************************************)
EXTENDS Agent, Configuration, ListProofs, FiniteSetTheorems

-----------------------------------------------------------------------------
(* Configurations *)

Groupings == GroupConfs \cup {Nothing}

LEMMA AddressType ==
  ASSUME NEW n \in Neighbors
  PROVE  Address(n) \in Addresses
BY DEF Address, Neighbors

LEMMA FilledType ==
  ASSUME NEW set \in [Fields -> Nat]
  PROVE  Filled(set) \in [Fields -> Nat]
<1>1. /\ \A f \in Fields : set[f] \in Nat /\ \A v \in Nat : (IF set[f] = 0 THEN v ELSE set[f]) \in Nat
      /\ {"holdTime", "addPaths", "graceful"} \subseteq Fields
  BY DEF Fields, TimerFields, OpenFields
<1>2. \A n \in Nat : n \div 3 \in Nat
  OBVIOUS
<1>3. LocalAs \in Nat /\ HoldTime \in Nat /\ IdleHoldTime \in Nat
  BY DEF LocalAs, HoldTime, IdleHoldTime
<1> QED
  BY <1>1, <1>2, <1>3 DEF Filled

LEMMA DefaultsType ==
  ASSUME NEW n \in Neighbors, NEW group \in Groupings
  PROVE  /\ SetDefaults(n, group) \in Neighbors
         /\ Address(SetDefaults(n, group)) = Address(n) /\ SetDefaults(n, group).group = n.group
<1> DEFINE m == OverwriteConfig(n, group)
<1>1. m \in Neighbors /\ m.address = n.address /\ m.state = n.state /\ m.group = n.group
  <2>1. CASE group = Nothing
    BY <2>1 DEF OverwriteConfig
  <2>2. CASE group # Nothing
    <3>1. group \in GroupConfs
      BY <2>2 DEF Groupings
    <3>2. [f \in Fields |-> IF f \in NotOfGroups THEN n.set[f] ELSE group.set[f]] \in [Fields -> Nat]
      BY <3>1 DEF Neighbors, GroupConfs
    <3>3. group.policies \in SUBSET Policies
      BY <3>1 DEF GroupConfs
    <3> QED
      BY <2>2, <3>2, <3>3 DEF OverwriteConfig, Neighbors
  <2> QED
    BY <2>1, <2>2
<1>2. Filled(m.set) \in [Fields -> Nat]
  BY <1>1, FilledType DEF Neighbors
<1> HIDE DEF m
<1>3. CASE n.filled
  BY <1>3 DEF SetDefaults
<1>4. CASE ~n.filled
  <2>1. PICK state \in Addresses \cup {Nothing} :
          state = (IF n.state = Nothing THEN n.address ELSE n.state) /\ state # Nothing
    BY NamesAssumption DEF Neighbors
  <2>2. PICK set \in [Fields -> Nat] : set = Filled(m.set)
    BY <1>2
  <2>3. SetDefaults(n, group) = [m EXCEPT !.set = set, !.filled = TRUE, !.state = state]
    BY <1>4, <2>1, <2>2 DEF SetDefaults, m
  <2>4. [m EXCEPT !.set = set, !.filled = TRUE, !.state = state] \in Neighbors
    BY <1>1 DEF Neighbors
  <2>5. /\ [m EXCEPT !.set = set, !.filled = TRUE, !.state = state].state = state
        /\ [m EXCEPT !.set = set, !.filled = TRUE, !.state = state].group = n.group
    BY <1>1 DEF Neighbors
  <2> QED
    BY <2>1, <2>3, <2>4, <2>5 DEF Address
<1> QED
  BY <1>3, <1>4

LEMMA OverApiType ==
  /\ \A n \in Neighbors : /\ NeighborOverApi(n) \in Neighbors
                          /\ Address(NeighborOverApi(n)) = Address(n) /\ NeighborOverApi(n).group = n.group
  /\ \A g \in GroupConfs : GroupOverApi(g) \in GroupConfs /\ GroupOverApi(g).name = g.name
<1>1. \A set \in [Fields -> Nat] : \A lost : [f \in Fields |-> IF f \in lost THEN 0 ELSE set[f]] \in [Fields -> Nat]
  OBVIOUS
<1>2. ASSUME NEW n \in Neighbors
      PROVE  /\ NeighborOverApi(n) \in Neighbors
             /\ Address(NeighborOverApi(n)) = Address(n) /\ NeighborOverApi(n).group = n.group
  <2>1. PICK set \in [Fields -> Nat] : set = [f \in Fields |-> IF f \in LostFields THEN 0 ELSE n.set[f]]
    BY <1>1 DEF Neighbors
  <2>2. NeighborOverApi(n) = [[n EXCEPT !.set = set] EXCEPT !.filled = FALSE]
    BY <2>1 DEF NeighborOverApi, Dropping
  <2> QED
    BY <2>2 DEF Neighbors, Address
<1>3. ASSUME NEW g \in GroupConfs
      PROVE  GroupOverApi(g) \in GroupConfs /\ GroupOverApi(g).name = g.name
  <2>1. PICK set \in [Fields -> Nat] : set = [f \in Fields |-> IF f \in LostInGroups THEN 0 ELSE g.set[f]]
    BY <1>1 DEF GroupConfs
  <2>2. GroupOverApi(g) = [g EXCEPT !.set = set]
    BY <2>1 DEF GroupOverApi, Dropping
  <2> QED
    BY <2>2 DEF GroupConfs
<1> QED
  BY <1>2, <1>3
-----------------------------------------------------------------------------
(* The server *)

Runnable == Neighbors \cup {Nothing}
Groups == [conf : GroupConfs \cup {Nothing}, members : [Addresses -> Runnable], prefixes : SUBSET Addresses]
Ids == Addresses \cup {Global}

LEMMA ServerParts ==
  ASSUME NEW s \in Server
  PROVE  /\ s.running \in [Addresses -> Runnable] /\ s.groups \in [GroupNames -> Groups]
         /\ s.dynamic \in SUBSET Addresses /\ s.unsettled \in SUBSET Addresses
         /\ s.assigned \in [Ids -> SUBSET Policies]
BY DEF Server, Runnable, Groups, Ids

LEMMA GroupParts ==
  ASSUME NEW s \in Server, NEW g \in GroupNames
  PROVE  /\ s.groups[g] \in Groups
         /\ s.groups[g].conf \in Groupings /\ s.groups[g].members \in [Addresses -> Runnable]
         /\ s.groups[g].prefixes \in SUBSET Addresses
BY ServerParts DEF Groups, Groupings

LEMMA NoFileIsNothing == \A f \in FileType : f # Nothing
BY NamesAssumption

LEMMA NotNothing ==
  /\ \A n \in Neighbors : n # Nothing
  /\ \A g \in GroupConfs : g # Nothing
  /\ \A a \in Addresses : a # Nothing /\ a # Global
  /\ \A g \in GroupNames : g # Nothing
BY NamesAssumption

\* A server with some of its parts replaced.
LEMMA ServerIs ==
  Server = [running : [Addresses -> Runnable], groups : [GroupNames -> Groups], dynamic : SUBSET Addresses,
            unsettled : SUBSET Addresses, assigned : [Ids -> SUBSET Policies]]
BY DEF Server, Runnable, Groups, Ids

LEMMA WithGroups ==
  ASSUME NEW s \in Server, NEW gr \in [GroupNames -> Groups], NEW t, t = [s EXCEPT !.groups = gr]
  PROVE  /\ t \in Server /\ t.groups = gr
         /\ t.running = s.running /\ t.dynamic = s.dynamic /\ t.unsettled = s.unsettled
BY ServerIs DEF Ids

RunsAs(s, a, n) == [s EXCEPT !.running[a] = n]
Placed(s, a, n) == [s EXCEPT !.running[a] = n, !.dynamic = @ \ {a}, !.unsettled = @ \ {a}]
PlacedDynamic(s, a, n) == [s EXCEPT !.running[a] = n, !.dynamic = @ \cup {a}]

LEMMA WithNeighbor ==
  ASSUME NEW s \in Server, NEW a \in Addresses, NEW n \in Runnable,
         NEW t, t = Placed(s, a, n)
  PROVE  /\ t \in Server /\ t.groups = s.groups /\ t.running = [s.running EXCEPT ![a] = n]
         /\ t.dynamic = s.dynamic \ {a} /\ t.unsettled = s.unsettled \ {a}
BY ServerIs DEF Ids, Placed, PlacedDynamic

LEMMA WithDynamic ==
  ASSUME NEW s \in Server, NEW a \in Addresses, NEW n \in Runnable,
         NEW t, t = PlacedDynamic(s, a, n)
  PROVE  /\ t \in Server /\ t.groups = s.groups /\ t.running = [s.running EXCEPT ![a] = n]
         /\ t.dynamic = s.dynamic \cup {a} /\ t.unsettled = s.unsettled
BY ServerIs DEF Ids, Placed, PlacedDynamic

LEMMA WithRunning ==
  ASSUME NEW s \in Server, NEW a \in Addresses, NEW n \in Runnable, NEW t, t = RunsAs(s, a, n)
  PROVE  /\ t \in Server /\ t.groups = s.groups /\ t.running = [s.running EXCEPT ![a] = n]
         /\ t.dynamic = s.dynamic /\ t.unsettled = s.unsettled
BY ServerIs DEF Ids, RunsAs

LEMMA WithUnsettled ==
  ASSUME NEW s \in Server, NEW un \in SUBSET Addresses, NEW t, t = [s EXCEPT !.unsettled = un]
  PROVE  /\ t \in Server /\ t.groups = s.groups /\ t.running = s.running
         /\ t.dynamic = s.dynamic /\ t.unsettled = un
BY ServerIs DEF Ids

LEMMA SetPeerPolicyFacts ==
  ASSUME NEW s \in Server, NEW id \in Ids, NEW names \in SUBSET Policies, NEW t, t = SetPeerPolicy(s, id, names)
  PROVE  /\ t \in Server /\ t.running = s.running /\ t.groups = s.groups
         /\ t.dynamic = s.dynamic /\ t.unsettled = s.unsettled
BY ServerIs DEF SetPeerPolicy

\* The members of the groups after a neighbor was added or deleted.
WithMember(groups, g, a, n) == [groups EXCEPT ![g].members[a] = n]

LEMMA WithMemberIs ==
  ASSUME NEW gr \in [GroupNames -> Groups], NEW g \in GroupNames, NEW a \in Addresses, NEW n \in Runnable
  PROVE  \E m \in [Addresses -> Runnable], grp \in Groups :
           /\ m = [gr[g].members EXCEPT ![a] = n]
           /\ grp = [conf |-> gr[g].conf, members |-> m, prefixes |-> gr[g].prefixes]
           /\ WithMember(gr, g, a, n) = [gr EXCEPT ![g] = grp]
<1>1. PICK m \in [Addresses -> Runnable] : m = [gr[g].members EXCEPT ![a] = n]
  BY DEF Groups
<1>2. PICK grp \in Groups : grp = [conf |-> gr[g].conf, members |-> m, prefixes |-> gr[g].prefixes]
  BY DEF Groups
<1>3. WithMember(gr, g, a, n) = [gr EXCEPT ![g] = [gr[g] EXCEPT !.members = [gr[g].members EXCEPT ![a] = n]]]
  BY DEF WithMember
<1>4. [gr[g] EXCEPT !.members = m] = grp
  BY <1>2 DEF Groups
<1> QED
  BY <1>1, <1>2, <1>3, <1>4

LEMMA WithMemberType ==
  ASSUME NEW gr \in [GroupNames -> Groups], NEW g \in GroupNames, NEW a \in Addresses, NEW n \in Runnable
  PROVE  WithMember(gr, g, a, n) \in [GroupNames -> Groups]
<1>1. PICK grp \in Groups : WithMember(gr, g, a, n) = [gr EXCEPT ![g] = grp]
  BY WithMemberIs
<1> QED
  BY <1>1

LEMMA WithMemberFacts ==
  ASSUME NEW gr \in [GroupNames -> Groups], NEW g \in GroupNames, NEW a \in Addresses, NEW n \in Runnable,
         NEW h \in GroupNames
  PROVE  /\ WithMember(gr, g, a, n)[h].conf = gr[h].conf
         /\ WithMember(gr, g, a, n)[h].prefixes = gr[h].prefixes
         /\ \A b \in Addresses :
              WithMember(gr, g, a, n)[h].members[b] = IF h = g /\ b = a THEN n ELSE gr[h].members[b]
<1>1. PICK m \in [Addresses -> Runnable], grp \in Groups :
        /\ m = [gr[g].members EXCEPT ![a] = n]
        /\ grp = [conf |-> gr[g].conf, members |-> m, prefixes |-> gr[g].prefixes]
        /\ WithMember(gr, g, a, n) = [gr EXCEPT ![g] = grp]
  BY WithMemberIs
<1>2. WithMember(gr, g, a, n)[h] = IF h = g THEN grp ELSE gr[h]
  BY <1>1
<1>3. grp.conf = gr[g].conf /\ grp.prefixes = gr[g].prefixes /\ grp.members = m
  BY <1>1
<1>4. \A b \in Addresses : m[b] = IF b = a THEN n ELSE gr[g].members[b]
  BY <1>1 DEF Groups
<1> QED
  BY <1>2, <1>3, <1>4

-----------------------------------------------------------------------------
(* What holds of every server, neighbor by neighbor, and what an operation  *)
(* on some neighbors leaves of the others.                                  *)

\* A neighbor runs under its address; its group exists and knows it; a group keeps its members under
\* their addresses.
Fits(s, a) ==
  /\ s.running[a] # Nothing =>
       /\ Address(s.running[a]) = a
       /\ s.running[a].group # Nothing =>
            /\ s.groups[s.running[a].group].conf # Nothing
            /\ a \notin s.dynamic =>
                 /\ s.groups[s.running[a].group].members[a] # Nothing
                 /\ ~NeedsResendOpenMessage(s.running[a], s.groups[s.running[a].group].members[a])
  /\ \A g \in GroupNames :
       s.groups[g].members[a] # Nothing =>
         Address(s.groups[g].members[a]) = a /\ s.groups[g].members[a].group = g
Good(s) ==
  /\ s \in Server
  /\ \A a \in Addresses : Fits(s, a)
  /\ \A g \in GroupNames : s.groups[g].prefixes # {} => s.groups[g].conf # Nothing

\* From s to t nothing changed but neighbors in A.
OnlyIn(s, t, A) ==
  /\ \A a \in Addresses \ A : /\ t.running[a] = s.running[a] /\ (a \in t.dynamic <=> a \in s.dynamic)
                              /\ \A g \in GroupNames : t.groups[g].members[a] = s.groups[g].members[a]
  /\ \A g \in GroupNames : t.groups[g].conf = s.groups[g].conf /\ t.groups[g].prefixes = s.groups[g].prefixes
  /\ t.unsettled \subseteq s.unsettled \cup A
\* Nothing runs and nothing is a member that did not or was not before.
NoneRuns(s, t) == \A a \in Addresses : t.running[a] # Nothing => s.running[a] # Nothing
NoneJoins(s, t) ==
  \A g \in GroupNames, a \in Addresses : t.groups[g].members[a] # Nothing => s.groups[g].members[a] # Nothing

LEMMA OnlyInSelf ==
  ASSUME NEW s \in Server, NEW A
  PROVE  OnlyIn(s, s, A) /\ NoneRuns(s, s) /\ NoneJoins(s, s)
BY DEF OnlyIn, NoneRuns, NoneJoins

LEMMA OnlyInAgain ==
  ASSUME NEW s \in Server, NEW t \in Server, NEW u \in Server, NEW A, OnlyIn(s, t, A), OnlyIn(t, u, A)
  PROVE  OnlyIn(s, u, A)
BY DEF OnlyIn

\* What Fits reads of a server has not changed, but for a group that has a configuration now.
LEMMA FitsTheSame ==
  ASSUME NEW s, NEW t, NEW a, Fits(s, a), s.running[a] \in Runnable, t.running[a] = s.running[a],
         a \in t.dynamic <=> a \in s.dynamic,
         \A g \in GroupNames : /\ t.groups[g].members[a] = s.groups[g].members[a]
                               /\ s.groups[g].conf # Nothing => t.groups[g].conf # Nothing
  PROVE  Fits(t, a)
<1>1. PICK r : r = s.running[a] /\ r = t.running[a]
  OBVIOUS
<1>2. \A g \in GroupNames : t.groups[g].members[a] # Nothing =>
        Address(t.groups[g].members[a]) = a /\ t.groups[g].members[a].group = g
  BY DEF Fits
<1>3. CASE r = Nothing
  BY <1>1, <1>2, <1>3 DEF Fits
<1>4. CASE r # Nothing /\ r.group = Nothing
  <2>1. Address(r) = a
    BY <1>1, <1>4 DEF Fits
  <2> QED
    BY <1>1, <1>2, <1>4, <2>1 DEF Fits
<1>5. CASE r # Nothing /\ r.group # Nothing
  <2>1. PICK g \in GroupNames : g = r.group
    BY <1>1, <1>5 DEF Runnable, Neighbors
  <2>2. /\ Address(r) = a /\ s.groups[g].conf # Nothing
        /\ a \notin s.dynamic => s.groups[g].members[a] # Nothing /\ ~NeedsResendOpenMessage(r, s.groups[g].members[a])
    BY <1>1, <1>5, <2>1 DEF Fits
  <2>3. PICK m : m = s.groups[g].members[a] /\ m = t.groups[g].members[a]
    BY <2>1
  <2>4. /\ t.groups[g].conf # Nothing
        /\ a \notin t.dynamic => m # Nothing /\ ~NeedsResendOpenMessage(r, m)
    BY <2>1, <2>2, <2>3
  <2> QED
    BY <1>1, <1>2, <1>5, <2>1, <2>2, <2>3, <2>4 DEF Fits
<1> QED
  BY <1>3, <1>4, <1>5

LEMMA StaysGood ==
  ASSUME NEW s \in Server, NEW t \in Server, NEW a \in Addresses, Good(s), OnlyIn(s, t, {a}), Fits(t, a)
  PROVE  Good(t)
<1>1. ASSUME NEW b \in Addresses, b # a PROVE Fits(t, b)
  <2>1. /\ Fits(s, b) /\ t.running[b] = s.running[b] /\ (b \in t.dynamic <=> b \in s.dynamic)
        /\ \A g \in GroupNames : t.groups[g].members[b] = s.groups[g].members[b] /\ t.groups[g].conf = s.groups[g].conf
    BY <1>1 DEF Good, OnlyIn
  <2>2. s.running[b] \in Runnable
    BY ServerParts
  <2> QED
    BY <2>1, <2>2, FitsTheSame
<1> QED
  BY <1>1 DEF Good, OnlyIn
-----------------------------------------------------------------------------
(* Operations on one neighbor *)

ResultType == [server : Server, ok : BOOLEAN, reset : BOOLEAN]

LEMMA ResultParts ==
  ASSUME NEW r \in ResultType
  PROVE  r.server \in Server /\ r.ok \in BOOLEAN /\ r.reset \in BOOLEAN
BY DEF ResultType

LEMMA DoneType ==
  ASSUME NEW s \in Server
  PROVE  /\ Done(s) \in ResultType /\ Done(s).server = s /\ Done(s).ok /\ ~Done(s).reset
         /\ Failed(s) \in ResultType /\ Failed(s).server = s /\ ~Failed(s).ok /\ ~Failed(s).reset
BY DEF Done, Failed, ResultType

LEMMA GroupOfType ==
  ASSUME NEW s \in Server, NEW c, c.group \in GroupNames \cup {Nothing}
  PROVE  GroupOf(s, c) \in Groupings
BY GroupParts, NotNothing DEF GroupOf, Groupings

LEMMA NoResend ==
  ASSUME NEW n
  PROVE  ~NeedsResendOpenMessage(n, n)
BY DEF NeedsResendOpenMessage

LEMMA StartIs ==
  ASSUME NEW s \in Server, NEW n \in Neighbors, NEW t, t = Start(s, n), NEW a, a = Address(n)
  PROVE  /\ t \in Server /\ t.running = [s.running EXCEPT ![a] = n]
         /\ t.groups = (IF n.group = Nothing THEN s.groups ELSE WithMember(s.groups, n.group, a, n))
         /\ t.dynamic = s.dynamic \ {a} /\ t.unsettled = s.unsettled \ {a}
<1>1. a \in Addresses /\ a \in Ids
  BY AddressType DEF Ids
<1>2. n.policies \in SUBSET Policies /\ n.group \in GroupNames \cup {Nothing} /\ n \in Runnable
  BY DEF Neighbors, Runnable
<1>3. PICK u : u = SetPeerPolicy(s, a, n.policies)
  OBVIOUS
<1>4. /\ u \in Server /\ u.running = s.running /\ u.groups = s.groups
      /\ u.dynamic = s.dynamic /\ u.unsettled = s.unsettled
  BY <1>1, <1>2, <1>3, SetPeerPolicyFacts
<1>5. PICK v : v = Member(u, n)
  OBVIOUS
<1>6. /\ v \in Server /\ v.running = s.running /\ v.dynamic = s.dynamic /\ v.unsettled = s.unsettled
      /\ v.groups = (IF n.group = Nothing THEN s.groups ELSE WithMember(s.groups, n.group, a, n))
  <2>1. CASE n.group = Nothing
    BY <1>4, <1>5, <2>1 DEF Member
  <2>2. CASE n.group # Nothing
    <3>1. v = [u EXCEPT !.groups = WithMember(u.groups, n.group, a, n)]
      BY <1>5, <2>2 DEF Member, WithMember
    <3>2. n.group \in GroupNames /\ u.groups \in [GroupNames -> Groups]
      BY <1>2, <1>4, <2>2, ServerParts
    <3>3. PICK gr \in [GroupNames -> Groups] : gr = WithMember(u.groups, n.group, a, n)
      BY <1>1, <1>2, <3>2, WithMemberType
    <3>4. v = [u EXCEPT !.groups = gr]
      BY <3>1, <3>3
    <3>5. v \in Server /\ v.groups = gr /\ v.running = u.running /\ v.dynamic = u.dynamic /\ v.unsettled = u.unsettled
      BY <1>4, <3>4, WithGroups
    <3> QED
      BY <1>4, <2>2, <3>3, <3>5
  <2> QED
    BY <2>1, <2>2
<1>7. t = Placed(v, a, n)
  BY <1>3, <1>5 DEF Start, Placed
<1>8. /\ t \in Server /\ t.groups = v.groups /\ t.running = [v.running EXCEPT ![a] = n]
      /\ t.dynamic = v.dynamic \ {a} /\ t.unsettled = v.unsettled \ {a}
  BY <1>1, <1>2, <1>6, <1>7, WithNeighbor
<1> QED
  BY <1>6, <1>8

LEMMA StartFacts ==
  ASSUME NEW s \in Server, NEW n \in Neighbors, NEW t, t = Start(s, n), NEW a, a = Address(n)
  PROVE  /\ t \in Server /\ OnlyIn(s, t, {a}) /\ t.unsettled \subseteq s.unsettled
         /\ t.running[a] = n /\ t.dynamic \subseteq s.dynamic
         /\ n.group = Nothing => NoneJoins(s, t)
         /\ Fits(s, a) /\ (n.group # Nothing => s.groups[n.group].conf # Nothing) => Fits(t, a)
<1>1. a \in Addresses /\ n \in Runnable /\ n.group \in GroupNames \cup {Nothing} /\ n # Nothing
  BY AddressType, NotNothing DEF Runnable, Neighbors
<1>2. /\ t \in Server /\ t.running = [s.running EXCEPT ![a] = n]
      /\ t.groups = (IF n.group = Nothing THEN s.groups ELSE WithMember(s.groups, n.group, a, n))
      /\ t.dynamic = s.dynamic \ {a} /\ t.unsettled = s.unsettled \ {a}
  BY StartIs
<1>3. s.running \in [Addresses -> Runnable] /\ s.groups \in [GroupNames -> Groups]
  BY ServerParts
<1>4. PICK run \in [Addresses -> Runnable] : run = [s.running EXCEPT ![a] = n]
  BY <1>1, <1>3
<1>5. PICK gr : gr = t.groups
  OBVIOUS
<1>6. t.running = run /\ t.groups = gr
  BY <1>2, <1>4, <1>5
<1>7. \A b \in Addresses : run[b] = IF b = a THEN n ELSE s.running[b]
  BY <1>1, <1>3, <1>4
<1>8. \A h \in GroupNames :
        /\ gr[h].conf = s.groups[h].conf /\ gr[h].prefixes = s.groups[h].prefixes
        /\ \A b \in Addresses :
             gr[h].members[b] = IF n.group # Nothing /\ h = n.group /\ b = a THEN n ELSE s.groups[h].members[b]
  <2>1. CASE n.group = Nothing
    BY <1>2, <1>5, <2>1
  <2>2. CASE n.group # Nothing
    <3>1. gr = WithMember(s.groups, n.group, a, n) /\ n.group \in GroupNames
      BY <1>1, <1>2, <1>5, <2>2
    <3>2. \A h \in GroupNames :
            /\ WithMember(s.groups, n.group, a, n)[h].conf = s.groups[h].conf
            /\ WithMember(s.groups, n.group, a, n)[h].prefixes = s.groups[h].prefixes
            /\ \A b \in Addresses : WithMember(s.groups, n.group, a, n)[h].members[b] =
                                      IF h = n.group /\ b = a THEN n ELSE s.groups[h].members[b]
      BY <1>1, <1>3, <3>1, WithMemberFacts
    <3> QED
      BY <2>2, <3>1, <3>2
  <2> QED
    BY <2>1, <2>2
<1>9. OnlyIn(s, t, {a})
  BY <1>2, <1>6, <1>7, <1>8 DEF OnlyIn
<1>10. n.group = Nothing => NoneJoins(s, t)
  BY <1>6, <1>8 DEF NoneJoins
<1>11. ASSUME Fits(s, a), n.group # Nothing => s.groups[n.group].conf # Nothing
       PROVE  Fits(t, a)
  <2>1. t.running[a] = n /\ a \notin t.dynamic
    BY <1>1, <1>2, <1>6, <1>7
  <2>2. n.group # Nothing => t.groups[n.group].conf # Nothing /\ t.groups[n.group].members[a] = n
    BY <1>1, <1>6, <1>8, <1>11
  <2>3. ASSUME NEW g \in GroupNames, t.groups[g].members[a] # Nothing
        PROVE  Address(t.groups[g].members[a]) = a /\ t.groups[g].members[a].group = g
    BY <1>1, <1>6, <1>8, <1>11, <2>3 DEF Fits
  <2> QED
    BY <1>1, <2>1, <2>2, <2>3, NoResend DEF Fits
<1> QED
  BY <1>1, <1>2, <1>6, <1>7, <1>9, <1>10, <1>11
LEMMA AddNeighborFacts ==
  ASSUME NEW s \in Server, NEW c \in Neighbors, NEW r, r = AddNeighbor(s, c), NEW a, a = Address(c)
  PROVE  /\ r \in ResultType /\ OnlyIn(s, r.server, {a}) /\ r.server.unsettled \subseteq s.unsettled
         /\ r.server.dynamic \subseteq s.dynamic /\ (r.ok => r.server.running[a] = SetDefaults(c, GroupOf(s, c)))
         /\ c.group = Nothing => NoneJoins(s, r.server)
         /\ Good(s) => Good(r.server)
<1>1. PICK n : n = SetDefaults(c, GroupOf(s, c))
  OBVIOUS
<1>2. c.group \in GroupNames \cup {Nothing} /\ a \in Addresses
  BY AddressType DEF Neighbors
<1>3. n \in Neighbors /\ Address(n) = a /\ n.group = c.group
  BY <1>1, <1>2, GroupOfType, DefaultsType
<1>4. CASE r = Failed(s)
  BY <1>4, DoneType, OnlyInSelf
<1>5. CASE r = Done(Start(s, n)) /\ ~GroupMissing(s, c)
  <2>1. PICK t : t = Start(s, n)
    OBVIOUS
  <2>2. /\ t \in Server /\ OnlyIn(s, t, {a}) /\ t.unsettled \subseteq s.unsettled
        /\ t.running[a] = n /\ t.dynamic \subseteq s.dynamic
        /\ n.group = Nothing => NoneJoins(s, t)
        /\ Fits(s, a) /\ (n.group # Nothing => s.groups[n.group].conf # Nothing) => Fits(t, a)
    BY <1>3, <2>1, StartFacts
  <2>3. r \in ResultType /\ r.server = t
    BY <1>5, <2>1, <2>2, DoneType
  <2>4. n.group # Nothing => s.groups[n.group].conf # Nothing
    BY <1>3, <1>5 DEF GroupMissing
  <2>5. Good(s) => Good(t)
    BY <1>2, <2>2, <2>4, StaysGood DEF Good
  <2> QED
    BY <1>1, <1>3, <2>2, <2>3, <2>5
<1> QED
  BY <1>1, <1>4, <1>5 DEF AddNeighbor

LEMMA DeleteNeighborFacts ==
  ASSUME NEW s \in Server, NEW c, c.group \in GroupNames \cup {Nothing}, NEW a, a = Address(c),
         a \in Addresses \/ (a = Nothing /\ c.group = Nothing), NEW r, r = DeleteNeighbor(s, c)
  PROVE  /\ r \in ResultType /\ OnlyIn(s, r.server, {a}) /\ r.server.unsettled \subseteq s.unsettled
         /\ NoneJoins(s, r.server) /\ NoneRuns(s, r.server) /\ r.server.dynamic \subseteq s.dynamic
         /\ r.ok => a \in Addresses /\ r.server.running[a] = Nothing
         /\ Good(s) => Good(r.server)
<1>1. PICK t : t = IF c.group = Nothing \/ GroupMissing(s, c) THEN s
                   ELSE [s EXCEPT !.groups = WithMember(s.groups, c.group, a, Nothing)]
  OBVIOUS
<1>2. r = IF a = Nothing \/ s.running[a] = Nothing THEN Failed(t) ELSE Done(Placed(t, a, Nothing))
  BY <1>1 DEF DeleteNeighbor, WithMember, Placed
<1>3. CASE a = Nothing
  BY <1>1, <1>2, <1>3, NotNothing, DoneType, OnlyInSelf
<1>4. CASE a \in Addresses
  <2>1. Nothing \in Runnable /\ s.groups \in [GroupNames -> Groups] /\ s.running \in [Addresses -> Runnable]
    BY ServerParts DEF Runnable
  <2>2. /\ t \in Server /\ t.running = s.running /\ t.dynamic = s.dynamic /\ t.unsettled = s.unsettled
        /\ \A h \in GroupNames : t.groups[h].conf = s.groups[h].conf /\ t.groups[h].prefixes = s.groups[h].prefixes
        /\ \A h \in GroupNames, b \in Addresses :
             t.groups[h].members[b] = s.groups[h].members[b] \/ (b = a /\ t.groups[h].members[b] = Nothing)
    <3>1. CASE c.group = Nothing \/ GroupMissing(s, c)
      BY <1>1, <3>1
    <3>2. CASE c.group # Nothing /\ ~GroupMissing(s, c)
      <4>1. PICK g \in GroupNames : g = c.group
        BY <3>2
      <4>2. PICK gr \in [GroupNames -> Groups] : gr = WithMember(s.groups, g, a, Nothing)
        BY <1>4, <2>1, <4>1, WithMemberType
      <4>3. t = [s EXCEPT !.groups = gr]
        BY <1>1, <3>2, <4>1, <4>2
      <4>4. t \in Server /\ t.groups = gr /\ t.running = s.running /\ t.dynamic = s.dynamic /\ t.unsettled = s.unsettled
        BY <4>3, WithGroups
      <4>5. ASSUME NEW h \in GroupNames
            PROVE  /\ gr[h].conf = s.groups[h].conf /\ gr[h].prefixes = s.groups[h].prefixes
                   /\ \A b \in Addresses :
                        gr[h].members[b] = IF h = g /\ b = a THEN Nothing ELSE s.groups[h].members[b]
        <5>1. PICK none \in Runnable : none = Nothing
          BY <2>1
        <5>2. PICK groups \in [GroupNames -> Groups] : groups = s.groups
          BY <2>1
        <5>3. gr = WithMember(groups, g, a, none)
          BY <4>2, <5>1, <5>2
        <5>4. /\ WithMember(groups, g, a, none)[h].conf = groups[h].conf
              /\ WithMember(groups, g, a, none)[h].prefixes = groups[h].prefixes
              /\ \A b \in Addresses :
                   WithMember(groups, g, a, none)[h].members[b] = IF h = g /\ b = a THEN none ELSE groups[h].members[b]
          BY <1>4, WithMemberFacts
        <5> QED
          BY <5>1, <5>2, <5>3, <5>4
      <4> QED
        BY <4>4, <4>5
    <3> QED
      BY <3>1, <3>2
  <2>3. CASE s.running[a] = Nothing
    <3>1. r \in ResultType /\ r.server = t /\ ~r.ok
      BY <1>2, <2>2, <2>3, DoneType
    <3>2. OnlyIn(s, t, {a}) /\ NoneJoins(s, t) /\ NoneRuns(s, t)
      BY <2>2 DEF OnlyIn, NoneJoins, NoneRuns
    <3>3. Fits(s, a) => Fits(t, a)
      BY <1>4, <2>2, <2>3 DEF Fits
    <3>4. Good(s) => Good(t)
      BY <1>4, <2>2, <3>2, <3>3, StaysGood DEF Good
    <3> QED
      BY <2>2, <3>1, <3>2, <3>4
  <2>4. CASE s.running[a] # Nothing
    <3>1. PICK u : u = Placed(t, a, Nothing)
      OBVIOUS
    <3>2. /\ u \in Server /\ u.groups = t.groups /\ u.running = [t.running EXCEPT ![a] = Nothing]
          /\ u.dynamic = t.dynamic \ {a} /\ u.unsettled = t.unsettled \ {a}
      BY <1>4, <2>1, <2>2, <3>1, WithNeighbor
    <3>3. a # Nothing
      BY <1>4, NotNothing
    <3>4. r \in ResultType /\ r.server = u
      BY <1>2, <2>4, <3>1, <3>2, <3>3, DoneType
    <3>5. \A b \in Addresses : u.running[b] = IF b = a THEN Nothing ELSE s.running[b]
      BY <1>4, <2>1, <2>2, <3>2
    <3>6. OnlyIn(s, u, {a}) /\ NoneJoins(s, u) /\ NoneRuns(s, u)
      BY <2>2, <3>2, <3>5 DEF OnlyIn, NoneJoins, NoneRuns
    <3>7. Fits(s, a) => Fits(u, a)
      BY SMTT(30), <1>4, <2>2, <3>2, <3>5 DEF Fits
    <3>8. Good(s) => Good(u)
      BY <1>4, <3>2, <3>6, <3>7, StaysGood DEF Good
    <3> QED
      BY <1>4, <2>2, <3>2, <3>4, <3>5, <3>6, <3>8
  <2> QED
    BY <2>3, <2>4
<1> QED
  BY <1>3, <1>4
\* A neighbor's own policies.
Repoliced(s, a, ps) == [s EXCEPT !.running[a].policies = ps, !.unsettled = @ \cup {a}]

LEMMA WithPolicies ==
  ASSUME NEW s \in Server, NEW a \in Addresses, s.running[a] \in Neighbors, NEW ps \in SUBSET Policies,
         NEW t, t = Repoliced(s, a, ps)
  PROVE  /\ t \in Server /\ t.groups = s.groups /\ t.dynamic = s.dynamic /\ t.unsettled = s.unsettled \cup {a}
         /\ t.running[a] \in Neighbors /\ Address(t.running[a]) = Address(s.running[a])
         /\ t.running[a].group = s.running[a].group /\ t.running[a].set = s.running[a].set
         /\ t.running[a].policies = ps
         /\ \A b \in Addresses : b # a => t.running[b] = s.running[b]
<1>1. s.running \in [Addresses -> Runnable] /\ s.unsettled \cup {a} \in SUBSET Addresses
  BY ServerParts
<1>2. PICK m \in Neighbors : m = [s.running[a] EXCEPT !.policies = ps]
  BY DEF Neighbors
<1>3. PICK un \in SUBSET Addresses : un = s.unsettled \cup {a}
  BY <1>1
<1>4. t = [s EXCEPT !.running[a] = m, !.unsettled = un]
  BY <1>2, <1>3 DEF Repoliced
<1>5. m \in Runnable
  BY DEF Runnable
<1>6. /\ t \in Server /\ t.groups = s.groups /\ t.dynamic = s.dynamic /\ t.unsettled = un
      /\ t.running = [s.running EXCEPT ![a] = m]
  <2>1. PICK run \in [Addresses -> Runnable] : run = [s.running EXCEPT ![a] = m]
    BY <1>1, <1>5
  <2>2. t = [s EXCEPT !.running = run, !.unsettled = un]
    BY <1>4, <2>1
  <2> QED
    BY <2>1, <2>2, ServerIs
<1>7. m.address = s.running[a].address /\ m.state = s.running[a].state /\ m.group = s.running[a].group
      /\ m.set = s.running[a].set /\ m.policies = ps
  BY <1>2 DEF Neighbors
<1> QED
  BY <1>1, <1>3, <1>6, <1>7 DEF Address

LEMMA UpdateLiveFacts ==
  ASSUME NEW old \in Neighbors, NEW new \in Neighbors, NEW m, m = UpdateLive(old, new)
  PROVE  /\ m \in Neighbors /\ Address(m) = Address(old) /\ m.group = old.group
         /\ m.policies = old.policies /\ \A f \in TimerFields \cup FamilyFields : m.set[f] = new.set[f]
         /\ (\A f \in OpenFields : old.set[f] = new.set[f]) => \A f \in OpenFields : m.set[f] = old.set[f]
<1>1. PICK set \in [Fields -> Nat] :
        set = [f \in Fields |-> IF f \in TimerFields \cup FamilyFields THEN new.set[f] ELSE old.set[f]]
  BY DEF Neighbors
<1>2. m = [old EXCEPT !.set = set]
  BY <1>1 DEF UpdateLive
<1>3. /\ m \in Neighbors /\ m.address = old.address /\ m.state = old.state /\ m.group = old.group /\ m.set = set
      /\ m.policies = old.policies
  BY <1>2 DEF Neighbors
<1>4. OpenFields \subseteq Fields /\ TimerFields \cup FamilyFields \subseteq Fields
  BY DEF Fields
<1>5. (\A f \in OpenFields : old.set[f] = new.set[f]) => \A f \in OpenFields : set[f] = old.set[f]
  BY <1>1, <1>4
<1> QED
  BY <1>1, <1>3, <1>4, <1>5 DEF Address

\* An update without a group leaves a neighbor with the defaults, or with what it had and the settings that
\* change while the session is up.
Took(now, c) ==
  \/ now = SetDefaults(c, Nothing)
  \/ /\ now # Nothing /\ now.policies = c.policies
     /\ \A f \in OpenFields \cup TimerFields \cup FamilyFields : now.set[f] = c.set[f]

LEMMA UpdateNeighborFacts ==
  ASSUME NEW s, Good(s), NEW c \in Neighbors, NEW r, r = UpdateNeighbor(s, c), NEW a, a = Address(c)
  PROVE  /\ r \in ResultType /\ OnlyIn(s, r.server, {a}) /\ NoneRuns(s, r.server)
         /\ r.server.unsettled \subseteq s.unsettled \/ r.reset
         /\ c.group = Nothing => NoneJoins(s, r.server)
         /\ Good(r.server) /\ r.server.dynamic \subseteq s.dynamic
         /\ r.ok /\ c.group = Nothing => Took(r.server.running[a], c)
<1>0. s \in Server /\ a \in Addresses /\ Fits(s, a)
  BY AddressType DEF Good
<1>1. PICK n : n = IF c.group = Nothing THEN c ELSE SetDefaults(c, GroupOf(s, c))
  OBVIOUS
<1>2. c.group \in GroupNames \cup {Nothing}
  BY DEF Neighbors
<1>3. n \in Neighbors /\ Address(n) = a /\ n.group = c.group
  BY <1>0, <1>1, <1>2, GroupOfType, DefaultsType
<1>4. PICK old : old = s.running[a]
  OBVIOUS
<1>5. CASE r = Failed(s)
  BY <1>0, <1>5, DoneType, OnlyInSelf
<1>6. CASE r # Failed(s)
  <2>1. PICK t : t = IF old.policies # n.policies THEN Repoliced(SetPeerPolicy(s, a, n.policies), a, n.policies) ELSE s
    OBVIOUS
  <2>2. PICK u : u = IF NeedsResendOpenMessage(old, n)
                     THEN AddNeighbor(DeleteNeighbor(t, t.running[a]).server, n)
                     ELSE Done([t EXCEPT !.running[a] = UpdateLive(t.running[a], n)])
    OBVIOUS
  <2>3. /\ old # Nothing
        /\ r = [u EXCEPT !.reset = (old.policies # n.policies) \/ old.set["allowOwnAs"] # n.set["allowOwnAs"]]
    <3> DEFINE N == IF c.group = Nothing THEN c ELSE SetDefaults(c, GroupOf(s, c))
               Old == s.running[Address(N)]
               T == IF Old.policies # N.policies
                    THEN Repoliced(SetPeerPolicy(s, Address(N), N.policies), Address(N), N.policies) ELSE s
               U == IF NeedsResendOpenMessage(Old, N)
                    THEN AddNeighbor(DeleteNeighbor(T, T.running[Address(N)]).server, N)
                    ELSE Done([T EXCEPT !.running[Address(N)] = UpdateLive(T.running[Address(N)], N)])
    <3>1. r = IF \/ GroupMissing(s, c) \/ (c.group # Nothing /\ DefaultsFail(c, GroupOf(s, c))) \/ Old = Nothing
              THEN Failed(s)
              ELSE [U EXCEPT !.reset = Old.policies # N.policies \/ Old.set["allowOwnAs"] # N.set["allowOwnAs"]]
      BY DEF UpdateNeighbor, Repoliced
    <3>2. N = n
      BY <1>1
    <3> HIDE DEF N
    <3>3. Address(N) = a /\ Old = old
      BY <1>3, <1>4, <3>2
    <3> HIDE DEF Old
    <3>4. T = t
      BY <2>1, <3>2, <3>3
    <3> HIDE DEF T
    <3>5. U = u
      BY <2>2, <3>2, <3>3, <3>4
    <3> HIDE DEF U
    <3> QED
      BY <1>6, <3>1, <3>2, <3>3, <3>5
  <2>4. old \in Neighbors
    BY <1>0, <1>4, <2>3, ServerParts DEF Runnable
  <2>5. /\ t \in Server /\ t.running[a] \in Neighbors /\ OnlyIn(s, t, {a}) /\ NoneJoins(s, t) /\ Fits(t, a)
        /\ t.running[a].set = old.set /\ t.running[a].group = old.group
        /\ t.running[a].policies = n.policies /\ t.dynamic = s.dynamic
        /\ old.policies = n.policies => t.unsettled = s.unsettled
    <3>1. CASE old.policies = n.policies
      BY <1>0, <1>4, <2>1, <2>4, <3>1, OnlyInSelf
    <3>2. CASE old.policies # n.policies
      <4>1. PICK w : w = SetPeerPolicy(s, a, n.policies)
        OBVIOUS
      <4>2. a \in Ids /\ n.policies \in SUBSET Policies
        BY <1>0, <1>3 DEF Ids, Neighbors
      <4>3. /\ w \in Server /\ w.running = s.running /\ w.groups = s.groups
            /\ w.dynamic = s.dynamic /\ w.unsettled = s.unsettled
        BY <1>0, <4>1, <4>2, SetPeerPolicyFacts
      <4>4. t = Repoliced(w, a, n.policies) /\ w.running[a] \in Neighbors
        BY <1>4, <2>1, <2>4, <3>2, <4>1, <4>3
      <4>5. /\ t \in Server /\ t.groups = w.groups /\ t.dynamic = w.dynamic /\ t.unsettled = w.unsettled \cup {a}
            /\ t.running[a] \in Neighbors /\ Address(t.running[a]) = Address(w.running[a])
            /\ t.running[a].group = w.running[a].group /\ t.running[a].set = w.running[a].set
            /\ t.running[a].policies = n.policies
            /\ \A b \in Addresses : b # a => t.running[b] = w.running[b]
        BY <1>0, <4>2, <4>3, <4>4, WithPolicies
      <4>6. OnlyIn(s, t, {a}) /\ NoneJoins(s, t)
        BY <4>3, <4>5 DEF OnlyIn, NoneJoins
      <4>7. t.running[a].group = old.group /\ t.running[a].set = old.set /\ Address(t.running[a]) = Address(old)
        BY <1>4, <4>3, <4>5
      <4>8. Fits(t, a)
        <5>1. \A m : NeedsResendOpenMessage(t.running[a], m) <=> NeedsResendOpenMessage(old, m)
          BY <4>7 DEF NeedsResendOpenMessage
        <5>2. t.groups = s.groups /\ t.dynamic = s.dynamic
          BY <4>3, <4>5
        <5> QED
          BY <1>0, <1>4, <2>3, <4>7, <5>1, <5>2 DEF Fits
      <4> QED
        BY <3>2, <4>3, <4>5, <4>6, <4>7, <4>8
    <3> QED
      BY <3>1, <3>2
  <2>6. Good(t) /\ Address(t.running[a]) = a
    BY <1>0, <2>5, StaysGood, NotNothing DEF Fits
  <2>7. /\ u \in ResultType /\ OnlyIn(t, u.server, {a}) /\ u.server.unsettled \subseteq t.unsettled
        /\ c.group = Nothing => NoneJoins(t, u.server)
        /\ Good(u.server) /\ u.server.dynamic \subseteq t.dynamic
        /\ u.ok /\ c.group = Nothing => Took(u.server.running[a], c)
    <3>1. CASE NeedsResendOpenMessage(old, n)
      <4>1. PICK dn : dn = DeleteNeighbor(t, t.running[a])
        OBVIOUS
      <4>2. t.running[a].group \in GroupNames \cup {Nothing}
        BY <2>5 DEF Neighbors
      <4>3. /\ dn \in ResultType /\ OnlyIn(t, dn.server, {a}) /\ dn.server.unsettled \subseteq t.unsettled
            /\ NoneJoins(t, dn.server) /\ Good(dn.server) /\ dn.server.dynamic \subseteq t.dynamic
        BY <1>0, <2>5, <2>6, <4>1, <4>2, DeleteNeighborFacts
      <4>4. dn.server \in Server
        BY <4>3, ResultParts
      <4>5. u = AddNeighbor(dn.server, n)
        BY <2>2, <3>1, <4>1
      <4>6. /\ u \in ResultType /\ OnlyIn(dn.server, u.server, {a}) /\ u.server.unsettled \subseteq dn.server.unsettled
            /\ n.group = Nothing => NoneJoins(dn.server, u.server)
            /\ Good(u.server) /\ u.server.dynamic \subseteq dn.server.dynamic
            /\ u.ok => u.server.running[a] = SetDefaults(n, GroupOf(dn.server, n))
        BY SMTT(30), <1>3, <4>3, <4>4, <4>5, AddNeighborFacts
      <4>7. u.server \in Server
        BY <4>6, ResultParts
      <4>8. OnlyIn(t, u.server, {a})
        BY <2>5, <4>3, <4>4, <4>6, <4>7, OnlyInAgain
      <4>9. c.group = Nothing => NoneJoins(t, u.server)
        BY <1>3, <4>3, <4>6 DEF NoneJoins
      <4> QED
        <5>1. c.group = Nothing => n = c /\ GroupOf(dn.server, n) = Nothing
          BY <1>1, <1>3 DEF GroupOf
        <5> QED
          BY <4>3, <4>6, <4>8, <4>9, <5>1 DEF Took
    <3>2. CASE ~NeedsResendOpenMessage(old, n)
      <4>1. PICK m : m = UpdateLive(t.running[a], n)
        OBVIOUS
      <4>2. \A f \in OpenFields : old.set[f] = n.set[f]
        BY <3>2 DEF NeedsResendOpenMessage
      <4>3. /\ m \in Neighbors /\ Address(m) = a /\ m.group = old.group
            /\ \A f \in OpenFields : m.set[f] = old.set[f]
            /\ m.policies = n.policies /\ \A f \in TimerFields \cup FamilyFields : m.set[f] = n.set[f]
        BY <1>3, <2>5, <2>6, <4>1, <4>2, UpdateLiveFacts
      <4>4. PICK v : v = RunsAs(t, a, m)
        OBVIOUS
      <4>5. m \in Runnable /\ m # Nothing
        BY <4>3, NotNothing DEF Runnable
      <4>6. /\ v \in Server /\ v.groups = t.groups /\ v.running = [t.running EXCEPT ![a] = m]
            /\ v.dynamic = t.dynamic /\ v.unsettled = t.unsettled
        BY <1>0, <2>5, <4>4, <4>5, WithRunning
      <4>7. \A b \in Addresses : v.running[b] = IF b = a THEN m ELSE t.running[b]
        BY <1>0, <2>5, <4>6, ServerParts
      <4>8. OnlyIn(t, v, {a}) /\ NoneJoins(t, v)
        BY <4>6, <4>7 DEF OnlyIn, NoneJoins
      <4>9. Fits(v, a)
        <5>1. \A x : NeedsResendOpenMessage(m, x) <=> NeedsResendOpenMessage(t.running[a], x)
          BY <2>5, <4>3 DEF NeedsResendOpenMessage
        <5>2. v.running[a] = m /\ m.group = t.running[a].group /\ Address(m) = a
          BY <1>0, <2>5, <4>3, <4>7
        <5>3. t.running[a] # Nothing
          BY <2>5, NotNothing
        <5> QED
          BY <2>5, <4>6, <5>1, <5>2, <5>3 DEF Fits
      <4>10. Good(v)
        BY <1>0, <2>5, <2>6, <4>6, <4>8, <4>9, StaysGood
      <4>11. u = Done(v)
        BY <2>2, <3>2, <4>1, <4>4 DEF RunsAs
      <4> QED
        <5>1. c.group = Nothing => Took(m, c)
          BY <1>1, <4>2, <4>3, <4>5 DEF Took
        <5>2. v.running[a] = m
          BY <1>0, <4>7
        <5> QED
          BY <4>6, <4>8, <4>10, <4>11, <5>1, <5>2, DoneType
    <3> QED
      BY <3>1, <3>2
  <2>8. /\ r \in ResultType /\ r.server = u.server /\ r.ok = u.ok
        /\ old.policies = n.policies \/ r.reset
    BY <2>3, <2>7 DEF ResultType
  <2>9. OnlyIn(s, r.server, {a})
    BY <1>0, <2>5, <2>7, <2>8, OnlyInAgain, ResultParts
  <2>10. NoneRuns(s, r.server)
    BY <1>4, <2>3, <2>9 DEF NoneRuns, OnlyIn
  <2>11. c.group = Nothing => NoneJoins(s, r.server)
    BY <2>5, <2>7, <2>8 DEF NoneJoins
  <2> QED
    BY <2>5, <2>7, <2>8, <2>9, <2>10, <2>11
<1> QED
  BY <1>5, <1>6
-----------------------------------------------------------------------------
(* Operations on groups *)

GroupSet(s, h, grp) == [s EXCEPT !.groups = [@ EXCEPT ![h] = grp]]

LEMMA WithGroup ==
  ASSUME NEW s \in Server, NEW h \in GroupNames, NEW grp \in Groups, NEW t, t = GroupSet(s, h, grp)
  PROVE  /\ t \in Server /\ t.running = s.running /\ t.dynamic = s.dynamic /\ t.unsettled = s.unsettled
         /\ t.groups[h] = grp /\ \A k \in GroupNames : k # h => t.groups[k] = s.groups[k]
<1>1. s.groups \in [GroupNames -> Groups]
  BY ServerParts
<1>2. PICK gr \in [GroupNames -> Groups] : gr = [s.groups EXCEPT ![h] = grp]
  BY <1>1
<1>3. t = [s EXCEPT !.groups = gr]
  BY <1>2 DEF GroupSet
<1>4. t \in Server /\ t.groups = gr /\ t.running = s.running /\ t.dynamic = s.dynamic /\ t.unsettled = s.unsettled
  BY <1>3, WithGroups
<1> QED
  BY <1>1, <1>2, <1>4

\* A group that keeps its members and exists,
LEMMA GroupKeepsMembers ==
  ASSUME NEW s, Good(s), NEW h \in GroupNames, NEW grp \in Groups, NEW t, t = GroupSet(s, h, grp),
         grp.members = s.groups[h].members, grp.conf # Nothing
  PROVE  Good(t)
<1>1. s \in Server /\ (\A a \in Addresses : Fits(s, a))
      /\ \A g \in GroupNames : s.groups[g].prefixes # {} => s.groups[g].conf # Nothing
  BY DEF Good
<1>2. /\ t \in Server /\ t.running = s.running /\ t.dynamic = s.dynamic
      /\ t.groups[h] = grp /\ \A k \in GroupNames : k # h => t.groups[k] = s.groups[k]
  BY <1>1, WithGroup
<1>3. \A k \in GroupNames : /\ t.groups[k].members = s.groups[k].members
                            /\ s.groups[k].conf # Nothing => t.groups[k].conf # Nothing
  BY <1>2
<1>4. ASSUME NEW a \in Addresses PROVE Fits(t, a)
  <2>1. Fits(s, a) /\ s.running[a] \in Runnable /\ t.running[a] = s.running[a] /\ (a \in t.dynamic <=> a \in s.dynamic)
    BY <1>1, <1>2, ServerParts
  <2>2. \A k \in GroupNames : /\ t.groups[k].members[a] = s.groups[k].members[a]
                              /\ s.groups[k].conf # Nothing => t.groups[k].conf # Nothing
    BY <1>3
  <2> QED
    BY <2>1, <2>2, FitsTheSame
<1>5. \A k \in GroupNames : t.groups[k].prefixes # {} => t.groups[k].conf # Nothing
  BY <1>1, <1>2
<1> QED
  BY <1>2, <1>4, <1>5 DEF Good

\* ... and one that has none and that no neighbor that runs names.
LEMMA GroupHasNoMembers ==
  ASSUME NEW s, Good(s), NEW h \in GroupNames, NEW grp \in Groups, NEW t, t = GroupSet(s, h, grp),
         \A a \in Addresses : grp.members[a] = Nothing, grp.prefixes = {},
         \A a \in Addresses : s.running[a] # Nothing => s.running[a].group # h
  PROVE  Good(t)
<1>1. s \in Server /\ (\A a \in Addresses : Fits(s, a))
      /\ \A g \in GroupNames : s.groups[g].prefixes # {} => s.groups[g].conf # Nothing
  BY DEF Good
<1>2. /\ t \in Server /\ t.running = s.running /\ t.dynamic = s.dynamic
      /\ t.groups[h] = grp /\ \A k \in GroupNames : k # h => t.groups[k] = s.groups[k]
  BY <1>1, WithGroup
<1>3. ASSUME NEW a \in Addresses PROVE Fits(t, a)
  <2>1. s.running[a] # Nothing /\ s.running[a].group # Nothing => s.running[a].group \in GroupNames \ {h}
    BY <1>1, ServerParts DEF Runnable, Neighbors
  <2>2. \A k \in GroupNames : t.groups[k].members[a] # Nothing => k # h
    BY <1>2
  <2> QED
    BY SMTT(30), <1>1, <1>2, <2>1, <2>2 DEF Fits
<1>4. \A k \in GroupNames : t.groups[k].prefixes # {} => t.groups[k].conf # Nothing
  BY <1>1, <1>2
<1> QED
  BY <1>2, <1>3, <1>4 DEF Good

\* The addresses under which some group has a member.
Joined(s) == {a \in Addresses : \E g \in GroupNames : s.groups[g].members[a] # Nothing}
\* Neighbors and members are the same or fewer.
NoMore(s, t) == NoneRuns(s, t) /\ Joined(t) \subseteq Joined(s) /\ t.unsettled \subseteq s.unsettled

\* From s to t the same neighbors run, but for A, and there are the same groups, but for H.
SameBut(s, t, A, H) ==
  /\ \A a \in Addresses \ A : t.running[a] = s.running[a] /\ (a \in t.dynamic => a \in s.dynamic)
  /\ \A h \in GroupNames \ H : t.groups[h].conf = Nothing <=> s.groups[h].conf = Nothing

LEMMA AddGroupFacts ==
  ASSUME NEW s, Good(s), NEW g \in GroupConfs, NEW r, r = AddGroup(s, g)
  PROVE  /\ r \in ResultType /\ Good(r.server) /\ NoMore(s, r.server)
         /\ SameBut(s, r.server, {}, {g.name}) /\ (r.ok => r.server.groups[g.name].conf # Nothing)
<1>1. s \in Server /\ g.name \in GroupNames
  BY DEF Good, GroupConfs
<1>2. CASE r = Failed(s)
  BY <1>1, <1>2, DoneType DEF NoMore, NoneRuns, SameBut
<1>3. CASE r # Failed(s)
  <2>1. PICK grp : grp = [conf |-> g, members |-> [a \in Addresses |-> Nothing], prefixes |-> {}]
    OBVIOUS
  <2>2. grp \in Groups /\ (\A a \in Addresses : grp.members[a] = Nothing) /\ grp.prefixes = {}
    BY <2>1 DEF Groups, Runnable
  <2>3. PICK t : t = GroupSet(s, g.name, grp)
    OBVIOUS
  <2>4. r = Done(t) /\ s.groups[g.name].conf = Nothing
    BY <1>3, <2>1, <2>3 DEF AddGroup, GroupSet
  <2>5. \A a \in Addresses : s.running[a] # Nothing => s.running[a].group # g.name
    BY <1>1, <2>4, NotNothing DEF Good, Fits
  <2>6. Good(t)
    BY <1>1, <2>2, <2>3, <2>5, GroupHasNoMembers
  <2>7. /\ t \in Server /\ t.running = s.running /\ t.dynamic = s.dynamic /\ t.unsettled = s.unsettled
        /\ t.groups[g.name] = grp /\ \A k \in GroupNames : k # g.name => t.groups[k] = s.groups[k]
    BY <1>1, <2>2, <2>3, WithGroup
  <2>8. NoMore(s, t)
    BY <2>2, <2>7 DEF NoMore, NoneRuns, Joined
  <2>9. SameBut(s, t, {}, {g.name}) /\ t.groups[g.name].conf # Nothing
    BY <2>1, <2>7, NotNothing DEF SameBut
  <2> QED
    BY <2>4, <2>6, <2>7, <2>8, <2>9, DoneType
<1> QED
  BY <1>2, <1>3

LEMMA DeleteGroupFacts ==
  ASSUME NEW s, Good(s), NEW h \in GroupNames, NEW r, r = DeleteGroup(s, h)
  PROVE  /\ r \in ResultType /\ Good(r.server) /\ NoMore(s, r.server)
         /\ SameBut(s, r.server, {}, {h}) /\ (r.ok => r.server.groups[h].conf = Nothing)
<1>1. s \in Server
  BY DEF Good
<1>2. CASE r = Failed(s)
  BY <1>1, <1>2, DoneType DEF NoMore, NoneRuns, SameBut
<1>3. CASE r # Failed(s)
  <2>1. PICK grp : grp = [conf |-> Nothing, members |-> [a \in Addresses |-> Nothing], prefixes |-> {}]
    OBVIOUS
  <2>2. grp \in Groups /\ (\A a \in Addresses : grp.members[a] = Nothing) /\ grp.prefixes = {}
    BY <2>1 DEF Groups, Runnable
  <2>3. PICK t : t = GroupSet(s, h, grp)
    OBVIOUS
  <2>4. r = Done(t) /\ \A a \in Addresses : s.running[a] # Nothing => s.running[a].group # h
    BY <1>3, <2>1, <2>3 DEF DeleteGroup, GroupSet
  <2>5. Good(t)
    BY <2>2, <2>3, <2>4, GroupHasNoMembers
  <2>6. /\ t \in Server /\ t.running = s.running /\ t.dynamic = s.dynamic /\ t.unsettled = s.unsettled
        /\ t.groups[h] = grp /\ \A k \in GroupNames : k # h => t.groups[k] = s.groups[k]
    BY <1>1, <2>2, <2>3, WithGroup
  <2>7. NoMore(s, t)
    BY <2>2, <2>6 DEF NoMore, NoneRuns, Joined
  <2>8. SameBut(s, t, {}, {h}) /\ t.groups[h].conf = Nothing
    BY <2>1, <2>6 DEF SameBut
  <2> QED
    BY <2>4, <2>5, <2>6, <2>7, <2>8, DoneType
<1> QED
  BY <1>2, <1>3

LEMMA AddDynamicNeighborFacts ==
  ASSUME NEW s, Good(s), NEW dn \in PrefixConfs, s.groups[dn.group].conf # Nothing, NEW r, r = AddDynamicNeighbor(s, dn)
  PROVE  r \in ResultType /\ Good(r.server) /\ NoMore(s, r.server) /\ SameBut(s, r.server, {}, {})
<1>1. s \in Server /\ dn.group \in GroupNames /\ dn.prefix \in Addresses
  BY DEF Good, PrefixConfs
<1>2. PICK h \in GroupNames : h = dn.group
  BY <1>1
<1>3. s.groups[h] \in Groups
  BY <1>1, GroupParts
<1>4. PICK grp \in Groups : grp = [s.groups[h] EXCEPT !.prefixes = @ \cup {dn.prefix}]
  BY <1>1, <1>3 DEF Groups
<1>5. grp.members = s.groups[h].members /\ grp.conf = s.groups[h].conf
  BY <1>3, <1>4 DEF Groups
<1>6. PICK t : t = GroupSet(s, h, grp)
  OBVIOUS
<1>7. r = Done(t)
  BY <1>2, <1>4, <1>6 DEF AddDynamicNeighbor, GroupSet
<1>8. Good(t)
  BY <1>2, <1>5, <1>6, GroupKeepsMembers
<1>9. /\ t \in Server /\ t.running = s.running /\ t.dynamic = s.dynamic /\ t.unsettled = s.unsettled
      /\ t.groups[h] = grp /\ \A k \in GroupNames : k # h => t.groups[k] = s.groups[k]
  BY <1>1, <1>6, WithGroup
<1>10. NoMore(s, t)
  BY <1>5, <1>9 DEF NoMore, NoneRuns, Joined
<1>11. SameBut(s, t, {}, {})
  BY <1>5, <1>9 DEF SameBut
<1> QED
  BY <1>7, <1>8, <1>9, <1>10, <1>11, DoneType
\* One more member of a group that is updated.
MemberUpdated(q, m) == LET u == UpdateNeighbor(q.server, m) IN [u EXCEPT !.reset = @ \/ q.reset]

LEMMA MemberUpdatedFacts ==
  ASSUME NEW s \in Server, NEW A, NEW q \in ResultType, Good(q.server), OnlyIn(s, q.server, A), NoneRuns(s, q.server),
         NEW m \in Neighbors, Address(m) \in A, NEW r, r = MemberUpdated(q, m)
  PROVE  r \in ResultType /\ Good(r.server) /\ OnlyIn(s, r.server, A) /\ NoneRuns(s, r.server)
<1>1. PICK u : u = UpdateNeighbor(q.server, m)
  OBVIOUS
<1>2. /\ u \in ResultType /\ OnlyIn(q.server, u.server, {Address(m)}) /\ NoneRuns(q.server, u.server)
      /\ Good(u.server)
  BY <1>1, UpdateNeighborFacts
<1>3. q.server \in Server /\ u.server \in Server /\ u.reset \in BOOLEAN /\ q.reset \in BOOLEAN
  BY <1>2, ResultParts
<1>4. r \in ResultType /\ r.server = u.server
  <2>1. PICK b \in BOOLEAN : b = (u.reset \/ q.reset)
    BY <1>3
  <2>2. r = [u EXCEPT !.reset = b]
    BY <1>1, <2>1 DEF MemberUpdated
  <2> QED
    BY <1>2, <2>2 DEF ResultType
<1>5. OnlyIn(q.server, u.server, A)
  BY <1>2 DEF OnlyIn
<1>6. OnlyIn(s, u.server, A)
  BY <1>3, <1>5, OnlyInAgain
<1>7. NoneRuns(s, u.server)
  BY <1>2 DEF NoneRuns
<1> QED
  BY <1>2, <1>4, <1>6, <1>7

\* From s to t, neighbors are the same or fewer, but the routes of members may have to pass policies again.
LEMMA UpdateGroupFacts ==
  ASSUME NEW s, Good(s), NEW g \in GroupConfs, NEW r \in UpdateGroup(s, g)
  PROVE  /\ r \in ResultType /\ Good(r.server) /\ NoneRuns(s, r.server) /\ Joined(r.server) \subseteq Joined(s)
         /\ r.server.unsettled \subseteq
              s.unsettled \cup {a \in Addresses : s.groups[g.name].members[a] # Nothing}
         /\ SameBut(s, r.server, {a \in Addresses : s.groups[g.name].members[a] # Nothing}, {})
         /\ r.ok => r.server.groups[g.name].conf # Nothing
<1> DEFINE members == s.groups[g.name].members
           present == {a \in Addresses : members[a] # Nothing}
           s1 == [s EXCEPT !.groups[g.name].conf = g]
           F(order, f) == [i \in 0..Len(order) |->
                             IF i = 0 THEN Done(s1)
                             ELSE IF ~f[i - 1].ok THEN f[i - 1] ELSE MemberUpdated(f[i - 1], members[order[i]])]
           made(order) == CHOOSE f : f = F(order, f)
<1>1. s \in Server /\ g.name \in GroupNames
  BY DEF Good, GroupConfs
<1>2. CASE r = Failed(s)
  BY <1>1, <1>2, DoneType DEF NoneRuns, SameBut
<1>3. CASE s.groups[g.name].conf # Nothing
  <2>1. PICK order \in SetToSeqs(present) : r = made(order)[Len(order)]
    BY <1>3 DEF UpdateGroup, MemberUpdated
  <2>2. Cardinality(present) \in Nat
    BY NamesAssumption, FS_Subset, FS_CardinalityType
  <2> HIDE DEF F, present
  <2>3. order \in [1..Cardinality(present) -> present]
    BY <2>1 DEF SetToSeqs
  <2>4. PICK n \in Nat : Len(order) = n /\ \A i \in 1..n : order[i] \in present
    <3>1. order = [i \in 1..Cardinality(present) |-> order[i]] /\ \A i \in 1..Cardinality(present) : order[i] \in present
      BY <2>3
    <3> QED
      BY <2>2, <3>1, IsList
  <2>5. PICK grp \in Groups : grp = [s.groups[g.name] EXCEPT !.conf = g]
    BY <1>1, GroupParts DEF Groups
  <2>6. s1 = GroupSet(s, g.name, grp)
    BY <2>5 DEF GroupSet
  <2>7. grp.members = members /\ grp.conf = g /\ grp.prefixes = s.groups[g.name].prefixes /\ g # Nothing
    BY <1>1, <2>5, GroupParts, NotNothing DEF Groups
  <2>8. Good(s1)
    BY <1>1, <2>6, <2>7, GroupKeepsMembers
  <2> HIDE DEF s1
  <2>9. /\ s1 \in Server /\ s1.running = s.running /\ s1.dynamic = s.dynamic /\ s1.unsettled = s.unsettled
        /\ s1.groups[g.name] = grp /\ \A k \in GroupNames : k # g.name => s1.groups[k] = s.groups[k]
    BY <1>1, <2>5, <2>6, WithGroup
  <2>10. \A a \in present : members[a] \in Neighbors /\ Address(members[a]) = a
    <3>1. members \in [Addresses -> Runnable]
      BY <1>1, GroupParts
    <3> QED
      BY SMTT(30), <1>1, <3>1 DEF Good, Fits, Runnable, present
  <2> HIDE DEF members
  <2> DEFINE V == {q \in ResultType : Good(q.server) /\ OnlyIn(s1, q.server, present) /\ NoneRuns(s1, q.server)}
  <2>11. Done(s1) \in V
    BY <2>8, <2>9, DoneType, OnlyInSelf
  <2>12. ASSUME NEW q \in V, NEW a \in present PROVE MemberUpdated(q, members[a]) \in V
    <3>1. Address(members[a]) \in present /\ members[a] \in Neighbors
      BY <2>10
    <3> QED
      BY <2>9, <3>1, MemberUpdatedFacts
  <2> HIDE DEF V
  <2> DEFINE step == [p \in (1..n) \X V |-> IF ~p[2].ok THEN p[2] ELSE MemberUpdated(p[2], members[order[p[1]]])]
  <2>13. step \in [(1..n) \X V -> V]
    <3>1. \A p \in (1..n) \X V : p[2] \in V /\ order[p[1]] \in present
      BY <2>4
    <3> QED
      BY <2>12, <3>1
  <2>14. PICK f \in [0..n -> V] : f[0] = Done(s1) /\ \A i \in 1..n : f[i] = step[<<i, f[i - 1]>>]
    <3> HIDE DEF step
    <3>1. \E f \in [0..n -> V] : Follows(f, n, Done(s1), step)
      BY <2>11, <2>13, RecursionExists
    <3> QED
      BY <3>1 DEF Follows
  <2>15. f = F(order, f)
    <3>1. ASSUME NEW i \in 1..n
          PROVE  f[i] = IF ~f[i - 1].ok THEN f[i - 1] ELSE MemberUpdated(f[i - 1], members[order[i]])
      <4>1. <<i, f[i - 1]>> \in (1..n) \X V
        OBVIOUS
      <4> QED
        BY <2>14, <4>1
    <3> HIDE DEF step
    <3>2. \A i \in 0..n : i = 0 \/ i \in 1..n
      OBVIOUS
    <3> QED
      BY <2>4, <2>14, <3>1, <3>2 DEF F
  <2>16. PICK rec : rec = made(order) /\ rec = F(order, rec)
    BY <2>15
  <2>17. /\ rec[0] = Done(s1)
         /\ \A i \in 1..n : rec[i] = IF ~rec[i - 1].ok THEN rec[i - 1] ELSE MemberUpdated(rec[i - 1], members[order[i]])
    <3>1. \A i \in 1..n : i \in 0..n /\ i # 0
      OBVIOUS
    <3>2. 0 \in 0..n
      OBVIOUS
    <3> QED
      BY <2>4, <2>16, <3>1, <3>2 DEF F
  <2> DEFINE T == {i \in Nat : i <= n => rec[i] \in V}
  <2>18. 0 \in T
    BY <2>11, <2>17
  <2>19. ASSUME NEW i \in T PROVE i + 1 \in T
    <3> SUFFICES ASSUME i + 1 <= n PROVE rec[i + 1] \in V
      OBVIOUS
    <3>1. i \in Nat /\ i + 1 \in 1..n /\ (i + 1) - 1 = i /\ rec[i] \in V /\ order[i + 1] \in present
      BY <2>4
    <3> HIDE DEF T
    <3> QED
      BY <2>12, <2>17, <3>1
  <2>20. T = Nat
    <3>1. T \subseteq Nat
      OBVIOUS
    <3> HIDE DEF T
    <3> QED
      BY <2>18, <2>19, <3>1, SetInduction
  <2>21. rec[n] \in V
    <3>1. n \in T
      BY <2>20
    <3> QED
      BY <3>1
  <2>22. r = rec[n]
    BY <2>1, <2>4, <2>16
  <2>23. r \in ResultType /\ Good(r.server) /\ OnlyIn(s1, r.server, present) /\ NoneRuns(s1, r.server)
    BY <2>21, <2>22 DEF V
  <2>24. NoneRuns(s, r.server) /\ r.server.unsettled \subseteq s.unsettled \cup present
    BY <2>9, <2>23 DEF NoneRuns, OnlyIn
  <2>25. Joined(r.server) \subseteq Joined(s)
    <3>1. \A k \in GroupNames : s1.groups[k].members = s.groups[k].members
      BY <2>7, <2>9 DEF members
    <3>2. \A a \in Addresses \ present, k \in GroupNames : r.server.groups[k].members[a] = s.groups[k].members[a]
      BY <2>23, <3>1 DEF OnlyIn
    <3>3. present \subseteq Joined(s)
      BY <1>1 DEF Joined, present, members
    <3> QED
      BY <3>2, <3>3 DEF Joined
  <2>26. SameBut(s, r.server, present, {}) /\ r.server.groups[g.name].conf # Nothing
    BY <1>1, <1>3, <2>7, <2>9, <2>23 DEF OnlyIn, SameBut
  <2> QED
    BY <2>23, <2>24, <2>25, <2>26 DEF present, members
<1> QED
  BY <1>2, <1>3 DEF UpdateGroup
-----------------------------------------------------------------------------
(* Policies, dynamic neighbors and soft resets *)

\* A server of which only policies and routes changed.
LEMMA GoodWithout ==
  ASSUME NEW s, Good(s), NEW t \in Server, t.running = s.running, t.groups = s.groups, t.dynamic = s.dynamic
  PROVE  Good(t) /\ NoneRuns(s, t) /\ Joined(t) = Joined(s) /\ SameBut(s, t, {}, {})
BY SMTT(30) DEF Good, Fits, NoneRuns, Joined, SameBut

RunningAddresses(s) == {a \in Addresses : s.running[a] # Nothing}

LEMMA SetPoliciesFacts ==
  ASSUME NEW s, Good(s), NEW names \in SUBSET Policies, NEW r, r = SetPolicies(s, names)
  PROVE  /\ r \in ResultType /\ Good(r.server) /\ NoneRuns(s, r.server) /\ Joined(r.server) \subseteq Joined(s)
         /\ r.server.unsettled = RunningAddresses(s) /\ SameBut(s, r.server, {}, {})
<1>1. s \in Server
  BY DEF Good
<1>2. s.assigned \in [Ids -> SUBSET Policies] /\ RunningAddresses(s) \in SUBSET Addresses
  BY <1>1, ServerParts DEF RunningAddresses
<1>3. PICK as \in [Ids -> SUBSET Policies] :
        as = [id \in DOMAIN s.assigned |->
               IF s.assigned[id] \subseteq names /\ (id = Global \/ s.running[id] # Nothing) THEN s.assigned[id] ELSE {}]
  BY <1>2
<1>4. PICK t : t = [s EXCEPT !.assigned = as, !.unsettled = RunningAddresses(s)]
  OBVIOUS
<1>5. r = Done(t)
  BY <1>3, <1>4 DEF SetPolicies, RunningAddresses
<1>6. /\ t \in Server /\ t.running = s.running /\ t.groups = s.groups /\ t.dynamic = s.dynamic
      /\ t.unsettled = RunningAddresses(s)
  BY <1>1, <1>2, <1>4, ServerIs
<1> QED
  BY <1>5, <1>6, DoneType, GoodWithout

LEMMA SetPolicyAssignmentFacts ==
  ASSUME NEW s, Good(s), NEW names \in SUBSET Policies, NEW r, r = SetPolicyAssignment(s, names)
  PROVE  /\ r \in ResultType /\ Good(r.server) /\ NoneRuns(s, r.server) /\ Joined(r.server) \subseteq Joined(s)
         /\ r.server.unsettled \subseteq s.unsettled \cup RunningAddresses(s) /\ SameBut(s, r.server, {}, {})
<1>1. s \in Server
  BY DEF Good
<1>2. CASE r = Failed(s)
  BY <1>1, <1>2, DoneType DEF NoneRuns, SameBut
<1>3. CASE names \subseteq defined
  <2>1. PICK as \in [Ids -> SUBSET Policies] : as = [s.assigned EXCEPT ![Global] = names]
    BY <1>1, ServerParts
  <2>2. RunningAddresses(s) \in SUBSET Addresses
    BY DEF RunningAddresses
  <2>3. PICK t : t = [s EXCEPT !.assigned = as, !.unsettled = RunningAddresses(s)]
    OBVIOUS
  <2>4. r = Done(t)
    BY <1>3, <2>1, <2>3 DEF SetPolicyAssignment, RunningAddresses
  <2>5. /\ t \in Server /\ t.running = s.running /\ t.groups = s.groups /\ t.dynamic = s.dynamic
        /\ t.unsettled = RunningAddresses(s)
    BY <1>1, <2>2, <2>3, ServerIs
  <2> QED
    BY <2>4, <2>5, DoneType, GoodWithout
<1> QED
  BY <1>2, <1>3 DEF SetPolicyAssignment

LEMMA SoftResetInFacts ==
  ASSUME NEW s, Good(s), NEW r, r = SoftResetIn(s)
  PROVE  /\ r \in ResultType /\ Good(r.server) /\ NoneRuns(s, r.server) /\ Joined(r.server) \subseteq Joined(s)
         /\ r.server.unsettled = {} /\ SameBut(s, r.server, {}, {})
<1>1. s \in Server /\ {} \in SUBSET Addresses
  BY DEF Good
<1>2. PICK t : t = [s EXCEPT !.unsettled = {}]
  OBVIOUS
<1>3. t \in Server /\ t.groups = s.groups /\ t.running = s.running /\ t.dynamic = s.dynamic /\ t.unsettled = {}
  BY <1>1, <1>2, ServerIs
<1>4. r = Done(t)
  BY <1>2 DEF SoftResetIn
<1> QED
  BY <1>3, <1>4, DoneType, GoodWithout

\* A dynamic neighbor comes, with a group that exists,
LEMMA ArrivalFacts ==
  ASSUME NEW s, Good(s), NEW a \in Addresses, NEW n \in Neighbors, Address(n) = a, n.group # Nothing,
         s.groups[n.group].conf # Nothing, NEW t, t = PlacedDynamic(SetPeerPolicy(s, a, n.policies), a, n)
  PROVE  /\ Good(t) /\ Joined(t) \subseteq Joined(s) /\ t.unsettled \subseteq s.unsettled
         /\ RunningAddresses(t) \subseteq RunningAddresses(s) \cup {a}
<1>1. s \in Server /\ a \in Ids /\ n.policies \in SUBSET Policies /\ n \in Runnable /\ n # Nothing
  BY NotNothing DEF Good, Ids, Neighbors, Runnable
<1>2. PICK w : w = SetPeerPolicy(s, a, n.policies)
  OBVIOUS
<1>3. /\ w \in Server /\ w.running = s.running /\ w.groups = s.groups
      /\ w.dynamic = s.dynamic /\ w.unsettled = s.unsettled
  BY <1>1, <1>2, SetPeerPolicyFacts
<1>4. /\ t \in Server /\ t.groups = s.groups /\ t.running = [s.running EXCEPT ![a] = n]
      /\ t.dynamic = s.dynamic \cup {a} /\ t.unsettled = s.unsettled
  BY <1>1, <1>2, <1>3, WithDynamic
<1>5. \A b \in Addresses : t.running[b] = IF b = a THEN n ELSE s.running[b]
  BY <1>1, <1>4, ServerParts
<1>6. OnlyIn(s, t, {a})
  BY <1>4, <1>5 DEF OnlyIn
<1>7. Fits(t, a)
  BY SMTT(30), <1>1, <1>4, <1>5 DEF Fits, Good
<1>8. Good(t)
  BY <1>1, <1>4, <1>6, <1>7, StaysGood
<1> QED
  BY <1>4, <1>5, <1>8 DEF Joined, RunningAddresses

\* ... and leaves.
LEMMA DepartureFacts ==
  ASSUME NEW s, Good(s), NEW a \in Addresses, NEW t, t = Placed(s, a, Nothing)
  PROVE  Good(t) /\ NoMore(s, t)
<1>1. s \in Server /\ Nothing \in Runnable
  BY DEF Good, Runnable
<1>2. /\ t \in Server /\ t.groups = s.groups /\ t.running = [s.running EXCEPT ![a] = Nothing]
      /\ t.dynamic = s.dynamic \ {a} /\ t.unsettled = s.unsettled \ {a}
  BY <1>1, WithNeighbor
<1>3. \A b \in Addresses : t.running[b] = IF b = a THEN Nothing ELSE s.running[b]
  BY <1>1, <1>2, ServerParts
<1>4. OnlyIn(s, t, {a}) /\ NoMore(s, t)
  BY <1>2, <1>3 DEF OnlyIn, NoMore, NoneRuns, Joined
<1>5. Fits(t, a)
  BY SMTT(30), <1>1, <1>2, <1>3 DEF Fits, Good
<1> QED
  BY <1>1, <1>2, <1>4, <1>5, StaysGood
-----------------------------------------------------------------------------
(* Calls *)

LEMMA OperationArgs ==
  ASSUME NEW c \in Operations
  PROVE  /\ c.op \in {"addGroup", "updateGroup", "deleteGroup", "prefix", "add", "delete", "update", "policies",
                      "global", "softResetIn"}
         /\ c.op \in {"addGroup", "updateGroup"} => c.arg \in GroupConfs
         /\ c.op = "deleteGroup" => c.arg \in GroupNames
         /\ c.op = "prefix" => c.arg \in PrefixConfs
         /\ c.op \in {"add", "delete", "update"} => c.arg \in Neighbors
         /\ c.op \in {"policies", "global"} => c.arg \in SUBSET Policies
BY DEF Operations

\* Whom a call makes a member, and whose routes must pass policies again.
Joins(c) == IF c.op \in {"add", "update"} /\ c.arg.group # Nothing THEN {Address(c.arg)} ELSE {}
Members(s, g) == {a \in Addresses : s.groups[g].members[a] # Nothing}
Unsettles(s, c) ==
  CASE c.op \in {"policies", "global"} -> RunningAddresses(s)
    [] c.op = "updateGroup" -> Members(s, c.arg.name)
    [] c.op = "update" -> {Address(c.arg)}
    [] OTHER -> {}

LEMMA OnlyInRunning ==
  ASSUME NEW s \in Server, NEW t \in Server, NEW a, OnlyIn(s, t, {a})
  PROVE  /\ RunningAddresses(t) \subseteq RunningAddresses(s) \cup {a}
         /\ Joined(t) \subseteq Joined(s) \cup {a}
BY DEF OnlyIn, RunningAddresses, Joined

LEMMA CallFacts ==
  ASSUME NEW s, Good(s), NEW c \in Operations, ~Panics(s, c), NEW r \in Results(s, c)
  PROVE  /\ r \in ResultType /\ Good(r.server)
         /\ RunningAddresses(r.server) \subseteq
              RunningAddresses(s) \cup (IF c.op = "add" THEN {Address(c.arg)} ELSE {})
         /\ Joined(r.server) \subseteq Joined(s) \cup Joins(c)
         /\ r.server.unsettled \subseteq s.unsettled \cup Unsettles(s, c)
         /\ c.op = "update" => r.server.unsettled \subseteq s.unsettled \/ r.reset
         /\ c.op = "softResetIn" => r.server.unsettled = {}
<1>0. s \in Server
  BY DEF Good
<1>1. CASE c.op = "addGroup" \/ c.op = "deleteGroup" \/ c.op = "prefix"
  <2>1. r \in ResultType /\ Good(r.server) /\ NoMore(s, r.server)
    <3>1. CASE c.op = "addGroup"
      <4>1. r = AddGroup(s, GroupOverApi(c.arg))
        BY <3>1 DEF Results
      <4>2. GroupOverApi(c.arg) \in GroupConfs
        BY <3>1, OperationArgs, OverApiType
      <4> QED
        BY <4>1, <4>2, AddGroupFacts
    <3>2. CASE c.op = "deleteGroup"
      <4>1. r = DeleteGroup(s, c.arg)
        BY <3>2 DEF Results
      <4> QED
        BY <3>2, <4>1, OperationArgs, DeleteGroupFacts
    <3>3. CASE c.op = "prefix"
      <4>1. r = AddDynamicNeighbor(s, c.arg) /\ s.groups[c.arg.group].conf # Nothing
        BY <3>3 DEF Results, Panics
      <4> QED
        BY <3>3, <4>1, OperationArgs, AddDynamicNeighborFacts
    <3> QED
      BY <1>1, <3>1, <3>2, <3>3
  <2> QED
    BY <1>1, <2>1 DEF NoMore, NoneRuns, RunningAddresses
<1>2. CASE c.op = "updateGroup"
  <2>1. r \in UpdateGroup(s, GroupOverApi(c.arg))
    BY <1>2 DEF Results
  <2>2. GroupOverApi(c.arg) \in GroupConfs /\ GroupOverApi(c.arg).name = c.arg.name
    BY <1>2, OperationArgs, OverApiType
  <2>3. /\ r \in ResultType /\ Good(r.server) /\ NoneRuns(s, r.server) /\ Joined(r.server) \subseteq Joined(s)
        /\ r.server.unsettled \subseteq s.unsettled \cup Members(s, GroupOverApi(c.arg).name)
    BY <2>1, <2>2, UpdateGroupFacts DEF Members
  <2>4. Unsettles(s, c) = Members(s, c.arg.name)
    BY <1>2 DEF Unsettles
  <2> QED
    BY <1>2, <2>2, <2>3, <2>4 DEF NoneRuns, RunningAddresses
<1>3. CASE c.op = "add"
  <2>1. PICK n : n = NeighborOverApi(c.arg)
    OBVIOUS
  <2>2. n \in Neighbors /\ Address(n) = Address(c.arg) /\ n.group = c.arg.group
    BY <1>3, <2>1, OperationArgs, OverApiType
  <2>3. r = AddNeighbor(s, n)
    BY <1>3, <2>1 DEF Results
  <2>4. /\ r \in ResultType /\ OnlyIn(s, r.server, {Address(n)}) /\ r.server.unsettled \subseteq s.unsettled
        /\ n.group = Nothing => NoneJoins(s, r.server)
        /\ Good(r.server)
    BY <1>0, <2>2, <2>3, AddNeighborFacts
  <2>5. /\ RunningAddresses(r.server) \subseteq RunningAddresses(s) \cup {Address(n)}
        /\ Joined(r.server) \subseteq Joined(s) \cup {Address(n)}
    BY <1>0, <2>4, OnlyInRunning, ResultParts
  <2>6. Joined(r.server) \subseteq Joined(s) \cup Joins(c)
    <3>1. CASE n.group = Nothing
      BY <2>4, <3>1 DEF NoneJoins, Joined
    <3>2. CASE n.group # Nothing
      BY <1>3, <2>2, <2>5, <3>2 DEF Joins
    <3> QED
      BY <3>1, <3>2
  <2> QED
    BY <1>3, <2>2, <2>4, <2>5, <2>6
<1>4. CASE c.op = "delete"
  <2>1. PICK dn : dn = [c.arg EXCEPT !.group = Nothing, !.address = Nothing]
    OBVIOUS
  <2>2. dn.group = Nothing /\ Address(dn) \in Addresses \cup {Nothing}
    <3>1. c.arg \in Neighbors
      BY <1>4, OperationArgs
    <3>2. dn.group = Nothing /\ dn.address = Nothing /\ dn.state = c.arg.state
      BY <2>1, <3>1 DEF Neighbors
    <3>3. c.arg.state \in Addresses \cup {Nothing}
      BY <3>1 DEF Neighbors
    <3> QED
      BY <3>2, <3>3 DEF Address
  <2>3. r = DeleteNeighbor(s, dn)
    BY <1>4, <2>1 DEF Results
  <2>4. /\ r \in ResultType /\ r.server.unsettled \subseteq s.unsettled
        /\ NoneJoins(s, r.server) /\ NoneRuns(s, r.server) /\ Good(r.server)
    BY <1>0, <2>2, <2>3, DeleteNeighborFacts
  <2> QED
    BY <1>4, <2>4 DEF NoneJoins, NoneRuns, Joined, RunningAddresses
<1>5. CASE c.op = "update"
  <2>1. PICK n : n = NeighborOverApi(c.arg)
    OBVIOUS
  <2>2. n \in Neighbors /\ Address(n) = Address(c.arg) /\ n.group = c.arg.group
    BY <1>5, <2>1, OperationArgs, OverApiType
  <2>3. r = UpdateNeighbor(s, n)
    BY <1>5, <2>1 DEF Results
  <2>4. /\ r \in ResultType /\ OnlyIn(s, r.server, {Address(n)}) /\ NoneRuns(s, r.server)
        /\ r.server.unsettled \subseteq s.unsettled \/ r.reset
        /\ n.group = Nothing => NoneJoins(s, r.server)
        /\ Good(r.server)
    BY <2>2, <2>3, UpdateNeighborFacts
  <2>5. Joined(r.server) \subseteq Joined(s) \cup Joins(c)
    <3>1. CASE n.group = Nothing
      BY <2>4, <3>1 DEF NoneJoins, Joined
    <3>2. CASE n.group # Nothing
      <4>1. Joined(r.server) \subseteq Joined(s) \cup {Address(n)}
        BY <1>0, <2>4, OnlyInRunning, ResultParts
      <4> QED
        BY <1>5, <2>2, <3>2, <4>1 DEF Joins
    <3> QED
      BY <3>1, <3>2
  <2>6. Unsettles(s, c) = {Address(n)}
    BY <1>5, <2>2 DEF Unsettles
  <2>7. r.server.unsettled \subseteq s.unsettled \cup Unsettles(s, c)
    BY <2>4, <2>6 DEF OnlyIn
  <2>8. RunningAddresses(r.server) \subseteq RunningAddresses(s)
    BY <2>4 DEF NoneRuns, RunningAddresses
  <2> QED
    BY <1>5, <2>4, <2>5, <2>7, <2>8
<1>6. CASE c.op = "policies" \/ c.op = "global"
  <2>1. /\ r \in ResultType /\ Good(r.server) /\ NoneRuns(s, r.server) /\ Joined(r.server) \subseteq Joined(s)
        /\ r.server.unsettled \subseteq s.unsettled \cup RunningAddresses(s)
    <3>1. CASE c.op = "policies"
      <4>1. r = SetPolicies(s, c.arg)
        BY <3>1 DEF Results
      <4> QED
        BY <3>1, <4>1, OperationArgs, SetPoliciesFacts
    <3>2. CASE c.op = "global"
      <4>1. r = SetPolicyAssignment(s, c.arg)
        BY <3>2 DEF Results
      <4> QED
        BY <3>2, <4>1, OperationArgs, SetPolicyAssignmentFacts
    <3> QED
      BY <1>6, <3>1, <3>2
  <2>2. Unsettles(s, c) = RunningAddresses(s)
    BY <1>6 DEF Unsettles
  <2> QED
    BY <1>6, <2>1, <2>2 DEF NoneRuns, RunningAddresses
<1>7. CASE c.op = "softResetIn"
  <2>1. r = SoftResetIn(s)
    BY <1>7 DEF Results
  <2>2. /\ r \in ResultType /\ Good(r.server) /\ NoneRuns(s, r.server) /\ Joined(r.server) \subseteq Joined(s)
        /\ r.server.unsettled = {}
    BY <2>1, SoftResetInFacts
  <2> QED
    BY <1>7, <2>2 DEF NoneRuns, RunningAddresses
<1> QED
  BY <1>1, <1>2, <1>3, <1>4, <1>5, <1>6, <1>7, OperationArgs
-----------------------------------------------------------------------------
(* Files and lists of calls *)

LEMMA EachIs ==
  ASSUME NEW S, NEW P, NEW op, NEW list \in Seq(S), \A e \in S : Call(op, e) \in P
  PROVE  Each(op, list) \in Seq(P)
<1>1. Len(list) \in Nat /\ \A i \in 1..Len(list) : list[i] \in S
  OBVIOUS
<1>2. PICK s : s = [i \in 1..Len(list) |-> Call(op, list[i])]
  OBVIOUS
<1>3. s = [i \in 1..Len(list) |-> s[i]] /\ \A i \in 1..Len(list) : s[i] \in P
  BY <1>1, <1>2
<1>4. s \in Seq(P)
  BY <1>1, <1>3, IsList
<1> QED
  BY <1>2, <1>4 DEF Each

LEMMA OwnElements ==
  ASSUME NEW S, NEW list \in Seq(S)
  PROVE  list \in Seq(ToSet(list)) /\ ToSet(list) \subseteq S
<1>1. Len(list) \in Nat /\ list = [i \in 1..Len(list) |-> list[i]] /\ DOMAIN list = 1..Len(list)
      /\ \A i \in 1..Len(list) : list[i] \in S
  OBVIOUS
<1>2. \A i \in 1..Len(list) : list[i] \in ToSet(list)
  BY <1>1 DEF ToSet
<1>3. list \in Seq(ToSet(list))
  BY <1>1, <1>2, IsList
<1> QED
  BY <1>1, <1>3 DEF ToSet

LEMMA ConcatTail ==
  ASSUME NEW S, NEW P, P \subseteq S, NEW s \in Seq(S), s # <<>>, Tail(s) \in Seq(P), NEW t \in Seq(P)
  PROVE  s \o t \in Seq(S) /\ s \o t # <<>> /\ (s \o t)[1] = s[1] /\ Tail(s \o t) \in Seq(P)
<1>1. t \in Seq(S)
  <2>1. Len(t) \in Nat /\ t = [i \in 1..Len(t) |-> t[i]] /\ \A i \in 1..Len(t) : t[i] \in S
    OBVIOUS
  <2> QED
    BY <2>1, IsList
<1>2. s \o t \in Seq(S)
  BY <1>1, ConcatElements
<1>3. /\ Len(s) \in Nat \ {0} /\ Len(t) \in Nat /\ Len(s \o t) = Len(s) + Len(t)
      /\ \A i \in 1..(Len(s) + Len(t)) : (s \o t)[i] = IF i <= Len(s) THEN s[i] ELSE t[i - Len(s)]
  BY <1>1
<1>4. s \o t # <<>>
  BY <1>3
<1>5. PICK n \in Nat : n = Len(s) + Len(t) - 1
  <2>1. Len(s) + Len(t) - 1 \in Nat
    BY <1>3
  <2> QED
    BY <2>1, Zenon
<1>6. PICK u : u = Tail(s \o t)
  OBVIOUS
<1>7. u = [i \in 1..n |-> (s \o t)[i + 1]]
  <2>1. PICK q \in Seq(S) : q = s \o t
    BY <1>2
  <2>2. q # <<>> /\ Len(q) - 1 = n /\ Len(q) \in Nat
    BY <1>3, <1>4, <1>5, <2>1
  <2>3. Tail(q) \in Seq(S) /\ Len(Tail(q)) = n /\ \A i \in 1..n : Tail(q)[i] = q[i + 1]
    BY <2>2
  <2>4. PICK z \in Seq(S) : z = Tail(q)
    BY <2>3
  <2>5. z = [i \in 1..Len(z) |-> z[i]]
    OBVIOUS
  <2>6. z = [i \in 1..n |-> q[i + 1]]
    BY <2>3, <2>4, <2>5
  <2> QED
    BY <1>6, <2>1, <2>4, <2>6
<1>8. ASSUME NEW i \in 1..n PROVE u[i] \in P
  <2>1. u[i] = (s \o t)[i + 1] /\ i + 1 \in 1..(Len(s) + Len(t))
    BY <1>3, <1>5, <1>7
  <2>2. CASE i + 1 <= Len(s)
    <3>1. i \in 1..Len(Tail(s)) /\ Tail(s)[i] = s[i + 1]
      BY <2>2
    <3>2. Tail(s)[i] \in P
      BY <3>1
    <3> QED
      BY <1>3, <2>1, <2>2, <3>1, <3>2
  <2>3. CASE ~(i + 1 <= Len(s))
    <3>1. (i + 1) - Len(s) \in 1..Len(t)
      BY <1>3, <2>1, <2>3
    <3>2. t[(i + 1) - Len(s)] \in P
      BY <3>1
    <3> QED
      BY <1>3, <2>1, <2>3, <3>2
  <2> QED
    BY <2>2, <2>3
<1>9. u = [i \in 1..n |-> u[i]]
  BY <1>7
<1>10. u \in Seq(P)
  BY <1>8, <1>9, IsList
<1>11. (s \o t)[1] = s[1]
  <2>1. 1 \in 1..(Len(s) + Len(t)) /\ 1 <= Len(s)
    BY <1>3
  <2> QED
    BY <1>3, <2>1
<1> QED
  BY <1>2, <1>4, <1>6, <1>10, <1>11

LEMMA HeadOrTail ==
  ASSUME NEW S, NEW s \in Seq(S), s # <<>>
  PROVE  /\ Head(s) = s[1] /\ Head(s) \in S /\ s[1] \in ToSet(s) /\ Tail(s) \in Seq(S) /\ Len(s) \in Nat \ {0}
         /\ Tail(s) = <<>> <=> Len(s) = 1
         /\ ToSet(Tail(s)) \subseteq ToSet(s)
         /\ \A c \in ToSet(s) : c = s[1] \/ c \in ToSet(Tail(s))
<1>1. /\ Len(s) \in Nat \ {0} /\ DOMAIN s = 1..Len(s) /\ Head(s) = s[1] /\ Tail(s) \in Seq(S)
      /\ Len(Tail(s)) = Len(s) - 1 /\ DOMAIN Tail(s) = 1..(Len(s) - 1)
  OBVIOUS
<1>2. \A i \in 1..(Len(s) - 1) : Tail(s)[i] = s[i + 1] /\ i + 1 \in 1..Len(s)
  BY <1>1
<1>3. s[1] \in S /\ 1 \in 1..Len(s)
  BY <1>1
<1>4. Tail(s) = <<>> <=> Len(s) = 1
  <2>1. \A z \in Seq(S) : z = <<>> <=> Len(z) = 0
    OBVIOUS
  <2>2. Tail(s) = <<>> <=> Len(Tail(s)) = 0
    BY <1>1, <2>1
  <2> QED
    BY <1>1, <2>2
<1>5. ToSet(Tail(s)) \subseteq ToSet(s)
  BY <1>1, <1>2 DEF ToSet
<1>6. ASSUME NEW i \in 1..Len(s), i # 1 PROVE s[i] \in ToSet(Tail(s))
  <2>1. i - 1 \in 1..(Len(s) - 1) /\ (i - 1) + 1 = i
    BY <1>1, <1>6
  <2>2. Tail(s)[i - 1] = s[i]
    BY <1>2, <2>1
  <2> QED
    BY <1>1, <2>1, <2>2 DEF ToSet
<1> QED
  BY <1>1, <1>3, <1>4, <1>5, <1>6 DEF ToSet

PolicyOps == {"policies", "global"}
\* The calls that are not about policies and give no settings but those of the neighbors in a list.
Plain(list) ==
  {c \in Operations : c.op \notin PolicyOps /\ (c.op \in {"add", "update"} => c.arg \in ToSet(list))}

LEMMA PlainCalls ==
  ASSUME NEW list \in Seq(Neighbors)
  PROVE  /\ \A g \in GroupConfs : Call("addGroup", g) \in Plain(list) /\ Call("updateGroup", g) \in Plain(list)
         /\ \A h \in GroupNames : Call("deleteGroup", h) \in Plain(list)
         /\ \A dn \in PrefixConfs : Call("prefix", dn) \in Plain(list)
         /\ \A n \in ToSet(list) : Call("add", n) \in Plain(list) /\ Call("update", n) \in Plain(list)
         /\ \A n \in Neighbors : Call("delete", n) \in Plain(list)
<1>1. ToSet(list) \subseteq Neighbors
  BY OwnElements
<1>2. \A g \in GroupConfs : Call("addGroup", g) \in Plain(list) /\ Call("updateGroup", g) \in Plain(list)
  BY DEF Call, Plain, Operations, PolicyOps
<1>3. \A h \in GroupNames : Call("deleteGroup", h) \in Plain(list)
  BY DEF Call, Plain, Operations, PolicyOps
<1>4. \A dn \in PrefixConfs : Call("prefix", dn) \in Plain(list)
  BY DEF Call, Plain, Operations, PolicyOps
<1>5. \A n \in ToSet(list) : Call("add", n) \in Plain(list) /\ Call("update", n) \in Plain(list)
  BY <1>1 DEF Call, Plain, Operations, PolicyOps
<1>6. \A n \in Neighbors : Call("delete", n) \in Plain(list)
  BY DEF Call, Plain, Operations, PolicyOps
<1> QED
  BY <1>2, <1>3, <1>4, <1>5, <1>6

LEMMA PolicyCalls ==
  ASSUME NEW ps \in SUBSET Policies
  PROVE  Call("policies", ps) \in Operations /\ Call("global", ps) \in Operations
BY DEF Call, Operations

LEMMA SoftResetCall == Call("softResetIn", Nothing) \in Operations /\ Call("softResetIn", Nothing).op = "softResetIn"
BY DEF Call, Operations

LEMMA KeptOwn ==
  ASSUME NEW S, NEW list \in Seq(S), NEW set
  PROVE  Kept(list, set) \in Seq(ToSet(list))
BY OwnElements, KeptElements

\* A file with its defaults.
LEMMA FileFacts ==
  ASSUME NEW f \in Files, ~LoadFails(f), NEW new, new = SetDefaultConfigValues(f)
  PROVE  /\ f \in FileType /\ new \in FileType /\ IsFiniteSet(new.prefixes)
         /\ new.policies = f.policies /\ new.global = f.global
         /\ \A n \in ToSet(new.neighbors) : n.group # Nothing => Address(n) \in Unfilled(new)
<1>1. /\ f \in FileType /\ IsFiniteSet(f.prefixes)
      /\ \A i \in DOMAIN f.neighbors : f.neighbors[i].state = Nothing /\ ~f.neighbors[i].filled
  BY FilesAssumption
<1>2. /\ f.neighbors \in Seq(Neighbors)
      /\ f.groups \in Seq(GroupConfs) /\ f.prefixes \in SUBSET PrefixConfs /\ f.policies \in SUBSET Policies
      /\ f.global \in SUBSET Policies
  BY <1>1 DEF FileType
<1>3. PICK n \in Nat : n = Len(f.neighbors) /\ DOMAIN f.neighbors = 1..n /\ \A i \in 1..n : f.neighbors[i] \in Neighbors
  BY <1>2
<1>4. PICK list : list = [i \in 1..n |-> IF Reached(f, i) THEN SetDefaults(f.neighbors[i], Nothing) ELSE f.neighbors[i]]
  OBVIOUS
<1>5. \A i \in 1..n : list[i] \in Neighbors
  BY <1>3, <1>4, DefaultsType DEF Groupings
<1>6. list \in Seq(Neighbors) /\ DOMAIN list = 1..n
  BY <1>4, <1>5, IsList
<1>7. new = [f EXCEPT !.neighbors = list]
  BY <1>3, <1>4 DEF SetDefaultConfigValues
<1>8. /\ new \in FileType /\ new.neighbors = list /\ new.prefixes = f.prefixes /\ new.policies = f.policies
      /\ new.global = f.global
  BY <1>1, <1>6, <1>7 DEF FileType
<1>9. ASSUME NEW i \in 1..n, list[i].group # Nothing PROVE Address(list[i]) \in Unfilled(new)
  <2>1. ~Reached(f, i)
    <3>1. ASSUME Reached(f, i) PROVE FALSE
      <4>1. f.neighbors[i].group = Nothing
        BY <1>3, <3>1 DEF LoadFails
      <4>2. list[i] = SetDefaults(f.neighbors[i], Nothing)
        BY <1>4, <3>1
      <4>3. list[i].group = f.neighbors[i].group
        BY <1>3, <4>2, DefaultsType DEF Groupings
      <4> QED
        BY <1>9, <4>1, <4>3
    <3> QED
      BY <3>1
  <2>2. list[i] = f.neighbors[i]
    BY <1>4, <2>1
  <2>3. list[i].state = Nothing /\ ~list[i].filled
    BY <1>1, <1>3, <2>2
  <2> QED
    BY <1>6, <1>8, <2>3 DEF Unfilled, Address
<1> QED
  BY <1>1, <1>6, <1>8, <1>9 DEF ToSet

LEMMA UnfilledType ==
  ASSUME NEW f \in FileType
  PROVE  Unfilled(f) \subseteq Addresses
<1>1. f.neighbors \in Seq(Neighbors)
  BY DEF FileType
<1>2. \A i \in DOMAIN f.neighbors : f.neighbors[i].address \in Addresses
  <2>1. \A i \in DOMAIN f.neighbors : f.neighbors[i] \in Neighbors
    BY <1>1
  <2> QED
    BY <2>1 DEF Neighbors
<1> QED
  BY <1>2 DEF Unfilled

LEMMA FirstCallsFacts ==
  ASSUME NEW f \in FileType, IsFiniteSet(f.prefixes)
  PROVE  /\ FirstCalls(f) \in Seq(Operations) /\ FirstCalls(f) # <<>>
         /\ FirstCalls(f)[1].op = "policies" /\ Tail(FirstCalls(f)) \in Seq(Plain(f.neighbors))
<1>1. /\ f.neighbors \in Seq(Neighbors) /\ f.groups \in Seq(GroupConfs) /\ f.prefixes \in SUBSET PrefixConfs
      /\ f.policies \in SUBSET Policies
  BY DEF FileType
<1> DEFINE P == Plain(f.neighbors)
           one == <<Call("policies", f.policies)>>
           gs == Each("addGroup", f.groups)
           ds == Each("prefix", SetToSeq(f.prefixes))
           ns == Each("add", f.neighbors)
<1>2. one \in Seq(Operations) /\ one # <<>> /\ one[1].op = "policies" /\ Tail(one) \in Seq(P)
  <2>1. Call("policies", f.policies) \in Operations
    BY <1>1, PolicyCalls
  <2>2. Tail(one) = <<>> /\ <<>> \in Seq(P)
    OBVIOUS
  <2>3. one[1] = Call("policies", f.policies) /\ one # <<>>
    OBVIOUS
  <2> QED
    BY <2>1, <2>2, <2>3 DEF Call
<1>3. P \subseteq Operations
  BY DEF Plain
<1>4. gs \in Seq(P)
  BY <1>1, PlainCalls, EachIs
<1>5. ds \in Seq(P)
  <2>1. SetToSeq(f.prefixes) \in Seq(f.prefixes)
    BY SetToSeqFacts
  <2>2. \A dn \in f.prefixes : Call("prefix", dn) \in P
    BY <1>1, PlainCalls
  <2> QED
    BY <2>1, <2>2, EachIs
<1>6. ns \in Seq(P)
  <2>1. f.neighbors \in Seq(ToSet(f.neighbors))
    BY <1>1, OwnElements
  <2> QED
    BY <1>1, <2>1, PlainCalls, EachIs
<1>7. FirstCalls(f) = ((one \o gs) \o ds) \o ns
  BY DEF FirstCalls
<1> HIDE DEF P, one, gs, ds, ns
<1>8. PICK s : s = one \o gs
  OBVIOUS
<1>9. s \in Seq(Operations) /\ s # <<>> /\ s[1] = one[1] /\ Tail(s) \in Seq(P)
  BY <1>2, <1>3, <1>4, <1>8, ConcatTail
<1>10. PICK t : t = s \o ds
  OBVIOUS
<1>11. t \in Seq(Operations) /\ t # <<>> /\ t[1] = s[1] /\ Tail(t) \in Seq(P)
  BY <1>3, <1>5, <1>9, <1>10, ConcatTail
<1>12. t \o ns \in Seq(Operations) /\ t \o ns # <<>> /\ (t \o ns)[1] = t[1] /\ Tail(t \o ns) \in Seq(P)
  BY <1>3, <1>6, <1>11, ConcatTail
<1> QED
  BY <1>2, <1>7, <1>8, <1>9, <1>10, <1>11, <1>12 DEF P
LEMMA NamesType ==
  ASSUME NEW list \in Seq(GroupConfs)
  PROVE  Names(list) \in Seq(GroupNames)
<1>1. Len(list) \in Nat /\ DOMAIN list = 1..Len(list) /\ \A i \in 1..Len(list) : list[i] \in GroupConfs
  OBVIOUS
<1>2. PICK s : s = [i \in 1..Len(list) |-> list[i].name]
  OBVIOUS
<1>3. s = [i \in 1..Len(list) |-> s[i]] /\ \A i \in 1..Len(list) : s[i] \in GroupNames
  BY <1>1, <1>2 DEF GroupConfs
<1>4. s \in Seq(GroupNames)
  BY <1>1, <1>3, IsList
<1> QED
  BY <1>1, <1>2, <1>4 DEF Names

LEMMA WiderList ==
  ASSUME NEW S, NEW T, S \subseteq T, NEW list \in Seq(S)
  PROVE  list \in Seq(T)
<1>1. Len(list) \in Nat /\ list = [i \in 1..Len(list) |-> list[i]] /\ \A i \in 1..Len(list) : list[i] \in T
  OBVIOUS
<1> QED
  BY <1>1, IsList

LEMMA LaterCallsFacts ==
  ASSUME NEW c \in FileType, NEW f \in FileType, IsFiniteSet(f.prefixes)
  PROVE  /\ LaterCalls(c, f) \in Seq(Operations)
         /\ \A x \in ToSet(LaterCalls(c, f)) : x.op \in {"add", "update"} => x.arg \in ToSet(f.neighbors)
         /\ f.policies = c.policies /\ f.global = c.global =>
              \A x \in ToSet(LaterCalls(c, f)) : x.op \notin PolicyOps
<1>1. /\ f.neighbors \in Seq(Neighbors) /\ f.groups \in Seq(GroupConfs) /\ f.prefixes \in SUBSET PrefixConfs
      /\ f.policies \in SUBSET Policies /\ f.global \in SUBSET Policies
      /\ c.neighbors \in Seq(Neighbors) /\ c.groups \in Seq(GroupConfs)
  BY DEF FileType
<1> DEFINE P == Plain(f.neighbors)
           Q == IF f.policies = c.policies /\ f.global = c.global THEN P
                ELSE P \cup {Call("policies", f.policies), Call("global", f.global)}
           s1 == IF f.policies # c.policies THEN <<Call("policies", f.policies)>> ELSE <<>>
           s2 == IF f.global # c.global THEN <<Call("global", f.global)>> ELSE <<>>
           pg == UpdatePeerGroupConfig(c, f)
           nb == UpdateNeighborConfig(c, f)
<1>2. P \subseteq Q /\ Q \subseteq Operations
  BY <1>1, PolicyCalls DEF Plain
<1>3. s1 \in Seq(Q) /\ s2 \in Seq(Q)
  <2>1. f.policies # c.policies => Call("policies", f.policies) \in Q
    OBVIOUS
  <2>2. f.global # c.global => Call("global", f.global) \in Q
    OBVIOUS
  <2> HIDE DEF Q
  <2> QED
    BY <2>1, <2>2
<1> HIDE DEF Q
<1>4. /\ pg.added \in Seq(GroupConfs) /\ pg.deleted \in Seq(GroupConfs) /\ pg.updated \in Seq(GroupConfs)
  BY <1>1, KeptElements DEF UpdatePeerGroupConfig, Changes, Added, Updated
<1>5. /\ nb.added \in Seq(ToSet(f.neighbors)) /\ nb.deleted \in Seq(Neighbors)
      /\ nb.updated \in Seq(ToSet(f.neighbors))
  BY <1>1, KeptElements, KeptOwn DEF UpdateNeighborConfig, Changes, Added, Updated
<1>6. /\ Each("addGroup", pg.added) \in Seq(Q) /\ Each("deleteGroup", Names(pg.deleted)) \in Seq(Q)
      /\ Each("updateGroup", pg.updated) \in Seq(Q)
  <2> HIDE DEF P, pg
  <2>1. \A g \in GroupConfs : Call("addGroup", g) \in Q /\ Call("updateGroup", g) \in Q
    BY <1>1, <1>2, PlainCalls DEF P
  <2>2. \A h \in GroupNames : Call("deleteGroup", h) \in Q
    BY <1>1, <1>2, PlainCalls DEF P
  <2>3. Names(pg.deleted) \in Seq(GroupNames)
    BY <1>4, NamesType
  <2> QED
    BY <1>4, <2>1, <2>2, <2>3, EachIs
<1>7. Each("prefix", SetToSeq(f.prefixes)) \in Seq(Q)
  <2>1. SetToSeq(f.prefixes) \in Seq(f.prefixes)
    BY SetToSeqFacts
  <2>2. \A dn \in f.prefixes : Call("prefix", dn) \in Q
    BY <1>1, <1>2, PlainCalls
  <2> QED
    BY <2>1, <2>2, EachIs
<1>8. /\ Each("add", nb.added) \in Seq(Q) /\ Each("delete", nb.deleted) \in Seq(Q)
      /\ Each("update", nb.updated) \in Seq(Q)
  <2> HIDE DEF P, nb
  <2>1. \A n \in ToSet(f.neighbors) : Call("add", n) \in Q /\ Call("update", n) \in Q
    BY <1>1, <1>2, PlainCalls DEF P
  <2>2. \A n \in Neighbors : Call("delete", n) \in Q
    BY <1>1, <1>2, PlainCalls DEF P
  <2> QED
    BY <1>5, <2>1, <2>2, EachIs
<1>9. LaterCalls(c, f) =
        s1 \o s2 \o Each("addGroup", pg.added) \o Each("deleteGroup", Names(pg.deleted))
           \o Each("updateGroup", pg.updated) \o Each("updateGroup", pg.updated)
           \o Each("prefix", SetToSeq(f.prefixes))
           \o Each("add", nb.added) \o Each("delete", nb.deleted) \o Each("update", nb.updated)
  BY DEF LaterCalls
<1> HIDE DEF P, s1, s2, pg, nb
<1>10. \A s, t \in Seq(Q) : s \o t \in Seq(Q)
  BY ConcatElements
<1>11. LaterCalls(c, f) \in Seq(Q)
  <2>1. s1 \o s2 \o Each("addGroup", pg.added) \o Each("deleteGroup", Names(pg.deleted)) \in Seq(Q)
    BY <1>3, <1>6, <1>10
  <2>2. s1 \o s2 \o Each("addGroup", pg.added) \o Each("deleteGroup", Names(pg.deleted))
           \o Each("updateGroup", pg.updated) \o Each("updateGroup", pg.updated)
           \o Each("prefix", SetToSeq(f.prefixes)) \in Seq(Q)
    BY <1>6, <1>7, <1>10, <2>1
  <2> QED
    BY <1>8, <1>9, <1>10, <2>2
<1>12. LaterCalls(c, f) \in Seq(Operations) /\ ToSet(LaterCalls(c, f)) \subseteq Q
  BY <1>2, <1>11, WiderList, OwnElements
<1>13. \A x \in Q : x.op \in {"add", "update"} => x.arg \in ToSet(f.neighbors)
  BY DEF Q, P, Plain, Call
<1>14. f.policies = c.policies /\ f.global = c.global => \A x \in Q : x.op \notin PolicyOps
  BY DEF Q, P, Plain
<1> QED
  BY <1>12, <1>13, <1>14
-----------------------------------------------------------------------------
(* The invariant *)

NoPolicies(list) == \A c \in ToSet(list) : c.op \notin PolicyOps

\* Main's list gives a group to no neighbor but those that are touched, and a member is touched.
MembersTouched ==
  /\ Joined(server) \subseteq touched
  /\ \A c \in ToSet(todo) : Joins(c) \subseteq touched
\* Before there is a file main has nothing to do; what runs came by itself.
NothingConfigured == current = Nothing => todo = <<>> /\ RunningAddresses(server) \subseteq touched
\* Policies change while main knows of the reset, or before it configured any neighbor.
PoliciesAhead ==
  \/ reset \/ NoPolicies(todo)
  \/ todo # <<>> /\ NoPolicies(Tail(todo)) /\ RunningAddresses(server) \subseteq touched
ResetAhead ==
  \/ server.unsettled \subseteq touched
  \/ reset /\ todo # <<>>
  \/ todo = <<Call("softResetIn", Nothing)>>

IInv == TypeOK /\ Good(server) /\ MembersTouched /\ NothingConfigured /\ PoliciesAhead /\ ResetAhead

LEMMA InitIInv == Init => IInv
<1> SUFFICES ASSUME Init PROVE IInv
  OBVIOUS
<1>1. /\ server.running = [a \in Addresses |-> Nothing] /\ server.dynamic = {} /\ server.unsettled = {}
      /\ server.groups = [g \in GroupNames |->
                           [conf |-> Nothing, members |-> [a \in Addresses |-> Nothing], prefixes |-> {}]]
      /\ current = Nothing /\ todo = <<>> /\ reset = FALSE /\ defined = {} /\ panicked = FALSE /\ calls = 0
      /\ touched = {}
  BY DEF Init
<1>2. server \in Server
  <2>1. [conf |-> Nothing, members |-> [a \in Addresses |-> Nothing], prefixes |-> {}] \in Groups
    BY DEF Groups, Runnable
  <2>2. server.groups \in [GroupNames -> Groups] /\ server.running \in [Addresses -> Runnable]
    BY <1>1, <2>1 DEF Runnable
  <2>3. server = [running |-> server.running, groups |-> server.groups, dynamic |-> {}, unsettled |-> {},
                  assigned |-> [id \in Ids |-> {}]]
    BY DEF Init, Ids
  <2> QED
    BY <2>2, <2>3, ServerIs
<1>3. TypeOK
  <2>1. todo \in Seq(Operations) /\ calls \in Nat /\ reset \in BOOLEAN /\ panicked \in BOOLEAN
    <3>1. <<>> \in Seq(Operations)
      OBVIOUS
    <3>2. todo \in Seq(Operations)
      BY <3>1 DEF Init
    <3>3. calls = 0
      BY DEF Init
    <3>4. calls \in Nat
      BY <3>3
    <3>5. reset = FALSE /\ panicked = FALSE
      BY Zenon DEF Init
    <3>6. reset \in BOOLEAN /\ panicked \in BOOLEAN
      BY <3>5, Zenon
    <3> QED
      BY <3>2, <3>4, <3>6
  <2>2. current \in FileType \cup {Nothing} /\ defined \subseteq Policies /\ touched \subseteq Addresses \cup GroupNames
    BY <1>1
  <2> QED
    BY <1>2, <2>1, <2>2 DEF TypeOK
<1>4. Good(server)
  BY <1>1, <1>2 DEF Good, Fits
<1>5. ToSet(todo) = {}
  BY <1>1 DEF ToSet
<1>6. MembersTouched /\ NothingConfigured /\ PoliciesAhead /\ ResetAhead
  BY <1>1, <1>5 DEF MembersTouched, NothingConfigured, PoliciesAhead, ResetAhead, Joined, RunningAddresses, NoPolicies
<1> QED
  BY <1>3, <1>4, <1>6 DEF IInv

LEMMA AboutType ==
  ASSUME NEW c \in Operations
  PROVE  /\ About(c) \subseteq Addresses \cup GroupNames
         /\ c.op \in {"add", "delete", "update"} => Address(c.arg) \in About(c)
         /\ Joins(c) \subseteq About(c)
<1>1. c.op \in {"add", "delete", "update"} => c.arg \in Neighbors
  BY OperationArgs
<1>2. c.op \in {"addGroup", "updateGroup"} => c.arg.name \in GroupNames
  BY OperationArgs DEF GroupConfs
<1>3. c.op = "deleteGroup" => c.arg \in GroupNames
  BY OperationArgs
<1>4. c.op \in {"add", "delete", "update"} => Address(c.arg) \in Addresses /\ About(c) = {Address(c.arg)}
  BY <1>1, AddressType DEF About
<1>5. About(c) \subseteq Addresses \cup GroupNames
  BY <1>2, <1>3, <1>4 DEF About
<1> QED
  BY <1>4, <1>5 DEF Joins

LEMMA ReloadKeeps ==
  ASSUME IInv, Reload
  PROVE  IInv'
<1>1. PICK f \in Files :
        IF LoadFails(f)
        THEN panicked' = TRUE /\ UNCHANGED <<current, todo, reset, server, defined, calls, touched>>
        ELSE /\ current' = SetDefaultConfigValues(f)
             /\ todo' = IF current = Nothing THEN FirstCalls(current') ELSE LaterCalls(current, current')
             /\ reset' = (current # Nothing /\ (f.policies # current.policies \/ f.global # current.global))
             /\ touched' = touched \cup Unfilled(current')
             /\ UNCHANGED <<server, defined, panicked, calls>>
  BY DEF Reload
<1>2. CASE LoadFails(f)
  <2>1. panicked' = TRUE /\ UNCHANGED <<current, todo, reset, server, defined, calls, touched>>
    BY <1>1, <1>2
  <2>2. TypeOK'
    BY <2>1 DEF IInv, TypeOK
  <2>3. Good(server')
    BY <2>1 DEF IInv
  <2>4. MembersTouched' /\ NothingConfigured' /\ PoliciesAhead' /\ ResetAhead'
    BY <2>1 DEF IInv, MembersTouched, NothingConfigured, PoliciesAhead, ResetAhead
  <2> QED
    BY <2>2, <2>3, <2>4 DEF IInv
<1>3. CASE ~LoadFails(f)
  <2>1. PICK new : new = SetDefaultConfigValues(f)
    OBVIOUS
  <2>2. /\ new \in FileType /\ IsFiniteSet(new.prefixes)
        /\ new.policies = f.policies /\ new.global = f.global
        /\ \A n \in ToSet(new.neighbors) : n.group # Nothing => Address(n) \in Unfilled(new)
    BY <1>3, <2>1, FileFacts
  <2>3. current' = new /\ touched' = touched \cup Unfilled(new) /\ UNCHANGED <<server, defined, panicked, calls>>
    BY <1>1, <1>3, <2>1
  <2>4. new # Nothing
    BY <2>2, NoFileIsNothing
  <2>5. todo = <<>> /\ TypeOK /\ Good(server) /\ Joined(server) \subseteq touched
        /\ (current = Nothing => RunningAddresses(server) \subseteq touched)
        /\ touched \subseteq touched'
    BY <2>3 DEF Reload, IInv, MembersTouched, NothingConfigured
  <2>6. server.unsettled \subseteq touched
    <3>1. todo # <<Call("softResetIn", Nothing)>>
      BY <2>5
    <3> QED
      BY <2>5, <3>1 DEF IInv, ResetAhead
  <2>7. /\ todo' \in Seq(Operations)
        /\ \A c \in ToSet(todo') : c.op \in {"add", "update"} => c.arg \in ToSet(new.neighbors)
        /\ reset' \/ NoPolicies(todo') \/ (current = Nothing /\ todo' # <<>> /\ NoPolicies(Tail(todo')))
    <3>1. CASE current = Nothing
      <4>1. todo' = FirstCalls(new)
        BY <1>1, <1>3, <2>3, <3>1
      <4>2. PICK calls1 : calls1 = FirstCalls(new)
        OBVIOUS
      <4>3. calls1 \in Seq(Operations) /\ calls1 # <<>> /\ Tail(calls1) \in Seq(Plain(new.neighbors))
            /\ calls1[1].op = "policies"
        BY <2>2, <4>2, FirstCallsFacts
      <4>4. ToSet(Tail(calls1)) \subseteq Plain(new.neighbors)
        BY <4>3, OwnElements
      <4>5. \A c \in ToSet(calls1) : c = calls1[1] \/ c \in ToSet(Tail(calls1))
        BY <4>3, HeadOrTail
      <4> QED
        BY <3>1, <4>1, <4>2, <4>3, <4>4, <4>5 DEF NoPolicies, Plain
    <3>2. CASE current # Nothing
      <4>1. todo' = LaterCalls(current, new) /\ current \in FileType
        BY <1>1, <1>3, <2>3, <2>5, <3>2 DEF TypeOK
      <4>2. reset' = (f.policies # current.policies \/ f.global # current.global)
        BY <1>1, <1>3, <3>2
      <4>3. /\ LaterCalls(current, new) \in Seq(Operations)
            /\ \A x \in ToSet(LaterCalls(current, new)) : x.op \in {"add", "update"} => x.arg \in ToSet(new.neighbors)
            /\ new.policies = current.policies /\ new.global = current.global =>
                 \A x \in ToSet(LaterCalls(current, new)) : x.op \notin PolicyOps
        BY <2>2, <4>1, LaterCallsFacts
      <4>4. reset' \/ NoPolicies(LaterCalls(current, new))
        BY <2>2, <4>2, <4>3 DEF NoPolicies
      <4> QED
        BY <4>1, <4>3, <4>4
    <3> QED
      BY <3>1, <3>2
  <2>8. MembersTouched'
    <3>1. ASSUME NEW c \in ToSet(todo'), NEW a \in Joins(c) PROVE a \in touched'
      <4>1. c.op \in {"add", "update"} /\ c.arg.group # Nothing /\ a = Address(c.arg)
        BY DEF Joins
      <4> QED
        BY <2>2, <2>3, <2>7, <4>1
    <3> QED
      BY <2>3, <2>5, <3>1 DEF MembersTouched, Joined
  <2>9. NothingConfigured'
    BY <2>3, <2>4 DEF NothingConfigured
  <2>10. PoliciesAhead'
    BY <2>3, <2>5, <2>7 DEF PoliciesAhead, NoPolicies, RunningAddresses
  <2>11. ResetAhead'
    BY <2>3, <2>5, <2>6 DEF ResetAhead
  <2>12. TypeOK'
    <3>1. Unfilled(new) \subseteq Addresses
      BY <2>2, UnfilledType
    <3>2. reset' \in BOOLEAN
      BY <1>1, <1>3
    <3> QED
      BY <2>2, <2>3, <2>5, <2>7, <3>1, <3>2 DEF TypeOK
  <2>13. Good(server)'
    BY <2>3, <2>5 DEF Good, Fits
  <2> QED
    BY <2>8, <2>9, <2>10, <2>11, <2>12, <2>13 DEF IInv
<1> QED
  BY <1>2, <1>3
\* What a call does to the server keeps MembersTouched and, when policies change only before any neighbor
\* is configured, keeps all that is unsettled touched.
LEMMA MainCallsKeeps ==
  ASSUME IInv, MainCalls
  PROVE  IInv'
<1> DEFINE c == Head(todo)
<1>0. /\ todo # <<>> /\ todo \in Seq(Operations) /\ TypeOK /\ Good(server) /\ MembersTouched /\ NothingConfigured
      /\ PoliciesAhead /\ ResetAhead
  BY DEF MainCalls, IInv, TypeOK
<1>1. /\ c = todo[1] /\ c \in Operations /\ c \in ToSet(todo) /\ Tail(todo) \in Seq(Operations)
      /\ Len(todo) \in Nat \ {0} /\ (Tail(todo) = <<>> <=> Len(todo) = 1) /\ ToSet(Tail(todo)) \subseteq ToSet(todo)
  BY <1>0, HeadOrTail
<1>2. CASE Panics(server, c)
  <2>1. UNCHANGED <<current, todo, reset, server, defined, calls, touched>> /\ panicked' = TRUE
    BY <1>2 DEF MainCalls
  <2> QED
    BY <2>1 DEF IInv, TypeOK, MembersTouched, NothingConfigured, PoliciesAhead, ResetAhead, NoPolicies, Joined,
       RunningAddresses, Good, Fits
<1>3. CASE ~Panics(server, c)
  <2>1. PICK r \in Results(server, c) :
          /\ server' = r.server
          /\ touched' = IF r.ok THEN touched ELSE touched \cup About(c)
          /\ defined' = IF c.op = "policies" THEN c.arg ELSE defined
          /\ todo' = IF Len(todo) = 1 /\ Resets(r) THEN <<Call("softResetIn", Nothing)>> ELSE Tail(todo)
          /\ reset' = (Resets(r) /\ Len(todo) > 1)
          /\ UNCHANGED <<current, panicked, calls>>
    BY <1>3 DEF MainCalls
  <2> HIDE DEF c
  <2>2. /\ r \in ResultType /\ Good(r.server)
        /\ RunningAddresses(r.server) \subseteq
             RunningAddresses(server) \cup (IF c.op = "add" THEN {Address(c.arg)} ELSE {})
        /\ Joined(r.server) \subseteq Joined(server) \cup Joins(c)
        /\ r.server.unsettled \subseteq server.unsettled \cup Unsettles(server, c)
        /\ c.op = "update" => r.server.unsettled \subseteq server.unsettled \/ r.reset
        /\ c.op = "softResetIn" => r.server.unsettled = {}
    BY <1>0, <1>1, <1>3, <2>1, CallFacts
  <2>3. touched \subseteq touched' /\ (~r.ok => About(c) \subseteq touched')
        /\ touched' \subseteq touched \cup About(c)
    BY <2>1
  <2>4. PICK soft : soft = Call("softResetIn", Nothing) /\ soft \in Operations /\ soft.op = "softResetIn"
    BY SoftResetCall
  <2>5. <<soft>> \in Seq(Operations) /\ ToSet(<<soft>>) = {soft} /\ <<soft>> # <<>>
    BY <2>4 DEF ToSet
  <2>6. TypeOK'
    <3>1. r.server \in Server /\ c.op = "policies" => c.arg \in SUBSET Policies
      BY <1>1, OperationArgs
    <3>2. todo' \in Seq(Operations)
      BY <1>1, <2>1, <2>4, <2>5
    <3>3. server' \in Server
      BY <2>1, <2>2 DEF Good
    <3>4. defined' \subseteq Policies
      BY <1>0, <1>1, <2>1, OperationArgs DEF TypeOK
    <3>5. touched' \subseteq Addresses \cup GroupNames
      BY <1>0, <1>1, <2>3, AboutType DEF TypeOK
    <3>6. reset' \in BOOLEAN
      BY <2>1
    <3>7. /\ current' \in FileType \cup {Nothing} /\ panicked' \in BOOLEAN /\ calls' \in Nat
      BY <1>0, <2>1 DEF TypeOK
    <3> QED
      BY <3>2, <3>3, <3>4, <3>5, <3>6, <3>7 DEF TypeOK
  <2>7. Good(server)'
    BY <2>1, <2>2
  <2>8. MembersTouched'
    <3>1. Joined(server') \subseteq touched'
      BY <1>0, <1>1, <2>1, <2>2, <2>3 DEF MembersTouched
    <3>2. ASSUME NEW x \in ToSet(todo') PROVE Joins(x) \subseteq touched'
      <4>1. x \in ToSet(todo) \/ x = soft
        BY <1>1, <2>1, <2>4, <2>5
      <4>2. Joins(soft) = {}
        BY <2>4 DEF Joins
      <4> QED
        BY <1>0, <2>3, <4>1, <4>2 DEF MembersTouched
    <3> QED
      BY <3>1, <3>2 DEF MembersTouched
  <2>9. NothingConfigured'
    BY <1>0, <2>1 DEF NothingConfigured
  <2>10. CASE Resets(r)
    <3>1. CASE Len(todo) = 1
      <4>1. todo' = <<soft>>
        BY <2>1, <2>4, <2>10, <3>1
      <4>2. NoPolicies(todo')
        BY <2>4, <2>5, <4>1 DEF NoPolicies, PolicyOps
      <4>3. PoliciesAhead' /\ ResetAhead'
        BY <2>4, <4>1, <4>2 DEF PoliciesAhead, ResetAhead, NoPolicies
      <4> QED
        BY <2>6, <2>7, <2>8, <2>9, <4>3 DEF IInv
    <3>2. CASE Len(todo) # 1
      <4>1. Len(todo) > 1
        BY <1>1, <3>2
      <4>2. reset' /\ todo' # <<>>
        BY <1>1, <2>1, <2>10, <3>2, <4>1
      <4>3. PoliciesAhead' /\ ResetAhead'
        BY <4>2 DEF PoliciesAhead, ResetAhead
      <4> QED
        BY <2>6, <2>7, <2>8, <2>9, <4>3 DEF IInv
    <3> QED
      BY <3>1, <3>2
  <2>11. CASE ~Resets(r)
    <3>1. ~reset /\ (r.ok => ~r.reset) /\ todo' = Tail(todo)
      BY <2>1, <2>11 DEF Resets
    <3>2. NoPolicies(todo')
      BY <1>0, <1>1, <3>1 DEF PoliciesAhead, NoPolicies
    <3>3. PoliciesAhead'
      BY <3>2 DEF PoliciesAhead, NoPolicies
    <3>4. ResetAhead'
      <4>1. CASE todo = <<Call("softResetIn", Nothing)>>
        <5>1. c.op = "softResetIn"
          BY <1>1, <2>4, <4>1
        <5> QED
          BY <2>1, <2>2, <5>1 DEF ResetAhead
      <4>2. CASE server.unsettled \subseteq touched
        <5>1. CASE c.op = "update"
          <6>1. Unsettles(server, c) = {Address(c.arg)} /\ Address(c.arg) \in About(c)
            BY <1>1, <5>1, AboutType DEF Unsettles
          <6>2. r.server.unsettled \subseteq touched'
            BY <2>2, <2>3, <3>1, <4>2, <5>1, <6>1
          <6> QED
            BY <2>1, <6>2 DEF ResetAhead
        <5>2. CASE c.op # "update"
          <6>1. Unsettles(server, c) \subseteq touched
            <7>1. CASE c.op \in PolicyOps
              <8>1. RunningAddresses(server) \subseteq touched
                BY <1>0, <1>1, <3>1, <7>1 DEF PoliciesAhead, NoPolicies
              <8> QED
                BY <7>1, <8>1 DEF Unsettles, PolicyOps
            <7>2. CASE c.op = "updateGroup"
              <8>1. c.arg.name \in GroupNames
                BY <1>1, <7>2, OperationArgs DEF GroupConfs
              <8>2. Members(server, c.arg.name) \subseteq Joined(server)
                BY <8>1 DEF Members, Joined
              <8>3. Unsettles(server, c) = Members(server, c.arg.name)
                BY <7>2 DEF Unsettles
              <8> QED
                BY <1>0, <8>2, <8>3 DEF MembersTouched
            <7>3. CASE c.op \notin PolicyOps /\ c.op # "updateGroup"
              BY <5>2, <7>3 DEF Unsettles, PolicyOps
            <7> QED
              BY <7>1, <7>2, <7>3
          <6>2. r.server.unsettled \subseteq touched'
            BY <2>2, <2>3, <4>2, <6>1
          <6> QED
            BY <2>1, <6>2 DEF ResetAhead
        <5> QED
          BY <5>1, <5>2
      <4> QED
        BY <1>0, <3>1, <4>1, <4>2 DEF ResetAhead
    <3> QED
      BY <2>6, <2>7, <2>8, <2>9, <3>3, <3>4 DEF IInv
  <2> QED
    BY <2>10, <2>11
<1> QED
  BY <1>2, <1>3
LEMMA ClientCallsKeeps ==
  ASSUME IInv, ClientCalls
  PROVE  IInv'
<1>0. /\ TypeOK /\ Good(server) /\ MembersTouched /\ NothingConfigured /\ PoliciesAhead /\ ResetAhead
      /\ current # Nothing /\ calls' = calls + 1 /\ UNCHANGED <<current, todo, reset>>
  BY DEF ClientCalls, IInv
<1>1. PICK c \in ApiCalls :
        IF Panics(server, c)
        THEN panicked' = TRUE /\ UNCHANGED <<current, todo, reset, server, defined, touched>>
        ELSE \E r \in Results(server, c) :
               /\ server' = r.server
               /\ touched' = touched \cup About(c) \cup AlsoReached(c)
               /\ defined' = IF c.op = "policies" THEN c.arg ELSE defined
               /\ UNCHANGED <<current, todo, reset, panicked>>
  BY DEF ClientCalls
<1>2. c \in Operations
  BY CallsAssumption
<1>3. CASE Panics(server, c)
  <2>1. UNCHANGED <<current, todo, reset, server, defined, touched>> /\ panicked' = TRUE
    BY <1>1, <1>3
  <2>2. TypeOK'
    BY <1>0, <2>1 DEF TypeOK
  <2>3. MembersTouched' /\ NothingConfigured' /\ PoliciesAhead' /\ ResetAhead' /\ Good(server')
    BY <1>0, <2>1 DEF MembersTouched, NothingConfigured, PoliciesAhead, ResetAhead
  <2> QED
    BY <2>2, <2>3 DEF IInv
<1>4. CASE ~Panics(server, c)
  <2>1. PICK r \in Results(server, c) :
          /\ server' = r.server
          /\ touched' = touched \cup About(c) \cup AlsoReached(c)
          /\ defined' = IF c.op = "policies" THEN c.arg ELSE defined
          /\ UNCHANGED <<current, todo, reset, panicked>>
    BY <1>1, <1>4
  <2>2. /\ r \in ResultType /\ Good(r.server)
        /\ RunningAddresses(r.server) \subseteq
             RunningAddresses(server) \cup (IF c.op = "add" THEN {Address(c.arg)} ELSE {})
        /\ Joined(r.server) \subseteq Joined(server) \cup Joins(c)
        /\ r.server.unsettled \subseteq server.unsettled \cup Unsettles(server, c)
    BY <1>0, <1>2, <1>4, CallFacts
  <2>3. /\ Unsettles(server, c) \subseteq About(c) \cup AlsoReached(c) /\ Joins(c) \subseteq About(c)
        /\ c.op = "add" => Address(c.arg) \in About(c)
    <3>1. Unsettles(server, c) \subseteq About(c) \cup AlsoReached(c)
      <4>1. CASE c.op \in PolicyOps
        <5>1. Unsettles(server, c) = RunningAddresses(server)
          BY <4>1 DEF Unsettles, PolicyOps
        <5>2. AlsoReached(c) = {a \in Addresses : server.running[a] # Nothing}
          BY <4>1 DEF AlsoReached, PolicyOps
        <5>3. AlsoReached(c) = RunningAddresses(server)
          BY <5>2 DEF RunningAddresses
        <5> QED
          BY <5>1, <5>3
      <4>2. CASE c.op = "updateGroup"
        <5>1. Unsettles(server, c) = Members(server, c.arg.name)
          BY <4>2 DEF Unsettles
        <5>2. AlsoReached(c) = {a \in Addresses : server.groups[c.arg.name].members[a] # Nothing}
          BY <4>2 DEF AlsoReached
        <5>3. AlsoReached(c) = Members(server, c.arg.name)
          BY <5>2 DEF Members
        <5> QED
          BY <5>1, <5>3
      <4>3. CASE c.op = "update"
        BY <1>2, <4>3, AboutType DEF Unsettles
      <4>4. CASE c.op \notin PolicyOps \cup {"updateGroup", "update"}
        <5>1. c.op \notin {"policies", "global"} /\ c.op # "updateGroup" /\ c.op # "update"
          BY <4>4 DEF PolicyOps
        <5>2. Unsettles(server, c) = {}
          BY <5>1 DEF Unsettles
        <5> QED
          BY <5>2
      <4> QED
        BY <4>1, <4>2, <4>3, <4>4
    <3> QED
      BY <1>2, <3>1, AboutType
  <2>4. touched \subseteq touched' /\ About(c) \subseteq touched' /\ AlsoReached(c) \subseteq touched'
    BY <2>1
  <2>5. TypeOK'
    <3>1. AlsoReached(c) \subseteq Addresses
      BY DEF AlsoReached
    <3>2. touched' \subseteq Addresses \cup GroupNames
      BY <1>0, <1>2, <2>1, <3>1, AboutType DEF TypeOK
    <3>3. server' \in Server
      BY <2>1, <2>2 DEF Good
    <3>4. defined' \subseteq Policies
      BY <1>0, <1>2, <2>1, OperationArgs DEF TypeOK
    <3>5. calls' \in Nat
      BY <1>0 DEF TypeOK
    <3>6. todo' \in Seq(Operations)
      BY <1>0 DEF TypeOK
    <3>7. reset' \in BOOLEAN /\ panicked' \in BOOLEAN /\ current' \in FileType \cup {Nothing}
      BY <1>0, <2>1 DEF TypeOK
    <3> QED
      BY <3>2, <3>3, <3>4, <3>5, <3>6, <3>7 DEF TypeOK
  <2>6. Good(server)'
    BY <2>1, <2>2
  <2>7. MembersTouched'
    <3>1. Joined(server') \subseteq touched'
      BY <1>0, <2>1, <2>2, <2>3, <2>4 DEF MembersTouched
    <3>2. \A x \in ToSet(todo') : Joins(x) \subseteq touched'
      BY <1>0, <2>4 DEF MembersTouched
    <3> QED
      BY <3>1, <3>2 DEF MembersTouched
  <2>8. NothingConfigured'
    BY <1>0 DEF NothingConfigured
  <2>9. PoliciesAhead'
    <3>1. RunningAddresses(server) \subseteq touched => RunningAddresses(server') \subseteq touched'
      BY <2>1, <2>2, <2>3, <2>4
    <3> QED
      BY <1>0, <3>1 DEF PoliciesAhead
  <2>10. ResetAhead'
    <3>1. server.unsettled \subseteq touched => server'.unsettled \subseteq touched'
      BY <2>1, <2>2, <2>3, <2>4
    <3> QED
      BY <1>0, <3>1 DEF ResetAhead
  <2> QED
    BY <2>5, <2>6, <2>7, <2>8, <2>9, <2>10 DEF IInv
<1> QED
  BY <1>3, <1>4

\* A step that leaves main alone.
LEMMA AsideKeeps ==
  ASSUME IInv, UNCHANGED <<current, todo, reset, defined, panicked, calls>>, Good(server'),
         Joined(server') \subseteq Joined(server), server'.unsettled \subseteq server.unsettled,
         touched \subseteq touched', touched' \subseteq Addresses \cup GroupNames,
         RunningAddresses(server') \subseteq RunningAddresses(server) \cup touched'
  PROVE  IInv'
<1>0. TypeOK /\ MembersTouched /\ NothingConfigured /\ PoliciesAhead /\ ResetAhead
  BY DEF IInv
<1>1. TypeOK'
  <2>1. server' \in Server
    BY DEF Good
  <2> QED
    BY <1>0, <2>1 DEF TypeOK
<1>2. MembersTouched'
  BY <1>0 DEF MembersTouched
<1>3. NothingConfigured'
  BY <1>0 DEF NothingConfigured
<1>4. PoliciesAhead'
  BY <1>0 DEF PoliciesAhead
<1>5. ResetAhead'
  BY <1>0 DEF ResetAhead
<1>6. Good(server)'
  OBVIOUS
<1> QED
  BY <1>1, <1>2, <1>3, <1>4, <1>5, <1>6 DEF IInv

LEMMA DynamicArrivesKeeps ==
  ASSUME IInv, NEW a \in Addresses, NEW g \in GroupNames, DynamicArrives(a, g)
  PROVE  IInv'
<1>0. TypeOK /\ Good(server) /\ server \in Server
  BY DEF IInv, TypeOK
<1>1. PICK c : c = [address |-> a, state |-> a, group |-> g, filled |-> FALSE, policies |-> {},
                    set |-> [f \in Fields |-> IF f = "passive" THEN 1 ELSE 0]]
  OBVIOUS
<1>2. PICK n : n = SetDefaults(c, GroupOf(server, c))
  OBVIOUS
<1>3. /\ a \in server.groups[g].prefixes
      /\ server' = PlacedDynamic(SetPeerPolicy(server, a, n.policies), a, n)
      /\ touched' = touched \cup {a}
      /\ UNCHANGED <<current, todo, reset, defined, panicked, calls>>
  BY <1>1, <1>2 DEF DynamicArrives, PlacedDynamic
<1>4. c \in Neighbors /\ Address(c) = a /\ c.group = g
  <2>1. [f \in Fields |-> IF f = "passive" THEN 1 ELSE 0] \in [Fields -> Nat]
    OBVIOUS
  <2>2. c \in Neighbors
    BY <1>1, <2>1 DEF Neighbors
  <2> QED
    BY <1>1, <2>2, NotNothing DEF Address
<1>5. n \in Neighbors /\ Address(n) = a /\ n.group = g
  BY <1>0, <1>2, <1>4, GroupOfType, DefaultsType
<1>6. n.group # Nothing /\ server.groups[n.group].conf # Nothing
  BY <1>0, <1>3, <1>5, NotNothing DEF Good
<1>7. /\ Good(server') /\ Joined(server') \subseteq Joined(server) /\ server'.unsettled \subseteq server.unsettled
      /\ RunningAddresses(server') \subseteq RunningAddresses(server) \cup {a}
  BY <1>0, <1>3, <1>5, <1>6, ArrivalFacts
<1>8. touched' \subseteq Addresses \cup GroupNames
  BY <1>0, <1>3 DEF TypeOK
<1> QED
  BY <1>3, <1>7, <1>8, AsideKeeps

LEMMA DynamicLeavesKeeps ==
  ASSUME IInv, NEW a \in Addresses, DynamicLeaves(a)
  PROVE  IInv'
<1>0. TypeOK /\ Good(server)
  BY DEF IInv
<1>1. server' = Placed(server, a, Nothing) /\ UNCHANGED <<current, todo, reset, defined, panicked, calls, touched>>
  BY DEF DynamicLeaves, Placed
<1>2. Good(server') /\ NoMore(server, server')
  BY <1>0, <1>1, DepartureFacts
<1>3. /\ Joined(server') \subseteq Joined(server) /\ server'.unsettled \subseteq server.unsettled
      /\ RunningAddresses(server') \subseteq RunningAddresses(server)
  BY <1>2 DEF NoMore, NoneRuns, RunningAddresses
<1>4. touched' \subseteq Addresses \cup GroupNames
  BY <1>0, <1>1 DEF TypeOK
<1> QED
  BY <1>1, <1>2, <1>3, <1>4, AsideKeeps

LEMMA IInvStep == IInv /\ [Next]_vars => IInv'
<1> SUFFICES ASSUME IInv, [Next]_vars PROVE IInv'
  OBVIOUS
<1>1. CASE Reload
  BY <1>1, ReloadKeeps
<1>2. CASE MainCalls
  BY <1>2, MainCallsKeeps
<1>3. CASE ClientCalls
  BY <1>3, ClientCallsKeeps
<1>4. ASSUME NEW a \in Addresses, DynamicLeaves(a) PROVE IInv'
  BY <1>4, DynamicLeavesKeeps
<1>5. ASSUME NEW a \in Addresses, NEW g \in GroupNames, DynamicArrives(a, g) PROVE IInv'
  BY <1>5, DynamicArrivesKeeps
<1>6. CASE UNCHANGED vars
  <2>1. UNCHANGED <<current, todo, reset, server, defined, panicked, calls, touched>>
    BY <1>6 DEF vars
  <2>2. Good(server') /\ touched' \subseteq Addresses \cup GroupNames
    BY <2>1 DEF IInv, TypeOK
  <2> QED
    BY <2>1, <2>2, AsideKeeps
<1> QED
  BY <1>1, <1>2, <1>3, <1>4, <1>5, <1>6 DEF Next

LEMMA InvariantHolds == Spec => []IInv
BY InitIInv, IInvStep, PTL DEF Spec

\* The types hold in every behavior.
THEOREM ConfigurationTypeCorrect == Spec => []TypeOK
<1>1. IInv => TypeOK
  BY DEF IInv
<1> QED
  BY <1>1, InvariantHolds, PTL

\* The group of a neighbor exists and knows it, whatever files and clients do.
THEOREM GroupsStand == Spec => []GroupsExist
<1>1. IInv => GroupsExist
  BY DEF IInv, Good, Fits, GroupsExist
<1> QED
  BY <1>1, InvariantHolds, PTL

\* Once main is idle the routes of the neighbors it alone configured have passed the policies of now.
THEOREM PoliciesInForce == Spec => []PolicyInForce
<1>1. ASSUME IInv, Idle PROVE server.unsettled \subseteq touched
  <2>1. todo = <<>>
    BY <1>1 DEF Idle
  <2>2. todo # <<Call("softResetIn", Nothing)>>
    BY <2>1
  <2> QED
    BY <1>1, <2>1, <2>2 DEF IInv, ResetAhead
<1>2. IInv => PolicyInForce
  BY <1>1 DEF PolicyInForce
<1> QED
  BY <1>2, InvariantHolds, PTL

-----------------------------------------------------------------------------
(* The last file is what runs *)

\* The neighbor the file has for an address, filled in.
Wanted(f, a) == {n \in ToSet(f.neighbors) : n.filled /\ n.address = a}
\* A neighbor runs with the settings a fresh start would give it, but for those that stay or get lost.
RunsFresh(s, n) ==
  LET now == s.running[n.address]
      fresh == SetDefaults(NeighborOverApi(n), Nothing)
  IN /\ now # Nothing /\ now.policies = fresh.policies
     /\ \A f \in Fields \ (FrozenFields \cup LostFields) : now.set[f] = fresh.set[f]
NeighborAsInFile(f, s, a) ==
  /\ \A n \in Wanted(f, a) : RunsFresh(s, n)
  /\ Wanted(f, a) = {} => s.running[a] = Nothing
GroupAsInFile(f, s, g) == s.groups[g].conf # Nothing <=> InFile(f, g)

OnNeighbor(c, a) == c.op \in {"add", "delete", "update"} /\ Address(c.arg) = a
OnGroup(c, g) == (c.op \in {"addGroup", "updateGroup"} /\ c.arg.name = g) \/ (c.op = "deleteGroup" /\ c.arg = g)
\* Such a call tells what the file has.
TellsNeighbor(f, c, a) == Wanted(f, a) = IF c.op = "delete" THEN {} ELSE {c.arg}
TellsGroup(f, c, g) == InFile(f, g) <=> c.op # "deleteGroup"

\* A file that is taken over: who is filled in has an address and no group.
FileTaken(f) ==
  \A n \in ToSet(f.neighbors) :
    IF n.filled THEN n.state = n.address /\ n.group = Nothing /\ n.set = Filled(n.set)
                ELSE n.state = Nothing

\* What the calls of main that are left say is true of the file; where there is none the server has it.
NeighborAhead(a) ==
  /\ \A c \in ToSet(todo) : OnNeighbor(c, a) => TellsNeighbor(current, c, a)
  /\ (\E c \in ToSet(todo) : OnNeighbor(c, a)) \/ NeighborAsInFile(current, server, a)
GroupAhead(g) ==
  /\ \A c \in ToSet(todo) : OnGroup(c, g) => TellsGroup(current, c, g)
  /\ (\E c \in ToSet(todo) : OnGroup(c, g)) \/ GroupAsInFile(current, server, g)

\* Before the first file nothing is configured that no one touched.
FilesAhead ==
  /\ server.dynamic \subseteq touched
  /\ current = Nothing =>
       (\A a \in Addresses \ touched : server.running[a] = Nothing) /\ \A g \in GroupNames : server.groups[g].conf = Nothing
  /\ current # Nothing => /\ FileTaken(current) /\ Unfilled(current) \subseteq touched
                          /\ \A a \in Addresses \ touched : NeighborAhead(a)
                          /\ \A g \in GroupNames \ touched : GroupAhead(g)

-----------------------------------------------------------------------------
\* The reader fills in once: what it filled in stays as it is.
LEMMA FilledTwice ==
  ASSUME NEW set \in [Fields -> Nat]
  PROVE  Filled(Filled(set)) = Filled(set)
<1>1. PICK F : F = Filled(set)
  OBVIOUS
<1>2. F \in [Fields -> Nat]
  BY <1>1, FilledType
<1>3. /\ {"localAs", "holdTime", "keepalive", "idleHold", "families", "familyAddPaths", "restartTime", "addPaths",
          "graceful"} \subseteq Fields
      /\ LocalAs = 1 /\ HoldTime = 90 /\ IdleHoldTime = 30
  BY DEF Fields, FamilyFields, TimerFields, OpenFields, LocalAs, HoldTime, IdleHoldTime
<1>4. /\ F["localAs"] # 0 /\ F["holdTime"] # 0 /\ F["idleHold"] # 0 /\ F["families"] # 0
      /\ F["keepalive"] = (IF set["keepalive"] = 0 THEN F["holdTime"] \div 3 ELSE set["keepalive"])
      /\ F["addPaths"] = set["addPaths"] /\ F["graceful"] = set["graceful"]
      /\ F["familyAddPaths"] = (IF set["addPaths"] # 0 THEN set["addPaths"] ELSE set["familyAddPaths"])
      /\ F["graceful"] # 0 => F["restartTime"] # 0
  BY <1>1, <1>3 DEF Filled
<1>5. PICK G : G = Filled(F)
  OBVIOUS
<1>6. G \in [Fields -> Nat]
  BY <1>2, <1>5, FilledType
<1>7. \A f \in Fields : f \notin {"localAs", "holdTime", "keepalive", "idleHold", "families", "familyAddPaths", "restartTime"}
        => G[f] = F[f]
  BY <1>5 DEF Filled
<1>8. /\ G["localAs"] = F["localAs"] /\ G["holdTime"] = F["holdTime"] /\ G["idleHold"] = F["idleHold"]
      /\ G["families"] = F["families"] /\ G["familyAddPaths"] = F["familyAddPaths"] /\ G["restartTime"] = F["restartTime"]
  BY <1>3, <1>4, <1>5 DEF Filled
<1>9. G["keepalive"] = (IF F["keepalive"] = 0 THEN F["holdTime"] \div 3 ELSE F["keepalive"])
  BY <1>3, <1>4, <1>5 DEF Filled
<1>10. G["keepalive"] = F["keepalive"]
  BY <1>4, <1>9
<1>11. \A f \in Fields : G[f] = F[f]
  BY <1>7, <1>8, <1>10
<1> QED
  BY <1>1, <1>2, <1>5, <1>6, <1>11

\* A neighbor of a file that passed the API as a fresh start would have it.
LEMMA FreshIs ==
  ASSUME NEW n \in Neighbors, n.set = Filled(n.set), NEW m, m = NeighborOverApi(n),
         NEW fresh, fresh = SetDefaults(m, Nothing)
  PROVE  /\ m \in Neighbors /\ fresh \in Neighbors /\ fresh.policies = m.policies
         /\ \A f \in Fields \ LostFields : fresh.set[f] = m.set[f]
<1>1. m \in Neighbors /\ fresh \in Neighbors
  BY OverApiType, DefaultsType DEF Groupings
<1>2. PICK set \in [Fields -> Nat] : set = n.set
  BY DEF Neighbors
<1>3. PICK M \in [Fields -> Nat] : M = [f \in Fields |-> IF f \in LostFields THEN 0 ELSE set[f]]
  OBVIOUS
<1>4. m = [[n EXCEPT !.set = M] EXCEPT !.filled = FALSE]
  BY <1>2, <1>3 DEF NeighborOverApi, Dropping
<1>5. m.set = M /\ ~m.filled
  BY <1>4 DEF Neighbors
<1>6. OverwriteConfig(m, Nothing) = m
  BY DEF OverwriteConfig
<1>7. PICK F \in [Fields -> Nat] : F = Filled(M)
  BY FilledType
<1>8. PICK state \in Addresses \cup {Nothing} : state = (IF m.state = Nothing THEN m.address ELSE m.state)
  BY <1>1 DEF Neighbors
<1>9. fresh = [m EXCEPT !.set = F, !.filled = TRUE, !.state = state]
  BY <1>5, <1>6, <1>7, <1>8 DEF SetDefaults
<1>10. fresh.set = F /\ fresh.policies = m.policies
  BY <1>1, <1>9 DEF Neighbors
<1>11. /\ {"localAs", "holdTime", "keepalive", "families", "familyAddPaths", "restartTime", "addPaths",
           "graceful"} \subseteq Fields
       /\ {"localAs", "holdTime", "keepalive", "families", "familyAddPaths", "restartTime", "graceful"} \cap LostFields = {}
       /\ {"addPaths", "idleHold"} \subseteq LostFields
       /\ LocalAs = 1 /\ HoldTime = 90
  BY DEF Fields, FamilyFields, TimerFields, OpenFields, LostFields, LocalAs, HoldTime
<1>12. set = Filled(set)
  BY <1>2
<1>13. /\ set["localAs"] # 0 /\ set["holdTime"] # 0 /\ set["families"] # 0
       /\ set["keepalive"] = (IF set["keepalive"] = 0 THEN set["holdTime"] \div 3 ELSE set["keepalive"])
       /\ set["graceful"] # 0 => set["restartTime"] # 0
  <2>1. PICK G \in [Fields -> Nat] : G = Filled(set)
    BY FilledType
  <2>2. /\ G["localAs"] # 0 /\ G["holdTime"] # 0 /\ G["families"] # 0 /\ G["graceful"] = set["graceful"]
        /\ G["keepalive"] = (IF set["keepalive"] = 0 THEN G["holdTime"] \div 3 ELSE set["keepalive"])
        /\ G["graceful"] # 0 => G["restartTime"] # 0
    BY <1>11, <2>1 DEF Filled
  <2> QED
    BY <1>12, <2>1, <2>2
<1>14. /\ \A f \in Fields \ LostFields : M[f] = set[f]
       /\ M["addPaths"] = 0
  BY <1>3, <1>11
<1>15. /\ F["localAs"] = M["localAs"] /\ F["holdTime"] = M["holdTime"] /\ F["families"] = M["families"]
       /\ F["familyAddPaths"] = M["familyAddPaths"] /\ F["restartTime"] = M["restartTime"]
       /\ F["keepalive"] = (IF M["keepalive"] = 0 THEN M["holdTime"] \div 3 ELSE M["keepalive"])
  BY <1>7, <1>11, <1>13, <1>14 DEF Filled
<1>16. F["keepalive"] = M["keepalive"]
  BY <1>11, <1>13, <1>14, <1>15
<1>17. \A f \in Fields : f \notin {"localAs", "holdTime", "keepalive", "idleHold", "families", "familyAddPaths", "restartTime"}
         => F[f] = M[f]
  BY <1>7 DEF Filled
<1>18. \A f \in Fields \ LostFields : F[f] = M[f]
  BY <1>11, <1>15, <1>16, <1>17
<1> QED
  BY <1>1, <1>5, <1>10, <1>18

\* Whom a call reaches besides the one it is about, and what it makes of that one.
Touches(s, c) == IF c.op = "updateGroup" THEN Members(s, c.arg.name) ELSE {}
AddressesOf(c) == {a \in Addresses : OnNeighbor(c, a)}
GroupsOf(c) == {g \in GroupNames : OnGroup(c, g)}

LEMMA OnlyInIsSame ==
  ASSUME NEW s, NEW t, NEW A, OnlyIn(s, t, A)
  PROVE  SameBut(s, t, A, {})
BY DEF OnlyIn, SameBut

LEMMA CallChanges ==
  ASSUME NEW s, Good(s), NEW c \in Operations, ~Panics(s, c), NEW r \in Results(s, c)
  PROVE  /\ SameBut(s, r.server, AddressesOf(c) \cup Touches(s, c), GroupsOf(c))
         /\ \A a \in AddressesOf(c) : a \in r.server.dynamic => a \in s.dynamic
         /\ r.ok => \A g \in GroupsOf(c) : r.server.groups[g].conf = Nothing <=> c.op = "deleteGroup"
         /\ r.ok /\ c.op = "delete" => c.arg.state # Nothing /\ r.server.running[c.arg.state] = Nothing
         /\ r.ok /\ c.op \in {"add", "update"} /\ c.arg.group = Nothing =>
              Took(r.server.running[Address(c.arg)], NeighborOverApi(c.arg))
<1>0. s \in Server
  BY DEF Good
<1>1. CASE c.op = "addGroup"
  <2>1. PICK g \in GroupConfs : g = GroupOverApi(c.arg) /\ g.name = c.arg.name /\ g.name \in GroupNames
    BY <1>1, OperationArgs, OverApiType DEF GroupConfs
  <2>2. r = AddGroup(s, g)
    BY <1>1, <2>1 DEF Results
  <2>3. SameBut(s, r.server, {}, {g.name}) /\ (r.ok => r.server.groups[g.name].conf # Nothing)
    BY <2>2, AddGroupFacts
  <2>4. AddressesOf(c) = {} /\ GroupsOf(c) = {g.name} /\ Touches(s, c) = {}
    BY <1>1, <2>1 DEF AddressesOf, GroupsOf, OnNeighbor, OnGroup, Touches
  <2> QED
    BY <1>1, <2>3, <2>4
<1>2. CASE c.op = "deleteGroup"
  <2>1. c.arg \in GroupNames /\ r = DeleteGroup(s, c.arg)
    BY <1>2, OperationArgs DEF Results
  <2>2. SameBut(s, r.server, {}, {c.arg}) /\ (r.ok => r.server.groups[c.arg].conf = Nothing)
    BY <2>1, DeleteGroupFacts
  <2>3. AddressesOf(c) = {} /\ GroupsOf(c) = {c.arg} /\ Touches(s, c) = {}
    BY <1>2, <2>1 DEF AddressesOf, GroupsOf, OnNeighbor, OnGroup, Touches
  <2> QED
    BY <1>2, <2>2, <2>3
<1>3. CASE c.op = "updateGroup"
  <2>1. PICK g \in GroupConfs : g = GroupOverApi(c.arg) /\ g.name = c.arg.name /\ g.name \in GroupNames
    BY <1>3, OperationArgs, OverApiType DEF GroupConfs
  <2>2. r \in UpdateGroup(s, g)
    BY <1>3, <2>1 DEF Results
  <2>3. SameBut(s, r.server, Members(s, g.name), {}) /\ (r.ok => r.server.groups[g.name].conf # Nothing)
    BY <2>2, UpdateGroupFacts DEF Members
  <2>4. AddressesOf(c) = {} /\ GroupsOf(c) = {g.name} /\ Touches(s, c) = Members(s, g.name)
    BY <1>3, <2>1 DEF AddressesOf, GroupsOf, OnNeighbor, OnGroup, Touches
  <2> QED
    BY <1>3, <2>3, <2>4 DEF SameBut
<1>4. CASE c.op \in {"prefix", "policies", "global", "softResetIn"}
  <2>1. SameBut(s, r.server, {}, {})
    <3>1. CASE c.op = "prefix"
      <4>1. r = AddDynamicNeighbor(s, c.arg) /\ s.groups[c.arg.group].conf # Nothing
        BY <3>1 DEF Results, Panics
      <4> QED
        BY <3>1, <4>1, OperationArgs, AddDynamicNeighborFacts
    <3>2. CASE c.op = "policies"
      <4>1. r = SetPolicies(s, c.arg)
        BY <3>2 DEF Results
      <4> QED
        BY <3>2, <4>1, OperationArgs, SetPoliciesFacts
    <3>3. CASE c.op = "global"
      <4>1. r = SetPolicyAssignment(s, c.arg)
        BY <3>3 DEF Results
      <4> QED
        BY <3>3, <4>1, OperationArgs, SetPolicyAssignmentFacts
    <3>4. CASE c.op = "softResetIn"
      <4>1. r = SoftResetIn(s)
        BY <3>4 DEF Results
      <4> QED
        BY <4>1, SoftResetInFacts
    <3> QED
      BY <1>4, <3>1, <3>2, <3>3, <3>4
  <2>2. AddressesOf(c) = {} /\ GroupsOf(c) = {} /\ Touches(s, c) = {}
    BY <1>4 DEF AddressesOf, GroupsOf, OnNeighbor, OnGroup, Touches
  <2> QED
    BY <1>4, <2>1, <2>2
<1>5. CASE c.op \in {"add", "delete", "update"}
  <2>1. c.arg \in Neighbors /\ Address(c.arg) \in Addresses
    BY <1>5, OperationArgs, AddressType
  <2>2. AddressesOf(c) = {Address(c.arg)} /\ GroupsOf(c) = {} /\ Touches(s, c) = {}
    BY <1>5, <2>1 DEF AddressesOf, GroupsOf, OnNeighbor, OnGroup, Touches
  <2>3. PICK a \in Addresses : a = Address(c.arg)
    BY <2>1
  <2>4. CASE c.op = "add" \/ c.op = "update"
    <3>1. PICK n \in Neighbors : n = NeighborOverApi(c.arg) /\ Address(n) = a /\ n.group = c.arg.group
      BY <2>1, <2>3, OverApiType
    <3>2. /\ OnlyIn(s, r.server, {a}) /\ r.server.dynamic \subseteq s.dynamic
          /\ r.ok /\ n.group = Nothing => Took(r.server.running[a], n)
      <4>1. CASE c.op = "add"
        <5>1. r = AddNeighbor(s, n)
          BY <3>1, <4>1 DEF Results
        <5>2. n.group = Nothing => GroupOf(s, n) = Nothing
          BY DEF GroupOf
        <5> QED
          BY <1>0, <3>1, <5>1, <5>2, AddNeighborFacts DEF Took
      <4>2. CASE c.op = "update"
        <5>1. r = UpdateNeighbor(s, n)
          BY <3>1, <4>2 DEF Results
        <5> QED
          BY <3>1, <5>1, UpdateNeighborFacts
      <4> QED
        BY <2>4, <4>1, <4>2
    <3>3. SameBut(s, r.server, {a}, {})
      BY <3>2, OnlyInIsSame
    <3> QED
      BY <2>2, <2>3, <2>4, <3>1, <3>2, <3>3
  <2>5. CASE c.op = "delete"
    <3>1. PICK dn : dn = [c.arg EXCEPT !.group = Nothing, !.address = Nothing]
      OBVIOUS
    <3>2. /\ dn.group = Nothing /\ dn.address = Nothing /\ dn.state = c.arg.state /\ c.arg.state \in Addresses \cup {Nothing}
          /\ Address(dn) = c.arg.state
      BY <2>1, <3>1 DEF Neighbors, Address
    <3>3. r = DeleteNeighbor(s, dn)
      BY <2>5, <3>1 DEF Results
    <3>4. PICK b : b = c.arg.state
      OBVIOUS
    <3>5. /\ OnlyIn(s, r.server, {b}) /\ r.server.dynamic \subseteq s.dynamic
          /\ r.ok => b \in Addresses /\ r.server.running[b] = Nothing
      BY <1>0, <3>2, <3>3, <3>4, DeleteNeighborFacts
    <3>6. b = Nothing \/ b = a
      BY <2>3, <3>4 DEF Address
    <3>7. SameBut(s, r.server, {a}, {})
      BY <3>5, <3>6, NotNothing DEF OnlyIn, SameBut
    <3> QED
      BY <2>2, <2>3, <2>5, <3>4, <3>5, <3>7, NotNothing
  <2> QED
    BY <1>5, <2>4, <2>5
<1> QED
  BY <1>1, <1>2, <1>3, <1>4, <1>5, OperationArgs

LEMMA TookIsFresh ==
  ASSUME NEW n \in Neighbors, n.set = Filled(n.set), NEW s, Took(s.running[n.address], NeighborOverApi(n))
  PROVE  RunsFresh(s, n)
<1>1. PICK m, fresh, now :
        m = NeighborOverApi(n) /\ fresh = SetDefaults(m, Nothing) /\ now = s.running[n.address]
  OBVIOUS
<1>2. /\ m \in Neighbors /\ fresh \in Neighbors /\ fresh.policies = m.policies
      /\ \A f \in Fields \ LostFields : fresh.set[f] = m.set[f]
  BY <1>1, FreshIs
<1>3. Fields \ (FrozenFields \cup LostFields) \subseteq (OpenFields \cup TimerFields \cup FamilyFields) \ LostFields
  BY DEF Fields
<1>4. OpenFields \cup TimerFields \cup FamilyFields \subseteq Fields
  BY DEF Fields
<1>5. Took(now, m)
  BY <1>1
<1>6. now # Nothing /\ now.policies = fresh.policies
  BY <1>1, <1>2, <1>5, NotNothing DEF Took
<1>7. \A f \in Fields \ (FrozenFields \cup LostFields) : now.set[f] = fresh.set[f]
  <2>1. CASE now = fresh
    BY <2>1
  <2>2. CASE \A f \in OpenFields \cup TimerFields \cup FamilyFields : now.set[f] = m.set[f]
    BY <1>2, <1>3, <1>4, <2>2
  <2> QED
    BY <1>1, <1>5, <2>1, <2>2 DEF Took
<1> QED
  BY <1>1, <1>6, <1>7 DEF RunsFresh

LEMMA AsBefore ==
  ASSUME NEW f, NEW s, NEW t
  PROVE  /\ \A a \in Addresses : t.running[a] = s.running[a] => (NeighborAsInFile(f, t, a) <=> NeighborAsInFile(f, s, a))
         /\ \A g \in GroupNames : (t.groups[g].conf = Nothing <=> s.groups[g].conf = Nothing) =>
                                    (GroupAsInFile(f, t, g) <=> GroupAsInFile(f, s, g))
<1>1. ASSUME NEW a \in Addresses, t.running[a] = s.running[a]
      PROVE  NeighborAsInFile(f, t, a) <=> NeighborAsInFile(f, s, a)
  <2>1. \A n \in Wanted(f, a) : n.address = a
    BY DEF Wanted
  <2>2. \A n \in Wanted(f, a) : RunsFresh(t, n) <=> RunsFresh(s, n)
    BY <1>1, <2>1 DEF RunsFresh
  <2> QED
    BY <1>1, <2>2 DEF NeighborAsInFile
<1>2. \A g \in GroupNames : (t.groups[g].conf = Nothing <=> s.groups[g].conf = Nothing) =>
                              (GroupAsInFile(f, t, g) <=> GroupAsInFile(f, s, g))
  BY DEF GroupAsInFile
<1> QED
  BY <1>1, <1>2

LEMMA OnIsAbout ==
  ASSUME NEW c
  PROVE  /\ \A a : OnNeighbor(c, a) => a \in About(c)
         /\ \A g : OnGroup(c, g) => g \in About(c)
BY DEF OnNeighbor, OnGroup, About

\* A call that tells what the file has and succeeds brings it about.
LEMMA CallBringsAbout ==
  ASSUME NEW f \in FileType, FileTaken(f), NEW s, Good(s), NEW c \in Operations, ~Panics(s, c), NEW r \in Results(s, c), r.ok
  PROVE  /\ \A a \in Addresses : OnNeighbor(c, a) /\ TellsNeighbor(f, c, a) => NeighborAsInFile(f, r.server, a)
         /\ \A g \in GroupNames : OnGroup(c, g) /\ TellsGroup(f, c, g) => GroupAsInFile(f, r.server, g)
<1>1. /\ \A g \in GroupsOf(c) : r.server.groups[g].conf = Nothing <=> c.op = "deleteGroup"
      /\ c.op = "delete" => c.arg.state # Nothing /\ r.server.running[c.arg.state] = Nothing
      /\ c.op \in {"add", "update"} /\ c.arg.group = Nothing =>
           Took(r.server.running[Address(c.arg)], NeighborOverApi(c.arg))
  BY CallChanges
<1>2. ASSUME NEW a \in Addresses, OnNeighbor(c, a), TellsNeighbor(f, c, a)
      PROVE  NeighborAsInFile(f, r.server, a)
  <2>1. c.op \in {"add", "delete", "update"} /\ Address(c.arg) = a /\ c.arg \in Neighbors
    BY <1>2, OperationArgs DEF OnNeighbor
  <2>2. CASE c.op = "delete"
    <3>1. Wanted(f, a) = {}
      BY <1>2, <2>2 DEF TellsNeighbor
    <3>2. r.server.running[a] = Nothing
      BY <1>1, <2>1, <2>2 DEF Address
    <3> QED
      BY <3>1, <3>2 DEF NeighborAsInFile
  <2>3. CASE c.op # "delete"
    <3>1. Wanted(f, a) = {c.arg}
      BY <1>2, <2>3 DEF TellsNeighbor
    <3>2. c.arg \in ToSet(f.neighbors) /\ c.arg.filled /\ c.arg.address = a
      BY <3>1 DEF Wanted
    <3>3. c.arg.group = Nothing /\ c.arg.set = Filled(c.arg.set)
      BY <3>2 DEF FileTaken
    <3>4. Took(r.server.running[c.arg.address], NeighborOverApi(c.arg))
      BY <1>1, <2>1, <2>3, <3>2, <3>3
    <3>5. RunsFresh(r.server, c.arg)
      BY <2>1, <3>3, <3>4, TookIsFresh
    <3> QED
      BY <3>1, <3>5 DEF NeighborAsInFile
  <2> QED
    BY <2>2, <2>3
<1>3. ASSUME NEW g \in GroupNames, OnGroup(c, g), TellsGroup(f, c, g)
      PROVE  GroupAsInFile(f, r.server, g)
  BY <1>1, <1>3 DEF GroupsOf, TellsGroup, GroupAsInFile
<1> QED
  BY <1>2, <1>3

LEMMA MainCallsFiles ==
  ASSUME IInv, FilesAhead, MainCalls
  PROVE  FilesAhead'
<1> DEFINE c == Head(todo)
<1>0. /\ todo # <<>> /\ todo \in Seq(Operations) /\ TypeOK /\ Good(server) /\ Joined(server) \subseteq touched
      /\ current # Nothing /\ current \in FileType
  BY DEF MainCalls, IInv, TypeOK, MembersTouched, NothingConfigured
<1>1. /\ c = todo[1] /\ c \in Operations /\ c \in ToSet(todo) /\ Tail(todo) \in Seq(Operations)
      /\ Len(todo) \in Nat \ {0} /\ (Tail(todo) = <<>> <=> Len(todo) = 1) /\ ToSet(Tail(todo)) \subseteq ToSet(todo)
      /\ \A x \in ToSet(todo) : x = c \/ x \in ToSet(Tail(todo))
  BY <1>0, HeadOrTail
<1>2. /\ server.dynamic \subseteq touched /\ FileTaken(current) /\ Unfilled(current) \subseteq touched
      /\ \A a \in Addresses \ touched : NeighborAhead(a)
      /\ \A g \in GroupNames \ touched : GroupAhead(g)
  BY <1>0 DEF FilesAhead
<1>3. CASE Panics(server, c)
  <2>1. UNCHANGED <<current, todo, reset, server, defined, calls, touched>>
    BY <1>3 DEF MainCalls
  <2> QED
    BY <1>2, <2>1, <1>0 DEF FilesAhead, NeighborAhead, GroupAhead
<1>4. CASE ~Panics(server, c)
  <2>1. PICK r \in Results(server, c) :
          /\ server' = r.server
          /\ touched' = IF r.ok THEN touched ELSE touched \cup About(c)
          /\ todo' = IF Len(todo) = 1 /\ Resets(r) THEN <<Call("softResetIn", Nothing)>> ELSE Tail(todo)
          /\ UNCHANGED current
    BY <1>4 DEF MainCalls
  <2> HIDE DEF c
  <2>2. /\ SameBut(server, server', AddressesOf(c) \cup Touches(server, c), GroupsOf(c))
        /\ \A a \in AddressesOf(c) : a \in server'.dynamic => a \in server.dynamic
    BY <1>0, <1>1, <1>4, <2>1, CallChanges
  <2>3. touched \subseteq touched' /\ (~r.ok => About(c) \subseteq touched')
    BY <2>1
  <2>4. Touches(server, c) \subseteq touched
    <3>1. c.op = "updateGroup" => c.arg.name \in GroupNames
      BY <1>1, OperationArgs DEF GroupConfs
    <3> QED
      BY <1>0, <3>1 DEF Touches, Members, Joined
  <2>5. server'.dynamic \subseteq touched'
    <3>1. Good(server')
      BY <1>0, <1>1, <1>4, <2>1, CallFacts
    <3>2. server'.dynamic \subseteq Addresses
      BY <3>1, ServerParts DEF Good
    <3> QED
      BY <1>2, <2>2, <2>3, <2>4, <3>2 DEF SameBut
  <2>6. \A x \in ToSet(todo') : x \in ToSet(todo) \/ x.op = "softResetIn"
    <3>1. PICK soft : soft = Call("softResetIn", Nothing) /\ soft.op = "softResetIn"
      BY SoftResetCall
    <3>2. ToSet(<<soft>>) = {soft}
      BY DEF ToSet
    <3> QED
      BY <1>1, <2>1, <3>1, <3>2
  <2>7. ASSUME NEW x \in ToSet(todo), x # c PROVE x \in ToSet(todo')
    <3>1. x \in ToSet(Tail(todo))
      BY <1>1, <2>7
    <3>2. Tail(todo) # <<>>
      BY <3>1 DEF ToSet
    <3> QED
      BY <1>1, <2>1, <3>1, <3>2
  <2>8. ASSUME NEW a \in Addresses \ touched' PROVE NeighborAhead(a)'
    <3>1. NeighborAhead(a) /\ a \notin Touches(server, c)
      BY <1>2, <2>3, <2>4
    <3>2. \A x \in ToSet(todo') : OnNeighbor(x, a) => TellsNeighbor(current, x, a)
      BY <2>6, <3>1 DEF NeighborAhead, OnNeighbor
    <3>3. CASE OnNeighbor(c, a)
      <4>1. r.ok
        BY <2>3, <3>3, OnIsAbout
      <4>2. TellsNeighbor(current, c, a)
        BY <1>1, <3>1, <3>3 DEF NeighborAhead
      <4>3. NeighborAsInFile(current, server', a)
        BY <1>0, <1>1, <1>2, <1>4, <2>1, <3>3, <4>1, <4>2, CallBringsAbout
      <4> QED
        BY <2>1, <3>2, <4>3 DEF NeighborAhead
    <3>4. CASE ~OnNeighbor(c, a)
      <4>1. server'.running[a] = server.running[a]
        BY <2>2, <3>1, <3>4 DEF SameBut, AddressesOf
      <4>2. NeighborAsInFile(current, server, a) => NeighborAsInFile(current, server', a)
        BY <4>1, AsBefore
      <4>3. (\E x \in ToSet(todo) : OnNeighbor(x, a)) => \E x \in ToSet(todo') : OnNeighbor(x, a)
        BY <2>7, <3>4
      <4> QED
        BY <2>1, <3>1, <3>2, <4>2, <4>3 DEF NeighborAhead
    <3> QED
      BY <3>3, <3>4
  <2>9. ASSUME NEW g \in GroupNames \ touched' PROVE GroupAhead(g)'
    <3>1. GroupAhead(g)
      BY <1>2, <2>3
    <3>2. \A x \in ToSet(todo') : OnGroup(x, g) => TellsGroup(current, x, g)
      BY <2>6, <3>1 DEF GroupAhead, OnGroup
    <3>3. CASE OnGroup(c, g)
      <4>1. r.ok
        BY <2>3, <3>3, OnIsAbout
      <4>2. TellsGroup(current, c, g)
        BY <1>1, <3>1, <3>3 DEF GroupAhead
      <4>3. GroupAsInFile(current, server', g)
        BY <1>0, <1>1, <1>2, <1>4, <2>1, <3>3, <4>1, <4>2, CallBringsAbout
      <4> QED
        BY <2>1, <3>2, <4>3 DEF GroupAhead
    <3>4. CASE ~OnGroup(c, g)
      <4>1. server'.groups[g].conf = Nothing <=> server.groups[g].conf = Nothing
        BY <2>2, <3>4 DEF SameBut, GroupsOf
      <4>2. GroupAsInFile(current, server, g) => GroupAsInFile(current, server', g)
        BY <4>1, AsBefore
      <4>3. (\E x \in ToSet(todo) : OnGroup(x, g)) => \E x \in ToSet(todo') : OnGroup(x, g)
        BY <2>7, <3>4
      <4> QED
        BY <2>1, <3>1, <3>2, <4>2, <4>3 DEF GroupAhead
    <3> QED
      BY <3>3, <3>4
  <2> QED
    BY <1>0, <1>2, <2>1, <2>3, <2>5, <2>8, <2>9 DEF FilesAhead
<1> QED
  BY <1>3, <1>4

\* A step that main has no part in leaves what is not touched to it.
LEMMA AsideFiles ==
  ASSUME FilesAhead, UNCHANGED <<current, todo>>, touched \subseteq touched', server'.dynamic \subseteq touched',
         NEW A \in SUBSET touched', NEW H \in SUBSET touched', SameBut(server, server', A, H),
         current = Nothing => H = {}
  PROVE  FilesAhead'
<1>1. CASE current = Nothing
  <2>1. \A a \in Addresses \ touched' : server'.running[a] = Nothing
    BY <1>1 DEF FilesAhead, SameBut
  <2>2. \A g \in GroupNames : server'.groups[g].conf = Nothing
    BY <1>1 DEF FilesAhead, SameBut
  <2> QED
    BY <1>1, <2>1, <2>2 DEF FilesAhead
<1>2. CASE current # Nothing
  <2>1. ASSUME NEW a \in Addresses \ touched' PROVE NeighborAhead(a)'
    <3>1. NeighborAhead(a) /\ server'.running[a] = server.running[a]
      BY <1>2, <2>1 DEF FilesAhead, SameBut
    <3>2. NeighborAsInFile(current, server, a) => NeighborAsInFile(current, server', a)
      BY <3>1, AsBefore
    <3> QED
      BY <3>1, <3>2 DEF NeighborAhead
  <2>2. ASSUME NEW g \in GroupNames \ touched' PROVE GroupAhead(g)'
    <3>1. GroupAhead(g) /\ (server'.groups[g].conf = Nothing <=> server.groups[g].conf = Nothing)
      BY <1>2, <2>2 DEF FilesAhead, SameBut
    <3>2. GroupAsInFile(current, server, g) => GroupAsInFile(current, server', g)
      BY <3>1, AsBefore
    <3> QED
      BY <3>1, <3>2 DEF GroupAhead
  <2>3. FileTaken(current) /\ Unfilled(current) \subseteq touched'
    BY <1>2 DEF FilesAhead
  <2> QED
    BY <1>2, <2>1, <2>2, <2>3 DEF FilesAhead
<1> QED
  BY <1>1, <1>2

LEMMA ClientCallsFiles ==
  ASSUME IInv, FilesAhead, ClientCalls
  PROVE  FilesAhead'
<1>0. TypeOK /\ Good(server) /\ server.dynamic \subseteq touched /\ current # Nothing
  BY DEF ClientCalls, IInv, FilesAhead
<1>1. PICK c \in ApiCalls :
        IF Panics(server, c)
        THEN panicked' = TRUE /\ UNCHANGED <<current, todo, reset, server, defined, touched>>
        ELSE \E r \in Results(server, c) :
               /\ server' = r.server
               /\ touched' = touched \cup About(c) \cup AlsoReached(c)
               /\ defined' = IF c.op = "policies" THEN c.arg ELSE defined
               /\ UNCHANGED <<current, todo, reset, panicked>>
  BY DEF ClientCalls
<1>2. c \in Operations
  BY CallsAssumption
<1>3. CASE Panics(server, c)
  BY <1>0, <1>1, <1>3 DEF FilesAhead, NeighborAhead, GroupAhead
<1>4. CASE ~Panics(server, c)
  <2>1. PICK r \in Results(server, c) :
          /\ server' = r.server
          /\ touched' = touched \cup About(c) \cup AlsoReached(c)
          /\ UNCHANGED <<current, todo>>
    BY <1>1, <1>4
  <2>2. PICK A, H : A = AddressesOf(c) \cup Touches(server, c) /\ H = GroupsOf(c)
    OBVIOUS
  <2>3. SameBut(server, server', A, H)
    BY <1>0, <1>2, <1>4, <2>1, <2>2, CallChanges
  <2>4. H \subseteq touched' /\ AddressesOf(c) \subseteq touched'
    BY <2>1, <2>2, OnIsAbout DEF AddressesOf, GroupsOf
  <2>5. Touches(server, c) \subseteq touched'
    BY <2>1 DEF Touches, Members, AlsoReached
  <2>6. server'.dynamic \subseteq touched'
    <3>1. Good(server')
      BY <1>0, <1>2, <1>4, <2>1, CallFacts
    <3>2. server'.dynamic \subseteq Addresses
      BY <3>1, ServerParts DEF Good
    <3> QED
      BY <1>0, <2>1, <2>2, <2>3, <2>4, <2>5, <3>2 DEF SameBut
  <2> QED
    BY <1>0, <2>1, <2>2, <2>3, <2>4, <2>5, <2>6, AsideFiles
<1> QED
  BY <1>3, <1>4

LEMMA DynamicArrivesFiles ==
  ASSUME IInv, FilesAhead, NEW a \in Addresses, NEW g \in GroupNames, DynamicArrives(a, g)
  PROVE  FilesAhead'
<1>0. TypeOK /\ Good(server) /\ server \in Server /\ server.dynamic \subseteq touched
  BY DEF IInv, TypeOK, FilesAhead
<1>1. PICK n : /\ server' = PlacedDynamic(SetPeerPolicy(server, a, n.policies), a, n)
               /\ n = SetDefaults([address |-> a, state |-> a, group |-> g, filled |-> FALSE, policies |-> {},
                                   set |-> [f \in Fields |-> IF f = "passive" THEN 1 ELSE 0]],
                                  GroupOf(server, [address |-> a, state |-> a, group |-> g, filled |-> FALSE, policies |-> {},
                                   set |-> [f \in Fields |-> IF f = "passive" THEN 1 ELSE 0]]))
  BY DEF DynamicArrives, PlacedDynamic
<1>2. touched' = touched \cup {a} /\ UNCHANGED <<current, todo>>
  BY DEF DynamicArrives
<1>3. PICK c : c = [address |-> a, state |-> a, group |-> g, filled |-> FALSE, policies |-> {},
                    set |-> [f \in Fields |-> IF f = "passive" THEN 1 ELSE 0]]
  OBVIOUS
<1>4. c \in Neighbors /\ c.group = g
  <2>1. [f \in Fields |-> IF f = "passive" THEN 1 ELSE 0] \in [Fields -> Nat]
    OBVIOUS
  <2> QED
    BY <1>3, <2>1 DEF Neighbors
<1>5. n \in Neighbors
  BY <1>0, <1>1, <1>3, <1>4, GroupOfType, DefaultsType
<1>6. PICK w : w = SetPeerPolicy(server, a, n.policies)
  OBVIOUS
<1>7. /\ w \in Server /\ w.running = server.running /\ w.groups = server.groups
      /\ w.dynamic = server.dynamic /\ w.unsettled = server.unsettled
  <2>1. a \in Ids /\ n.policies \in SUBSET Policies
    BY <1>5 DEF Ids, Neighbors
  <2> QED
    BY <1>0, <1>6, <2>1, SetPeerPolicyFacts
<1>8. /\ server' \in Server /\ server'.groups = server.groups /\ server'.running = [server.running EXCEPT ![a] = n]
      /\ server'.dynamic = server.dynamic \cup {a}
  <2>1. n \in Runnable
    BY <1>5 DEF Runnable
  <2>2. PICK t : t = PlacedDynamic(w, a, n)
    OBVIOUS
  <2>3. /\ t \in Server /\ t.groups = w.groups /\ t.running = [w.running EXCEPT ![a] = n]
        /\ t.dynamic = w.dynamic \cup {a}
    BY <1>7, <2>1, <2>2, WithDynamic
  <2>4. server' = t
    BY <1>1, <1>6, <2>2
  <2> QED
    BY <1>7, <2>3, <2>4
<1>9. SameBut(server, server', {a}, {})
  BY <1>0, <1>8, ServerParts DEF SameBut
<1>10. server'.dynamic \subseteq touched'
  BY <1>0, <1>2, <1>8
<1> QED
  BY <1>2, <1>9, <1>10, AsideFiles

LEMMA DynamicLeavesFiles ==
  ASSUME IInv, FilesAhead, NEW a \in Addresses, DynamicLeaves(a)
  PROVE  FilesAhead'
<1>0. TypeOK /\ server \in Server /\ server.dynamic \subseteq touched
  BY DEF IInv, TypeOK, FilesAhead
<1>1. /\ server' = Placed(server, a, Nothing) /\ a \in server.dynamic
      /\ UNCHANGED <<current, todo, touched>>
  BY DEF DynamicLeaves, Placed
<1>2. /\ server' \in Server /\ server'.groups = server.groups /\ server'.running = [server.running EXCEPT ![a] = Nothing]
      /\ server'.dynamic = server.dynamic \ {a}
  <2>1. Nothing \in Runnable
    BY DEF Runnable
  <2> QED
    BY <1>0, <1>1, <2>1, WithNeighbor
<1>3. SameBut(server, server', {a}, {}) /\ {a} \subseteq touched'
  BY <1>0, <1>1, <1>2, ServerParts DEF SameBut
<1>4. server'.dynamic \subseteq touched'
  BY <1>0, <1>1, <1>2
<1> QED
  BY <1>1, <1>3, <1>4, AsideFiles

LEMMA InitFiles == Init => FilesAhead
<1> SUFFICES ASSUME Init PROVE FilesAhead
  OBVIOUS
<1>1. /\ server.running = [a \in Addresses |-> Nothing] /\ server.dynamic = {} /\ current = Nothing
      /\ server.groups = [g \in GroupNames |->
                           [conf |-> Nothing, members |-> [a \in Addresses |-> Nothing], prefixes |-> {}]]
  BY DEF Init
<1> QED
  BY <1>1 DEF FilesAhead

-----------------------------------------------------------------------------
(* What main has to do after it took over a file *)

\* A file names a neighbor once.
NamesNeighborsOnce(f) ==
  \A i, j \in DOMAIN f.neighbors : f.neighbors[i].address = f.neighbors[j].address => i = j

LEMMA FilledIn ==
  ASSUME NEW raw \in Neighbors, raw.state = Nothing, ~raw.filled, NEW n, n = SetDefaults(raw, Nothing)
  PROVE  /\ n \in Neighbors /\ n.filled /\ n.address = raw.address /\ n.state = n.address /\ n.group = raw.group
         /\ n.set = Filled(n.set)
<1>1. PICK F \in [Fields -> Nat] : F = Filled(raw.set) /\ F = Filled(F)
  BY FilledType, FilledTwice DEF Neighbors
<1>2. n = [raw EXCEPT !.set = F, !.filled = TRUE, !.state = raw.address]
  BY <1>1 DEF SetDefaults, OverwriteConfig
<1>3. n.set = F
  BY <1>2 DEF Neighbors
<1> QED
  BY <1>1, <1>2, <1>3 DEF Neighbors

LEMMA TakenFile ==
  ASSUME NEW f \in Files, ~LoadFails(f), NamesNeighborsOnce(f), NEW new, new = SetDefaultConfigValues(f)
  PROVE  /\ FileTaken(new)
         /\ \A a : \A m, n \in Wanted(new, a) : m = n
<1>1. /\ f \in FileType /\ f.neighbors \in Seq(Neighbors)
      /\ \A i \in DOMAIN f.neighbors : f.neighbors[i].state = Nothing /\ ~f.neighbors[i].filled
  BY FilesAssumption DEF FileType
<1>2. PICK k \in Nat : DOMAIN f.neighbors = 1..k /\ \A i \in 1..k : f.neighbors[i] \in Neighbors
  BY <1>1
<1>3. PICK list : list = [i \in 1..k |-> IF Reached(f, i) THEN SetDefaults(f.neighbors[i], Nothing) ELSE f.neighbors[i]]
  OBVIOUS
<1>4. new.neighbors = list
  <2>1. new = [f EXCEPT !.neighbors = list]
    BY <1>2, <1>3 DEF SetDefaultConfigValues
  <2> QED
    BY <1>1, <2>1 DEF FileType
<1>5. ASSUME NEW i \in 1..k
      PROVE  /\ list[i].address = f.neighbors[i].address
             /\ IF list[i].filled THEN /\ list[i].state = list[i].address /\ list[i].group = Nothing
                                       /\ list[i].set = Filled(list[i].set)
                                  ELSE list[i].state = Nothing
  <2>1. CASE Reached(f, i)
    <3>1. f.neighbors[i].group = Nothing
      BY <1>2, <2>1 DEF LoadFails
    <3>2. list[i] = SetDefaults(f.neighbors[i], Nothing)
      BY <1>3, <2>1
    <3> QED
      BY <1>1, <1>2, <3>1, <3>2, FilledIn
  <2>2. CASE ~Reached(f, i)
    <3>1. list[i] = f.neighbors[i]
      BY <1>3, <2>2
    <3> QED
      BY <1>1, <1>2, <3>1
  <2> QED
    BY <2>1, <2>2
<1>6. ToSet(new.neighbors) = {list[i] : i \in 1..k}
  BY <1>3, <1>4 DEF ToSet
<1>7. FileTaken(new)
  BY <1>5, <1>6 DEF FileTaken
<1>8. ASSUME NEW a, NEW m \in Wanted(new, a), NEW n \in Wanted(new, a) PROVE m = n
  <2>1. PICK i \in 1..k, j \in 1..k : m = list[i] /\ n = list[j]
    BY <1>6 DEF Wanted
  <2>2. m.address = n.address
    BY DEF Wanted
  <2>3. f.neighbors[i].address = f.neighbors[j].address
    BY <1>5, <2>1, <2>2
  <2>4. i = j
    BY <1>2, <2>3 DEF NamesNeighborsOnce
  <2> QED
    BY <2>1, <2>4
<1> QED
  BY <1>7, <1>8

Calls(op, S) == {Call(op, e) : e \in S}

LEMMA EachElements ==
  ASSUME NEW op, NEW S, NEW list \in Seq(S)
  PROVE  ToSet(Each(op, list)) = Calls(op, ToSet(list))
BY DEF Each, ToSet, Calls

LEMMA CallsAreOperations ==
  /\ \A g \in GroupConfs : Call("addGroup", g) \in Operations /\ Call("updateGroup", g) \in Operations
  /\ \A g \in GroupNames : Call("deleteGroup", g) \in Operations
  /\ \A dn \in PrefixConfs : Call("prefix", dn) \in Operations
  /\ \A n \in Neighbors : Call("add", n) \in Operations /\ Call("delete", n) \in Operations
                            /\ Call("update", n) \in Operations
BY DEF Call, Operations

LEMMA FirstCallsElements ==
  ASSUME NEW f \in FileType, IsFiniteSet(f.prefixes)
  PROVE  ToSet(FirstCalls(f)) = Calls("policies", {f.policies}) \cup Calls("addGroup", ToSet(f.groups))
                                  \cup Calls("prefix", f.prefixes) \cup Calls("add", ToSet(f.neighbors))
<1>1. /\ f.neighbors \in Seq(Neighbors) /\ f.groups \in Seq(GroupConfs) /\ f.prefixes \in SUBSET PrefixConfs
      /\ f.policies \in SUBSET Policies
  BY DEF FileType
<1>2. PICK one, gs, ds, ns : /\ one = <<Call("policies", f.policies)>> /\ gs = Each("addGroup", f.groups)
                             /\ ds = Each("prefix", SetToSeq(f.prefixes)) /\ ns = Each("add", f.neighbors)
  OBVIOUS
<1>3. SetToSeq(f.prefixes) \in Seq(f.prefixes) /\ ToSet(SetToSeq(f.prefixes)) = f.prefixes
  BY SetToSeqFacts
<1>4. /\ ToSet(gs) = Calls("addGroup", ToSet(f.groups)) /\ ToSet(ds) = Calls("prefix", f.prefixes)
      /\ ToSet(ns) = Calls("add", ToSet(f.neighbors)) /\ ToSet(one) = Calls("policies", {f.policies})
  <2>1. ToSet(<<Call("policies", f.policies)>>) = {Call("policies", f.policies)}
    BY DEF ToSet
  <2> QED
    BY <1>1, <1>2, <1>3, <2>1, EachElements DEF Calls
<1>5. PICK P : P = Operations
  OBVIOUS
<1>6. one \in Seq(P) /\ gs \in Seq(P) /\ ds \in Seq(P) /\ ns \in Seq(P)
  <2>1. \A dn \in f.prefixes : Call("prefix", dn) \in P
    BY <1>1, <1>5, CallsAreOperations
  <2>2. ds \in Seq(P)
    BY <1>2, <1>3, <2>1, EachIs
  <2>3. gs \in Seq(P) /\ ns \in Seq(P)
    BY <1>1, <1>2, <1>5, CallsAreOperations, EachIs
  <2>4. Call("policies", f.policies) \in P
    BY <1>1, <1>5, PolicyCalls
  <2> QED
    BY <1>2, <2>2, <2>3, <2>4
<1>7. PICK s : s \in Seq(P) /\ s = one \o gs /\ ToSet(s) = ToSet(one) \cup ToSet(gs)
  <2>1. one \in Seq(P) /\ gs \in Seq(P)
    BY <1>6
  <2>2. one \o gs \in Seq(P) /\ ToSet(one \o gs) = ToSet(one) \cup ToSet(gs)
    BY <2>1, ConcatElements
  <2> QED
    BY <2>2
<1>8. PICK t : t \in Seq(P) /\ t = s \o ds /\ ToSet(t) = ToSet(s) \cup ToSet(ds)
  <2>1. s \in Seq(P) /\ ds \in Seq(P)
    BY <1>6, <1>7
  <2>2. s \o ds \in Seq(P) /\ ToSet(s \o ds) = ToSet(s) \cup ToSet(ds)
    BY <2>1, ConcatElements
  <2> QED
    BY <2>2
<1>9. ToSet(t \o ns) = ToSet(t) \cup ToSet(ns)
  <2>1. t \in Seq(P) /\ ns \in Seq(P)
    BY <1>6, <1>8
  <2> QED
    BY <2>1, ConcatElements
<1>10. FirstCalls(f) = t \o ns
  BY <1>2, <1>7, <1>8 DEF FirstCalls
<1> QED
  BY <1>4, <1>7, <1>8, <1>9, <1>10

\* What is only in the new of two files, and what is in both but not the same.
NewGroups(old, new) == {g \in ToSet(new) : \A i \in DOMAIN old : g.name # old[i].name}
NewNeighbors(old, new) == {n \in ToSet(new) : \A i \in DOMAIN old : n.state # old[i].state}
ChangedGroups(old, new) ==
  {n \in ToSet(new) : \E i \in DOMAIN old : n.name = old[i].name /\ (\A j \in 1..i-1 : n.name # old[j].name) /\ n # old[i]}
ChangedNeighbors(old, new) ==
  {n \in ToSet(new) : \E i \in DOMAIN old : n.state = old[i].state /\ (\A j \in 1..i-1 : n.state # old[j].state) /\ n # old[i]}

LEMMA NamesElements ==
  ASSUME NEW list \in Seq(GroupConfs)
  PROVE  ToSet(Names(list)) = {g.name : g \in ToSet(list)}
BY DEF Names, ToSet

LEMMA KeptWithin ==
  ASSUME NEW S, NEW list \in Seq(S), NEW set, set \subseteq ToSet(list), NEW kept, kept = Kept(list, set)
  PROVE  kept \in Seq(S) /\ ToSet(kept) = set
<1>1. Kept(list, set) \in Seq(S) /\ ToSet(Kept(list, set)) = ToSet(list) \cap set
  BY KeptElements
<1> QED
  BY <1>1

LEMMA ChangesElements ==
  ASSUME NEW c \in FileType, NEW f \in FileType,
         NEW pg, pg = UpdatePeerGroupConfig(c, f), NEW nb, nb = UpdateNeighborConfig(c, f)
  PROVE  /\ pg.added \in Seq(GroupConfs) /\ pg.deleted \in Seq(GroupConfs) /\ pg.updated \in Seq(GroupConfs)
         /\ nb.added \in Seq(Neighbors) /\ nb.deleted \in Seq(Neighbors) /\ nb.updated \in Seq(Neighbors)
         /\ ToSet(pg.added) = NewGroups(c.groups, f.groups) /\ ToSet(pg.deleted) = NewGroups(f.groups, c.groups)
         /\ ToSet(pg.updated) = ChangedGroups(c.groups, f.groups)
         /\ ToSet(nb.added) = NewNeighbors(c.neighbors, f.neighbors)
         /\ ToSet(nb.deleted) = NewNeighbors(f.neighbors, c.neighbors)
         /\ ToSet(nb.updated) = ChangedNeighbors(c.neighbors, f.neighbors)
<1>1. /\ f.neighbors \in Seq(Neighbors) /\ f.groups \in Seq(GroupConfs)
      /\ c.neighbors \in Seq(Neighbors) /\ c.groups \in Seq(GroupConfs)
  BY DEF FileType
<1>2. /\ pg.added = Kept(f.groups, NewGroups(c.groups, f.groups))
      /\ pg.deleted = Kept(c.groups, NewGroups(f.groups, c.groups))
      /\ pg.updated = Kept(f.groups, ChangedGroups(c.groups, f.groups))
  BY DEF UpdatePeerGroupConfig, Changes, Added, Updated, SameGroup, Differ, NewGroups, ChangedGroups
<1>3. /\ nb.added = Kept(f.neighbors, NewNeighbors(c.neighbors, f.neighbors))
      /\ nb.deleted = Kept(c.neighbors, NewNeighbors(f.neighbors, c.neighbors))
      /\ nb.updated = Kept(f.neighbors, ChangedNeighbors(c.neighbors, f.neighbors))
  BY DEF UpdateNeighborConfig, Changes, Added, Updated, SameNeighbor, Differ, NewNeighbors, ChangedNeighbors
<1>4. \A old, new : /\ NewGroups(old, new) \subseteq ToSet(new) /\ ChangedGroups(old, new) \subseteq ToSet(new)
                    /\ NewNeighbors(old, new) \subseteq ToSet(new) /\ ChangedNeighbors(old, new) \subseteq ToSet(new)
  BY DEF NewGroups, ChangedGroups, NewNeighbors, ChangedNeighbors
<1>5. /\ pg.added \in Seq(GroupConfs) /\ ToSet(pg.added) = NewGroups(c.groups, f.groups)
      /\ pg.deleted \in Seq(GroupConfs) /\ ToSet(pg.deleted) = NewGroups(f.groups, c.groups)
      /\ pg.updated \in Seq(GroupConfs) /\ ToSet(pg.updated) = ChangedGroups(c.groups, f.groups)
  BY <1>1, <1>2, <1>4, KeptWithin
<1>6. /\ nb.added \in Seq(Neighbors) /\ ToSet(nb.added) = NewNeighbors(c.neighbors, f.neighbors)
      /\ nb.deleted \in Seq(Neighbors) /\ ToSet(nb.deleted) = NewNeighbors(f.neighbors, c.neighbors)
      /\ nb.updated \in Seq(Neighbors) /\ ToSet(nb.updated) = ChangedNeighbors(c.neighbors, f.neighbors)
  BY <1>1, <1>3, <1>4, KeptWithin
<1> QED
  BY <1>5, <1>6

\* The calls about neighbors and groups that a later file brings.
GroupCalls(c, f) ==
  Calls("addGroup", NewGroups(c.groups, f.groups))
    \cup Calls("deleteGroup", {g.name : g \in NewGroups(f.groups, c.groups)})
    \cup Calls("updateGroup", ChangedGroups(c.groups, f.groups))
NeighborCalls(c, f) ==
  Calls("add", NewNeighbors(c.neighbors, f.neighbors)) \cup Calls("delete", NewNeighbors(f.neighbors, c.neighbors))
    \cup Calls("update", ChangedNeighbors(c.neighbors, f.neighbors))

LEMMA LaterCallsElements ==
  ASSUME NEW c \in FileType, NEW f \in FileType, IsFiniteSet(f.prefixes)
  PROVE  /\ \A x \in ToSet(LaterCalls(c, f)) :
              x.op \in {"policies", "global", "prefix"} \/ x \in GroupCalls(c, f) \/ x \in NeighborCalls(c, f)
         /\ GroupCalls(c, f) \subseteq ToSet(LaterCalls(c, f)) /\ NeighborCalls(c, f) \subseteq ToSet(LaterCalls(c, f))
<1>1. f.prefixes \in SUBSET PrefixConfs /\ f.policies \in SUBSET Policies /\ f.global \in SUBSET Policies
  BY DEF FileType
<1>2. PICK pg, nb : pg = UpdatePeerGroupConfig(c, f) /\ nb = UpdateNeighborConfig(c, f)
  OBVIOUS
<1>3. /\ pg.added \in Seq(GroupConfs) /\ pg.deleted \in Seq(GroupConfs) /\ pg.updated \in Seq(GroupConfs)
      /\ nb.added \in Seq(Neighbors) /\ nb.deleted \in Seq(Neighbors) /\ nb.updated \in Seq(Neighbors)
      /\ ToSet(pg.added) = NewGroups(c.groups, f.groups) /\ ToSet(pg.deleted) = NewGroups(f.groups, c.groups)
      /\ ToSet(pg.updated) = ChangedGroups(c.groups, f.groups)
      /\ ToSet(nb.added) = NewNeighbors(c.neighbors, f.neighbors)
      /\ ToSet(nb.deleted) = NewNeighbors(f.neighbors, c.neighbors)
      /\ ToSet(nb.updated) = ChangedNeighbors(c.neighbors, f.neighbors)
  BY <1>2, ChangesElements
<1>4. PICK s1 : s1 = IF f.policies # c.policies THEN <<Call("policies", f.policies)>> ELSE <<>>
  OBVIOUS
<1>5. PICK s2 : s2 = IF f.global # c.global THEN <<Call("global", f.global)>> ELSE <<>>
  OBVIOUS
<1>6. PICK ag, dg, ug, pr : /\ ag = Each("addGroup", pg.added) /\ dg = Each("deleteGroup", Names(pg.deleted))
                            /\ ug = Each("updateGroup", pg.updated) /\ pr = Each("prefix", SetToSeq(f.prefixes))
  OBVIOUS
<1>7. PICK an, dn, un : /\ an = Each("add", nb.added) /\ dn = Each("delete", nb.deleted)
                        /\ un = Each("update", nb.updated)
  OBVIOUS
<1>8. PICK P : P = Operations
  OBVIOUS
<1>9. /\ s1 \in Seq(P) /\ \A x \in ToSet(s1) : x.op = "policies"
      /\ s2 \in Seq(P) /\ \A x \in ToSet(s2) : x.op = "global"
  <2>1. Call("policies", f.policies) \in P /\ Call("global", f.global) \in P
    BY <1>1, <1>8, PolicyCalls
  <2>2. /\ ToSet(<<Call("policies", f.policies)>>) = {Call("policies", f.policies)}
        /\ ToSet(<<Call("global", f.global)>>) = {Call("global", f.global)} /\ ToSet(<<>>) = {}
    BY DEF ToSet
  <2>3. Call("policies", f.policies).op = "policies" /\ Call("global", f.global).op = "global"
    BY DEF Call
  <2> QED
    BY <1>4, <1>5, <2>1, <2>2, <2>3
<1>10. /\ ag \in Seq(P) /\ ToSet(ag) = Calls("addGroup", NewGroups(c.groups, f.groups))
       /\ ug \in Seq(P) /\ ToSet(ug) = Calls("updateGroup", ChangedGroups(c.groups, f.groups))
  BY <1>3, <1>6, <1>8, CallsAreOperations, EachIs, EachElements
<1>11. dg \in Seq(P) /\ ToSet(dg) = Calls("deleteGroup", {g.name : g \in NewGroups(f.groups, c.groups)})
  <2>1. Names(pg.deleted) \in Seq(GroupNames)
    BY <1>3, NamesType
  <2>2. ToSet(Names(pg.deleted)) = {g.name : g \in NewGroups(f.groups, c.groups)}
    BY <1>3, NamesElements
  <2> QED
    BY <1>6, <1>8, <2>1, <2>2, CallsAreOperations, EachIs, EachElements
<1>12. pr \in Seq(P) /\ \A x \in ToSet(pr) : x.op = "prefix"
  <2>1. SetToSeq(f.prefixes) \in Seq(f.prefixes)
    BY SetToSeqFacts
  <2>2. \A pre \in f.prefixes : Call("prefix", pre) \in P
    BY <1>1, <1>8, CallsAreOperations
  <2>3. pr \in Seq(P) /\ ToSet(pr) = Calls("prefix", ToSet(SetToSeq(f.prefixes)))
    BY <1>6, <2>1, <2>2, EachIs, EachElements
  <2> QED
    BY <2>3 DEF Calls, Call
<1>13. /\ an \in Seq(P) /\ ToSet(an) = Calls("add", NewNeighbors(c.neighbors, f.neighbors))
       /\ dn \in Seq(P) /\ ToSet(dn) = Calls("delete", NewNeighbors(f.neighbors, c.neighbors))
       /\ un \in Seq(P) /\ ToSet(un) = Calls("update", ChangedNeighbors(c.neighbors, f.neighbors))
  BY <1>3, <1>7, <1>8, CallsAreOperations, EachIs, EachElements
<1>s1. s1 \in Seq(P)
  BY <1>9
<1>s2. s2 \in Seq(P)
  BY <1>9
<1>ag. ag \in Seq(P)
  BY <1>10
<1>dg. dg \in Seq(P)
  BY <1>11
<1>ug. ug \in Seq(P)
  BY <1>10
<1>pr. pr \in Seq(P)
  BY <1>12
<1>an. an \in Seq(P)
  BY <1>13
<1>dn. dn \in Seq(P)
  BY <1>13
<1>un. un \in Seq(P)
  BY <1>13
<1>14. PICK t1 : t1 \in Seq(P) /\ t1 = s1 \o s2 \o ag \o dg /\ ToSet(t1) = ToSet(s1) \cup ToSet(s2) \cup ToSet(ag) \cup ToSet(dg)
  <2>1. s1 \o s2 \in Seq(P) /\ ToSet(s1 \o s2) = ToSet(s1) \cup ToSet(s2)
    BY <1>s1, <1>s2, ConcatElements
  <2>2. PICK u : u = s1 \o s2
    OBVIOUS
  <2>u. u \in Seq(P)
    BY <2>1, <2>2
  <2>3. u \o ag \in Seq(P) /\ ToSet(u \o ag) = ToSet(u) \cup ToSet(ag)
    BY <2>u, <1>ag, ConcatElements
  <2>4. PICK w : w = u \o ag
    OBVIOUS
  <2>w. w \in Seq(P)
    BY <2>3, <2>4
  <2>5. w \o dg \in Seq(P) /\ ToSet(w \o dg) = ToSet(w) \cup ToSet(dg)
    BY <2>w, <1>dg, ConcatElements
  <2> QED
    BY <2>1, <2>2, <2>3, <2>4, <2>5
<1>t1. t1 \in Seq(P)
  BY <1>14
<1>15. PICK t2 : t2 \in Seq(P) /\ t2 = t1 \o ug \o ug \o pr /\ ToSet(t2) = ToSet(t1) \cup ToSet(ug) \cup ToSet(pr)
  <2>1. t1 \o ug \in Seq(P) /\ ToSet(t1 \o ug) = ToSet(t1) \cup ToSet(ug)
    BY <1>t1, <1>ug, ConcatElements
  <2>2. PICK u : u = t1 \o ug
    OBVIOUS
  <2>u. u \in Seq(P)
    BY <2>1, <2>2
  <2>3. u \o ug \in Seq(P) /\ ToSet(u \o ug) = ToSet(u) \cup ToSet(ug)
    BY <2>u, <1>ug, ConcatElements
  <2>4. PICK w : w = u \o ug
    OBVIOUS
  <2>w. w \in Seq(P)
    BY <2>3, <2>4
  <2>5. w \o pr \in Seq(P) /\ ToSet(w \o pr) = ToSet(w) \cup ToSet(pr)
    BY <2>w, <1>pr, ConcatElements
  <2> QED
    BY <2>1, <2>2, <2>3, <2>4, <2>5
<1>t2. t2 \in Seq(P)
  BY <1>15
<1>16. PICK t3 : t3 \in Seq(P) /\ t3 = t2 \o an \o dn \o un /\ ToSet(t3) = ToSet(t2) \cup ToSet(an) \cup ToSet(dn) \cup ToSet(un)
  <2>1. t2 \o an \in Seq(P) /\ ToSet(t2 \o an) = ToSet(t2) \cup ToSet(an)
    BY <1>t2, <1>an, ConcatElements
  <2>2. PICK u : u = t2 \o an
    OBVIOUS
  <2>u. u \in Seq(P)
    BY <2>1, <2>2
  <2>3. u \o dn \in Seq(P) /\ ToSet(u \o dn) = ToSet(u) \cup ToSet(dn)
    BY <2>u, <1>dn, ConcatElements
  <2>4. PICK w : w = u \o dn
    OBVIOUS
  <2>w. w \in Seq(P)
    BY <2>3, <2>4
  <2>5. w \o un \in Seq(P) /\ ToSet(w \o un) = ToSet(w) \cup ToSet(un)
    BY <2>w, <1>un, ConcatElements
  <2> QED
    BY <2>1, <2>2, <2>3, <2>4, <2>5
<1>t3. t3 \in Seq(P)
  BY <1>16
<1>17. LaterCalls(c, f) = t3
  BY <1>2, <1>4, <1>5, <1>6, <1>7, <1>14, <1>15, <1>16 DEF LaterCalls
<1>18. ToSet(t3) = ToSet(s1) \cup ToSet(s2) \cup ToSet(pr) \cup GroupCalls(c, f) \cup NeighborCalls(c, f)
  BY <1>10, <1>11, <1>13, <1>14, <1>15, <1>16 DEF GroupCalls, NeighborCalls
<1> QED
  BY <1>9, <1>12, <1>17, <1>18

\* An address that is not one of the neighbors left without defaults.
LEMMA TakenNeighbor ==
  ASSUME NEW f \in FileType, FileTaken(f), NEW a \in Addresses, a \notin Unfilled(f)
  PROVE  /\ \A n \in ToSet(f.neighbors) : Address(n) = a => n \in Wanted(f, a)
         /\ \A n \in ToSet(f.neighbors) : n.state = a <=> n \in Wanted(f, a)
<1>1. \A n \in ToSet(f.neighbors) : n \in Neighbors
  <2>1. f.neighbors \in Seq(Neighbors)
    BY DEF FileType
  <2> QED
    BY <2>1, OwnElements
<1>2. \A n \in ToSet(f.neighbors) : ~n.filled => n.address \in Unfilled(f)
  BY DEF ToSet, Unfilled
<1>3. \A n \in ToSet(f.neighbors) : IF n.filled THEN n.state = n.address ELSE n.state = Nothing
  BY DEF FileTaken
<1>4. a # Nothing /\ \A n \in Neighbors : n.address # Nothing
  BY NamesAssumption DEF Neighbors
<1> QED
  BY <1>1, <1>2, <1>3, <1>4 DEF Wanted, Address

LEMMA LeastSame ==
  ASSUME NEW list, NEW k \in Nat, DOMAIN list = 1..k, NEW x, NEW i \in 1..k, list[i].state = x
  PROVE  \E m \in 1..k : list[m].state = x /\ \A j \in 1..m-1 : list[j].state # x
<1>1. PICK T : T = {j \in 1..k : list[j].state = x}
  OBVIOUS
<1>2. T \in SUBSET Nat /\ T # {}
  BY <1>1
<1>3. PICK m \in T : \A j \in T : m <= j
  BY <1>2, LeastNumber
<1>4. m \in 1..k /\ list[m].state = x
  BY <1>1
<1>5. ASSUME NEW j \in 1..m-1 PROVE list[j].state # x
  <2>1. j \in 1..k /\ ~(m <= j)
    BY <1>4
  <2> QED
    BY <1>1, <1>3, <2>1
<1> QED
  BY <1>4, <1>5

\* What main still has to do after it took over a file, and why that is enough.
LEMMA FirstFileAhead ==
  ASSUME NEW f \in FileType, IsFiniteSet(f.prefixes), FileTaken(f), \A a : \A m, n \in Wanted(f, a) : m = n, NEW s
  PROVE  /\ \A a \in Addresses \ Unfilled(f) :
              /\ \A c \in ToSet(FirstCalls(f)) : OnNeighbor(c, a) => TellsNeighbor(f, c, a)
              /\ s.running[a] = Nothing => (\E c \in ToSet(FirstCalls(f)) : OnNeighbor(c, a)) \/ NeighborAsInFile(f, s, a)
         /\ \A g \in GroupNames :
              /\ \A c \in ToSet(FirstCalls(f)) : OnGroup(c, g) => TellsGroup(f, c, g)
              /\ s.groups[g].conf = Nothing => (\E c \in ToSet(FirstCalls(f)) : OnGroup(c, g)) \/ GroupAsInFile(f, s, g)
<1>1. PICK list : list = FirstCalls(f)
  OBVIOUS
<1>2. ToSet(list) = Calls("policies", {f.policies}) \cup Calls("addGroup", ToSet(f.groups))
                      \cup Calls("prefix", f.prefixes) \cup Calls("add", ToSet(f.neighbors))
  BY <1>1, FirstCallsElements
<1>3. ASSUME NEW a \in Addresses \ Unfilled(f)
      PROVE  /\ \A c \in ToSet(list) : OnNeighbor(c, a) => TellsNeighbor(f, c, a)
             /\ s.running[a] = Nothing => (\E c \in ToSet(list) : OnNeighbor(c, a)) \/ NeighborAsInFile(f, s, a)
  <2>1. \A n \in ToSet(f.neighbors) : Address(n) = a <=> n \in Wanted(f, a)
    BY <1>3, TakenNeighbor, NamesAssumption DEF Address, Wanted
  <2>2. ASSUME NEW c \in ToSet(list), OnNeighbor(c, a) PROVE TellsNeighbor(f, c, a)
    <3>1. c.op = "add" /\ c.arg \in ToSet(f.neighbors) /\ Address(c.arg) = a
      BY <1>2, <2>2 DEF Calls, Call, OnNeighbor
    <3>2. Wanted(f, a) = {c.arg}
      BY <2>1, <3>1
    <3> QED
      BY <3>1, <3>2 DEF TellsNeighbor
  <2>3. ASSUME s.running[a] = Nothing, \A c \in ToSet(list) : ~OnNeighbor(c, a) PROVE NeighborAsInFile(f, s, a)
    <3>1. ASSUME NEW n \in Wanted(f, a) PROVE FALSE
      <4>1. n \in ToSet(f.neighbors)
        BY DEF Wanted
      <4>2. Call("add", n) \in ToSet(list)
        BY <1>2, <4>1 DEF Calls
      <4>3. OnNeighbor(Call("add", n), a)
        BY <2>1, <4>1 DEF OnNeighbor, Call
      <4> QED
        BY <2>3, <4>2, <4>3
    <3> QED
      BY <2>3, <3>1 DEF NeighborAsInFile
  <2> QED
    BY <2>2, <2>3
<1>4. ASSUME NEW g \in GroupNames
      PROVE  /\ \A c \in ToSet(list) : OnGroup(c, g) => TellsGroup(f, c, g)
             /\ s.groups[g].conf = Nothing => (\E c \in ToSet(list) : OnGroup(c, g)) \/ GroupAsInFile(f, s, g)
  <2>1. InFile(f, g) <=> \E h \in ToSet(f.groups) : h.name = g
    BY DEF InFile, ToSet
  <2>2. ASSUME NEW c \in ToSet(list), OnGroup(c, g) PROVE TellsGroup(f, c, g)
    <3>1. c.op = "addGroup" /\ c.arg \in ToSet(f.groups) /\ c.arg.name = g
      BY <1>2, <2>2 DEF Calls, Call, OnGroup
    <3> QED
      BY <2>1, <3>1 DEF TellsGroup
  <2>3. ASSUME s.groups[g].conf = Nothing, \A c \in ToSet(list) : ~OnGroup(c, g) PROVE GroupAsInFile(f, s, g)
    <3>1. ASSUME NEW h \in ToSet(f.groups), h.name = g PROVE FALSE
      <4>1. Call("addGroup", h) \in ToSet(list)
        BY <1>2 DEF Calls
      <4>2. OnGroup(Call("addGroup", h), g)
        BY <3>1 DEF OnGroup, Call
      <4> QED
        BY <2>3, <4>1, <4>2
    <3> QED
      BY <2>1, <2>3, <3>1 DEF GroupAsInFile
  <2> QED
    BY <2>2, <2>3
<1> QED
  BY <1>1, <1>3, <1>4

LEMMA LaterNeighborAhead ==
  ASSUME NEW c \in FileType, FileTaken(c), NEW f \in FileType, FileTaken(f), IsFiniteSet(f.prefixes),
         NEW a \in Addresses, a \notin Unfilled(c) \cup Unfilled(f), \A m, n \in Wanted(f, a) : m = n,
         NEW s, NeighborAsInFile(c, s, a)
  PROVE  /\ \A x \in ToSet(LaterCalls(c, f)) : OnNeighbor(x, a) => TellsNeighbor(f, x, a)
         /\ (\E x \in ToSet(LaterCalls(c, f)) : OnNeighbor(x, a)) \/ NeighborAsInFile(f, s, a)
<1>1. PICK list : list = LaterCalls(c, f)
  OBVIOUS
<1>2. /\ \A x \in ToSet(list) : x.op \in {"policies", "global", "prefix"} \/ x \in GroupCalls(c, f) \/ x \in NeighborCalls(c, f)
      /\ NeighborCalls(c, f) \subseteq ToSet(list)
  BY <1>1, LaterCallsElements
<1>3. /\ \A n \in ToSet(f.neighbors) : Address(n) = a => n \in Wanted(f, a)
      /\ \A n \in ToSet(f.neighbors) : n.state = a <=> n \in Wanted(f, a)
  BY TakenNeighbor
<1>4. /\ \A n \in ToSet(c.neighbors) : Address(n) = a => n \in Wanted(c, a)
      /\ \A n \in ToSet(c.neighbors) : n.state = a <=> n \in Wanted(c, a)
  BY TakenNeighbor
<1>5. PICK k \in Nat, l \in Nat : DOMAIN c.neighbors = 1..k /\ DOMAIN f.neighbors = 1..l
  <2>1. c.neighbors \in Seq(Neighbors) /\ f.neighbors \in Seq(Neighbors)
    BY DEF FileType
  <2> QED
    BY <2>1
<1>6. /\ \A i \in 1..k : c.neighbors[i] \in ToSet(c.neighbors)
      /\ \A i \in 1..l : f.neighbors[i] \in ToSet(f.neighbors)
      /\ \A n \in ToSet(f.neighbors) : \E i \in 1..l : n = f.neighbors[i]
  BY <1>5 DEF ToSet
<1>7. /\ \A n \in Wanted(f, a) : n \in ToSet(f.neighbors)
      /\ \A n \in Wanted(c, a) : n \in ToSet(c.neighbors)
  BY DEF Wanted
<1>8. a # Nothing
  BY NamesAssumption
<1>9. ASSUME NEW x \in ToSet(list), OnNeighbor(x, a) PROVE TellsNeighbor(f, x, a)
  <2>1. x \in NeighborCalls(c, f)
    BY <1>2, <1>9 DEF OnNeighbor, GroupCalls, Calls, Call
  <2>2. CASE x \in Calls("add", NewNeighbors(c.neighbors, f.neighbors)) \cup Calls("update", ChangedNeighbors(c.neighbors, f.neighbors))
    <3>1. x.op # "delete" /\ x.arg \in ToSet(f.neighbors)
      BY <2>2 DEF Calls, Call, NewNeighbors, ChangedNeighbors
    <3>2. x.arg \in Wanted(f, a)
      BY <1>3, <1>9, <3>1 DEF OnNeighbor
    <3>3. Wanted(f, a) = {x.arg}
      BY <3>2
    <3> QED
      BY <3>1, <3>3 DEF TellsNeighbor
  <2>3. CASE x \in Calls("delete", NewNeighbors(f.neighbors, c.neighbors))
    <3>1. x.op = "delete" /\ x.arg \in ToSet(c.neighbors) /\ \A i \in DOMAIN f.neighbors : x.arg.state # f.neighbors[i].state
      BY <2>3 DEF Calls, Call, NewNeighbors
    <3>2. x.arg.state = a
      BY <1>4, <1>9, <3>1 DEF OnNeighbor
    <3>3. Wanted(f, a) = {}
      BY <1>3, <1>5, <1>6, <1>7, <3>1, <3>2
    <3> QED
      BY <3>1, <3>3 DEF TellsNeighbor
  <2> QED
    BY <2>1, <2>2, <2>3 DEF NeighborCalls
<1>10. ASSUME \A x \in ToSet(list) : ~OnNeighbor(x, a) PROVE NeighborAsInFile(f, s, a)
  <2>1. \A x \in NeighborCalls(c, f) : ~OnNeighbor(x, a)
    BY <1>2, <1>10
  <2>2. ASSUME NEW n \in Wanted(f, a) PROVE n \in Wanted(c, a)
    <3>1. n.state = a /\ n \in ToSet(f.neighbors) /\ Address(n) = a
      BY <1>3, <1>7, <1>8 DEF Address
    <3>2. n \notin NewNeighbors(c.neighbors, f.neighbors)
      <4>1. ASSUME n \in NewNeighbors(c.neighbors, f.neighbors) PROVE FALSE
        <5>1. Call("add", n) \in NeighborCalls(c, f)
          BY <4>1 DEF NeighborCalls, Calls
        <5>2. OnNeighbor(Call("add", n), a)
          BY <3>1 DEF OnNeighbor, Call
        <5> QED
          BY <2>1, <5>1, <5>2
      <4> QED
        BY <4>1
    <3>3. PICK i \in 1..k : c.neighbors[i].state = a
      BY <1>5, <3>1, <3>2 DEF NewNeighbors
    <3>4. PICK m \in 1..k : c.neighbors[m].state = a /\ \A j \in 1..m-1 : c.neighbors[j].state # a
      <4>1. PICK old : old = c.neighbors
        OBVIOUS
      <4>2. DOMAIN old = 1..k /\ old[i].state = a
        BY <1>5, <3>3, <4>1
      <4>3. \E m \in 1..k : old[m].state = a /\ \A j \in 1..m-1 : old[j].state # a
        BY <4>2, LeastSame
      <4> QED
        BY <4>1, <4>3
    <3>5. n = c.neighbors[m]
      <4>1. ASSUME n # c.neighbors[m] PROVE FALSE
        <5>1. n \in ChangedNeighbors(c.neighbors, f.neighbors)
          BY <1>5, <3>1, <3>4, <4>1 DEF ChangedNeighbors
        <5>2. Call("update", n) \in NeighborCalls(c, f)
          BY <5>1 DEF NeighborCalls, Calls
        <5>3. OnNeighbor(Call("update", n), a)
          BY <3>1 DEF OnNeighbor, Call
        <5> QED
          BY <2>1, <5>2, <5>3
      <4> QED
        BY <4>1
    <3> QED
      BY <1>4, <1>6, <3>1, <3>5
  <2>3. ASSUME Wanted(f, a) = {}, NEW n \in Wanted(c, a) PROVE FALSE
    <3>1. n.state = a /\ n \in ToSet(c.neighbors) /\ Address(n) = a
      BY <1>4, <1>7, <1>8 DEF Address
    <3>2. \A i \in DOMAIN f.neighbors : n.state # f.neighbors[i].state
      BY <1>3, <1>5, <1>6, <2>3, <3>1
    <3>3. n \in NewNeighbors(f.neighbors, c.neighbors)
      BY <3>1, <3>2 DEF NewNeighbors
    <3>4. Call("delete", n) \in NeighborCalls(c, f)
      BY <3>3 DEF NeighborCalls, Calls
    <3>5. OnNeighbor(Call("delete", n), a)
      BY <3>1 DEF OnNeighbor, Call
    <3> QED
      BY <2>1, <3>4, <3>5
  <2> QED
    BY <2>2, <2>3 DEF NeighborAsInFile
<1> QED
  BY <1>1, <1>9, <1>10

LEMMA LaterGroupAhead ==
  ASSUME NEW c \in FileType, NEW f \in FileType, IsFiniteSet(f.prefixes),
         NEW g \in GroupNames, NEW s, GroupAsInFile(c, s, g)
  PROVE  /\ \A x \in ToSet(LaterCalls(c, f)) : OnGroup(x, g) => TellsGroup(f, x, g)
         /\ (\E x \in ToSet(LaterCalls(c, f)) : OnGroup(x, g)) \/ GroupAsInFile(f, s, g)
<1>1. PICK list : list = LaterCalls(c, f)
  OBVIOUS
<1>2. /\ \A x \in ToSet(list) : x.op \in {"policies", "global", "prefix"} \/ x \in GroupCalls(c, f) \/ x \in NeighborCalls(c, f)
      /\ GroupCalls(c, f) \subseteq ToSet(list)
  BY <1>1, LaterCallsElements
<1>3. /\ InFile(f, g) <=> \E i \in DOMAIN f.groups : f.groups[i].name = g
      /\ InFile(f, g) <=> \E h \in ToSet(f.groups) : h.name = g
      /\ InFile(c, g) <=> \E i \in DOMAIN c.groups : c.groups[i].name = g
      /\ InFile(c, g) <=> \E h \in ToSet(c.groups) : h.name = g
  BY DEF InFile, ToSet
<1>4. ASSUME NEW x \in ToSet(list), OnGroup(x, g) PROVE TellsGroup(f, x, g)
  <2>1. x \in GroupCalls(c, f)
    BY <1>2, <1>4 DEF OnGroup, NeighborCalls, Calls, Call
  <2>2. CASE x \in Calls("addGroup", NewGroups(c.groups, f.groups)) \cup Calls("updateGroup", ChangedGroups(c.groups, f.groups))
    <3>1. x.op # "deleteGroup" /\ x.arg \in ToSet(f.groups)
      BY <2>2 DEF Calls, Call, NewGroups, ChangedGroups
    <3> QED
      BY <1>3, <1>4, <3>1 DEF TellsGroup, OnGroup
  <2>3. CASE x \in Calls("deleteGroup", {h.name : h \in NewGroups(f.groups, c.groups)})
    <3>1. PICK h \in NewGroups(f.groups, c.groups) : x.op = "deleteGroup" /\ x.arg = h.name
      BY <2>3 DEF Calls, Call
    <3>2. h.name = g
      BY <1>4, <3>1 DEF OnGroup
    <3> QED
      BY <1>3, <3>1, <3>2 DEF TellsGroup, NewGroups
  <2> QED
    BY <2>1, <2>2, <2>3 DEF GroupCalls
<1>5. ASSUME \A x \in ToSet(list) : ~OnGroup(x, g) PROVE InFile(f, g) <=> InFile(c, g)
  <2>1. \A x \in GroupCalls(c, f) : ~OnGroup(x, g)
    BY <1>2, <1>5
  <2>2. ASSUME InFile(f, g), ~InFile(c, g) PROVE FALSE
    <3>1. PICK h \in ToSet(f.groups) : h.name = g
      BY <1>3, <2>2
    <3>2. h \in NewGroups(c.groups, f.groups)
      BY <1>3, <2>2, <3>1 DEF NewGroups
    <3>3. Call("addGroup", h) \in GroupCalls(c, f)
      BY <3>2 DEF GroupCalls, Calls
    <3>4. OnGroup(Call("addGroup", h), g)
      BY <3>1 DEF OnGroup, Call
    <3> QED
      BY <2>1, <3>3, <3>4
  <2>3. ASSUME ~InFile(f, g), InFile(c, g) PROVE FALSE
    <3>1. PICK h \in ToSet(c.groups) : h.name = g
      BY <1>3, <2>3
    <3>2. h \in NewGroups(f.groups, c.groups)
      BY <1>3, <2>3, <3>1 DEF NewGroups
    <3>3. Call("deleteGroup", g) \in GroupCalls(c, f)
      BY <3>1, <3>2 DEF GroupCalls, Calls
    <3>4. OnGroup(Call("deleteGroup", g), g)
      BY DEF OnGroup, Call
    <3> QED
      BY <2>1, <3>3, <3>4
  <2> QED
    BY <2>2, <2>3
<1> QED
  BY <1>1, <1>4, <1>5 DEF GroupAsInFile

\* Every file names a neighbor once.
NeighborsNamedOnce == \A f \in Files : NamesNeighborsOnce(f)

LEMMA ReloadFiles ==
  ASSUME IInv, FilesAhead, Reload, NeighborsNamedOnce
  PROVE  FilesAhead'
<1>1. PICK f \in Files :
        IF LoadFails(f)
        THEN panicked' = TRUE /\ UNCHANGED <<current, todo, reset, server, defined, calls, touched>>
        ELSE /\ current' = SetDefaultConfigValues(f)
             /\ todo' = IF current = Nothing THEN FirstCalls(current') ELSE LaterCalls(current, current')
             /\ reset' = (current # Nothing /\ (f.policies # current.policies \/ f.global # current.global))
             /\ touched' = touched \cup Unfilled(current')
             /\ UNCHANGED <<server, defined, panicked, calls>>
  BY DEF Reload
<1>2. CASE LoadFails(f)
  <2>1. UNCHANGED <<current, todo, server, touched>>
    BY <1>1, <1>2
  <2> QED
    BY <2>1 DEF FilesAhead, NeighborAhead, GroupAhead
<1>3. CASE ~LoadFails(f)
  <2>1. PICK new : new = SetDefaultConfigValues(f)
    OBVIOUS
  <2>2. new \in FileType /\ IsFiniteSet(new.prefixes) /\ new # Nothing
    BY <1>3, <2>1, FileFacts, NoFileIsNothing
  <2>3. current' = new /\ touched' = touched \cup Unfilled(new) /\ UNCHANGED server
    BY <1>1, <1>3, <2>1
  <2>4. FileTaken(new) /\ \A a : \A m, n \in Wanted(new, a) : m = n
    BY <1>3, <2>1, TakenFile DEF NeighborsNamedOnce
  <2>5. ToSet(todo) = {}
    BY DEF Reload, ToSet
  <2>6. PICK list : list = todo'
    OBVIOUS
  <2>7. /\ \A a \in Addresses \ touched' :
             /\ \A c \in ToSet(list) : OnNeighbor(c, a) => TellsNeighbor(new, c, a)
             /\ (\E c \in ToSet(list) : OnNeighbor(c, a)) \/ NeighborAsInFile(new, server, a)
        /\ \A g \in GroupNames \ touched' :
             /\ \A c \in ToSet(list) : OnGroup(c, g) => TellsGroup(new, c, g)
             /\ (\E c \in ToSet(list) : OnGroup(c, g)) \/ GroupAsInFile(new, server, g)
    <3>1. CASE current = Nothing
      <4>1. list = FirstCalls(new)
        BY <1>1, <1>3, <2>3, <2>6, <3>1
      <4>2. /\ \A a \in Addresses \ touched' : server.running[a] = Nothing /\ a \in Addresses \ Unfilled(new)
            /\ \A g \in GroupNames \ touched' : server.groups[g].conf = Nothing
        BY <2>3, <3>1 DEF FilesAhead
      <4> QED
        BY <2>2, <2>4, <4>1, <4>2, FirstFileAhead
    <3>2. CASE current # Nothing
      <4>1. list = LaterCalls(current, new) /\ current \in FileType
        BY <1>1, <1>3, <2>3, <2>6, <3>2 DEF IInv, TypeOK
      <4>2. /\ FileTaken(current) /\ Unfilled(current) \subseteq touched
            /\ \A a \in Addresses \ touched : NeighborAsInFile(current, server, a)
            /\ \A g \in GroupNames \ touched : GroupAsInFile(current, server, g)
        BY <2>5, <3>2 DEF FilesAhead, NeighborAhead, GroupAhead
      <4>3. ASSUME NEW a \in Addresses \ touched'
            PROVE  /\ \A c \in ToSet(list) : OnNeighbor(c, a) => TellsNeighbor(new, c, a)
                   /\ (\E c \in ToSet(list) : OnNeighbor(c, a)) \/ NeighborAsInFile(new, server, a)
        <5>1. a \notin Unfilled(current) \cup Unfilled(new) /\ NeighborAsInFile(current, server, a)
          BY <2>3, <4>2
        <5> QED
          BY <2>2, <2>4, <4>1, <4>2, <5>1, LaterNeighborAhead
      <4>4. ASSUME NEW g \in GroupNames \ touched'
            PROVE  /\ \A c \in ToSet(list) : OnGroup(c, g) => TellsGroup(new, c, g)
                   /\ (\E c \in ToSet(list) : OnGroup(c, g)) \/ GroupAsInFile(new, server, g)
        <5>1. GroupAsInFile(current, server, g)
          BY <2>3, <4>2
        <5> QED
          BY <2>2, <4>1, <5>1, LaterGroupAhead
      <4> QED
        BY <4>3, <4>4
    <3> QED
      BY <3>1, <3>2
  <2>8. server'.dynamic \subseteq touched' /\ Unfilled(new) \subseteq touched'
    BY <2>3 DEF FilesAhead
  <2>9. /\ \A a \in Addresses \ touched' : NeighborAhead(a)'
        /\ \A g \in GroupNames \ touched' : GroupAhead(g)'
    BY <2>3, <2>6, <2>7 DEF NeighborAhead, GroupAhead
  <2> QED
    BY <2>2, <2>3, <2>4, <2>8, <2>9 DEF FilesAhead
<1> QED
  BY <1>2, <1>3

LEMMA FilesStep == NeighborsNamedOnce /\ IInv /\ FilesAhead /\ [Next]_vars => FilesAhead'
<1> SUFFICES ASSUME NeighborsNamedOnce, IInv, FilesAhead, [Next]_vars PROVE FilesAhead'
  OBVIOUS
<1>1. CASE UNCHANGED vars
  BY <1>1 DEF vars, FilesAhead, NeighborAhead, GroupAhead
<1>2. CASE Next
  BY <1>2, ReloadFiles, MainCallsFiles, ClientCallsFiles, DynamicLeavesFiles, DynamicArrivesFiles DEF Next
<1> QED
  BY <1>1, <1>2

LEMMA FilesAreRunning == IInv /\ FilesAhead => FileIsRunning
<1> SUFFICES ASSUME IInv, FilesAhead, Idle PROVE FileIsRunning
  BY DEF FileIsRunning
<1>1. todo = <<>> /\ current # Nothing /\ ToSet(todo) = {} /\ current \in FileType
  BY DEF Idle, ToSet, IInv, TypeOK
<1>2. /\ \A a \in Addresses \ touched : NeighborAsInFile(current, server, a)
      /\ \A g \in GroupNames \ touched : GroupAsInFile(current, server, g)
  BY <1>1 DEF FilesAhead, NeighborAhead, GroupAhead
<1>3. \A i \in DOMAIN current.neighbors : current.neighbors[i] \in ToSet(current.neighbors) /\ current.neighbors[i].address \in Addresses
  <2>1. current.neighbors \in Seq(Neighbors)
    BY <1>1 DEF FileType
  <2>2. \A i \in DOMAIN current.neighbors : current.neighbors[i] \in Neighbors
    BY <2>1
  <2> QED
    BY <2>2 DEF ToSet, Neighbors
<1>4. ASSUME NEW i \in NeighborsInFile, current.neighbors[i].address \notin touched
      PROVE  RunsFresh(server, current.neighbors[i])
  <2>1. current.neighbors[i] \in Wanted(current, current.neighbors[i].address) /\ current.neighbors[i].address \in Addresses
    BY <1>3 DEF NeighborsInFile, Wanted
  <2> QED
    BY <1>2, <1>4, <2>1 DEF NeighborAsInFile
<1>5. ASSUME NEW a \in Addresses \ touched, server.running[a] # Nothing
      PROVE  \E i \in NeighborsInFile : current.neighbors[i].address = a
  <2>1. PICK n : n \in Wanted(current, a)
    BY <1>2, <1>5 DEF NeighborAsInFile
  <2> QED
    BY <2>1 DEF Wanted, ToSet, NeighborsInFile
<1>6. \A g \in GroupNames \ touched : server.groups[g].conf # Nothing <=> InFile(current, g)
  BY <1>2 DEF GroupAsInFile
<1> QED
  BY <1>4, <1>5, <1>6 DEF FileIsRunning, RunsFresh

\* Whatever files follow each other, whatever clients call and whichever dynamic neighbors come and go,
\* for any number of addresses, groups and policies: once main has made its calls, every neighbor and
\* group of the file that no client touched and no call of which failed is what a fresh start with that
\* file makes of it.  What must be assumed is that a file names a neighbor once: of two entries with one
\* address at most one can be what runs.
THEOREM FilesRun ==
  ASSUME NeighborsNamedOnce
  PROVE  Spec => []FileIsRunning
<1>1. IInv /\ FilesAhead /\ [Next]_vars => FilesAhead'
  BY FilesStep
<1>2. Spec => []FilesAhead
  BY <1>1, InitFiles, InvariantHolds, PTL DEF Spec
<1>3. IInv /\ FilesAhead => FileIsRunning
  BY FilesAreRunning
<1> QED
  BY <1>2, <1>3, InvariantHolds, PTL

-----------------------------------------------------------------------------
(* Agent.  AgentTypeOK, MapFollowsConfig and VrfHasOneNetwork are each      *)
(* inductive, the last two relative to the first. RefusedOnlyByOld is part of *)
(* Refusals, which also knows that a network that serves has its VRF and    *)
(* that the dataplane's map leads to live ones.                             *)

LEMMA InitType == AgentInit => AgentTypeOK
<1>1. NoFile \in AgentFileType
  BY DEF NoFile, AgentFileType
<1>2. Free \in [pc : {"none", "setup", "serving"}, stop : BOOLEAN]
  BY DEF Free
<1>3. ASSUME AgentInit PROVE vn \in [RDs -> [Gens -> [pc : {"none", "setup", "serving"}, stop : BOOLEAN]]]
  BY <1>2, <1>3 DEF AgentInit
<1>4. ASSUME AgentInit PROVE vnMap \in [RDs -> Gens \cup {0}]
  BY <1>4 DEF AgentInit
<1> QED
  BY <1>1, <1>3, <1>4 DEF AgentInit, AgentTypeOK

\* What a network's record can become.
LEMMA NetworkType ==
  ASSUME AgentTypeOK, NEW r \in RDs, NEW g \in Gens,
         NEW n \in [pc : {"none", "setup", "serving"}, stop : BOOLEAN]
  PROVE  [vn EXCEPT ![r][g] = n] \in
           [RDs -> [Gens -> [pc : {"none", "setup", "serving"}, stop : BOOLEAN]]]
  BY DEF AgentTypeOK

LEMMA TypeStep == AgentTypeOK /\ [AgentNext]_agentVars => AgentTypeOK'
<1> SUFFICES ASSUME AgentTypeOK, [AgentNext]_agentVars PROVE AgentTypeOK'
  OBVIOUS
<1> USE DEF mainVars, readerVars, planeVars, netVars
<1> DEFINE Nets == [pc : {"none", "setup", "serving"}, stop : BOOLEAN]
<1>1. CASE UNCHANGED agentVars
  BY <1>1 DEF agentVars, AgentTypeOK
<1>2. CASE ReadFile
  BY <1>2, AgentFilesAssumption DEF ReadFile, Ends, AgentTypeOK
<1>3. CASE MainTakesSignal \/ MainSendsReload \/ MainTakesBgpConfig \/ NoDataplane
  BY ZenonT(90), <1>3 DEF MainTakesSignal, MainSendsReload, MainTakesBgpConfig, NoDataplane, Ends, AgentTypeOK
<1>4. CASE MainTakesConfig
  BY <1>4 DEF MainTakesConfig, NewDataplane, UpdateConfig, AgentTypeOK, AgentFileType, NoFile
<1>5. ASSUME NEW r \in RDs, MainAdds(r) PROVE AgentTypeOK'
  <2>1. CASE Ends("deadTomb")
    BY <2>1 DEF Ends, AgentTypeOK
  <2>2. CASE ~Ends("deadTomb")
    <3>1. PICK g \in Gens : /\ vn' = [vn EXCEPT ![r][g] = [pc |-> "setup", stop |-> FALSE]]
                            /\ vnMap' = [vnMap EXCEPT ![r] = g]
      BY <1>5, <2>2 DEF MainAdds
    <3>2. [pc |-> "setup", stop |-> FALSE] \in Nets
      OBVIOUS
    <3>3. vn' \in [RDs -> [Gens -> Nets]]
      BY <3>1, <3>2, NetworkType
    <3>4. vnMap' \in [RDs -> Gens \cup {0}]
      BY <3>1 DEF AgentTypeOK
    <3>5. /\ adds' = adds \ {r}
          /\ UNCHANGED <<agent, sigCh, mpc, dels, d, bgp, rpc, file, dpc, ready, tomb, vrfs, failed>>
      BY <1>5, <2>2 DEF MainAdds
    <3> QED
      BY <3>3, <3>4, <3>5 DEF AgentTypeOK
  <2> QED
    BY <2>1, <2>2
<1>6. ASSUME NEW r \in RDs, MainDeletes(r) PROVE AgentTypeOK'
  <2>1. CASE Ends("nilNetwork")
    BY <2>1 DEF Ends, AgentTypeOK
  <2>2. CASE ~Ends("nilNetwork")
    <3>1. /\ vnMap[r] # 0 /\ StopNetwork(r) /\ vnMap' = [vnMap EXCEPT ![r] = 0]
          /\ dels' = dels \ {r}
          /\ UNCHANGED <<agent, sigCh, mpc, adds, d, bgp, rpc, file, dpc, ready, tomb, vrfs, failed>>
      BY <1>6, <2>2 DEF MainDeletes, DropFromMap
    <3>2. vnMap[r] \in Gens
      BY <3>1 DEF AgentTypeOK
    <3>3. vn' \in [RDs -> [Gens -> Nets]]
      <4>1. CASE vn' = vn
        BY <4>1 DEF AgentTypeOK
      <4>2. CASE vn' # vn
        <5>1. [pc |-> vn[r][vnMap[r]].pc, stop |-> TRUE] \in Nets
          BY <3>2 DEF AgentTypeOK
        <5>2. vn' = [vn EXCEPT ![r][vnMap[r]] = [pc |-> vn[r][vnMap[r]].pc, stop |-> TRUE]]
          BY <3>1, <4>2 DEF StopNetwork
        <5> QED
          BY <3>2, <5>1, <5>2, NetworkType
      <4> QED
        BY <4>1, <4>2
    <3>4. vnMap' \in [RDs -> Gens \cup {0}]
      BY <3>1 DEF AgentTypeOK
    <3> QED
      BY <3>1, <3>3, <3>4 DEF AgentTypeOK
  <2> QED
    BY <2>1, <2>2
<1>7. CASE DataplaneStarts \/ DataplaneStops
  BY ZenonT(60), <1>7 DEF DataplaneStarts, DataplaneStops, AgentTypeOK
<1>8. ASSUME NEW r \in RDs, NEW g \in Gens, VnStarts(r, g) PROVE AgentTypeOK'
  <2>1. CASE Ends("vrfRefused")
    BY <2>1 DEF Ends, AgentTypeOK
  <2>2. CASE ~Ends("vrfRefused")
    <3>1. [pc |-> "serving", stop |-> vn[r][g].stop] \in Nets
      BY DEF AgentTypeOK
    <3>2. vn' = [vn EXCEPT ![r][g] = [pc |-> "serving", stop |-> vn[r][g].stop]]
      BY <1>8, <2>2 DEF VnStarts
    <3>3. vn' \in [RDs -> [Gens -> Nets]]
      BY <3>1, <3>2, NetworkType
    <3>4. vrfs' \in SUBSET RDs
      BY <1>8, <2>2 DEF VnStarts, AgentTypeOK
    <3>5. UNCHANGED <<agent, sigCh, mpc, adds, dels, d, bgp, rpc, file, dpc, ready, vnMap, tomb, failed>>
      BY <1>8, <2>2 DEF VnStarts
    <3> QED
      BY <3>3, <3>4, <3>5 DEF AgentTypeOK
  <2> QED
    BY <2>1, <2>2
<1>9. ASSUME NEW r \in RDs, NEW g \in Gens, VnStops(r, g) \/ VnFails(r, g) PROVE AgentTypeOK'
  <2>1. vn' = [vn EXCEPT ![r][g] = Free] /\ tomb' \in {"alive", "dying", "dead"}
    BY <1>9 DEF VnStops, VnFails, VnReturns, AgentTypeOK
  <2>2. Free \in Nets
    BY DEF Free
  <2>3. vn' \in [RDs -> [Gens -> Nets]]
    BY <2>1, <2>2, NetworkType
  <2> QED
    BY ZenonT(30), <1>9, <2>1, <2>3 DEF VnStops, VnFails, DeleteVrf, AgentTypeOK
<1>10. ASSUME NEW r \in RDs, NEW g \in Gens, VnHelperFails(r, g) PROVE AgentTypeOK'
  BY <1>10 DEF VnHelperFails, AgentTypeOK
<1>11. CASE OperatorSignals
  BY <1>11 DEF OperatorSignals, AgentTypeOK
<1> QED
  BY <1>1, <1>2, <1>3, <1>4, <1>5, <1>6, <1>7, <1>8, <1>9, <1>10, <1>11
     DEF AgentNext, MainStep, VnStep, Ended

\* Every variable of the agent keeps its type; what main has to add is in the current
\* configuration, and what it has to delete is not (UpdateConfig).
THEOREM AgentTypeCorrect == AgentSpec => []AgentTypeOK
  BY InitType, TypeStep, PTL DEF AgentSpec

-----------------------------------------------------------------------------
\* The map of the dataplane

LEMMA InitMap == AgentInit => MapFollowsConfig
  BY DEF AgentInit, MapFollowsConfig

LEMMA MapStep == AgentTypeOK /\ MapFollowsConfig /\ [AgentNext]_agentVars => MapFollowsConfig'
<1> SUFFICES ASSUME AgentTypeOK, MapFollowsConfig, [AgentNext]_agentVars PROVE MapFollowsConfig'
  OBVIOUS
<1> USE DEF mainVars, readerVars, planeVars, netVars
<1>1. CASE UNCHANGED <<agent, vnMap, d, adds, dels>>
  BY <1>1 DEF MapFollowsConfig, Up
<1>2. CASE agent' \notin {"up", "nilNetwork"}
  BY <1>2 DEF MapFollowsConfig, Up
<1>3. CASE MainTakesConfig
  BY <1>3 DEF MainTakesConfig, MainSelects, UpdateConfig, MapFollowsConfig, AgentTypeOK, Up
<1>4. ASSUME NEW r \in RDs, MainAdds(r), agent' \in {"up", "nilNetwork"}
      PROVE  MapFollowsConfig'
  <2>1. PICK g \in Gens : vnMap' = [vnMap EXCEPT ![r] = g]
    BY <1>4 DEF MainAdds, Ends
  <2>2. /\ adds' = adds \ {r} /\ r \in adds
        /\ UNCHANGED <<agent, dels, d>>
    BY <1>4 DEF MainAdds, Ends
  <2>3. \A x \in RDs : vnMap'[x] # 0 <=> vnMap[x] # 0 \/ x = r
    BY <2>1, GensAssumption DEF AgentTypeOK
  <2> QED
    BY <2>2, <2>3 DEF MapFollowsConfig, AgentTypeOK, Up
<1>5. ASSUME NEW r \in RDs, MainDeletes(r) PROVE MapFollowsConfig'
  <2>1. vnMap[r] # 0
    BY <1>5 DEF MainDeletes, MapFollowsConfig
  <2>2. /\ vnMap' = [vnMap EXCEPT ![r] = 0]
        /\ dels' = dels \ {r} /\ r \in dels
        /\ UNCHANGED <<agent, adds, d>>
    BY <1>5, <2>1 DEF MainDeletes, DropFromMap
  <2>3. \A x \in RDs : vnMap'[x] # 0 <=> vnMap[x] # 0 /\ x # r
    BY <2>2 DEF AgentTypeOK
  <2> QED
    BY <2>2, <2>3 DEF MapFollowsConfig, AgentTypeOK, Up
<1> QED
  <2>1. CASE ReadFile
    BY <2>1, <1>1, <1>2 DEF ReadFile, Ends
  <2>2. CASE MainTakesSignal \/ MainSendsReload \/ MainTakesBgpConfig
    BY <2>2, <1>1 DEF MainTakesSignal, MainSendsReload, MainTakesBgpConfig
  <2>3. CASE NoDataplane
    BY <2>3, <1>2 DEF NoDataplane, Ends
  <2>4. ASSUME NEW r \in RDs, MainAdds(r) PROVE MapFollowsConfig'
    BY <2>4, <1>2, <1>4
  <2>5. CASE DataplaneStarts \/ DataplaneStops \/ OperatorSignals
    BY <2>5, <1>1 DEF DataplaneStarts, DataplaneStops, OperatorSignals
  <2>6. ASSUME NEW r \in RDs, NEW g \in Gens,
               VnStep(r, g) \/ VnHelperFails(r, g) \/ VnFails(r, g)
        PROVE  MapFollowsConfig'
    BY <2>6, <1>1, <1>2 DEF VnStep, VnStarts, VnStops, VnHelperFails, VnFails, Ends
  <2>7. CASE UNCHANGED agentVars
    BY <2>7, <1>1 DEF agentVars
  <2> QED
    BY <1>3, <1>5, <2>1, <2>2, <2>3, <2>4, <2>5, <2>6, <2>7 DEF AgentNext, MainStep, Ended

\* Through any sequence of reloads, and while a reload is half done, the dataplane knows
\* exactly the networks main thinks it knows; deleting one never meets a nil entry of
\* d.vnMap (Dataplane.Serve, case delVnCh).
THEOREM MapIsRight == AgentSpec => []MapFollowsConfig
  BY InitType, InitMap, TypeStep, MapStep, PTL DEF AgentSpec

-----------------------------------------------------------------------------
\* The VRF of an RD

LEMMA InitVrf == AgentInit => VrfHasOneNetwork
  BY DEF AgentInit, VrfHasOneNetwork, Free

\* A step that adds nothing to the networks that serve, and keeps their VRFs.
LEMMA NoNewServer ==
  ASSUME VrfHasOneNetwork,
         \A r \in RDs, g \in Gens : vn'[r][g].pc = "serving" => vn[r][g].pc = "serving",
         \A r \in RDs, g \in Gens : vn'[r][g].pc = "serving" /\ r \in vrfs => r \in vrfs'
  PROVE  VrfHasOneNetwork'
  BY DEF VrfHasOneNetwork

LEMMA VrfStep == AgentTypeOK /\ VrfHasOneNetwork /\ [AgentNext]_agentVars => VrfHasOneNetwork'
<1> SUFFICES ASSUME AgentTypeOK, VrfHasOneNetwork, [AgentNext]_agentVars PROVE VrfHasOneNetwork'
  OBVIOUS
<1> USE DEF mainVars, readerVars, planeVars, netVars
<1>1. CASE UNCHANGED <<vn, vrfs>>
  BY <1>1 DEF VrfHasOneNetwork
<1>2. ASSUME NEW r \in RDs, MainAdds(r) PROVE VrfHasOneNetwork'
  <2>1. CASE UNCHANGED <<vn, vrfs>>
    BY <2>1, <1>1
  <2>2. CASE ~UNCHANGED <<vn, vrfs>>
    <3>1. PICK g \in Gens : vn' = [vn EXCEPT ![r][g] = [pc |-> "setup", stop |-> FALSE]]
      BY <1>2, <2>2 DEF MainAdds, Ends
    <3>2. vrfs' = vrfs
      BY <1>2, <2>2 DEF MainAdds, Ends
    <3> QED
      BY <3>1, <3>2, NoNewServer DEF AgentTypeOK
  <2> QED
    BY <2>1, <2>2
<1>3. ASSUME NEW r \in RDs, MainDeletes(r) PROVE VrfHasOneNetwork'
  <2>1. CASE UNCHANGED <<vn, vrfs>>
    BY <2>1, <1>1
  <2>2. CASE ~UNCHANGED <<vn, vrfs>>
    <3>1. vrfs' = vrfs /\ StopNetwork(r) /\ vnMap[r] \in Gens
      BY <1>3, <2>2 DEF MainDeletes, Ends, AgentTypeOK
    <3>2. vn' = [vn EXCEPT ![r][vnMap[r]] = [pc |-> vn[r][vnMap[r]].pc, stop |-> TRUE]]
      BY <3>1, <2>2 DEF StopNetwork
    <3>3. \A x \in RDs, g \in Gens : vn'[x][g].pc = vn[x][g].pc
      BY <3>1, <3>2 DEF AgentTypeOK
    <3> QED
      BY <3>1, <3>3, NoNewServer
  <2> QED
    BY <2>1, <2>2
<1>4. ASSUME NEW r \in RDs, NEW g \in Gens, VnStarts(r, g) PROVE VrfHasOneNetwork'
  <2>1. CASE UNCHANGED <<vn, vrfs>>
    BY <2>1, <1>1
  <2>2. CASE ~UNCHANGED <<vn, vrfs>>
    <3>1. r \notin vrfs /\ vrfs' = vrfs \cup {r} /\ vn' = [vn EXCEPT ![r][g] = [pc |-> "serving", stop |-> @.stop]]
      BY <1>4, <2>2 DEF VnStarts, VrfAdded, Ends
    <3>2. \A h \in Gens : vn[r][h].pc # "serving"
      BY <3>1 DEF VrfHasOneNetwork
    <3>3. \A x \in RDs, h \in Gens :
            vn'[x][h].pc = IF x = r /\ h = g THEN "serving" ELSE vn[x][h].pc
      BY <3>1 DEF AgentTypeOK
    <3> QED
      BY <3>1, <3>2, <3>3 DEF VrfHasOneNetwork
  <2> QED
    BY <2>1, <2>2
<1>5. ASSUME NEW r \in RDs, NEW g \in Gens, VnStops(r, g) PROVE VrfHasOneNetwork'
  <2>1. vn' = [vn EXCEPT ![r][g] = Free] /\ vrfs' = vrfs \ {r} /\ vn[r][g].pc = "serving"
    BY <1>5 DEF VnStops, VnReturns, DeleteVrf
  <2>2. \A x \in RDs, h \in Gens :
          vn'[x][h].pc = IF x = r /\ h = g THEN "none" ELSE vn[x][h].pc
    BY <2>1 DEF AgentTypeOK, Free
  <2>3. \A h \in Gens : vn'[r][h].pc # "serving"
    BY <2>1, <2>2 DEF VrfHasOneNetwork
  <2> QED
    BY <2>1, <2>2, <2>3 DEF VrfHasOneNetwork
<1>6. ASSUME NEW r \in RDs, NEW g \in Gens, VnFails(r, g) PROVE VrfHasOneNetwork'
  <2>1. vn' = [vn EXCEPT ![r][g] = Free] /\ vrfs' = vrfs
    BY <1>6 DEF VnFails, VnReturns
  <2> QED
    BY <2>1, NoNewServer DEF AgentTypeOK, Free
<1>7. ASSUME NEW r \in RDs, NEW g \in Gens, VnHelperFails(r, g) PROVE VrfHasOneNetwork'
  <2>1. vn' = [vn EXCEPT ![r][g] = [pc |-> @.pc, stop |-> TRUE]] /\ vrfs' = vrfs
    BY <1>7 DEF VnHelperFails
  <2> QED
    BY <2>1, NoNewServer DEF AgentTypeOK
<1> QED
  <2>1. CASE ReadFile \/ OperatorSignals \/ DataplaneStarts \/ DataplaneStops
    BY <2>1, <1>1 DEF ReadFile, Ends, OperatorSignals, DataplaneStarts, DataplaneStops
  <2>2. CASE \/ MainTakesSignal \/ MainSendsReload \/ MainTakesBgpConfig \/ MainTakesConfig
             \/ NoDataplane
    BY <2>2, <1>1
       DEF MainTakesSignal, MainSendsReload, MainTakesBgpConfig, MainTakesConfig, NoDataplane, Ends
  <2>3. CASE UNCHANGED agentVars
    BY <2>3, <1>1 DEF agentVars
  <2> QED
    BY <1>2, <1>3, <1>4, <1>5, <1>6, <1>7, <2>1, <2>2, <2>3 DEF AgentNext, MainStep, VnStep, Ended

\* The networks of one RD that overlap when a reload deletes it and the next one adds it
\* again never share its VRF: VirtualNetwork.Serve adds the VRF first and deletes it last.
THEOREM VrfIsExclusive == AgentSpec => []VrfHasOneNetwork
  BY InitType, InitVrf, TypeStep, VrfStep, PTL DEF AgentSpec

-----------------------------------------------------------------------------
\* Why a network is refused its VRF

\* BGP was started before there is a network.
BgpStarted ==
  /\ ready \/ dpc = "serving" => bgp
  /\ rpc = "config" /\ file.bgp => bgp
  /\ \A r \in RDs, g \in Gens : vn[r][g].pc # "none" => bgp

\* Without failures a VRF belongs to a network that serves.
VrfServed == failed \/ \A r \in vrfs : \E g \in Gens : vn[r][g].pc = "serving"

\* The dataplane's map knows every network that was not told to stop.
MapHasLive == \A r \in RDs, g \in Gens : vn[r][g].pc # "none" /\ ~vn[r][g].stop => vnMap[r] = g

Refusals == BgpStarted /\ VrfServed /\ MapHasLive /\ RefusedOnlyByOld

LEMMA InitRefusals == AgentInit => Refusals
  BY DEF AgentInit, Refusals, BgpStarted, VrfServed, MapHasLive, RefusedOnlyByOld, Free, NoFile

\* An end of the process for another reason.
LEMMA OtherEnd ==
  ASSUME Refusals, NEW how, Ends(how), how # "vrfRefused"
  PROVE  Refusals'
  BY DEF Refusals, BgpStarted, VrfServed, MapHasLive, RefusedOnlyByOld, Ends,
         mainVars, readerVars, planeVars, netVars

\* Any step that leaves the networks alone, and neither starts the dataplane nor takes a file.
LEMMA NetworksAlone ==
  ASSUME Refusals, UNCHANGED <<agent, ready, vnMap, vn, vrfs, failed>>,
         bgp => bgp', dpc' = "serving" => dpc = "serving",
         rpc' = "config" /\ file'.bgp => bgp' \/ (rpc = "config" /\ file.bgp)
  PROVE  Refusals'
  BY DEF Refusals, BgpStarted, VrfServed, MapHasLive, RefusedOnlyByOld

LEMMA AddsRefusals ==
  ASSUME AgentTypeOK, MapFollowsConfig, Refusals, NEW r \in RDs, MainAdds(r)
  PROVE  Refusals'
<1> USE DEF mainVars, readerVars, planeVars, netVars
<1>1. CASE Ends("deadTomb")
  BY <1>1, OtherEnd
<1>2. CASE ~Ends("deadTomb")
  <2>1. PICK g \in Gens : /\ vn' = [vn EXCEPT ![r][g] = [pc |-> "setup", stop |-> FALSE]]
                          /\ vnMap' = [vnMap EXCEPT ![r] = g]
                          /\ vn[r][g] = Free
    BY <1>2 DEF MainAdds
  <2>2. /\ Up /\ r \in adds /\ dpc = "serving"
        /\ UNCHANGED <<agent, bgp, rpc, file, dpc, ready, vrfs, failed>>
    BY <1>2 DEF MainAdds
  <2>3. vnMap[r] = 0
    BY <2>2 DEF MapFollowsConfig, AgentTypeOK
  <2>4. \A h \in Gens : vn[r][h].pc # "none" => vn[r][h].stop
    BY <2>3, GensAssumption DEF Refusals, MapHasLive
  <2>5. \A x \in RDs, h \in Gens :
          vn'[x][h] = IF x = r /\ h = g THEN [pc |-> "setup", stop |-> FALSE] ELSE vn[x][h]
    BY <2>1 DEF AgentTypeOK
  <2>6. \A x \in RDs : vnMap'[x] = IF x = r THEN g ELSE vnMap[x]
    BY <2>1 DEF AgentTypeOK
  <2>7. BgpStarted'
    BY <2>2, <2>5 DEF Refusals, BgpStarted
  <2>8. VrfServed'
    <3>1. \A x \in RDs, h \in Gens : vn[x][h].pc = "serving" => vn'[x][h].pc = "serving"
      BY <2>1, <2>5 DEF Free
    <3> QED
      BY <3>1, <2>2 DEF Refusals, VrfServed, AgentTypeOK
  <2>9. MapHasLive'
    BY <2>4, <2>5, <2>6 DEF Refusals, MapHasLive
  <2> QED
    BY <2>2, <2>7, <2>8, <2>9 DEF Refusals, RefusedOnlyByOld, Up
<1> QED
  BY <1>1, <1>2

LEMMA DeletesRefusals ==
  ASSUME AgentTypeOK, Refusals, NEW r \in RDs, MainDeletes(r)
  PROVE  Refusals'
<1> USE DEF mainVars, readerVars, planeVars, netVars
<1>1. CASE Ends("nilNetwork")
  BY <1>1, OtherEnd
<1>2. CASE ~Ends("nilNetwork")
  <2>1. /\ Up /\ StopNetwork(r) /\ DropFromMap(r) /\ vnMap[r] \in Gens
        /\ UNCHANGED <<agent, bgp, rpc, file, dpc, ready, vrfs, failed>>
    BY <1>2 DEF MainDeletes, AgentTypeOK
  <2>2. \A x \in RDs : vnMap'[x] = IF x = r THEN 0 ELSE vnMap[x]
    BY <2>1 DEF DropFromMap, AgentTypeOK
  <2>3. /\ \A x \in RDs, h \in Gens : vn'[x][h].pc = vn[x][h].pc
        /\ \A x \in RDs, h \in Gens : vn[x][h].stop => vn'[x][h].stop
        /\ vn[r][vnMap[r]].pc # "none" => vn'[r][vnMap[r]].stop
    <3>1. CASE vn[r][vnMap[r]] = Free
      <4>1. vn' = vn
        BY <3>1, <2>1 DEF StopNetwork
      <4>2. vn[r][vnMap[r]].pc = "none"
        BY <3>1 DEF Free
      <4> QED
        BY <4>1, <4>2
    <3>2. CASE vn[r][vnMap[r]] # Free
      <4>1. vn' = [vn EXCEPT ![r][vnMap[r]] = [pc |-> vn[r][vnMap[r]].pc, stop |-> TRUE]]
        BY <3>2, <2>1 DEF StopNetwork
      <4>2. \A x \in RDs, h \in Gens :
              vn'[x][h] = IF x = r /\ h = vnMap[r] THEN [pc |-> vn[x][h].pc, stop |-> TRUE] ELSE vn[x][h]
        BY <4>1, <2>1 DEF AgentTypeOK
      <4>3. vn'[r][vnMap[r]] = [pc |-> vn[r][vnMap[r]].pc, stop |-> TRUE]
        BY <4>2, <2>1
      <4>4. vn'[r][vnMap[r]].pc = vn[r][vnMap[r]].pc /\ vn'[r][vnMap[r]].stop = TRUE
        BY <4>3
      <4>5. \A x \in RDs, h \in Gens : x # r \/ h # vnMap[r] => vn'[x][h] = vn[x][h]
        BY <4>2
      <4> QED
        BY <4>4, <4>5
    <3> QED
      BY <3>1, <3>2
  <2>4. \A x \in RDs, h \in Gens : vn'[x][h].pc = vn[x][h].pc
    BY <2>3
  <2>5. BgpStarted'
    BY <2>1, <2>4 DEF Refusals, BgpStarted
  <2>6. VrfServed'
    BY SMTT(90), <2>1, <2>4 DEF Refusals, VrfServed, AgentTypeOK
  <2>7. MapHasLive'
    BY <2>1, <2>2, <2>3 DEF Refusals, MapHasLive
  <2> QED
    BY <2>1, <2>5, <2>6, <2>7 DEF Refusals, RefusedOnlyByOld, Up
<1> QED
  BY <1>1, <1>2

LEMMA StartsRefusals ==
  ASSUME AgentTypeOK, Refusals, NEW r \in RDs, NEW g \in Gens, VnStarts(r, g)
  PROVE  Refusals'
<1> USE DEF mainVars, readerVars, planeVars, netVars
<1>1. CASE VrfAdded(r)
  <2>1. /\ Up /\ vn[r][g].pc = "setup" /\ vrfs' = vrfs \cup {r}
        /\ vn' = [vn EXCEPT ![r][g] = [pc |-> "serving", stop |-> vn[r][g].stop]]
        /\ UNCHANGED <<agent, bgp, rpc, file, dpc, ready, vnMap, failed>>
    BY <1>1 DEF VnStarts
  <2>2. \A x \in RDs, h \in Gens :
          vn'[x][h] = IF x = r /\ h = g THEN [pc |-> "serving", stop |-> vn[r][g].stop] ELSE vn[x][h]
    BY <2>1 DEF AgentTypeOK
  <2>3. BgpStarted'
    BY <2>1, <2>2 DEF Refusals, BgpStarted
  <2>4. VrfServed'
    BY <2>1, <2>2 DEF Refusals, VrfServed, AgentTypeOK
  <2>5. MapHasLive'
    BY <2>1, <2>2 DEF Refusals, MapHasLive
  <2> QED
    BY <2>1, <2>3, <2>4, <2>5 DEF Refusals, RefusedOnlyByOld, Up
<1>2. CASE ~VrfAdded(r)
  <2>1. Ends("vrfRefused") /\ vn[r][g].pc = "setup"
    BY <1>2 DEF VnStarts
  <2>2. bgp
    BY <2>1 DEF Refusals, BgpStarted
  <2>3. r \in vrfs
    BY <1>2, <2>2 DEF VrfAdded
  <2>4. failed \/ \E h \in Gens : vn[r][h].pc = "serving" /\ (vn[r][g].stop \/ vn[r][h].stop)
    <3>1. SUFFICES ASSUME ~failed
                   PROVE  \E h \in Gens : vn[r][h].pc = "serving" /\ (vn[r][g].stop \/ vn[r][h].stop)
      OBVIOUS
    <3>2. PICK h \in Gens : vn[r][h].pc = "serving"
      BY <3>1, <2>3 DEF Refusals, VrfServed
    <3>3. vn[r][g].stop \/ vn[r][h].stop
      BY <3>2, <2>1 DEF Refusals, MapHasLive
    <3> QED
      BY <3>2, <3>3
  <2>5. UNCHANGED <<bgp, rpc, file, dpc, ready, vnMap, vn, vrfs, failed>>
    BY <2>1 DEF Ends
  <2>6. RefusedOnlyByOld'
    BY <2>1, <2>4, <2>5 DEF RefusedOnlyByOld
  <2> QED
    BY <2>5, <2>6 DEF Refusals, BgpStarted, VrfServed, MapHasLive
<1> QED
  BY <1>1, <1>2

\* A network that ends, or is told to by its own tomb.
LEMMA LeavesRefusals ==
  ASSUME AgentTypeOK, Refusals, NEW r \in RDs, NEW g \in Gens,
         VnStops(r, g) \/ VnHelperFails(r, g) \/ VnFails(r, g)
  PROVE  Refusals'
<1> USE DEF mainVars, readerVars, planeVars, netVars
<1>1. /\ Up /\ UNCHANGED <<agent, bgp, rpc, file, dpc, ready, vnMap>>
  BY DEF VnStops, VnHelperFails, VnFails
<1>2. vn' = [vn EXCEPT ![r][g] = Free] \/ vn' = [vn EXCEPT ![r][g] = [pc |-> vn[r][g].pc, stop |-> TRUE]]
  BY DEF VnStops, VnHelperFails, VnFails, VnReturns
<1>3. /\ \A x \in RDs, h \in Gens : x # r \/ h # g => vn'[x][h] = vn[x][h]
      /\ vn'[r][g].pc = "none" \/ (vn'[r][g].pc = vn[r][g].pc /\ vn'[r][g].stop)
  <2>1. CASE vn' = [vn EXCEPT ![r][g] = Free]
    <3>1. \A x \in RDs, h \in Gens : vn'[x][h] = IF x = r /\ h = g THEN Free ELSE vn[x][h]
      BY <2>1 DEF AgentTypeOK
    <3> QED
      BY <3>1 DEF Free
  <2>2. CASE vn' = [vn EXCEPT ![r][g] = [pc |-> vn[r][g].pc, stop |-> TRUE]]
    <3>1. \A x \in RDs, h \in Gens :
            vn'[x][h] = IF x = r /\ h = g THEN [pc |-> vn[x][h].pc, stop |-> TRUE] ELSE vn[x][h]
      BY <2>2 DEF AgentTypeOK
    <3>2. vn'[r][g] = [pc |-> vn[r][g].pc, stop |-> TRUE]
      BY <3>1
    <3>3. vn'[r][g].pc = vn[r][g].pc /\ vn'[r][g].stop = TRUE
      BY <3>2
    <3> QED
      BY <3>1, <3>3
  <2> QED
    BY <1>2, <2>1, <2>2
<1>4. vn[r][g].pc # "none"
  BY DEF VnStops, VnHelperFails, VnFails
<1>5. BgpStarted'
  BY <1>1, <1>3, <1>4 DEF Refusals, BgpStarted, Free
<1>6. MapHasLive'
  BY <1>1, <1>3 DEF Refusals, MapHasLive, Free
<1>7. VrfServed'
  <2>1. CASE VnStops(r, g)
    <3>1. vrfs' = vrfs \ {r} /\ failed' = failed
      BY <2>1 DEF VnStops, DeleteVrf
    <3>2. \A x \in RDs \ {r}, h \in Gens : vn'[x][h] = vn[x][h]
      BY <1>3
    <3> QED
      BY <3>1, <3>2 DEF Refusals, VrfServed, AgentTypeOK
  <2>2. CASE VnHelperFails(r, g) \/ VnFails(r, g)
    BY <2>2 DEF VnHelperFails, VnFails, VrfServed
  <2> QED
    BY <2>1, <2>2
<1> QED
  BY <1>1, <1>5, <1>6, <1>7 DEF Refusals, RefusedOnlyByOld, Up

LEMMA RefusalsStep == AgentTypeOK /\ MapFollowsConfig /\ Refusals /\ [AgentNext]_agentVars => Refusals'
<1> SUFFICES ASSUME AgentTypeOK, MapFollowsConfig, Refusals, [AgentNext]_agentVars PROVE Refusals'
  OBVIOUS
<1> USE DEF mainVars, readerVars, planeVars, netVars
<1>1. CASE ReadFile
  <2>1. CASE Ends("badFile")
    BY <2>1, OtherEnd
  <2>2. CASE ~Ends("badFile")
    BY <1>1, <2>2, NetworksAlone DEF ReadFile
  <2> QED
    BY <2>1, <2>2
<1>2. CASE MainTakesSignal \/ MainSendsReload \/ MainTakesBgpConfig \/ OperatorSignals \/ DataplaneStops
  BY <1>2, NetworksAlone
     DEF MainTakesSignal, MainSendsReload, MainTakesBgpConfig, OperatorSignals, DataplaneStops
<1>3. CASE MainTakesConfig
  BY <1>3 DEF MainTakesConfig, NewDataplane, Refusals, BgpStarted, VrfServed, MapHasLive, RefusedOnlyByOld
<1>4. CASE NoDataplane
  BY <1>4, OtherEnd DEF NoDataplane
<1>5. CASE DataplaneStarts
  BY <1>5 DEF DataplaneStarts, Refusals, BgpStarted, VrfServed, MapHasLive, RefusedOnlyByOld, Up
<1>6. ASSUME NEW r \in RDs, MainAdds(r) \/ MainDeletes(r) PROVE Refusals'
  BY <1>6, AddsRefusals, DeletesRefusals
<1>7. ASSUME NEW r \in RDs, NEW g \in Gens, VnStep(r, g) \/ VnHelperFails(r, g) \/ VnFails(r, g)
      PROVE  Refusals'
  BY <1>7, StartsRefusals, LeavesRefusals DEF VnStep
<1>8. CASE UNCHANGED agentVars
  BY <1>8 DEF agentVars, Refusals, BgpStarted, VrfServed, MapHasLive, RefusedOnlyByOld
<1> QED
  BY <1>1, <1>2, <1>3, <1>4, <1>5, <1>6, <1>7, <1>8 DEF AgentNext, MainStep, Ended

\* The log.Fatal of VirtualNetwork.Serve, when AddVRF is refused, needs a failure or a network of the
\* same RD that still runs although it, or the new one, was told to stop.
THEOREM RefusalNeedsOld == AgentSpec => []RefusedOnlyByOld
<1>1. AgentInit => AgentTypeOK /\ MapFollowsConfig /\ Refusals
  BY InitType, InitMap, InitRefusals
<1>2. AgentTypeOK /\ MapFollowsConfig /\ Refusals /\ [AgentNext]_agentVars
        => (AgentTypeOK /\ MapFollowsConfig /\ Refusals)'
  BY TypeStep, MapStep, RefusalsStep
<1>3. Refusals => RefusedOnlyByOld
  BY DEF Refusals
<1> QED
  BY <1>1, <1>2, <1>3, PTL DEF AgentSpec
=============================================================================
