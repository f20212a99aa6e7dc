------------------------------- MODULE Policy -------------------------------
(***************************************************************************)
(* The tables of RoutingPolicy (internal/pkg/table/policy.go): defined     *)
(* sets, statements, policies and what is assigned to a table. Everything  *)
(* holds pointers: a condition to its set, a policy to its statements, an  *)
(* assignment to its policies. Which object a name stands for and which    *)
(* object is used can therefore come apart.                                *)
(*                                                                         *)
(* Every operation is one call of the API (server.go), carried out by the  *)
(* server goroutine. Objects are numbers; an object nothing points to is   *)
(* free to be used again.                                                  *)
(***************************************************************************)
EXTENDS Integers, SequencesExt, Lists

CONSTANTS
  Types,       \* the types of conditions that refer to a defined set, in their fixed order
  SetNames,    \* the names of defined sets; the same name may be used for each type
  StNames,     \* the names of statements
  PoNames,     \* the names of policies
  Members,     \* what sets contain: the paths a condition on the set holds of
  Asked,       \* what a request may describe a statement as
  StLists,     \* the lists of statements a request may name
  PoLists,     \* the lists of policies a request may name
  Configs,     \* the configurations SetPolicies may be called with
  SetIds, StIds, PoIds,   \* bound: the objects that exist at a time
  MaxStatements           \* bound: the statements of a policy

ASSUME TypesAssumption == Types \in Seq(ToSet(Types)) /\ IsInjective(Types)
ASSUME NamesAssumption == StNames # {} /\ PoNames # {}
ASSUME ListsAssumption == StLists \subseteq Seq(StNames) /\ PoLists \subseteq Seq(PoNames)
ASSUME IdsAssumption == SetIds \cup StIds \cup PoIds \subseteq Nat \ {0}
ASSUME MaxStatementsAssumption == MaxStatements \in Nat

TypeSet == ToSet(Types)
Dirs    == {"import", "export"}
Routes  == {"none", "accept", "reject"}
None    == 0
Nothing == "none"

VARIABLES
  setMap,      \* definedSetMap: the object of each type and name, or None
  sets,        \* the set objects
  stMap,       \* statementMap
  stmts,       \* the statement objects
  poMap,       \* policyMap
  pols,        \* the policy objects
  assign,      \* assignmentMap for the global table: policies and default of each direction
  outcome      \* how the last operation ended: "ok", "reloaded" (SetPolicies), "error" or "panic"

vars == <<setMap, sets, stMap, stmts, poMap, pols, assign, outcome>>

\* A condition: its type, the name it was given and the set it points to. It is evaluated
\* without a test for nil.
Conds   == [type : TypeSet, name : SetNames, set : SetIds]
\* A statement. loose: not the one its name stands for but a request's own (history).
Hollow  == [name |-> CHOOSE n \in StNames : TRUE, conds |-> <<>>, route |-> "none", loose |-> FALSE]
Unfilled == [name |-> CHOOSE n \in PoNames : TRUE, stmts |-> <<>>]

TypeOK ==
  /\ setMap \in [TypeSet \X SetNames -> SetIds \cup {None}]
  /\ sets \in [SetIds -> SUBSET Members]
  /\ stMap \in [StNames -> StIds \cup {None}]
  /\ stmts \in [StIds -> [name : StNames, conds : Seq(Conds), route : Routes, loose : BOOLEAN]]
  /\ poMap \in [PoNames -> PoIds \cup {None}]
  /\ pols \in [PoIds -> [name : PoNames, stmts : Seq(StIds)]]
  /\ assign \in [Dirs -> [pols : Seq(PoIds), default : Routes]]
  /\ outcome \in {"ok", "reloaded", "error", "panic"}

-----------------------------------------------------------------------------
(* What is reachable. *)

Defined(map) == {map[n] : n \in DOMAIN map} \ {None}

UsedPols == Defined(poMap) \cup UNION {ToSet(assign[d].pols) : d \in Dirs}
UsedStmts == Defined(stMap) \cup UNION {ToSet(pols[p].stmts) : p \in UsedPols}
UsedSets == Defined(setMap) \cup
            UNION {{c.set : c \in ToSet(stmts[s].conds)} : s \in UsedStmts}

FreshSet == CHOOSE i \in SetIds \ UsedSets : TRUE
FreshPol == CHOOSE i \in PoIds \ UsedPols : TRUE
FreshStmts(n) == CHOOSE f \in Injection(1..n, StIds \ UsedStmts) : TRUE

\* What an object was made for.
NameOf(f, object) == CHOOSE n \in DOMAIN f : f[n] = object

\* bound: there is room for what an operation creates
RoomForSet == SetIds \ UsedSets # {}
RoomForPol == PoIds \ UsedPols # {}
RoomForStmts(n) == Injection(1..n, StIds \ UsedStmts) # {}

-----------------------------------------------------------------------------
Init ==
  /\ setMap = [k \in TypeSet \X SetNames |-> None]
  /\ sets = [i \in SetIds |-> {}]
  /\ stMap = [n \in StNames |-> None]
  /\ stmts = [i \in StIds |-> Hollow]
  /\ poMap = [n \in PoNames |-> None]
  /\ pols = [i \in PoIds |-> Unfilled]
  /\ assign = [d \in Dirs |-> [pols |-> <<>>, default |-> "accept"]]
  /\ outcome = "ok"

Alive == outcome # "panic"

Refuse == outcome' = "error" /\ UNCHANGED <<setMap, sets, stMap, stmts, poMap, pols, assign>>

-----------------------------------------------------------------------------
(* Defined sets.                                                            *)

\* Adding to a set that exists appends to the object its users point to.
AddDefinedSet(type, name, members) ==
  LET old == setMap[<<type, name>>]
      new == IF old = None THEN FreshSet ELSE old
  IN  /\ Alive
      /\ old # None \/ SetIds \ UsedSets # {}
      /\ sets' = [sets EXCEPT ![new] = IF old = None THEN members ELSE @ \cup members]
      /\ setMap' = [setMap EXCEPT ![<<type, name>>] = new]
      /\ outcome' = "ok"
      /\ UNCHANGED <<stMap, stmts, poMap, pols, assign>>

(* mutant *)
SetNeverInUse(name) == FALSE

\* Names only, whatever the type, and only in the statements of policies.
SetInUse(name) ==
  \E p \in Defined(poMap) : \E s \in ToSet(pols[p].stmts) :
    \E c \in ToSet(stmts[s].conds) : c.name = name

DeleteDefinedSet(type, name) ==
  /\ Alive
  /\ IF setMap[<<type, name>>] = None \/ SetInUse(name) THEN Refuse
     ELSE /\ setMap' = [setMap EXCEPT ![<<type, name>>] = None]
          /\ outcome' = "ok"
          /\ UNCHANGED <<sets, stMap, stmts, poMap, pols, assign>>

RemoveMembers(type, name, members) ==
  LET old == setMap[<<type, name>>]
  IN  /\ Alive
      /\ IF old = None THEN Refuse
         ELSE /\ sets' = [sets EXCEPT ![old] = @ \ members]
              /\ outcome' = "ok"
              /\ UNCHANGED <<setMap, stMap, stmts, poMap, pols, assign>>

-----------------------------------------------------------------------------
(* Statements. A request describes one: for each type the set a condition   *)
(* names, or Nothing, and a route action.                                   *)

Requests == [names : [TypeSet -> SetNames \cup {Nothing}], route : Routes]

ASSUME AskedAssumption == Asked \subseteq Requests

\* NewStatement makes the conditions in the order of Types.
Described(r) ==
  Kept([i \in DOMAIN Types |-> [type |-> Types[i], name |-> r.names[Types[i]]]],
       [type : TypeSet, name : SetNames])

\* validateCondition: the sets must exist; each condition is made to point to its set.
Valid(map, r) == \A c \in ToSet(Described(r)) : map[<<c.type, c.name>>] # None
Resolved(map, r) ==
  [i \in DOMAIN Described(r) |->
     [type |-> Described(r)[i].type, name |-> Described(r)[i].name,
      set |-> map[<<Described(r)[i].type, Described(r)[i].name>>]]]
Statement(map, n, r) ==
  [name |-> n, conds |-> Resolved(map, r), route |-> r.route, loose |-> FALSE]

TypesOf(conds) == {c.type : c \in ToSet(conds)}
IndexOf(conds, type) == CHOOSE i \in DOMAIN conds : conds[i].type = type

\* Statement.mod with ADD: nothing may be there already.
MayAdd(st, r) ==
  /\ TypesOf(st.conds) \cap TypesOf(Described(r)) = {}
  /\ r.route = "none" \/ st.route = "none"
Added(map, st, r) ==
  [st EXCEPT !.conds = @ \o Resolved(map, r), !.route = IF r.route = "none" THEN @ ELSE r.route]

\* Statement.mod with REMOVE, on a copy. Each condition is looked up in the statement as it was,
\* which is an error when it has none of that type, and cut out at that place of what is left
\* of it by then. A place beyond the end is a slice out of bounds. The route action comes last.
CutOut(done, conds, type) ==
  IF done.ended # "no" THEN done
  ELSE IF type \notin TypesOf(conds) THEN [done EXCEPT !.ended = "error"]
  ELSE IF IndexOf(conds, type) > Len(done.conds) THEN [done EXCEPT !.ended = "panic"]
  ELSE [done EXCEPT !.conds = RemoveAt(@, IndexOf(conds, type))]
Cut(st, r) ==
  LET done[k \in 0..Len(Described(r))] ==
        IF k = 0 THEN [conds |-> st.conds, ended |-> "no"]
        ELSE CutOut(done[k - 1], st.conds, Described(r)[k].type)
  IN  done[Len(Described(r))]
Removed(st, r) ==
  [st EXCEPT !.conds = Cut(st, r).conds, !.route = IF r.route = "none" THEN @ ELSE "none"]

AddStatement(n, r) ==
  /\ Alive
  /\ IF ~Valid(setMap, r) \/ (stMap[n] # None /\ ~MayAdd(stmts[stMap[n]], r)) THEN Refuse
     ELSE /\ IF stMap[n] = None
             THEN /\ RoomForStmts(1)
                  /\ stMap' = [stMap EXCEPT ![n] = FreshStmts(1)[1]]
                  /\ stmts' = [stmts EXCEPT ![FreshStmts(1)[1]] = Statement(setMap, n, r)]
             ELSE stMap' = stMap /\ stmts' = [stmts EXCEPT ![stMap[n]] = Added(setMap, @, r)]
          /\ outcome' = "ok"
          /\ UNCHANGED <<setMap, sets, poMap, pols, assign>>

(* mutant *)
StatementNeverInUse(map, objs, n) == FALSE

\* By name, in the policies of policyMap.
StatementInUse(map, objs, n) ==
  \E p \in Defined(map) : \E s \in ToSet(objs[p].stmts) : stmts[s].name = n

DeleteStatement(n) ==
  /\ Alive
  /\ IF stMap[n] = None \/ StatementInUse(poMap, pols, n) THEN Refuse
     ELSE /\ stMap' = [stMap EXCEPT ![n] = None]
          /\ outcome' = "ok"
          /\ UNCHANGED <<setMap, sets, stmts, poMap, pols, assign>>

RemoveFromStatement(n, r) ==
  LET st == stmts[stMap[n]]
  IN  /\ Alive
      /\ IF stMap[n] = None THEN Refuse
         ELSE IF Cut(st, r).ended = "panic"
             THEN outcome' = "panic" /\ UNCHANGED <<setMap, sets, stMap, stmts, poMap, pols, assign>>
         ELSE IF Cut(st, r).ended = "error" \/ (r.route # "none" /\ st.route = "none") THEN Refuse
         ELSE /\ stmts' = [stmts EXCEPT ![stMap[n]] = Removed(@, r)]
              /\ outcome' = "ok"
              /\ UNCHANGED <<setMap, sets, stMap, poMap, pols, assign>>

-----------------------------------------------------------------------------
(* Policies. The statements of a request are pairs of a name and a request. *)

AllDefined(descs) == \A i \in DOMAIN descs : stMap[descs[i][1]] # None

\* Policy.FillUp: the named statements as they are defined, whatever the request says of them.
\* With one of them missing it leaves the request with its own statements, those whose names
\* are defined included.
FilledUp(descs) ==
  IF AllDefined(descs) THEN [i \in DOMAIN descs |-> stMap[descs[i][1]]] ELSE FreshStmts(Len(descs))

Store(n, objs) ==
  IF poMap[n] = None
  THEN /\ RoomForPol
       /\ poMap' = [poMap EXCEPT ![n] = FreshPol]
       /\ pols' = [pols EXCEPT ![FreshPol] = [name |-> n, stmts |-> objs]]
  ELSE /\ Len(pols[poMap[n]].stmts) + Len(objs) <= MaxStatements
       /\ poMap' = poMap
       /\ pols' = [pols EXCEPT ![poMap[n]].stmts = @ \o objs]

\* Conditions of the request, which point to their sets by then.
Own(d) == [Statement(setMap, d[1], d[2]) EXCEPT !.loose = TRUE]

\* With ReferExistingStatements. A missing statement is an error, unless the policy exists:
\* then its Add answers that all is well. The policy is stored either way.
ReferStatements(n, descs) ==
  LET objs == FilledUp(descs)
  IN  /\ Alive
      /\ IF \E i \in DOMAIN descs : ~Valid(setMap, descs[i][2]) THEN Refuse
         ELSE /\ AllDefined(descs) \/ RoomForStmts(Len(descs))
              /\ Store(n, objs)
              /\ stmts' = IF AllDefined(descs) THEN stmts
                          ELSE [s \in StIds |-> IF s \in ToSet(objs) THEN Own(descs[NameOf(objs, s)])
                                               ELSE stmts[s]]
              /\ outcome' = IF AllDefined(descs) \/ poMap[n] # None THEN "ok" ELSE "error"
              /\ UNCHANGED <<setMap, sets, stMap, assign>>

\* Without: each statement must be new. Those before the first that is not stay defined.
DefineStatements(n, descs) ==
  LET new == {i \in DOMAIN descs : /\ stMap[descs[i][1]] = None
                                   /\ \A j \in 1..(i-1) : descs[j][1] # descs[i][1]}
      good == CHOOSE k \in 0..Len(descs) : 1..k \subseteq new /\ k + 1 \notin new
      ids  == FreshStmts(good)
      place(m) == CHOOSE i \in 1..good : descs[i][1] = m
      desc(s)  == descs[NameOf(ids, s)]
  IN  /\ Alive
      /\ IF \E i \in DOMAIN descs : ~Valid(setMap, descs[i][2]) THEN Refuse
         ELSE /\ RoomForStmts(good)
              /\ stMap' = [m \in StNames |->
                             IF \E i \in 1..good : descs[i][1] = m THEN ids[place(m)] ELSE stMap[m]]
              /\ stmts' = [s \in StIds |->
                             IF s \in ToSet(ids) THEN Statement(setMap, desc(s)[1], desc(s)[2])
                             ELSE stmts[s]]
              /\ IF good = Len(descs)
                 THEN Store(n, ids) /\ outcome' = "ok"
                 ELSE UNCHANGED <<poMap, pols>> /\ outcome' = "error"
              /\ UNCHANGED <<setMap, sets, assign>>

(* mutant *)
PolicyNeverInUse(n) == FALSE

\* The check of DeletePolicy whether the policy is assigned goes through the export
\* assignments, twice.
PolicyInUse(n) == \E p \in ToSet(assign["export"].pols) : pols[p].name = n

\* The statements of the policy that no policy uses any more go, unless they are preserved.
DropUnused(map, objs, list) ==
  stMap' = [m \in StNames |->
             IF /\ \E s \in ToSet(list) : stmts[s].name = m
                /\ ~StatementInUse(map, objs, m)
             THEN None ELSE stMap[m]]

DeletePolicy(n, preserve) ==
  LET map == [poMap EXCEPT ![n] = None]
  IN  /\ Alive
      /\ IF poMap[n] = None THEN Refuse
         ELSE IF PolicyInUse(n) THEN Refuse
         ELSE /\ poMap' = map
              /\ IF preserve THEN stMap' = stMap
                 ELSE DropUnused(map, pols, pols[poMap[n]].stmts)
              /\ outcome' = "ok"
              /\ UNCHANGED <<setMap, sets, stmts, pols, assign>>

\* Removing statements drops the unused ones among those that are left.
RemoveFromPolicy(n, names, preserve) ==
  LET p    == poMap[n]
      left == Kept(pols[p].stmts, {s \in StIds : stmts[s].name \notin names})
      objs == [pols EXCEPT ![p].stmts = left]
  IN  /\ Alive
      /\ IF p = None THEN Refuse
         ELSE /\ pols' = objs
              /\ IF preserve THEN stMap' = stMap ELSE DropUnused(poMap, objs, left)
              /\ outcome' = "ok"
              /\ UNCHANGED <<setMap, sets, stmts, poMap, assign>>

-----------------------------------------------------------------------------
(* Assignments.                                                             *)

Known(names) == IsInjective(names) /\ \A i \in DOMAIN names : poMap[names[i]] # None
Objects(names) == [i \in DOMAIN names |-> poMap[names[i]]]
NamesOf(list) == [i \in DOMAIN list |-> pols[list[i]].name]

Assign(d, list, default) ==
  /\ assign' = [assign EXCEPT ![d] = [pols |-> list,
                                       default |-> IF default = "none" THEN @.default ELSE default]]
  /\ outcome' = "ok"
  /\ UNCHANGED <<setMap, sets, stMap, stmts, poMap, pols>>

AddPolicyAssignment(d, names, default) ==
  LET all == assign[d].pols \o Objects(names)
  IN  /\ Alive
      /\ IF Known(names) THEN IF IsInjective(NamesOf(all)) THEN Assign(d, all, default) ELSE Refuse
         ELSE Refuse

SetPolicyAssignment(d, names, default) ==
  /\ Alive
  /\ IF Known(names) THEN Assign(d, Objects(names), default) ELSE Refuse

DeletePolicyAssignment(d, names) ==
  /\ Alive
  /\ IF Known(names)
     THEN Assign(d, Kept(assign[d].pols, {p \in PoIds : pols[p].name \notin ToSet(names)}), "none")
     ELSE Refuse

ClearPolicyAssignment(d) ==
  /\ Alive
  /\ assign' = [assign EXCEPT ![d] = [pols |-> <<>>, default |-> "none"]]
  /\ outcome' = "ok"
  /\ UNCHANGED <<setMap, sets, stMap, stmts, poMap, pols>>

-----------------------------------------------------------------------------
(* SetPolicies: new tables from a configuration, sets by type and name and  *)
(* policies by name, each a sequence of statements with their names.        *)

StatementsOf(config) == UNION {ToSet(config.policies[n]) : n \in DOMAIN config.policies}

ASSUME ConfigsAssumption ==
  \A config \in Configs :
    /\ DOMAIN config.sets \subseteq TypeSet \X SetNames
    /\ \A k \in DOMAIN config.sets : config.sets[k] \subseteq Members
    /\ DOMAIN config.policies \subseteq PoNames
    /\ \A n \in DOMAIN config.policies : config.policies[n] \in Seq(StNames \X Requests)

\* RoutingPolicy.reload: no two statements of one name, no condition on a set that is missing.
Consistent(config) ==
  /\ \A n \in DOMAIN config.policies : IsInjective([i \in DOMAIN config.policies[n] |-> config.policies[n][i][1]])
  /\ \A n, m \in DOMAIN config.policies : n # m =>
        {d[1] : d \in ToSet(config.policies[n])} \cap {d[1] : d \in ToSet(config.policies[m])} = {}
  /\ \A d \in StatementsOf(config) : \A c \in ToSet(Described(d[2])) :
        <<c.type, c.name>> \in DOMAIN config.sets

(* mutant *)
ReassignedKeepsOld(map) ==
  [d \in Dirs |->
     LET names == NamesOf(assign[d].pols)
     IN  IF IsInjective(names) /\ \A i \in DOMAIN names : map[names[i]] # None
         THEN [pols |-> [i \in DOMAIN names |-> map[names[i]]], default |-> "accept"]
         ELSE assign[d]]

\* The policies of the tables are assigned anew, by name. Where one of them is not in the new
\* configuration, the direction is left as reload made it: no policy, and accept.
Reassigned(map) ==
  [d \in Dirs |->
     LET names == NamesOf(assign[d].pols)
     IN  IF IsInjective(names) /\ \A i \in DOMAIN names : map[names[i]] # None
         THEN [pols |-> [i \in DOMAIN names |-> map[names[i]]],
               default |-> IF assign[d].default = "reject" THEN "reject" ELSE "accept"]
         ELSE [pols |-> <<>>, default |-> "accept"]]

\* The new objects.
StNamesOf(config) == {d[1] : d \in StatementsOf(config)}
SetOf(config) == CHOOSE f \in Injection(DOMAIN config.sets, SetIds) : TRUE
StOf(config)  == CHOOSE f \in Injection(StNamesOf(config), StIds) : TRUE
PoOf(config)  == CHOOSE f \in Injection(DOMAIN config.policies, PoIds) : TRUE

\* bound: there is room for them
RoomForConfig(config) ==
  /\ Injection(DOMAIN config.sets, SetIds) # {}
  /\ Injection(StNamesOf(config), StIds) # {}
  /\ Injection(DOMAIN config.policies, PoIds) # {}

MapOf(f, names) == [n \in names |-> IF n \in DOMAIN f THEN f[n] ELSE None]

NewStatement(config, name) ==
  Statement(MapOf(SetOf(config), TypeSet \X SetNames), name,
            (CHOOSE d \in StatementsOf(config) : d[1] = name)[2])

NewPolicy(config, name) ==
  [name |-> name,
   stmts |-> [j \in DOMAIN config.policies[name] |-> StOf(config)[config.policies[name][j][1]]]]

SetPolicies(config) ==
  /\ Alive
  /\ IF ~Consistent(config) THEN Refuse
     ELSE /\ RoomForConfig(config)
          /\ setMap' = MapOf(SetOf(config), TypeSet \X SetNames)
          /\ sets' = [i \in SetIds |-> IF i \in Range(SetOf(config))
                                      THEN config.sets[NameOf(SetOf(config), i)] ELSE {}]
          /\ stMap' = MapOf(StOf(config), StNames)
          /\ stmts' = [i \in StIds |-> IF i \in Range(StOf(config))
                                      THEN NewStatement(config, NameOf(StOf(config), i)) ELSE Hollow]
          /\ poMap' = MapOf(PoOf(config), PoNames)
          /\ pols' = [i \in PoIds |-> IF i \in Range(PoOf(config))
                                     THEN NewPolicy(config, NameOf(PoOf(config), i))
                                     ELSE Unfilled]
          /\ assign' = Reassigned(poMap')
          /\ outcome' = "reloaded"

-----------------------------------------------------------------------------
SetStep ==
  \E type \in TypeSet, name \in SetNames :
    \/ \E m \in SUBSET Members : AddDefinedSet(type, name, m)
    \/ DeleteDefinedSet(type, name)
    \/ \E m \in SUBSET Members : RemoveMembers(type, name, m)

StatementStep ==
  \E n \in StNames :
    \/ \E r \in Asked : AddStatement(n, r) \/ RemoveFromStatement(n, r)
    \/ DeleteStatement(n)

PolicyStep ==
  \E n \in PoNames :
    \/ \E l \in StLists : \E r \in [DOMAIN l -> Asked] :
         \/ ReferStatements(n, [i \in DOMAIN l |-> <<l[i], r[i]>>])
         \/ DefineStatements(n, [i \in DOMAIN l |-> <<l[i], r[i]>>])
    \/ \E b \in BOOLEAN : DeletePolicy(n, b)
    \/ \E names \in SUBSET StNames, b \in BOOLEAN : RemoveFromPolicy(n, names, b)

AssignmentStep ==
  \E d \in Dirs :
    \/ \E l \in PoLists, r \in Routes : AddPolicyAssignment(d, l, r) \/ SetPolicyAssignment(d, l, r)
    \/ \E l \in PoLists : DeletePolicyAssignment(d, l)
    \/ ClearPolicyAssignment(d)

Next ==
  \/ SetStep \/ StatementStep \/ PolicyStep \/ AssignmentStep
  \/ \E c \in Configs : SetPolicies(c)

Spec == Init /\ [][Next]_vars

-----------------------------------------------------------------------------
(* Properties.                                                              *)

\* A policy that is assigned for export is the one its name stands for: it can be changed and
\* listed, and a policy of that name cannot be another one. This is what "can't delete. policy
\* is in use" of DeletePolicy is for; it has to survive every way of replacing the tables.
ExportDefined ==
  \A p \in ToSet(assign["export"].pols) : poMap[pols[p].name] = p

\* The same for both directions. The check of DeletePolicy looks at exports only.
AssignedDefined ==
  \A d \in Dirs : \A p \in ToSet(assign[d].pols) : poMap[pols[p].name] = p

\* The statements of a policy are the ones their names stand for, so that a change of a
\* statement takes effect in every policy that has it; the only others are those of a request
\* that referred to existing statements and failed (FillUp in AddPolicy), which act on routes
\* with the request's conditions and actions.
StatementsDefined ==
  \A p \in Defined(poMap) : \A s \in ToSet(pols[p].stmts) :
    stMap[stmts[s].name] = s \/ stmts[s].loose

\* What the API can reach by a name is what decides about the routes (DeletePolicy, DeleteStatement).
NamesStand == ExportDefined /\ StatementsDefined

\* A set is not taken away under a policy: a condition of a statement that stays in a policy and
\* points to the set its name stands for goes on pointing to it. (A statement that is in no
\* policy may lose its sets, and may then be put into one.)
SetsStayUnder ==
  [][\A p \in Defined(poMap) \cap Defined(poMap)' :
       \A s \in ToSet(pols[p].stmts) \cap ToSet(pols[p].stmts)' :
         \A c \in ToSet(stmts[s].conds) \cap ToSet(stmts[s].conds)' :
           setMap[<<c.type, c.name>>] = c.set => setMap'[<<c.type, c.name>>] = c.set]_vars

\* A reload leaves nothing of before in use: whatever objects had come loose, afterwards the
\* ones that decide about routes are those of the new configuration.
ReloadLeavesNothing ==
  outcome = "reloaded" =>
    /\ UsedPols = Defined(poMap)
    /\ UsedStmts = Defined(stMap)
    /\ UsedSets = Defined(setMap)
=============================================================================
