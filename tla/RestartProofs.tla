---------------------------- MODULE RestartProofs ----------------------------
(***************************************************************************)
(* The safety of Restart for any neighbors, any families and any OPENs.    *)
(* What is known of one neighbor, of its stale routes (StaleInv) and of    *)
(* what it has been sent (SentInv), is inductive for each neighbor by      *)
(* itself, relative to TypeInv: a step that is about another one leaves it *)
(* alone, except for the end of this speaker's own restart.                *)
(***************************************************************************)
EXTENDS Restart, TLAPS

-----------------------------------------------------------------------------
(* Types.                                                                   *)

LEMMA InitType == Init => TypeOK
  BY MaxTimersAssumption, RestartedAssumption DEF Init, TypeOK, Counters

\* Whatever of the long-lived timers runs does so for a neighbor with long-lived restart.
NoTimers(p) ==
  ~llEnabled[p] => /\ llKept[p] = {}
                   /\ \A f \in Families : llRunning[p][f] = 0 /\ llQueued[p][f] = 0

TypeInv == TypeOK /\ \A p \in Peers : NoTimers(p)

LEMMA OpenType ==
  ASSUME NEW p \in Peers, NEW o \in Opens[p]
  PROVE  /\ o.families \in SUBSET Families /\ o.graceful \in BOOLEAN /\ o.gr \in SUBSET Families
         /\ o.restarts \in BOOLEAN /\ o.long \in BOOLEAN /\ o.ll \in SUBSET Families
  BY OpensAssumption DEF Open

LEMMA OpenTypeStep ==
  ASSUME TypeInv, NEW p \in Peers, NEW o \in Opens[p], ReceiveOpen(p, o)
  PROVE  TypeInv'
<1>1. TypeOK'
  BY OpenType DEF TypeInv, TypeOK, ReceiveOpen
<1>2. ASSUME NEW q \in Peers PROVE NoTimers(q)'
  <2>1. ~llEnabled'[q] => ~llEnabled[q] /\ llKept'[q] = llKept[q]
    BY DEF TypeInv, TypeOK, ReceiveOpen
  <2>2. llRunning' = llRunning /\ llQueued' = llQueued
    BY DEF ReceiveOpen
  <2> QED
    BY <2>1, <2>2 DEF TypeInv, NoTimers
<1> QED
  BY <1>1, <1>2 DEF TypeInv

LEMMA TimersType ==
  ASSUME TypeOK, NEW p \in Peers, NEW fs \in SUBSET (Families \cup {All}), StartTimers(p, fs)
  PROVE  deferral' \in [Peers -> [Families \cup {All} -> 0..MaxTimers]]
<1> DEFINE d == [f \in DOMAIN deferral[p] |-> IF f \in fs THEN deferral[p][f] + 1 ELSE deferral[p][f]]
<1>1. deferral[p] \in [Families \cup {All} -> 0..MaxTimers]
  BY DEF TypeOK
<1>2. \A f \in Families \cup {All} : d[f] \in 0..MaxTimers
  BY <1>1, MaxTimersAssumption DEF StartTimers
<1>3. d \in [Families \cup {All} -> 0..MaxTimers]
  BY <1>1, <1>2
<1>4. deferral' = [deferral EXCEPT ![p] = d]
  BY DEF StartTimers
<1> QED
  BY <1>3, <1>4 DEF TypeOK

LEMMA SyncType ==
  ASSUME TypeOK, NEW up, SyncFinished(up)
  PROVE  localRestarting' \in [Peers -> BOOLEAN] /\ sent' \in [Peers -> SUBSET Families]
  BY DEF TypeOK, SyncFinished

LEMMA EstablishTypeStep ==
  ASSUME TypeInv, NEW p \in Peers, Establish(p)
  PROVE  TypeInv'
<1> DEFINE waits == Rtc \in negotiated[p] /\ ~peerRestarting[p]
<1>1. TypeOK
  BY DEF TypeInv
<1>2. /\ phase' = [phase EXCEPT ![p] = "up"]
      /\ UNCHANGED <<negotiated, peerRestarting, flags, eor, routes, heard, llRunning, llQueued>>
  BY DEF Establish
<1>3. /\ localRestarting' \in [Peers -> BOOLEAN] /\ sent' \in [Peers -> SUBSET Families]
      /\ deferral' \in [Peers -> [Families \cup {All} -> 0..MaxTimers]]
  <2>1. CASE /\ sent' = [sent EXCEPT ![p] = IF waits THEN {Rtc} ELSE negotiated[p]]
             /\ StartTimers(p, IF waits THEN negotiated[p] \ {Rtc} ELSE {})
             /\ UNCHANGED localRestarting
    <3>1. (IF waits THEN negotiated[p] \ {Rtc} ELSE {}) \in SUBSET (Families \cup {All})
      BY <1>1 DEF TypeOK
    <3>2. (IF waits THEN {Rtc} ELSE negotiated[p]) \in SUBSET Families
      BY <1>1 DEF TypeOK
    <3> QED
      BY <1>1, <2>1, <3>1, <3>2, TimersType DEF TypeOK
  <2>2. CASE SyncFinished(UpPeers \cup {p}) /\ UNCHANGED deferral
    BY <1>1, <2>2, SyncType DEF TypeOK
  <2>3. CASE UNCHANGED sent /\ StartTimers(p, {All}) /\ UNCHANGED localRestarting
    BY <1>1, <2>3, TimersType DEF TypeOK
  <2> QED
    BY <2>1, <2>2, <2>3 DEF Establish
<1>4. TypeOK'
  BY <1>1, <1>2, <1>3 DEF TypeOK, flags
<1> QED
  BY <1>2, <1>4 DEF TypeInv, NoTimers, flags

LEMMA LostTypeStep ==
  ASSUME TypeInv, NEW p \in Peers, NEW b, SessionLost(p, b)
  PROVE  TypeInv'
<1>1. Retained(p, kept[p]) \in [Families -> {"none", "fresh", "noLlgr", "stale", "staleNoLlgr", "llgr"}]
  BY DEF TypeInv, TypeOK, Retained, Marked
<1>2. Dropped(p, Families) \in [Families -> {"none", "fresh", "noLlgr", "stale", "staleNoLlgr", "llgr"}]
  BY DEF TypeInv, TypeOK, Dropped
<1>3. /\ routes' \in [Peers -> [Families -> {"none", "fresh", "noLlgr", "stale", "staleNoLlgr", "llgr"}]]
      /\ peerRestarting' \in [Peers -> BOOLEAN] /\ eor' \in [Peers -> SUBSET Families]
      /\ \A q \in Peers : peerRestarting[q] => peerRestarting'[q]
  <2>1. CASE /\ peerRestarting' = [peerRestarting EXCEPT ![p] = TRUE]
             /\ eor' = [eor EXCEPT ![p] = {}]
             /\ routes' = [routes EXCEPT ![p] = Retained(p, kept[p])]
    <3>1. routes' \in [Peers -> [Families -> {"none", "fresh", "noLlgr", "stale", "staleNoLlgr", "llgr"}]]
      BY <1>1, <2>1 DEF TypeInv, TypeOK
    <3> QED
      BY <2>1, <3>1 DEF TypeInv, TypeOK
  <2>2. CASE routes' = [routes EXCEPT ![p] = Dropped(p, Families)] /\ UNCHANGED <<peerRestarting, eor>>
    BY <1>2, <2>2 DEF TypeInv, TypeOK
  <2> QED
    BY <2>1, <2>2 DEF SessionLost
<1>4. /\ phase' = [phase EXCEPT ![p] = "down"]
      /\ sent' = [sent EXCEPT ![p] = {}] /\ heard' = [heard EXCEPT ![p] = {}]
      /\ UNCHANGED <<negotiated, localRestarting, flags, deferral, llRunning, llQueued>>
  BY DEF SessionLost
<1>5. sent' \in [Peers -> SUBSET Families] /\ heard' \in [Peers -> SUBSET Families]
  BY <1>4 DEF TypeInv, TypeOK
<1>6. TypeOK'
  BY <1>3, <1>4, <1>5 DEF TypeInv, TypeOK, flags
<1> QED
  BY <1>4, <1>6 DEF TypeInv, NoTimers, flags

LEMMA IdleTypeStep ==
  ASSUME TypeInv, NEW p \in Peers, BackToIdle(p)
  PROVE  TypeInv'
<1>1. LongRetained(p, llKept[p]) \in [Families -> {"none", "fresh", "noLlgr", "stale", "staleNoLlgr", "llgr"}]
  BY DEF TypeInv, TypeOK, LongRetained
<1>2. Dropped(p, Families) \in [Families -> {"none", "fresh", "noLlgr", "stale", "staleNoLlgr", "llgr"}]
  BY DEF TypeInv, TypeOK, Dropped
<1>3. /\ phase' = [phase EXCEPT ![p] = "down"]
      /\ UNCHANGED <<negotiated, localRestarting, flags, eor, sent, heard, deferral, llQueued>>
  BY DEF BackToIdle
<1>4. CASE UNCHANGED <<peerRestarting, routes, llRunning>>
  BY <1>3, <1>4 DEF TypeInv, TypeOK, NoTimers, flags
<1>5. CASE /\ peerRestarting[p] /\ llEnabled[p]
           /\ \A f \in llKept[p] : llRunning[p][f] < MaxTimers
           /\ routes' = [routes EXCEPT ![p] = LongRetained(p, llKept[p])]
           /\ StartLlgrTimers(p)
           /\ UNCHANGED peerRestarting
  <2>1. llRunning' \in Counters
    BY <1>5, MaxTimersAssumption DEF TypeInv, TypeOK, StartLlgrTimers, Counters
  <2>2. \A q \in Peers \ {p} : llRunning'[q] = llRunning[q]
    BY <1>5 DEF TypeInv, TypeOK, StartLlgrTimers, Counters
  <2>3. TypeOK'
    BY <1>1, <1>3, <1>5, <2>1, <2>2 DEF TypeInv, TypeOK, flags
  <2> QED
    BY <1>3, <1>5, <2>2, <2>3 DEF TypeInv, NoTimers, flags
<1>6. CASE /\ peerRestarting[p] /\ ~llEnabled[p]
           /\ peerRestarting' = [peerRestarting EXCEPT ![p] = FALSE]
           /\ routes' = [routes EXCEPT ![p] = Dropped(p, Families)]
           /\ UNCHANGED llRunning
  <2>1. \A f \in Families : llRunning[p][f] = 0
    BY <1>6 DEF TypeInv, NoTimers
  <2>2. routes' \in [Peers -> [Families -> {"none", "fresh", "noLlgr", "stale", "staleNoLlgr", "llgr"}]]
    BY <1>2, <1>6 DEF TypeInv, TypeOK
  <2>3. peerRestarting' \in [Peers -> BOOLEAN] /\ \A q \in Peers \ {p} : peerRestarting'[q] = peerRestarting[q]
    BY <1>6 DEF TypeInv, TypeOK
  <2>4. \A q \in Peers : \A f \in Families : llRunning'[q][f] > 0 => peerRestarting'[q]
    BY <1>6, <2>1, <2>3 DEF TypeInv, TypeOK
  <2>5. TypeOK'
    BY <1>3, <1>6, <2>2, <2>3, <2>4 DEF TypeInv, TypeOK, flags
  <2> QED
    BY <1>3, <1>6, <2>5 DEF TypeInv, NoTimers, flags
<1> QED
  BY <1>4, <1>5, <1>6 DEF BackToIdle

LEMMA FiresTypeStep ==
  ASSUME TypeInv, NEW p \in Peers, NEW f \in Families, LlgrTimerFires(p, f)
  PROVE  TypeInv'
<1>1. llRunning[p][f] \in 0..MaxTimers /\ llQueued[p][f] \in 0..MaxTimers
  BY DEF TypeInv, TypeOK, Counters
<1>2. llEnabled[p] /\ peerRestarting[p]
  BY <1>1 DEF TypeInv, TypeOK, NoTimers, LlgrTimerFires
<1>3. llRunning[p][f] - 1 \in 0..MaxTimers /\ llQueued[p][f] + 1 \in 0..MaxTimers
  BY <1>1, MaxTimersAssumption DEF LlgrTimerFires
<1>4. llRunning' \in Counters /\ llQueued' \in Counters
  BY <1>3 DEF TypeInv, TypeOK, Counters, LlgrTimerFires
<1>5. \A q \in Peers \ {p} : llRunning'[q] = llRunning[q] /\ llQueued'[q] = llQueued[q]
  BY DEF TypeInv, TypeOK, Counters, LlgrTimerFires
<1>6. UNCHANGED <<phase, negotiated, peerRestarting, localRestarting, flags, eor, routes, sent, heard,
                  deferral>>
  BY DEF LlgrTimerFires
<1>7. TypeOK'
  BY <1>2, <1>4, <1>5, <1>6 DEF TypeInv, TypeOK, flags
<1> QED
  BY <1>2, <1>5, <1>6, <1>7 DEF TypeInv, NoTimers, flags

\* The end of a restart: its timers are stopped.
LEMMA StopType ==
  ASSUME TypeInv, NEW p \in Peers, StopPeerRestarting(p)
  PROVE  /\ peerRestarting' \in [Peers -> BOOLEAN] /\ llRunning' \in Counters
         /\ \A q \in Peers : \A f \in Families :
              /\ llRunning'[q][f] > 0 => peerRestarting'[q]
              /\ llRunning[q][f] = 0 => llRunning'[q][f] = 0
  BY MaxTimersAssumption DEF TypeInv, TypeOK, Counters, StopPeerRestarting

LEMMA ExpiresTypeStep ==
  ASSUME TypeInv, NEW p \in Peers, NEW f \in Families, LlgrExpires(p, f)
  PROVE  TypeInv'
<1>1. llQueued[p][f] \in 0..MaxTimers
  BY DEF TypeInv, TypeOK, Counters
<1>2. llEnabled[p]
  BY <1>1 DEF TypeInv, NoTimers, LlgrExpires
<1>3. llQueued' \in Counters
  BY <1>1, MaxTimersAssumption DEF TypeInv, TypeOK, Counters, LlgrExpires
<1>4. \A q \in Peers \ {p} : llQueued'[q] = llQueued[q]
  BY DEF TypeInv, TypeOK, Counters, LlgrExpires
<1>5. Dropped(p, {f}) \in [Families -> {"none", "fresh", "noLlgr", "stale", "staleNoLlgr", "llgr"}]
  BY DEF TypeInv, TypeOK, Dropped
<1>6. /\ peerRestarting' \in [Peers -> BOOLEAN] /\ llRunning' \in Counters
      /\ \A q \in Peers : \A g \in Families :
           /\ llRunning'[q][g] > 0 => peerRestarting'[q]
           /\ llRunning[q][g] = 0 => llRunning'[q][g] = 0
  <2>1. CASE StopPeerRestarting(p)
    BY <2>1, StopType
  <2>2. CASE UNCHANGED <<peerRestarting, llRunning>>
    BY <2>2 DEF TypeInv, TypeOK
  <2> QED
    BY <2>1, <2>2 DEF LlgrExpires
<1>7. /\ routes' = [routes EXCEPT ![p] = Dropped(p, {f})]
      /\ UNCHANGED <<phase, negotiated, localRestarting, flags, eor, sent, heard, deferral>>
  BY DEF LlgrExpires
<1>8. TypeOK'
  BY <1>3, <1>5, <1>6, <1>7 DEF TypeInv, TypeOK, flags
<1> QED
  BY <1>2, <1>4, <1>6, <1>7, <1>8 DEF TypeInv, NoTimers, flags

LEMMA RouteTypeStep ==
  ASSUME TypeInv, NEW p \in Peers, NEW f \in Families, NEW k \in Kinds[p], ReceiveRoute(p, f, k)
  PROVE  TypeInv'
<1>1. k \in {"none", "fresh", "noLlgr"}
  BY KindsAssumption
<1>2. TypeOK'
  BY <1>1 DEF TypeInv, TypeOK, ReceiveRoute, flags
<1> QED
  BY <1>2 DEF TypeInv, NoTimers, ReceiveRoute, flags

LEMMA EorTypeStep ==
  ASSUME TypeInv, NEW p \in Peers, NEW f \in Families, ReceiveEor(p, f)
  PROVE  TypeInv'
<1> DEFINE e == [eor EXCEPT ![p] = @ \cup {f}]
<1>1. TypeOK
  BY DEF TypeInv
<1>2. /\ eor' = e /\ heard' = [heard EXCEPT ![p] = @ \cup {f}]
      /\ UNCHANGED <<phase, negotiated, flags, deferral, llQueued>>
  BY DEF ReceiveEor
<1>3. localRestarting' \in [Peers -> BOOLEAN] /\ sent' \in [Peers -> SUBSET Families]
  <2>1. CASE SyncFinished(UpPeers)
    BY <1>1, <2>1, SyncType
  <2>2. ASSUME NEW x, x \in SUBSET Families, sent' = [sent EXCEPT ![p] = x], UNCHANGED localRestarting
        PROVE  localRestarting' \in [Peers -> BOOLEAN] /\ sent' \in [Peers -> SUBSET Families]
    BY <1>1, <2>2 DEF TypeOK
  <2>3. (IF f = Rtc /\ ~localRestarting[p] /\ ~peerRestarting[p] THEN sent[p] \cup negotiated[p] ELSE sent[p])
          \in SUBSET Families
    BY <1>1 DEF TypeOK
  <2> QED
    BY <2>1, <2>2, <2>3 DEF ReceiveEor
<1>4. WithoutStale(p) \in [Families -> {"none", "fresh", "noLlgr", "stale", "staleNoLlgr", "llgr"}]
  BY <1>1 DEF TypeOK, WithoutStale
<1>5. /\ peerRestarting' \in [Peers -> BOOLEAN] /\ llRunning' \in Counters
      /\ routes' \in [Peers -> [Families -> {"none", "fresh", "noLlgr", "stale", "staleNoLlgr", "llgr"}]]
      /\ \A q \in Peers : \A g \in Families :
           /\ llRunning'[q][g] > 0 => peerRestarting'[q]
           /\ llRunning[q][g] = 0 => llRunning'[q][g] = 0
  <2>1. CASE StopPeerRestarting(p) /\ routes' = [routes EXCEPT ![p] = WithoutStale(p)]
    BY <1>1, <1>4, <2>1, StopType DEF TypeOK
  <2>2. CASE UNCHANGED <<peerRestarting, llRunning, routes>>
    BY <1>1, <2>2 DEF TypeOK
  <2> QED
    BY <2>1, <2>2 DEF ReceiveEor
<1>6. eor' \in [Peers -> SUBSET Families] /\ heard' \in [Peers -> SUBSET Families]
  BY <1>1, <1>2 DEF TypeOK
<1>7. TypeOK'
  BY <1>1, <1>2, <1>3, <1>5, <1>6 DEF TypeOK, flags
<1> QED
  BY <1>2, <1>5, <1>7 DEF TypeInv, NoTimers, flags

LEMMA DeferralTypeStep ==
  ASSUME TypeInv, NEW p \in Peers, NEW which \in Families \cup {All}, DeferralExpires(p, which)
  PROVE  TypeInv'
<1> DEFINE fs == IF which = All THEN Families ELSE {which}
<1>1. deferral' \in [Peers -> [Families \cup {All} -> 0..MaxTimers]]
  <2>1. deferral[p][which] \in 0..MaxTimers /\ deferral[p][which] - 1 \in 0..MaxTimers
    BY MaxTimersAssumption DEF TypeInv, TypeOK, DeferralExpires
  <2> QED
    BY <2>1 DEF TypeInv, TypeOK, DeferralExpires
<1>2. localRestarting' \in [Peers -> BOOLEAN] /\ sent' \in [Peers -> SUBSET Families]
  <2>1. fs \in SUBSET Families
    OBVIOUS
  <2>2. sent[p] \cup fs \in SUBSET Families
    BY <2>1 DEF TypeInv, TypeOK
  <2>3. ASSUME NEW x \in SUBSET Families,
               sent' = [sent EXCEPT ![p] = x] /\ localRestarting' = [localRestarting EXCEPT ![p] = FALSE]
        PROVE  localRestarting' \in [Peers -> BOOLEAN] /\ sent' \in [Peers -> SUBSET Families]
    BY <2>3 DEF TypeInv, TypeOK
  <2>4. CASE UNCHANGED <<sent, localRestarting>>
    BY <2>4 DEF TypeInv, TypeOK
  <2> QED
    BY <2>2, <2>3, <2>4 DEF DeferralExpires
<1>3. UNCHANGED <<phase, negotiated, peerRestarting, flags, eor, routes, heard, llRunning, llQueued>>
  BY DEF DeferralExpires
<1>4. TypeOK'
  BY <1>1, <1>2, <1>3 DEF TypeInv, TypeOK, flags
<1> QED
  BY <1>3, <1>4 DEF TypeInv, NoTimers, flags

LEMMA TypeStep == TypeInv /\ [Next]_vars => TypeInv'
<1> SUFFICES ASSUME TypeInv, [Next]_vars PROVE TypeInv'
  OBVIOUS
<1>1. CASE UNCHANGED vars
  BY <1>1 DEF vars, flags, TypeInv, TypeOK, NoTimers
<1>2. CASE Next
  <2> PICK p \in Peers :
        \/ \E o \in Opens[p] : ReceiveOpen(p, o)
        \/ Establish(p)
        \/ \E b \in Losses[p] : SessionLost(p, b)
        \/ BackToIdle(p)
        \/ \E f \in Families : \/ LlgrTimerFires(p, f) \/ LlgrExpires(p, f) \/ ReceiveEor(p, f)
                               \/ \E k \in Kinds[p] : ReceiveRoute(p, f, k)
        \/ \E f \in Families \cup {All} : DeferralExpires(p, f)
    BY <1>2 DEF Next
  <2> QED
    BY OpenTypeStep, EstablishTypeStep, LostTypeStep, IdleTypeStep, FiresTypeStep, ExpiresTypeStep,
       RouteTypeStep, EorTypeStep, DeferralTypeStep
<1> QED
  BY <1>1, <1>2

LEMMA InitTypeInv == Init => TypeInv
  BY InitType DEF Init, TypeInv, NoTimers

\* In every reachable state the variables are of their types, and a long-lived timer that can still
\* be stopped is one of a restart.
THEOREM RestartTypeCorrect == Spec => []TypeOK
<1>1. TypeInv => TypeOK
  BY DEF TypeInv
<1> QED
  BY <1>1, InitTypeInv, TypeStep, PTL DEF Spec

-----------------------------------------------------------------------------
(* Stale routes.                                                            *)

\* A neighbor whose session is down has only stale routes and no markers; a stale route is of a family
\* that was announced for graceful restart, one kept beyond the restart time of one that was announced
\* for that, with a timer that has not been taken.
Remembered(p) ==
  /\ ~Up(p) => heard[p] = {} /\ \A f \in Families : routes[p][f] \in {"none"} \cup Stale
  /\ heard[p] \subseteq eor[p]
  /\ \A f \in Families :
       /\ routes[p][f] \in Stale => f \in kept[p]
       /\ routes[p][f] = "llgr" => f \in llKept[p] /\ llRunning[p][f] + llQueued[p][f] > 0

Watched(p) ==
  /\ p \in LongLived => kept[p] \subseteq llKept[p]
  /\ \A f \in Families :
       /\ routes[p][f] \in Stale => peerRestarting[p]
       /\ Up(p) /\ kept[p] \subseteq heard[p] => routes[p][f] \notin Stale

StaleInv(p) ==
  /\ llEnabled[p] => p \in LongLived
  /\ Remembered(p)
  /\ LongForAll(p) => Watched(p)

\* Nothing of this is changed for q by a step that is about another neighbor.
Untouched(q) ==
  /\ phase'[q] = phase[q] /\ peerRestarting'[q] = peerRestarting[q] /\ llEnabled'[q] = llEnabled[q]
  /\ kept'[q] = kept[q] /\ eor'[q] = eor[q] /\ llKept'[q] = llKept[q]
  /\ routes'[q] = routes[q] /\ heard'[q] = heard[q]
  /\ llRunning'[q] = llRunning[q] /\ llQueued'[q] = llQueued[q]

LEMMA UntouchedStale ==
  ASSUME NEW q \in Peers, StaleInv(q), Untouched(q)
  PROVE  StaleInv(q)'
  BY DEF StaleInv, Untouched, Remembered, Watched, Up, LongForAll

LEMMA OpenStale ==
  ASSUME TypeInv, NEW p \in Peers, NEW o \in Opens[p], ReceiveOpen(p, o), NEW q \in Peers, StaleInv(q)
  PROVE  StaleInv(q)'
<1>1. /\ UNCHANGED <<peerRestarting, routes, heard, llRunning, llQueued>>
      /\ phase[p] = "down" /\ phase' = [phase EXCEPT ![p] = "open"]
  BY DEF ReceiveOpen
<1>2. CASE q # p
  <2>1. Untouched(q)
    BY <1>2 DEF TypeInv, TypeOK, ReceiveOpen, Untouched
  <2> QED
    BY <2>1, UntouchedStale
<1>3. CASE q = p
  <2>1. llEnabled'[p] => p \in LongLived
    BY <1>3 DEF TypeInv, TypeOK, ReceiveOpen, StaleInv
  <2>2. kept[p] \subseteq kept'[p] /\ llKept[p] \subseteq llKept'[p]
    BY DEF TypeInv, TypeOK, ReceiveOpen
  <2>3. phase'[p] = "open"
    BY <1>1 DEF TypeInv, TypeOK
  <2>4. Remembered(p)'
    BY <1>1, <1>3, <2>2, <2>3 DEF StaleInv, Remembered, Up
  <2>5. ASSUME LongForAll(p), p \in LongLived PROVE kept'[p] \subseteq llKept'[p]
    <3>1. kept[p] \subseteq llKept[p]
      BY <1>3, <2>5 DEF StaleInv, Watched
    <3>2. o.graceful => o.long /\ o.gr \subseteq o.ll
      BY <2>5 DEF LongForAll
    <3>3. kept'[p] = IF p \in Graceful /\ o.graceful THEN kept[p] \cup o.gr ELSE kept[p]
      BY DEF TypeInv, TypeOK, ReceiveOpen
    <3>4. llKept'[p] = IF p \in LongLived /\ o.graceful /\ o.long THEN llKept[p] \cup o.ll ELSE llKept[p]
      BY DEF TypeInv, TypeOK, ReceiveOpen
    <3> QED
      BY <2>5, <3>1, <3>2, <3>3, <3>4
  <2> QED
    BY <1>1, <1>3, <2>1, <2>3, <2>4, <2>5 DEF StaleInv, Watched, Up, LongForAll
<1> QED
  BY <1>2, <1>3

LEMMA EstablishStale ==
  ASSUME TypeInv, NEW p \in Peers, Establish(p), NEW q \in Peers, StaleInv(q)
  PROVE  StaleInv(q)'
<1>1. /\ UNCHANGED <<peerRestarting, llEnabled, kept, llKept, eor, routes, heard, llRunning, llQueued>>
      /\ phase[p] = "open" /\ phase' = [phase EXCEPT ![p] = "up"]
  BY DEF Establish, flags
<1>2. CASE q # p
  <2>1. Untouched(q)
    BY <1>1, <1>2 DEF TypeInv, TypeOK, Untouched
  <2> QED
    BY <2>1, UntouchedStale
<1>3. CASE q = p
  <2>1. phase'[p] = "up" /\ heard[p] = {}
    BY <1>1, <1>3 DEF TypeInv, TypeOK, StaleInv, Remembered, Up
  <2>2. Remembered(p)'
    BY <1>1, <1>3, <2>1 DEF StaleInv, Remembered, Up
  <2>3. \A f \in Families : routes[p][f] \in Stale => f \in kept[p]
    BY <1>3 DEF StaleInv, Remembered
  <2> QED
    BY <1>1, <1>3, <2>1, <2>2, <2>3 DEF StaleInv, Watched, LongForAll
<1> QED
  BY <1>2, <1>3

\* What the loss of a session makes of a route.
LEMMA RetainedFacts ==
  ASSUME TypeInv, NEW p \in Peers, NEW f \in Families
  PROVE  /\ Retained(p, kept[p])[f] \in {"none"} \cup Stale
         /\ Retained(p, kept[p])[f] \in Stale => f \in kept[p]
         /\ Retained(p, kept[p])[f] = "llgr" => routes[p][f] = "llgr"
<1>1. routes[p][f] \in {"none", "fresh", "noLlgr", "stale", "staleNoLlgr", "llgr"}
  BY DEF TypeInv, TypeOK
<1>2. Retained(p, kept[p])[f] = IF f \in kept[p] THEN Marked(routes[p][f]) ELSE "none"
  BY DEF Retained
<1> QED
  BY <1>1, <1>2 DEF Marked, Stale

LEMMA LostStale ==
  ASSUME TypeInv, NEW p \in Peers, NEW b, SessionLost(p, b), NEW q \in Peers, StaleInv(q)
  PROVE  StaleInv(q)'
<1>1. /\ UNCHANGED <<llEnabled, kept, llKept, llRunning, llQueued>>
      /\ phase' = [phase EXCEPT ![p] = "down"] /\ heard' = [heard EXCEPT ![p] = {}]
  BY DEF SessionLost, flags
<1>2. CASE q # p
  <2>1. Untouched(q)
    BY <1>1, <1>2 DEF TypeInv, TypeOK, SessionLost, Untouched
  <2> QED
    BY <2>1, UntouchedStale
<1>3. CASE q = p
  <2>1. phase'[p] = "down" /\ heard'[p] = {}
    BY <1>1 DEF TypeInv, TypeOK
  <2>2. \/ peerRestarting'[p] /\ \A f \in Families : routes'[p][f] = Retained(p, kept[p])[f]
        \/ \A f \in Families : routes'[p][f] = "none"
    BY DEF SessionLost, TypeInv, TypeOK, Dropped
  <2>3. ASSUME NEW f \in Families
        PROVE  /\ routes'[p][f] \in {"none"} \cup Stale
               /\ routes'[p][f] \in Stale => f \in kept[p] /\ peerRestarting'[p]
               /\ routes'[p][f] = "llgr" => routes[p][f] = "llgr"
    BY <2>2, RetainedFacts DEF Stale
  <2>4. Remembered(p)'
    BY <1>1, <1>3, <2>1, <2>3 DEF StaleInv, Remembered, Up
  <2> QED
    BY <1>1, <1>3, <2>1, <2>3, <2>4 DEF StaleInv, Watched, Up, LongForAll
<1> QED
  BY <1>2, <1>3

LEMMA IdleStale ==
  ASSUME TypeInv, NEW p \in Peers, BackToIdle(p), NEW q \in Peers, StaleInv(q)
  PROVE  StaleInv(q)'
<1>1. /\ UNCHANGED <<llEnabled, kept, llKept, eor, heard, llQueued>>
      /\ phase[p] # "up" /\ phase' = [phase EXCEPT ![p] = "down"]
  BY DEF BackToIdle, flags
<1>2. CASE q # p
  <2>1. llRunning'[q] = llRunning[q]
    BY <1>2 DEF TypeInv, TypeOK, BackToIdle, StartLlgrTimers, Counters
  <2>2. Untouched(q)
    BY <1>1, <1>2, <2>1 DEF TypeInv, TypeOK, BackToIdle, Untouched
  <2> QED
    BY <2>2, UntouchedStale
<1>3. CASE q = p
  <2>1. phase'[p] = "down"
    BY <1>1 DEF TypeInv, TypeOK
  <2>2. CASE UNCHANGED <<peerRestarting, routes, llRunning>>
    BY <1>1, <1>3, <2>1, <2>2 DEF StaleInv, Remembered, Watched, Up, LongForAll
  <2>3. CASE /\ peerRestarting[p]
             /\ routes' = [routes EXCEPT ![p] = LongRetained(p, llKept[p])]
             /\ StartLlgrTimers(p)
             /\ UNCHANGED peerRestarting
    <3>1. ASSUME NEW f \in Families
          PROVE  /\ routes'[p][f] \in {"none", "llgr"}
                 /\ routes'[p][f] = "llgr" => f \in llKept[p] /\ routes[p][f] # "none"
      BY <2>3 DEF TypeInv, TypeOK, LongRetained
    <3>2. \A f \in llKept[p] : llRunning'[p][f] = llRunning[p][f] + 1
      BY <2>3 DEF TypeInv, TypeOK, Counters, StartLlgrTimers
    <3>3. \A f \in Families : llRunning[p][f] \in Nat /\ llQueued[p][f] \in Nat
      BY DEF TypeInv, TypeOK, Counters
    <3>4. \A f \in Families : routes[p][f] # "none" => f \in kept[p]
      BY <1>1, <1>3 DEF StaleInv, Remembered, Up
    <3>5. \A f \in Families : routes'[p][f] = "llgr" => llRunning'[p][f] + llQueued'[p][f] > 0
      BY <1>1, <3>1, <3>2, <3>3
    <3>6. Remembered(p)'
      BY <1>1, <1>3, <2>1, <3>1, <3>4, <3>5 DEF StaleInv, Remembered, Up, Stale
    <3> QED
      BY <1>1, <1>3, <2>1, <2>3, <3>6 DEF StaleInv, Watched, Up, LongForAll
  <2>4. CASE routes' = [routes EXCEPT ![p] = Dropped(p, Families)]
    <3>1. \A f \in Families : routes'[p][f] = "none"
      BY <2>4 DEF TypeInv, TypeOK, Dropped
    <3>2. Remembered(p)'
      BY <1>1, <1>3, <2>1, <3>1 DEF StaleInv, Remembered, Up, Stale
    <3> QED
      BY <1>1, <1>3, <3>1, <3>2 DEF StaleInv, Watched, LongForAll, Stale
  <2> QED
    BY <2>2, <2>3, <2>4 DEF BackToIdle
<1> QED
  BY <1>2, <1>3

LEMMA FiresStale ==
  ASSUME TypeInv, NEW p \in Peers, NEW f \in Families, LlgrTimerFires(p, f), NEW q \in Peers, StaleInv(q)
  PROVE  StaleInv(q)'
<1>1. UNCHANGED <<phase, peerRestarting, llEnabled, kept, llKept, eor, routes, heard>>
  BY DEF LlgrTimerFires, flags
<1>2. \A g \in Families : llRunning[q][g] \in Nat /\ llQueued[q][g] \in Nat
  BY DEF TypeInv, TypeOK, Counters
<1>3. \A g \in Families : llRunning'[q][g] + llQueued'[q][g] = llRunning[q][g] + llQueued[q][g]
  <2> SUFFICES ASSUME NEW g \in Families
               PROVE  llRunning'[q][g] + llQueued'[q][g] = llRunning[q][g] + llQueued[q][g]
    OBVIOUS
  <2>1. CASE q = p /\ g = f
    <3>1. llRunning'[p][f] = llRunning[p][f] - 1 /\ llQueued'[p][f] = llQueued[p][f] + 1
      BY DEF TypeInv, TypeOK, Counters, LlgrTimerFires
    <3> QED
      BY <1>2, <2>1, <3>1
  <2>2. CASE ~(q = p /\ g = f)
    BY <2>2 DEF TypeInv, TypeOK, Counters, LlgrTimerFires
  <2> QED
    BY <2>1, <2>2
<1> QED
  BY <1>1, <1>3 DEF StaleInv, Remembered, Watched, Up, LongForAll

LEMMA ExpiresStale ==
  ASSUME TypeInv, NEW p \in Peers, NEW f \in Families, LlgrExpires(p, f), NEW q \in Peers, StaleInv(q)
  PROVE  StaleInv(q)'
<1>1. /\ UNCHANGED <<phase, llEnabled, kept, llKept, eor, heard>>
      /\ routes' = [routes EXCEPT ![p] = Dropped(p, {f})]
  BY DEF LlgrExpires, flags
<1>2. CASE q # p
  <2>1. Untouched(q)
    BY <1>1, <1>2 DEF TypeInv, TypeOK, Counters, LlgrExpires, StopPeerRestarting, Untouched
  <2> QED
    BY <2>1, UntouchedStale
<1>3. CASE q = p
  <2>1. llEnabled[p]
    <3>1. llQueued[p][f] \in 0..MaxTimers
      BY DEF TypeInv, TypeOK, Counters
    <3> QED
      BY <3>1 DEF TypeInv, NoTimers, LlgrExpires
  <2>2. /\ routes'[p][f] = "none"
        /\ \A g \in Families \ {f} : routes'[p][g] = routes[p][g] /\ llQueued'[p][g] = llQueued[p][g]
    BY <1>1 DEF TypeInv, TypeOK, Counters, LlgrExpires, Dropped
  <2>3. CASE llKept[p] \subseteq {f}
    <3>1. \A g \in Families : routes'[p][g] # "llgr"
      BY <1>3, <2>2, <2>3 DEF StaleInv, Remembered
    <3>2. Remembered(p)'
      BY <1>1, <1>3, <2>2, <3>1 DEF StaleInv, Remembered, Up, Stale
    <3>3. ASSUME LongForAll(p) PROVE \A g \in Families : routes'[p][g] \notin Stale
      <4>1. kept[p] \subseteq llKept[p]
        BY <1>3, <2>1, <3>3 DEF StaleInv, Watched
      <4>2. \A g \in Families : routes[p][g] \in Stale => g = f
        BY <1>3, <2>3, <4>1 DEF StaleInv, Remembered
      <4> QED
        BY <2>2, <4>2 DEF Stale
    <3> QED
      BY <1>1, <1>3, <3>2, <3>3 DEF StaleInv, Watched, LongForAll
  <2>4. CASE ~(llKept[p] \subseteq {f})
    <3>1. UNCHANGED <<peerRestarting, llRunning>>
      BY <2>4 DEF LlgrExpires, LastOfThem
    <3>2. Remembered(p)'
      BY <1>1, <1>3, <2>2, <3>1 DEF StaleInv, Remembered, Up, Stale
    <3>3. ASSUME LongForAll(p) PROVE Watched(p)'
      <4>1. Watched(p)
        BY <1>3, <3>3 DEF StaleInv
      <4>2. \A g \in Families : routes'[p][g] \in Stale => routes[p][g] \in Stale
        BY <2>2 DEF Stale
      <4> QED
        BY <1>1, <3>1, <4>1, <4>2 DEF Watched, Up
    <3> QED
      BY <1>1, <1>3, <3>2, <3>3 DEF StaleInv, LongForAll
  <2> QED
    BY <2>3, <2>4
<1> QED
  BY <1>2, <1>3

LEMMA RouteStale ==
  ASSUME TypeInv, NEW p \in Peers, NEW f \in Families, NEW k \in Kinds[p], ReceiveRoute(p, f, k),
         NEW q \in Peers, StaleInv(q)
  PROVE  StaleInv(q)'
<1>1. /\ UNCHANGED <<phase, peerRestarting, llEnabled, kept, llKept, eor, heard, llRunning, llQueued>>
      /\ Up(p) /\ routes' = [routes EXCEPT ![p][f] = k]
  BY DEF ReceiveRoute, flags, Up
<1>2. k \notin Stale
  BY KindsAssumption DEF Stale
<1>3. CASE q # p
  <2>1. Untouched(q)
    BY <1>1, <1>3 DEF TypeInv, TypeOK, Untouched
  <2> QED
    BY <2>1, UntouchedStale
<1>4. CASE q = p
  <2>1. \A g \in Families : routes'[p][g] = IF g = f THEN k ELSE routes[p][g]
    BY <1>1 DEF TypeInv, TypeOK
  <2>2. Remembered(p)'
    BY <1>1, <1>2, <1>4, <2>1 DEF StaleInv, Remembered, Up, Stale
  <2>3. \A g \in Families : routes'[p][g] \in Stale => routes[p][g] \in Stale
    BY <1>2, <2>1
  <2> QED
    BY <1>1, <1>4, <2>2, <2>3 DEF StaleInv, Watched, Up, LongForAll
<1> QED
  BY <1>3, <1>4

LEMMA EorStale ==
  ASSUME TypeInv, NEW p \in Peers, NEW f \in Families, ReceiveEor(p, f), NEW q \in Peers, StaleInv(q)
  PROVE  StaleInv(q)'
<1>1. /\ UNCHANGED <<phase, llEnabled, kept, llKept, llQueued>>
      /\ Up(p) /\ eor' = [eor EXCEPT ![p] = @ \cup {f}] /\ heard' = [heard EXCEPT ![p] = @ \cup {f}]
      /\ IF peerRestarting[p] /\ HasAllEor(p, eor')
         THEN StopPeerRestarting(p) /\ routes' = [routes EXCEPT ![p] = WithoutStale(p)]
         ELSE UNCHANGED <<peerRestarting, llRunning, routes>>
  BY DEF ReceiveEor, flags, Up
<1>2. CASE q # p
  <2>1. Untouched(q)
    BY <1>1, <1>2 DEF TypeInv, TypeOK, Counters, StopPeerRestarting, Untouched
  <2> QED
    BY <2>1, UntouchedStale
<1>3. CASE q = p
  <2>1. heard'[p] = heard[p] \cup {f} /\ eor'[p] = eor[p] \cup {f} /\ heard'[p] \subseteq eor'[p]
    BY <1>1, <1>3 DEF TypeInv, TypeOK, StaleInv, Remembered
  <2>2. CASE peerRestarting[p] /\ HasAllEor(p, eor')
    <3>1. \A g \in Families : routes'[p][g] \notin Stale
      BY <1>1, <2>2 DEF TypeInv, TypeOK, WithoutStale, Stale
    <3>2. Remembered(p)'
      BY <1>1, <1>3, <2>1, <3>1 DEF Remembered, Up, Stale
    <3> QED
      BY <1>1, <1>3, <3>1, <3>2 DEF StaleInv, Watched, LongForAll
  <2>3. CASE ~(peerRestarting[p] /\ HasAllEor(p, eor'))
    <3>1. UNCHANGED <<peerRestarting, llRunning, routes>>
      BY <1>1, <2>3
    <3>2. Remembered(p)'
      BY <1>1, <1>3, <2>1, <3>1 DEF StaleInv, Remembered, Up
    <3>3. ASSUME LongForAll(p) PROVE Watched(p)'
      <4>1. Watched(p)
        BY <1>3, <3>3 DEF StaleInv
      <4>2. kept[p] \subseteq heard'[p] => ~peerRestarting[p]
        BY <2>1, <2>3 DEF HasAllEor
      <4> QED
        BY <1>1, <3>1, <4>1, <4>2 DEF Watched, Up
    <3> QED
      BY <1>1, <1>3, <3>2, <3>3 DEF StaleInv, LongForAll
  <2> QED
    BY <2>2, <2>3
<1> QED
  BY <1>2, <1>3

LEMMA OtherStale ==
  ASSUME UNCHANGED <<phase, peerRestarting, llEnabled, kept, llKept, eor, routes, heard, llRunning, llQueued>>,
         NEW q \in Peers, StaleInv(q)
  PROVE  StaleInv(q)'
  BY UntouchedStale DEF Untouched

LEMMA StaleStep ==
  ASSUME TypeInv, [Next]_vars, NEW q \in Peers, StaleInv(q)
  PROVE  StaleInv(q)'
<1>1. CASE UNCHANGED vars
  BY <1>1, OtherStale DEF vars, flags
<1>2. CASE Next
  <2> PICK p \in Peers :
        \/ \E o \in Opens[p] : ReceiveOpen(p, o)
        \/ Establish(p)
        \/ \E b \in Losses[p] : SessionLost(p, b)
        \/ BackToIdle(p)
        \/ \E f \in Families : \/ LlgrTimerFires(p, f) \/ LlgrExpires(p, f) \/ ReceiveEor(p, f)
                               \/ \E k \in Kinds[p] : ReceiveRoute(p, f, k)
        \/ \E f \in Families \cup {All} : DeferralExpires(p, f)
    BY <1>2 DEF Next
  <2>1. ASSUME NEW which \in Families \cup {All}, DeferralExpires(p, which) PROVE StaleInv(q)'
    BY <2>1, OtherStale DEF DeferralExpires, flags
  <2> QED
    BY <2>1, OpenStale, EstablishStale, LostStale, IdleStale, FiresStale, ExpiresStale, RouteStale, EorStale
<1> QED
  BY <1>1, <1>2

LEMMA InitStale == Init => \A p \in Peers : StaleInv(p)
  BY DEF Init, StaleInv, Remembered, Watched, Stale, Up

\* Whatever the neighbors announce, however their sessions are lost and whichever timers overlap: no
\* stale route is left without something that will remove it, as long as each neighbor is long-lived
\* for all the families it restarts gracefully.
THEOREM StaleIsNeverForgotten == Spec => []StaleIsWatched
<1> DEFINE Inv == TypeInv /\ \A p \in Peers : StaleInv(p)
<1>1. Init => Inv
  BY InitTypeInv, InitStale
<1>2. Inv /\ [Next]_vars => Inv'
  BY TypeStep, StaleStep
<1>3. Inv => StaleIsWatched
  BY DEF StaleInv, Remembered, Watched, StaleIsWatched
<1> QED
  BY <1>1, <1>2, <1>3, PTL DEF Spec

-----------------------------------------------------------------------------
(* The first routes.                                                        *)

\* Every neighbor for which graceful restart is configured does it. (One that does not is passed over at
\* the end of this speaker's restart, which disarms its own timer too.)
AllAnswer == Restarted => \A p \in Graceful \cap Peers : \A o \in Opens[p] : o.graceful

\* The restart of this speaker: who is part of it, the timer that ends it, and, once it is over, that a
\* restarting neighbor has been sent everything, because it was not made to wait for route targets.
SentInv(p) ==
  /\ ~Up(p) => heard[p] = {}
  /\ localRestarting[p] =>
       /\ Restarted /\ p \in Graceful
       /\ phase[p] # "down" => grEnabled[p]
       /\ \A f \in Families : deferral[p][f] = 0
       /\ Up(p) => deferral[p][All] > 0
  /\ Up(p) /\ ~localRestarting[p] =>
       \/ negotiated[p] \subseteq sent[p]
       \/ ~peerRestarting[p] /\ Rtc \in negotiated[p] /\ Rtc \notin heard[p]

\* Nothing of this is changed for q.
UntouchedSent(q) ==
  /\ phase'[q] = phase[q] /\ negotiated'[q] = negotiated[q] /\ peerRestarting'[q] = peerRestarting[q]
  /\ localRestarting'[q] = localRestarting[q] /\ grEnabled'[q] = grEnabled[q]
  /\ sent'[q] = sent[q] /\ heard'[q] = heard[q] /\ deferral'[q] = deferral[q]

LEMMA UntouchedSentStep ==
  ASSUME NEW q \in Peers, SentInv(q), UntouchedSent(q)
  PROVE  SentInv(q)'
  BY DEF SentInv, UntouchedSent, Up

LEMMA OpenSent ==
  ASSUME AllAnswer, TypeInv, NEW p \in Peers, NEW o \in Opens[p], ReceiveOpen(p, o), NEW q \in Peers, SentInv(q)
  PROVE  SentInv(q)'
<1>1. /\ UNCHANGED <<peerRestarting, localRestarting, sent, heard, deferral>>
      /\ phase[p] = "down" /\ phase' = [phase EXCEPT ![p] = "open"]
  BY DEF ReceiveOpen
<1>2. CASE q # p
  <2>1. UntouchedSent(q)
    BY <1>1, <1>2 DEF TypeInv, TypeOK, ReceiveOpen, UntouchedSent
  <2> QED
    BY <2>1, UntouchedSentStep
<1>3. CASE q = p
  <2>1. phase'[p] = "open"
    BY <1>1 DEF TypeInv, TypeOK
  <2>2. localRestarting[p] => grEnabled'[p]
    <3>1. localRestarting[p] => o.graceful /\ p \in Graceful
      BY <1>3 DEF SentInv, AllAnswer
    <3>2. o.graceful /\ p \in Graceful => grEnabled'[p]
      BY DEF TypeInv, TypeOK, ReceiveOpen
    <3> QED
      BY <3>1, <3>2
  <2> QED
    BY <1>1, <1>3, <2>1, <2>2 DEF SentInv, Up
<1> QED
  BY <1>2, <1>3

\* At the end of this speaker's restart those that were part of it, and are up, are sent everything.
LEMMA SyncSent ==
  ASSUME TypeInv, NEW q \in Peers, NEW S, SyncFinished(S),
         phase'[q] = "up" => q \in S,
         localRestarting[q] => (phase'[q] # "down" => grEnabled[q]),
         negotiated' = negotiated, phase'[q] # "up" => heard'[q] = {},
         ~localRestarting[q] /\ phase'[q] = "up" =>
           \/ negotiated[q] \subseteq sent[q]
           \/ ~peerRestarting'[q] /\ Rtc \in negotiated[q] /\ Rtc \notin heard'[q]
  PROVE  SentInv(q)'
<1>1. localRestarting'[q] = FALSE
  BY DEF SyncFinished
<1>2. sent[q] \subseteq sent'[q] /\ (q \in S /\ grEnabled[q] => Families \subseteq sent'[q])
  BY DEF SyncFinished
<1>3. negotiated[q] \subseteq Families
  BY DEF TypeInv, TypeOK
<1>4. CASE localRestarting[q]
  BY <1>1, <1>2, <1>3, <1>4 DEF SentInv, Up
<1>5. CASE ~localRestarting[q]
  BY <1>1, <1>2, <1>5 DEF SentInv, Up
<1> QED
  BY <1>4, <1>5

LEMMA EstablishSent ==
  ASSUME TypeInv, NEW p \in Peers, Establish(p), NEW q \in Peers, SentInv(q)
  PROVE  SentInv(q)'
<1> DEFINE waits == Rtc \in negotiated[p] /\ ~peerRestarting[p]
           fs == IF waits THEN negotiated[p] \ {Rtc} ELSE {}
<1>1. /\ UNCHANGED <<negotiated, peerRestarting, grEnabled, heard>>
      /\ phase[p] = "open" /\ phase' = [phase EXCEPT ![p] = "up"]
  BY DEF Establish, flags
<1>2. phase'[p] = "up" /\ \A r \in Peers \ {p} : phase'[r] = phase[r]
  BY <1>1 DEF TypeInv, TypeOK
<1>3. CASE /\ ~localRestarting[p]
           /\ sent' = [sent EXCEPT ![p] = IF waits THEN {Rtc} ELSE negotiated[p]]
           /\ StartTimers(p, fs)
           /\ UNCHANGED localRestarting
  <2>1. CASE q # p
    <3>1. UntouchedSent(q)
      BY <1>1, <1>3, <2>1 DEF TypeInv, TypeOK, StartTimers, UntouchedSent
    <3> QED
      BY <3>1, UntouchedSentStep
  <2>2. CASE q = p
    <3>1. sent'[p] = IF waits THEN {Rtc} ELSE negotiated[p]
      BY <1>3 DEF TypeInv, TypeOK
    <3>2. heard[p] = {}
      BY <1>1, <2>2 DEF SentInv, Up
    <3> QED
      BY <1>1, <1>2, <1>3, <2>2, <3>1, <3>2 DEF SentInv, Up
  <2> QED
    BY <2>1, <2>2
<1>4. CASE /\ localRestarting[p] /\ SyncFinished(UpPeers \cup {p}) /\ UNCHANGED deferral
  <2>1. phase'[q] = "up" => q \in UpPeers \cup {p}
    BY <1>2 DEF UpPeers
  <2>2. localRestarting[q] => (phase'[q] # "down" => grEnabled[q])
    BY <1>1, <1>2 DEF SentInv
  <2>3. phase'[q] # "up" => heard'[q] = {}
    BY <1>1, <1>2 DEF SentInv, Up
  <2>4. ~localRestarting[q] /\ phase'[q] = "up" =>
          \/ negotiated[q] \subseteq sent[q]
          \/ ~peerRestarting'[q] /\ Rtc \in negotiated[q] /\ Rtc \notin heard'[q]
    BY <1>1, <1>2, <1>4 DEF SentInv, Up
  <2> QED
    BY <1>1, <1>4, <2>1, <2>2, <2>3, <2>4, SyncSent
<1>5. CASE localRestarting[p] /\ UNCHANGED sent /\ StartTimers(p, {All}) /\ UNCHANGED localRestarting
  <2>1. CASE q # p
    <3>1. UntouchedSent(q)
      BY <1>1, <1>5, <2>1 DEF TypeInv, TypeOK, StartTimers, UntouchedSent
    <3> QED
      BY <3>1, UntouchedSentStep
  <2>2. CASE q = p
    <3>1. deferral[p] \in [Families \cup {All} -> 0..MaxTimers]
      BY DEF TypeInv, TypeOK
    <3>2. deferral'[p] = [f \in DOMAIN deferral[p] |-> IF f \in {All} THEN deferral[p][f] + 1 ELSE deferral[p][f]]
      BY <1>5 DEF TypeInv, TypeOK, StartTimers
    <3>3. deferral'[p][All] > 0 /\ \A f \in Families : deferral'[p][f] = deferral[p][f]
      BY <3>1, <3>2, FamiliesAssumption
    <3> QED
      BY <1>1, <1>2, <1>5, <2>2, <3>3 DEF SentInv, Up
  <2> QED
    BY <2>1, <2>2
<1> QED
  BY <1>3, <1>4, <1>5 DEF Establish

LEMMA LostSent ==
  ASSUME TypeInv, NEW p \in Peers, NEW b, SessionLost(p, b), NEW q \in Peers, SentInv(q)
  PROVE  SentInv(q)'
<1>1. /\ UNCHANGED <<negotiated, localRestarting, grEnabled, deferral>>
      /\ phase' = [phase EXCEPT ![p] = "down"] /\ sent' = [sent EXCEPT ![p] = {}]
      /\ heard' = [heard EXCEPT ![p] = {}]
  BY DEF SessionLost, flags
<1>2. CASE q # p
  <2>1. UntouchedSent(q)
    BY <1>1, <1>2 DEF TypeInv, TypeOK, SessionLost, UntouchedSent
  <2> QED
    BY <2>1, UntouchedSentStep
<1>3. CASE q = p
  <2>1. phase'[p] = "down" /\ heard'[p] = {}
    BY <1>1 DEF TypeInv, TypeOK
  <2> QED
    BY <1>1, <1>3, <2>1 DEF SentInv, Up
<1> QED
  BY <1>2, <1>3

LEMMA IdleSent ==
  ASSUME TypeInv, NEW p \in Peers, BackToIdle(p), NEW q \in Peers, SentInv(q)
  PROVE  SentInv(q)'
<1>1. /\ UNCHANGED <<negotiated, localRestarting, grEnabled, sent, heard, deferral>>
      /\ phase[p] # "up" /\ phase' = [phase EXCEPT ![p] = "down"]
  BY DEF BackToIdle, flags
<1>2. CASE q # p
  <2>1. UntouchedSent(q)
    BY <1>1, <1>2 DEF TypeInv, TypeOK, BackToIdle, UntouchedSent
  <2> QED
    BY <2>1, UntouchedSentStep
<1>3. CASE q = p
  <2>1. phase'[p] = "down"
    BY <1>1 DEF TypeInv, TypeOK
  <2> QED
    BY <1>1, <1>3, <2>1 DEF SentInv, Up
<1> QED
  BY <1>2, <1>3

\* A restart that ends leaves fewer neighbors restarting.
LEMMA EndSent ==
  ASSUME NEW q \in Peers, SentInv(q), peerRestarting'[q] => peerRestarting[q],
         UNCHANGED <<phase, negotiated, localRestarting, grEnabled, sent, heard, deferral>>
  PROVE  SentInv(q)'
  BY DEF SentInv, Up

LEMMA ExpiresSent ==
  ASSUME TypeInv, NEW p \in Peers, NEW f \in Families, LlgrExpires(p, f), NEW q \in Peers, SentInv(q)
  PROVE  SentInv(q)'
<1>1. peerRestarting'[q] => peerRestarting[q]
  BY DEF TypeInv, TypeOK, LlgrExpires, StopPeerRestarting
<1> QED
  BY <1>1, EndSent DEF LlgrExpires, flags

LEMMA EorSent ==
  ASSUME TypeInv, NEW p \in Peers, NEW f \in Families, ReceiveEor(p, f), NEW q \in Peers, SentInv(q)
  PROVE  SentInv(q)'
<1> DEFINE flash == f = Rtc /\ ~localRestarting[p] /\ ~peerRestarting[p]
<1>1. /\ UNCHANGED <<phase, negotiated, grEnabled, deferral>>
      /\ phase[p] = "up" /\ heard' = [heard EXCEPT ![p] = @ \cup {f}]
  BY DEF ReceiveEor, flags
<1>2. peerRestarting'[q] => peerRestarting[q]
  BY ZenonT(60) DEF TypeInv, TypeOK, ReceiveEor, StopPeerRestarting
<1>3. heard'[p] = heard[p] \cup {f} /\ \A r \in Peers \ {p} : heard'[r] = heard[r]
  BY <1>1 DEF TypeInv, TypeOK
<1>4. CASE localRestarting[p] /\ SyncFinished(UpPeers)
  <2>1. phase'[q] = "up" => q \in UpPeers
    BY <1>1 DEF UpPeers
  <2>2. localRestarting[q] => (phase'[q] # "down" => grEnabled[q])
    BY <1>1 DEF SentInv
  <2>3. phase'[q] # "up" => heard'[q] = {}
    BY <1>1, <1>3 DEF SentInv, Up
  <2>4. ~localRestarting[q] /\ phase'[q] = "up" =>
          \/ negotiated[q] \subseteq sent[q]
          \/ ~peerRestarting'[q] /\ Rtc \in negotiated[q] /\ Rtc \notin heard'[q]
    BY <1>1, <1>2, <1>3, <1>4 DEF SentInv, Up, TypeInv, TypeOK
  <2> QED
    BY <1>1, <1>4, <2>1, <2>2, <2>3, <2>4, SyncSent
<1>5. CASE /\ UNCHANGED localRestarting
           /\ sent' = [sent EXCEPT ![p] = IF flash THEN @ \cup negotiated[p] ELSE @]
  <2>1. CASE q # p
    <3>1. sent'[q] = sent[q] /\ heard'[q] = heard[q]
      BY <1>3, <1>5, <2>1 DEF TypeInv, TypeOK
    <3> QED
      BY <1>1, <1>2, <1>5, <3>1 DEF SentInv, Up
  <2>2. CASE q = p
    <3>1. sent'[p] = IF flash THEN sent[p] \cup negotiated[p] ELSE sent[p]
      BY <1>5 DEF TypeInv, TypeOK
    <3>2. CASE localRestarting[p]
      BY <1>1, <1>2, <1>5, <2>2, <3>1, <3>2 DEF SentInv, Up
    <3>3. CASE ~localRestarting[p] /\ flash
      BY <1>1, <1>5, <2>2, <3>1, <3>3 DEF SentInv, Up
    <3>4. CASE ~localRestarting[p] /\ ~flash
      BY <1>1, <1>2, <1>3, <1>5, <2>2, <3>1, <3>4 DEF SentInv, Up
    <3> QED
      BY <3>2, <3>3, <3>4
  <2> QED
    BY <2>1, <2>2
<1> QED
  BY <1>4, <1>5 DEF ReceiveEor

LEMMA DeferralSent ==
  ASSUME TypeInv, NEW p \in Peers, NEW which \in Families \cup {All}, DeferralExpires(p, which),
         NEW q \in Peers, SentInv(q)
  PROVE  SentInv(q)'
<1> DEFINE fs == IF which = All THEN Families ELSE {which}
           resets == phase[p] = "up" /\ (localRestarting[p] \/ (Rtc \in negotiated[p] /\ Rtc \notin eor[p]))
<1>1. /\ UNCHANGED <<phase, negotiated, peerRestarting, grEnabled, heard>>
      /\ deferral[p][which] > 0 /\ deferral' = [deferral EXCEPT ![p][which] = @ - 1]
  BY DEF DeferralExpires, flags
<1>2. CASE q # p
  <2>1. UntouchedSent(q)
    BY <1>1, <1>2 DEF TypeInv, TypeOK, DeferralExpires, UntouchedSent
  <2> QED
    BY <2>1, UntouchedSentStep
<1>3. CASE q = p /\ resets
  <2>1. localRestarting'[p] = FALSE /\ sent'[p] = sent[p] \cup fs
    BY <1>3 DEF TypeInv, TypeOK, DeferralExpires
  <2>2. localRestarting[p] => fs = Families
    <3>1. deferral[p][which] \in 0..MaxTimers
      BY DEF TypeInv, TypeOK
    <3> QED
      BY <1>1, <1>3, <3>1 DEF SentInv
  <2>3. negotiated[p] \subseteq Families
    BY DEF TypeInv, TypeOK
  <2>4. CASE localRestarting[p]
    BY <1>1, <1>3, <2>1, <2>2, <2>3, <2>4 DEF SentInv, Up
  <2>5. CASE ~localRestarting[p]
    BY <1>1, <1>3, <2>1, <2>5 DEF SentInv, Up
  <2> QED
    BY <2>4, <2>5
<1>4. CASE q = p /\ ~resets
  <2>1. UNCHANGED <<sent, localRestarting>>
    BY <1>4 DEF DeferralExpires
  <2>2. localRestarting[p] => which = All /\ phase[p] # "up"
    <3>1. deferral[p][which] \in 0..MaxTimers
      BY DEF TypeInv, TypeOK
    <3> QED
      BY <1>1, <1>4, <3>1 DEF SentInv
  <2>3. localRestarting[p] => \A f \in Families : deferral'[p][f] = deferral[p][f]
    BY <1>1, <2>2, FamiliesAssumption DEF TypeInv, TypeOK
  <2> QED
    BY <1>1, <1>4, <2>1, <2>2, <2>3 DEF SentInv, Up
<1> QED
  BY <1>2, <1>3, <1>4

LEMMA SentStep ==
  ASSUME AllAnswer, TypeInv, [Next]_vars, NEW q \in Peers, SentInv(q)
  PROVE  SentInv(q)'
<1>1. CASE UNCHANGED vars
  BY <1>1, EndSent DEF vars, flags
<1>2. CASE Next
  <2> PICK p \in Peers :
        \/ \E o \in Opens[p] : ReceiveOpen(p, o)
        \/ Establish(p)
        \/ \E b \in Losses[p] : SessionLost(p, b)
        \/ BackToIdle(p)
        \/ \E f \in Families : \/ LlgrTimerFires(p, f) \/ LlgrExpires(p, f) \/ ReceiveEor(p, f)
                               \/ \E k \in Kinds[p] : ReceiveRoute(p, f, k)
        \/ \E f \in Families \cup {All} : DeferralExpires(p, f)
    BY <1>2 DEF Next
  <2>1. ASSUME NEW f \in Families,
               LlgrTimerFires(p, f) \/ \E k \in Kinds[p] : ReceiveRoute(p, f, k)
        PROVE  SentInv(q)'
    BY <2>1, EndSent DEF LlgrTimerFires, ReceiveRoute, flags
  <2> QED
    BY <2>1, OpenSent, EstablishSent, LostSent, IdleSent, ExpiresSent, EorSent, DeferralSent
<1> QED
  BY <1>1, <1>2

LEMMA InitSent == Init => \A p \in Peers : SentInv(p)
<1> SUFFICES ASSUME Init, NEW p \in Peers PROVE SentInv(p)
  OBVIOUS
<1>1. phase[p] = "down" /\ heard[p] = {} /\ \A f \in Families : deferral[p][f] = 0
  BY DEF Init
<1>2. localRestarting[p] => Restarted /\ p \in Graceful
  BY DEF Init
<1> QED
  BY <1>1, <1>2 DEF SentInv, Up

\* Whatever sessions, restarts, markers and timers, of any number of neighbors, overlap: of each session
\* every family has been sent or waits for something that is under way. What must be assumed is that
\* the neighbors configured for graceful restart do it.
THEOREM RoutesAreNotForgotten ==
  ASSUME AllAnswer
  PROVE  Spec => []SentOrPending
<1> DEFINE Inv == TypeInv /\ \A p \in Peers : SentInv(p)
<1>1. Init => Inv
  BY InitTypeInv, InitSent
<1>2. Inv /\ [Next]_vars => Inv'
  BY TypeStep, SentStep
<1>3. Inv => SentOrPending
  BY DEF SentInv, SentOrPending
<1> QED
  BY <1>1, <1>2, <1>3, PTL DEF Spec
=============================================================================
