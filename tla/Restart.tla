------------------------------- MODULE Restart -------------------------------
(***************************************************************************)
(* Restarts of several neighbors with several address families, as the     *)
(* server goroutine sees them (pkg/server/server.go, peer.go): which        *)
(* routes are kept over the loss of a session, graceful restart followed by *)
(* long-lived graceful restart with a timer for each family, End-of-RIB     *)
(* markers, and the deferral of the first routes while this speaker itself  *)
(* restarts or waits for route targets.                                     *)
(*                                                                          *)
(* The steps of a session are in PeerFsm. Here a neighbor is down, open (its*)
(* OPEN has been taken in) or up, and of its routes one for each family is  *)
(* followed.                                                                *)
(***************************************************************************)
EXTENDS Naturals, FiniteSets

CONSTANTS
  Peers,
  Families,
  Rtc,          \* the family of route targets; it need not be one of Families
  Graceful,     \* the neighbors for which graceful restart is configured
  LongLived,    \* those for which long-lived graceful restart is, too
  Opens,        \* for each neighbor the OPENs it may send
  Losses,       \* for each neighbor how its session may be lost
  Kinds,        \* for each neighbor what its routes may become
  Restarted,    \* was this speaker started with the graceful restart flag?
  MaxTimers     \* bound: timers of one kind that run at a time

Open == [families : SUBSET Families,
         graceful : BOOLEAN, gr : SUBSET Families,   \* its graceful restart capability
         restarts : BOOLEAN,                         \* the R flag of it
         long     : BOOLEAN, ll : SUBSET Families]   \* its long-lived one

All == "all families"

ASSUME FamiliesAssumption == All \notin Families
ASSUME OpensAssumption == Opens \in [Peers -> SUBSET Open]
ASSUME LossesAssumption == Losses \in [Peers -> SUBSET BOOLEAN]
ASSUME KindsAssumption == Kinds \in [Peers -> SUBSET {"none", "fresh", "noLlgr"}]
ASSUME RestartedAssumption == Restarted \in BOOLEAN
ASSUME MaxTimersAssumption == MaxTimers \in Nat

VARIABLES
  phase,            \* "down", "open" or "up"
  negotiated,       \* fsm.rfMap
  peerRestarting,   \* GracefulRestart.State.PeerRestarting
  localRestarting,  \* GracefulRestart.State.LocalRestarting
  grEnabled,        \* GracefulRestart.State.Enabled
  llEnabled,        \* GracefulRestart.State.LongLivedEnabled
  kept,             \* MpGracefulRestart.State: the families with Enabled and Received
  eor,              \* MpGracefulRestart.State: those with EndOfRibReceived
  llKept,           \* LongLivedGracefulRestart.State: those with Enabled and Received
  routes,           \* Adj-RIB-In: the route of each family
  sent,             \* the families whose routes were sent in this session
  heard,            \* the families whose End-of-RIB came in this session
  deferral,         \* timers that call softResetOut, for a family or all of them
  llRunning,        \* long-lived restart timers whose endCh is open
  llQueued          \* expired ones that wait for the server goroutine

vars == <<phase, negotiated, peerRestarting, localRestarting, grEnabled, llEnabled, kept, eor,
          llKept, routes, sent, heard, deferral, llRunning, llQueued>>
flags == <<grEnabled, llEnabled, kept, llKept>>

Counters == [Peers -> [Families -> 0..MaxTimers]]

\* The channels that stop the long-lived timers are only held during a restart.
TypeOK ==
  /\ phase \in [Peers -> {"down", "open", "up"}]
  /\ negotiated \in [Peers -> SUBSET Families]
  /\ peerRestarting \in [Peers -> BOOLEAN] /\ localRestarting \in [Peers -> BOOLEAN]
  /\ grEnabled \in [Peers -> BOOLEAN] /\ llEnabled \in [Peers -> BOOLEAN]
  /\ kept \in [Peers -> SUBSET Families] /\ eor \in [Peers -> SUBSET Families]
  /\ llKept \in [Peers -> SUBSET Families]
  /\ routes \in [Peers -> [Families -> {"none", "fresh", "noLlgr", "stale", "staleNoLlgr", "llgr"}]]
  /\ sent \in [Peers -> SUBSET Families] /\ heard \in [Peers -> SUBSET Families]
  /\ deferral \in [Peers -> [Families \cup {All} -> 0..MaxTimers]]
  /\ llRunning \in Counters /\ llQueued \in Counters
  /\ \A p \in Peers : \A f \in Families : llRunning[p][f] > 0 => peerRestarting[p]

Init ==
  /\ phase = [p \in Peers |-> "down"]
  /\ negotiated = [p \in Peers |-> {}]
  /\ peerRestarting = [p \in Peers |-> FALSE]
  /\ localRestarting = [p \in Peers |-> Restarted /\ p \in Graceful]
  /\ grEnabled = [p \in Peers |-> FALSE]
  /\ llEnabled = [p \in Peers |-> FALSE]
  /\ kept = [p \in Peers |-> {}]
  /\ eor = [p \in Peers |-> {}]
  /\ llKept = [p \in Peers |-> {}]
  /\ routes = [p \in Peers |-> [f \in Families |-> "none"]]
  /\ sent = [p \in Peers |-> {}]
  /\ heard = [p \in Peers |-> {}]
  /\ deferral = [p \in Peers |-> [f \in Families \cup {All} |-> 0]]
  /\ llRunning = [p \in Peers |-> [f \in Families |-> 0]]
  /\ llQueued = [p \in Peers |-> [f \in Families |-> 0]]

-----------------------------------------------------------------------------
(* Routes of one neighbor.                                                  *)

Stale == {"stale", "staleNoLlgr", "llgr"}

Dropped(p, fs) == [f \in Families |-> IF f \in fs THEN "none" ELSE routes[p][f]]
WithoutStale(p) == [f \in Families |-> IF routes[p][f] \in Stale THEN "none" ELSE routes[p][f]]

Marked(route) ==
  IF route = "fresh" THEN "stale" ELSE IF route = "noLlgr" THEN "staleNoLlgr" ELSE route

\* StaleAll for the families that are kept, DropAll for the others.
Retained(p, fs) == [f \in Families |-> IF f \in fs THEN Marked(routes[p][f]) ELSE "none"]

\* MarkLLGRStaleOrDrop for the long-lived families, DropAll for the others.
LongRetained(p, fs) ==
  [f \in Families |-> IF f \notin fs \/ routes[p][f] \in {"none", "noLlgr", "staleNoLlgr"} THEN "none"
                      ELSE "llgr"]

-----------------------------------------------------------------------------
(* The handshake and the establishment of a session.                        *)

\* opensent: what an OPEN switches on is never switched off again.
ReceiveOpen(p, o) ==
  LET gr == p \in Graceful /\ o.graceful
      ll == p \in LongLived /\ o.graceful /\ o.long
  IN  /\ phase[p] = "down"
      /\ phase' = [phase EXCEPT ![p] = "open"]
      /\ negotiated' = [negotiated EXCEPT ![p] = o.families]
      /\ grEnabled' = [grEnabled EXCEPT ![p] = @ \/ gr]
      /\ kept' = [kept EXCEPT ![p] = IF gr THEN @ \cup o.gr ELSE @]
      /\ eor' = [eor EXCEPT ![p] = IF gr /\ o.restarts /\ localRestarting[p] THEN Families ELSE @]
      /\ llEnabled' = [llEnabled EXCEPT ![p] = @ \/ ll]
      /\ llKept' = [llKept EXCEPT ![p] = IF ll THEN @ \cup o.ll ELSE @]
      /\ UNCHANGED <<peerRestarting, localRestarting, routes, sent, heard, deferral, llRunning, llQueued>>

(* mutant *)
HadAllEor(p, e) == kept[p] \subseteq eor[p]

\* peer.recvedAllEOR, for every neighbor there is: one that has not sent an OPEN yet has
\* nothing to wait for.
HasAllEor(p, e) == kept[p] \subseteq e[p]

AllEnd(e) == \A p \in Peers : HasAllEor(p, e)

StartTimers(p, fs) ==
  /\ \A f \in fs : deferral[p][f] < MaxTimers
  /\ deferral' = [deferral EXCEPT ![p] = [f \in DOMAIN @ |-> IF f \in fs THEN @[f] + 1 ELSE @[f]]]

(* mutant *)
SyncFinishedQuietly(up) ==
  /\ localRestarting' = [p \in Peers |-> FALSE]
  /\ sent' = sent

\* The restart of this speaker is over: every neighbor with graceful restart gets its routes.
\* (What is sent to a neighbor that is not up is lost with its outgoing channel.)
SyncFinished(up) ==
  /\ localRestarting' = [p \in Peers |-> FALSE]
  /\ sent' = [p \in Peers |-> IF p \in up /\ grEnabled[p] THEN sent[p] \cup Families ELSE sent[p]]

UpPeers == {p \in Peers : phase[p] = "up"}

Establish(p) ==
  /\ phase[p] = "open"
  /\ phase' = [phase EXCEPT ![p] = "up"]
  /\ LET waits == Rtc \in negotiated[p] /\ ~peerRestarting[p]
     IN  \/ /\ ~localRestarting[p]
            /\ sent' = [sent EXCEPT ![p] = IF waits THEN {Rtc} ELSE negotiated[p]]
            /\ StartTimers(p, IF waits THEN negotiated[p] \ {Rtc} ELSE {})
            /\ UNCHANGED localRestarting
         \/ /\ localRestarting[p] /\ AllEnd(eor)
            /\ SyncFinished(UpPeers \cup {p})
            /\ UNCHANGED deferral
         \/ /\ localRestarting[p] /\ ~AllEnd(eor)
            /\ UNCHANGED sent
            /\ StartTimers(p, {All})
            /\ UNCHANGED localRestarting
  /\ UNCHANGED <<negotiated, peerRestarting, flags, eor, routes, heard, llRunning, llQueued>>

-----------------------------------------------------------------------------
(* The loss of a session and what follows.                                  *)

\* The reason is a graceful restart only if that was enabled once.
SessionLost(p, graceful) ==
  /\ phase[p] = "up"
  /\ graceful => grEnabled[p]
  /\ phase' = [phase EXCEPT ![p] = "down"]
  /\ IF graceful
     THEN /\ peerRestarting' = [peerRestarting EXCEPT ![p] = TRUE]
          /\ eor' = [eor EXCEPT ![p] = {}]
          /\ routes' = [routes EXCEPT ![p] = Retained(p, kept[p])]
     ELSE /\ routes' = [routes EXCEPT ![p] = Dropped(p, Families)]
          /\ UNCHANGED <<peerRestarting, eor>>
  /\ sent' = [sent EXCEPT ![p] = {}]
  /\ heard' = [heard EXCEPT ![p] = {}]
  /\ UNCHANGED <<negotiated, localRestarting, flags, deferral, llRunning, llQueued>>

StopPeerRestarting(p) ==
  /\ peerRestarting' = [peerRestarting EXCEPT ![p] = FALSE]
  /\ llRunning' = [llRunning EXCEPT ![p] = [f \in Families |-> 0]]

(* mutant *)
StartOneLlgrTimer(p) ==
  LET first == CHOOSE f \in Families : f \in llKept[p]
  IN  llRunning' = [llRunning EXCEPT ![p][first] = @ + 1]

StartLlgrTimers(p) ==
  llRunning' = [llRunning EXCEPT ![p] = [f \in Families |-> IF f \in llKept[p] THEN @[f] + 1 ELSE @[f]]]

\* A neighbor that is restarting enters IDLE again: its restart timer expired, or an attempt to
\* reach it failed. Each time starts a new timer for every long-lived family.
BackToIdle(p) ==
  /\ phase[p] # "up"
  /\ phase' = [phase EXCEPT ![p] = "down"]
  /\ \/ /\ ~peerRestarting[p]
        /\ phase[p] = "open"
        /\ UNCHANGED <<peerRestarting, routes, llRunning>>
     \/ /\ peerRestarting[p] /\ llEnabled[p]
        /\ \A f \in llKept[p] : llRunning[p][f] < MaxTimers
        /\ routes' = [routes EXCEPT ![p] = LongRetained(p, llKept[p])]
        /\ StartLlgrTimers(p)
        /\ UNCHANGED peerRestarting
     \/ /\ peerRestarting[p] /\ ~llEnabled[p]
        /\ peerRestarting' = [peerRestarting EXCEPT ![p] = FALSE]
        /\ routes' = [routes EXCEPT ![p] = Dropped(p, Families)]
        /\ UNCHANGED llRunning
  /\ UNCHANGED <<negotiated, localRestarting, flags, eor, sent, heard, deferral, llQueued>>

\* A long-lived timer expires; from here on closing its channel does not stop it.
LlgrTimerFires(p, f) ==
  /\ llRunning[p][f] > 0 /\ llQueued[p][f] < MaxTimers
  /\ llRunning' = [llRunning EXCEPT ![p][f] = @ - 1]
  /\ llQueued' = [llQueued EXCEPT ![p][f] = @ + 1]
  /\ UNCHANGED <<phase, negotiated, peerRestarting, localRestarting, flags, eor, routes, sent, heard,
                 deferral>>

(* mutant *)
AlwaysLast(p, f) == TRUE

\* llgrRestartTimerExpired marks a copy of the family: only the family that asks has expired.
LastOfThem(p, f) == llKept[p] \subseteq {f}

\* The server goroutine takes the expiry: every route of the family goes, fresh ones too.
LlgrExpires(p, f) ==
  /\ llQueued[p][f] > 0
  /\ llQueued' = [llQueued EXCEPT ![p][f] = @ - 1]
  /\ routes' = [routes EXCEPT ![p] = Dropped(p, {f})]
  /\ IF LastOfThem(p, f) THEN StopPeerRestarting(p) ELSE UNCHANGED <<peerRestarting, llRunning>>
  /\ UNCHANGED <<phase, negotiated, localRestarting, flags, eor, sent, heard, deferral>>

-----------------------------------------------------------------------------
(* While the session is up.                                                 *)

ReceiveRoute(p, f, kind) ==
  /\ phase[p] = "up" /\ f \in negotiated[p]
  /\ routes' = [routes EXCEPT ![p][f] = kind]
  /\ UNCHANGED <<phase, negotiated, peerRestarting, localRestarting, flags, eor, sent, heard, deferral,
                 llRunning, llQueued>>

\* An End-of-RIB marker: of the restart of this speaker, of the restart of the neighbor, or the
\* one of the route targets that the first routes wait for.
ReceiveEor(p, f) ==
  LET e == [eor EXCEPT ![p] = @ \cup {f}]
      flash == f = Rtc /\ ~localRestarting[p] /\ ~peerRestarting[p]
  IN  /\ phase[p] = "up" /\ f \in negotiated[p]
      /\ eor' = e
      /\ heard' = [heard EXCEPT ![p] = @ \cup {f}]
      /\ IF localRestarting[p] /\ AllEnd(e) THEN SyncFinished(UpPeers)
         ELSE /\ UNCHANGED localRestarting
              /\ sent' = [sent EXCEPT ![p] = IF flash THEN @ \cup negotiated[p] ELSE @]
      /\ IF peerRestarting[p] /\ HasAllEor(p, e)
         THEN StopPeerRestarting(p) /\ routes' = [routes EXCEPT ![p] = WithoutStale(p)]
         ELSE UNCHANGED <<peerRestarting, llRunning, routes>>
      /\ UNCHANGED <<phase, negotiated, flags, deferral, llQueued>>

(* mutant *)
NeverSoftReset(p, which) ==
  /\ deferral[p][which] > 0
  /\ deferral' = [deferral EXCEPT ![p][which] = @ - 1]
  /\ UNCHANGED <<phase, negotiated, peerRestarting, localRestarting, flags, eor, routes, sent, heard,
                 llRunning, llQueued>>

\* softResetOut with deferral set, called by the timer of one family or of all of them. No timer
\* is ever stopped: it may be one of an earlier session.
DeferralExpires(p, which) ==
  LET fs == IF which = All THEN Families ELSE {which}
  IN  /\ deferral[p][which] > 0
      /\ deferral' = [deferral EXCEPT ![p][which] = @ - 1]
      /\ IF phase[p] = "up" /\ (localRestarting[p] \/ (Rtc \in negotiated[p] /\ Rtc \notin eor[p]))
         THEN /\ sent' = [sent EXCEPT ![p] = @ \cup fs]
              /\ localRestarting' = [localRestarting EXCEPT ![p] = FALSE]
         ELSE UNCHANGED <<sent, localRestarting>>
      /\ UNCHANGED <<phase, negotiated, peerRestarting, flags, eor, routes, heard, llRunning, llQueued>>

-----------------------------------------------------------------------------
Next ==
  \E p \in Peers :
    \/ \E o \in Opens[p] : ReceiveOpen(p, o)
    \/ Establish(p)
    \/ \E b \in Losses[p] : SessionLost(p, b)
    \/ BackToIdle(p)
    \/ \E f \in Families : \/ LlgrTimerFires(p, f) \/ LlgrExpires(p, f) \/ ReceiveEor(p, f)
                           \/ \E k \in Kinds[p] : ReceiveRoute(p, f, k)
    \/ \E f \in Families \cup {All} : DeferralExpires(p, f)

Spec == Init /\ [][Next]_vars

\* Timers run out.
Fairness == \A p \in Peers : \A f \in Families \cup {All} : WF_vars(DeferralExpires(p, f))
FairSpec == Spec /\ Fairness

-----------------------------------------------------------------------------
(* Properties.                                                              *)

Up(p) == phase[p] = "up"

\* A neighbor with a stale route counts as restarting: only then will its markers, its next failure
\* or a timer remove that route.
StaleIsRestarting == \A p \in Peers : \A f \in Families : routes[p][f] \in Stale => peerRestarting[p]

\* Whenever the neighbor announces long-lived graceful restart, it does so for every family it
\* announces for graceful restart.
LongForAll(p) == p \in LongLived => \A o \in Opens[p] : o.graceful => o.long /\ o.gr \subseteq o.ll

\* A stale route is never forgotten, if its neighbor is long-lived for all its families or for none
\* (else the timer of an earlier restart may end a later one). The neighbor counts as restarting;
\* a route that is kept beyond the restart time has a timer that will remove it, or the session is up
\* and its marker will; and once the neighbor has sent the marker of every family it announced for
\* graceful restart, none is left.
StaleIsWatched ==
  \A p \in Peers : LongForAll(p) =>
    \A f \in Families :
      /\ routes[p][f] \in Stale => peerRestarting[p]
      /\ routes[p][f] = "llgr" /\ ~Up(p) => llRunning[p][f] + llQueued[p][f] > 0
      /\ Up(p) /\ kept[p] \subseteq heard[p] => routes[p][f] \notin Stale

\* Every family of a session has been sent, or something that is under way will see to it: the
\* timer of our own restart, or the marker of the route targets.
SentOrPending ==
  \A p \in Peers : \A f \in negotiated[p] :
    Up(p) /\ f \notin sent[p] =>
      \/ localRestarting[p] /\ deferral[p][All] > 0
      \/ Rtc \in negotiated[p] /\ Rtc \notin heard[p]

\* While this speaker restarts, a neighbor that stays up is sent its routes in the end.
RestartEnds ==
  \A p \in Peers : localRestarting[p] /\ Up(p) ~> (negotiated[p] \subseteq sent[p] \/ ~Up(p))
=============================================================================
