--------------------------- MODULE PeerFsmProofs ---------------------------
(***************************************************************************)
(* The safety of PeerFsm for every value of its constants: types, and the  *)
(* inductive invariant IInv from which the safety properties follow.       *)
(***************************************************************************)
EXTENDS PeerFsm, SequenceTheorems, TLAPS

-----------------------------------------------------------------------------
\* The inductive invariant

\* Each goroutine runs only in the states that start it, and none outlives the handler.
Helpers ==
  /\ dial = "run" => state = "ACTIVE"
  /\ recv = "run" => state \in Handshake \cup {"ESTABLISHED"}
  /\ tx # "off" => state = "ESTABLISHED"
  /\ hpc = "ended" => HelpersEnded

\* Where each state function can return to.
Returns ==
  /\ hpc \in {"select", "panic"} <=> exit = NoExit
  /\ exit.next = "ACTIVE" => state = "IDLE"
  /\ exit.next = "OPENSENT" => state = "ACTIVE"
  /\ exit.next = "OPENCONFIRM" => state = "OPENSENT"
  /\ exit.next = "ESTABLISHED" => state = "OPENCONFIRM"
  /\ exit.next = "DYING" => life # "live"
  /\ exit.reason = "gracefulRestart" => state = "ESTABLISHED" /\ exit.next = "IDLE"

\* The FSM is enabled while it connects, and when it is about to.
Enabled ==
  /\ hpc # "panic"
  /\ state \in Handshake \cup {"ACTIVE"} /\ exit.next \notin {"IDLE", "DYING"} => adminState = "up"
  /\ exit.next = "ACTIVE" => adminState = "up"

HoldQueued == \E i \in 1..Len(outgoing) : outgoing[i] = "hold"
KillQueued == \E i \in 1..Len(outgoing) : outgoing[i] = "kill"

\* Who still owns an open connection.
ConnOwned ==
  conn # "closed" =>
    \/ state = "ACTIVE" /\ exit.next = "OPENSENT"
    \/ state \in Handshake /\ exit.next # "IDLE"
    \/ state = "ESTABLISHED" /\ hpc = "select" /\ tx # "off"
    \/ state = "ESTABLISHED" /\ hpc = "wait" /\ tx \in TxReasons
    \/ state = "ESTABLISHED" /\ hpc = "wait" /\ tx = "run" /\ HoldQueued
    \/ life # "live" /\ ~(state \in {"IDLE", "ACTIVE"} /\ hpc = "select")

\* The message that stops sendMessageloop is queued only after the connection is closed.
KillIsLast == KillQueued => conn = "closed" /\ hpc # "select"

\* What removes the stale routes.
Retention ==
  /\ "stale" \in rib => gr.restarting /\ life = "live"
  /\ exit.reason = "gracefulRestart" => grTimer = "armed" \/ grTick # "none"

Retained == Retention /\ RetentionBounded /\ NoRoutesWithoutSession
Control == Helpers /\ Returns /\ Enabled /\ EnabledIdleHasTimer /\ SessionStateKnown

IInv ==
  TypeOK /\ Control /\ SessionMessagesInOrder /\ ConnOwned /\ KillIsLast /\ Retained

-----------------------------------------------------------------------------
\* Types

LEMMA InitType == Init => TypeOK
  BY ConfigAssumption DEF Init, TypeOK, States, NoExit

LEMMA HandlerType == TypeOK /\ HandlerStep => TypeOK'
<1> SUFFICES ASSUME TypeOK, HandlerStep PROVE TypeOK'
  OBVIOUS
<1> USE DEF TypeOK, vars, handlerVars, connVars, goVars, queueVars, adminVars, grVars,
            Leave, NoExit, Exits, States, Reasons, TxReasons, RecvReasons, InMsgs, OutMsgs, Notifies
<1>1. CASE CtxDone
  BY <1>1 DEF CtxDone
<1>2. CASE ReadGrTick
  BY <1>2 DEF ReadGrTick, CloseIfHandshake
<1>3. CASE CloseExtraConn
  BY <1>3 DEF CloseExtraConn
<1>4. CASE IdleHoldTimerExpired
  BY <1>4 DEF IdleHoldTimerExpired
<1>5. CASE RedundantAdminOp
  BY <1>5 DEF RedundantAdminOp
<1>6. ASSUME NEW op \in {"up", "down"}, IdleAdminOp(op) PROVE TypeOK'
  BY <1>6 DEF IdleAdminOp, IdleTimerAfter, TakeAdminOp, ChangeAdminState, ToggledFlag
<1>7. ASSUME NEW op \in {"up", "down"}, ConnectingAdminOp(op) PROVE TypeOK'
  BY <1>7 DEF ConnectingAdminOp, TakeAdminOp, ChangeAdminState, ToggledFlag, CloseIfHandshake
<1>8. ASSUME NEW op \in {"up", "down"}, EstablishedAdminOp(op) PROVE TypeOK'
  <2>1. outgoing' \in Seq(OutMsgs)
    BY <1>8 DEF EstablishedAdminOp, SendCease
  <2> QED
    BY <1>8, <2>1 DEF EstablishedAdminOp, SendCease, TakeAdminOp, ChangeAdminState, ToggledFlag
<1>9. CASE ActiveTakesConn
  BY <1>9 DEF ActiveTakesConn
<1>10. CASE HandshakeMsg
  <2>1. gr' \in [enabled : BOOLEAN, notification : BOOLEAN, restarting : BOOLEAN]
    <3>1. ASSUME NEW mode, NegotiateGr(mode)
          PROVE  \E e, n \in BOOLEAN :
                   gr' = [enabled |-> e, notification |-> n, restarting |-> gr.restarting]
      <4>1. (gr.enabled \/ mode # "none") \in BOOLEAN
            /\ (gr.notification \/ mode = "notification") \in BOOLEAN
        OBVIOUS
      <4> QED
        BY <3>1, <4>1, Zenon DEF NegotiateGr
    <3>2. gr' = gr \/ \E mode \in OpenGr : NegotiateGr(mode)
      BY <1>10, Zenon DEF HandshakeMsg
    <3> QED
      BY <3>1, <3>2
  <2>2. exit' \in Exits
    BY <1>10 DEF HandshakeMsg
  <2> QED
    BY <1>10, <2>1, <2>2 DEF HandshakeMsg, Handshake
<1>11. CASE HandshakeReason
  BY <1>11 DEF HandshakeReason
<1>12. CASE HandshakeHoldTimer
  BY <1>12 DEF HandshakeHoldTimer
<1>13. CASE EstablishedReason
  BY <1>13 DEF EstablishedReason, KillSender, ArmRestartTimer, StopGrTick
<1>14. CASE EstablishedHoldTimer
  BY <1>14 DEF EstablishedHoldTimer
<1>15. CASE ReportStateChange
  BY <1>15 DEF ReportStateChange
<1> QED
  BY <1>1, <1>2, <1>3, <1>4, <1>5, <1>6, <1>7, <1>8, <1>9, <1>10, <1>11, <1>12, <1>13,
     <1>14, <1>15 DEF HandlerStep

LEMMA GoroutineType ==
  TypeOK /\ (DialConnects \/ DialStops \/ RecvStep \/ TxStep \/ TxKeepaliveFails) => TypeOK'
<1> SUFFICES ASSUME TypeOK, DialConnects \/ DialStops \/ RecvStep \/ TxStep \/ TxKeepaliveFails
             PROVE TypeOK'
  OBVIOUS
<1> USE DEF TypeOK, vars, handlerVars, connVars, goVars, queueVars, adminVars, grVars,
            NoExit, Exits, States, Reasons, TxReasons, RecvReasons, InMsgs, OutMsgs, Notifies
<1>1. CASE DialConnects
  BY <1>1 DEF DialConnects
<1>2. CASE DialStops
  BY <1>2 DEF DialStops
<1>3. ASSUME NEW m \in {"expected", "unexpected", "error"}, RecvHandshakeMsg(m) PROVE TypeOK'
  BY <1>3 DEF RecvHandshakeMsg
<1>4. ASSUME NEW m \in {"update", "eor"}, RecvUpdate(m) PROVE TypeOK'
  BY <1>4 DEF RecvUpdate
<1>5. CASE RecvFails
  BY <1>5 DEF RecvFails, OfferReason
<1>6. CASE RecvMalformed
  BY <1>6 DEF RecvMalformed
<1>7. CASE RecvNotification
  BY <1>7 DEF RecvNotification, OfferReason
<1>8. CASE TxSends
  <2>1. adminState' \in {"up", "down", "pfxCt"} /\ adminFlag' \in BOOLEAN
    BY <1>8 DEF TxSends, StayIdleIfPrefixLimit, ChangeAdminState, ToggledFlag
  <2>2. tx' \in {"off", "run"} \cup TxReasons /\ outgoing' \in Seq(OutMsgs)
    BY <1>8 DEF TxSends, TxTakes, SentReason
  <2> QED
    BY <1>8, <2>1, <2>2 DEF TxSends
<1>9. CASE TxSendFails
  <2>1. adminState' \in {"up", "down", "pfxCt"} /\ adminFlag' \in BOOLEAN
    BY <1>9 DEF TxSendFails, StayIdleIfPrefixLimit, ChangeAdminState, ToggledFlag
  <2>2. outgoing' \in Seq(OutMsgs)
    BY <1>9 DEF TxSendFails, TxTakes
  <2> QED
    BY <1>9, <2>1, <2>2 DEF TxSendFails
<1>10. CASE TxKilled
  BY <1>10 DEF TxKilled, TxTakes, TxEnds
<1>11. CASE TxCtxDone
  BY <1>11 DEF TxCtxDone, TxEnds
<1>12. CASE TxPushesReason
  BY <1>12 DEF TxPushesReason, TxEnds
<1>13. CASE TxKeepaliveFails
  BY <1>13 DEF TxKeepaliveFails
<1> QED
  BY <1>1, <1>2, <1>3, <1>4, <1>5, <1>6, <1>7, <1>8, <1>9, <1>10, <1>11, <1>12, <1>13
  DEF RecvStep, TxStep

LEMMA TailOfOne ==
  ASSUME NEW S, NEW s \in Seq(S), Len(s) = 1
  PROVE  Tail(s) = <<>>
<1>1. s # <<>>
  OBVIOUS
<1>2. Tail(s) \in Seq(S) /\ Len(Tail(s)) = 0
  BY <1>1, HeadTailProperties
<1> QED
  BY <1>2, EmptySeq

\* The types of what NextHandler assigns.
HandlerTypes ==
  /\ state' \in States /\ sessionState' \in States \cup {"cleared"}
  /\ hpc' = "select" /\ exit' = NoExit /\ msgCh' = "empty" /\ reasonCh' = <<>>
  /\ adminState' = adminState /\ adminStateCh' = adminStateCh /\ adminFlag' \in BOOLEAN
  /\ connCh' = connCh /\ conn' = conn
  /\ dial' \in {"off", "run"} /\ recv' \in {"off", "run"} /\ tx' \in {"off", "run"}
  /\ idleTimer' \in {"off", "armed"} /\ grTimer' \in {"off", "armed"}
  /\ grTick' \in {"none", "fresh", "stale"}
  /\ incoming' \in Seq(InMsgs) /\ outgoing' \in Seq(OutMsgs)

LEMMA NextHandlerType ==
  ASSUME TypeOK, NEW next \in States, NextHandler(next), incoming # <<>>
  PROVE  HandlerTypes
<1> USE DEF NextHandler, TypeOK
<1>1. incoming' \in Seq(InMsgs)
  OBVIOUS
<1>2. outgoing' \in Seq(OutMsgs)
  <2>1. <<>> \in Seq(OutMsgs) /\ <<"update">> \in Seq(OutMsgs)
    BY DEF OutMsgs
  <2> QED
    BY <2>1
<1>3. adminFlag' \in BOOLEAN
  BY DEF ClearCounter
<1>4. sessionState' \in States \cup {"cleared"}
  BY DEF ClearCounter
<1> QED
  BY <1>1, <1>2, <1>3, <1>4 DEF HandlerTypes, StartHandler, StopGrTick, connVars

\* When the server takes a state change, the handler has ended and says where to.
LEMMA StateChangeFacts ==
  ASSUME TypeOK, Returns, SessionMessagesInOrder, ServerTakes("stateChange")
  PROVE  /\ life = "live" /\ hpc = "ended" /\ incoming # <<>> /\ Tail(incoming) = <<>>
         /\ exit \in Exits /\ exit.next \in States
<1>1. life = "live" /\ incoming # <<>> /\ incoming[1] = "stateChange" /\ 1 \in 1..Len(incoming)
  BY DEF ServerTakes, Live, TypeOK
<1>2. hpc = "ended" /\ Len(incoming) = 1
  BY <1>1 DEF SessionMessagesInOrder
<1>3. exit \in Exits /\ exit.next # "DYING"
  BY <1>1, <1>2 DEF Returns, TypeOK
<1>4. Tail(incoming) = <<>>
  BY <1>2, TailOfOne DEF TypeOK
<1> QED
  BY <1>1, <1>2, <1>3, <1>4 DEF Exits

GrType == gr \in [enabled : BOOLEAN, notification : BOOLEAN, restarting : BOOLEAN]

LEMMA PeerRestartingType ==
  ASSUME NEW b \in BOOLEAN, GrType, PeerRestarting(b)
  PROVE  GrType' /\ gr'.restarting = b
  BY DEF PeerRestarting, GrType

LEMMA ServerType == TypeOK /\ Returns /\ SessionMessagesInOrder /\ ServerStep => TypeOK'
<1> SUFFICES ASSUME TypeOK, Returns, SessionMessagesInOrder, ServerStep PROVE TypeOK'
  OBVIOUS
<1> USE DEF TypeOK, connVars, goVars, adminVars, handlerVars, grVars
<1>1. ASSUME ServerTakes("stateChange"), NextHandler(exit.next),
             rib' \in SUBSET {"current", "stale"}, life' \in {"live", "cancelled", "freed", "dropped"},
             gr' \in [enabled : BOOLEAN, notification : BOOLEAN, restarting : BOOLEAN]
      PROVE  TypeOK'
  <2>1. exit.next \in States /\ incoming # <<>>
    BY <1>1, StateChangeFacts
  <2>2. HandlerTypes
    BY <1>1, <2>1, NextHandlerType
  <2> QED
    BY <1>1, <2>2 DEF HandlerTypes
<1>2. ASSUME ServerTakes("stateChange"), DropDynamicPeer, rib' = {} PROVE TypeOK'
  BY <1>2, StateChangeFacts DEF DropDynamicPeer, PeerRestarting
<1>3. CASE GracefulPeerDown
  BY <1>1, <1>3 DEF GracefulPeerDown, PeerRestarting, StaleAll
<1>4. CASE PeerDown
  BY <1>1, <1>2, <1>4 DEF PeerDown
<1>5. CASE RestartEnds
  <2>1. CASE Dynamic /\ DropDynamicPeer
    BY <1>2, <1>5, <2>1 DEF RestartEnds
  <2>2. CASE PeerRestarting(FALSE) /\ NextHandler(exit.next) /\ UNCHANGED life
    BY <1>1, <1>5, <2>2, PeerRestartingType DEF RestartEnds, GrType
  <2> QED
    BY <1>5, <2>1, <2>2 DEF RestartEnds
<1>6. CASE OtherStateChange
  BY <1>1, <1>6 DEF OtherStateChange
<1>7. CASE HandleUpdate
  <2>1. outgoing' \in Seq(OutMsgs)
    <3>1. outgoing' = outgoing \/ outgoing' = Append(outgoing, "prefixLimit")
      BY <1>7 DEF HandleUpdate
    <3> QED
      BY SMTT(30), <3>1 DEF OutMsgs, Notifies
  <2>3. rib' \in SUBSET {"current", "stale"}
    <3>1. rib' = rib \/ rib' \in SUBSET (rib \cup {"current"})
      BY <1>7 DEF HandleUpdate
    <3> QED
      BY <3>1
  <2>2. incoming' \in Seq(InMsgs)
    BY <1>7 DEF HandleUpdate, ServerTakes
  <2> QED
    BY <1>7, <2>1, <2>2, <2>3 DEF HandleUpdate
<1>8. CASE HandleEor
  <2>1. GrType' /\ rib' \in SUBSET {"current", "stale"}
    BY <1>8, PeerRestartingType DEF HandleEor, GrType
  <2>2. incoming' \in Seq(InMsgs)
    BY <1>8 DEF HandleEor, ServerTakes
  <2> QED
    BY <1>8, <2>1, <2>2 DEF HandleEor, GrType
<1>9. CASE HandleMalformed
  BY <1>9 DEF HandleMalformed, ServerTakes, OutMsgs, Notifies
<1>10. CASE FreeHandler
  BY <1>10 DEF FreeHandler
<1> QED
  BY <1>3, <1>4, <1>5, <1>6, <1>7, <1>8, <1>9, <1>10 DEF ServerStep, HandleStateChange

LEMMA ApiType ==
  TypeOK /\ (ApiStep \/ PeerCloses \/ GrTimerFires \/ Finished \/ UNCHANGED vars) => TypeOK'
<1> SUFFICES ASSUME TypeOK, ApiStep \/ PeerCloses \/ GrTimerFires \/ Finished \/ UNCHANGED vars
             PROVE TypeOK'
  OBVIOUS
<1> USE DEF TypeOK, vars, handlerVars, connVars, goVars, queueVars, adminVars, grVars,
            NoExit, Exits, States, Reasons, TxReasons, RecvReasons, InMsgs, OutMsgs, Notifies
<1>1. CASE PassConn
  BY <1>1 DEF PassConn
<1>2. CASE DeleteNeighbor
  BY <1>2 DEF DeleteNeighbor, PeerRestarting
<1>3. ASSUME NEW op \in {"up", "down"}, SetAdminState(op) PROVE TypeOK'
  BY <1>3 DEF SetAdminState
<1>4. ASSUME NEW m \in {"update", "cease"}, SendToPeer(m) PROVE TypeOK'
  BY <1>4 DEF SendToPeer
<1>5. CASE PeerCloses
  BY <1>5 DEF PeerCloses
<1>6. CASE GrTimerFires
  BY <1>6 DEF GrTimerFires
<1>7. CASE UNCHANGED vars
  BY <1>7
<1> QED
  BY <1>1, <1>2, <1>3, <1>4, <1>5, <1>6, <1>7 DEF ApiStep, Finished

-----------------------------------------------------------------------------
\* Control

\* The goroutines, the exits of the state functions and the administrative state.
LEMMA ControlStep ==
  ASSUME TypeOK, Control, SessionMessagesInOrder, [Next]_vars
  PROVE  Control'
<1> USE DEF Control, Helpers, Returns, Enabled, EnabledIdleHasTimer, SessionStateKnown, Selecting,
            TypeOK, Handshake, HelpersEnded,
            vars, handlerVars, connVars, goVars, queueVars, adminVars, grVars, NoExit, Exits, Leave
<1>1. CASE CtxDone
  BY <1>1 DEF CtxDone
<1>2. CASE ReadGrTick
  BY <1>2 DEF ReadGrTick, CloseIfHandshake
<1>3. CASE CloseExtraConn
  BY <1>3 DEF CloseExtraConn
<1>4. CASE IdleHoldTimerExpired
  BY <1>4 DEF IdleHoldTimerExpired, MayLeaveIdle
<1>5. CASE RedundantAdminOp
  BY <1>5 DEF RedundantAdminOp
<1>6. ASSUME NEW op \in {"up", "down"}, IdleAdminOp(op) PROVE Control'
  BY <1>6 DEF IdleAdminOp, IdleTimerAfter, TakeAdminOp, ChangeAdminState
<1>7. ASSUME NEW op \in {"up", "down"}, ConnectingAdminOp(op) PROVE Control'
  BY <1>7 DEF ConnectingAdminOp, TakeAdminOp, ChangeAdminState, CloseIfHandshake
<1>8. ASSUME NEW op \in {"up", "down"}, EstablishedAdminOp(op) PROVE Control'
  BY <1>8 DEF EstablishedAdminOp, SendCease, TakeAdminOp, ChangeAdminState
<1>9. CASE ActiveTakesConn
  BY <1>9 DEF ActiveTakesConn
<1>10. CASE HandshakeMsg
  BY <1>10 DEF HandshakeMsg
<1>11. CASE HandshakeReason
  <2>1. Head(reasonCh) \in TxReasons \cup RecvReasons
    BY <1>11 DEF HandshakeReason
  <2>2. Head(reasonCh) \notin {"none", "gracefulRestart"}
    BY <2>1 DEF TxReasons, RecvReasons
  <2> QED
    BY <1>11, <2>2 DEF HandshakeReason
<1>12. CASE HandshakeHoldTimer
  BY <1>12 DEF HandshakeHoldTimer
<1>13. CASE EstablishedReason
  BY <1>13 DEF EstablishedReason, KillSender, ArmRestartTimer, StopGrTick
<1>14. CASE EstablishedHoldTimer
  BY <1>14 DEF EstablishedHoldTimer
<1>15. CASE ReportStateChange
  BY <1>15 DEF ReportStateChange
<1>16. CASE DialConnects
  BY <1>16 DEF DialConnects
<1>17. CASE DialStops
  BY <1>17 DEF DialStops
<1>18. ASSUME NEW m \in {"expected", "unexpected", "error"}, RecvHandshakeMsg(m) PROVE Control'
  BY <1>18 DEF RecvHandshakeMsg
<1>19. ASSUME NEW m \in {"update", "eor"}, RecvUpdate(m) PROVE Control'
  BY <1>19 DEF RecvUpdate, Receiving
<1>20. CASE RecvFails
  BY <1>20 DEF RecvFails, OfferReason
<1>21. CASE RecvMalformed
  BY <1>21 DEF RecvMalformed, Receiving
<1>22. CASE RecvNotification
  BY <1>22 DEF RecvNotification, Receiving, OfferReason
<1>23. CASE TxSends
  BY <1>23 DEF TxSends, TxTakes, StayIdleIfPrefixLimit, ChangeAdminState, SentReason
<1>24. CASE TxSendFails
  BY <1>24 DEF TxSendFails, TxTakes, StayIdleIfPrefixLimit, ChangeAdminState
<1>25. CASE TxKilled
  BY <1>25 DEF TxKilled, TxTakes, TxEnds
<1>26. CASE TxCtxDone
  BY <1>26 DEF TxCtxDone, TxEnds
<1>27. CASE TxPushesReason
  BY <1>27 DEF TxPushesReason, TxEnds
<1>28. CASE TxKeepaliveFails
  BY <1>28 DEF TxKeepaliveFails
<1>29. CASE GracefulPeerDown
  BY <1>29, StateChangeFacts DEF GracefulPeerDown, PeerRestarting, StaleAll, NextHandler, ClearCounter, StartHandler
<1>30. CASE PeerDown
  <2>1. exit.next = "IDLE" /\ hpc = "ended"
    BY <1>30, StateChangeFacts DEF PeerDown, States
  <2>2. CASE DropDynamicPeer
    BY <1>30, <2>1, <2>2 DEF PeerDown, DropDynamicPeer
  <2>3. CASE NextHandler(exit.next)
    BY <2>1, <2>3 DEF NextHandler, ClearCounter, StartHandler
  <2> QED
    BY <1>30, <2>2, <2>3 DEF PeerDown
<1>31. CASE RestartEnds
  <2>1. exit.next = "IDLE" /\ hpc = "ended" /\ exit.reason # "gracefulRestart"
    BY <1>31, StateChangeFacts DEF RestartEnds, NextStateIdle
  <2>2. CASE DropDynamicPeer
    BY <2>1, <2>2 DEF DropDynamicPeer
  <2>3. CASE NextHandler(exit.next)
    BY <2>1, <2>3 DEF NextHandler, ClearCounter, StartHandler
  <2> QED
    BY <1>31, <2>2, <2>3 DEF RestartEnds
<1>32. CASE OtherStateChange
  BY <1>32, StateChangeFacts DEF OtherStateChange, NextStateIdle, NextHandler, ClearCounter, StartHandler
<1>33. CASE HandleUpdate
  BY <1>33 DEF HandleUpdate
<1>34. CASE HandleEor
  BY <1>34 DEF HandleEor, PeerRestarting
<1>35. CASE HandleMalformed
  BY <1>35 DEF HandleMalformed
<1>36. CASE FreeHandler
  BY <1>36 DEF FreeHandler
<1>37. CASE PassConn
  BY <1>37 DEF PassConn
<1>38. CASE DeleteNeighbor
  BY <1>38 DEF DeleteNeighbor, PeerRestarting, Live
<1>39. ASSUME NEW op \in {"up", "down"}, SetAdminState(op) PROVE Control'
  BY <1>39 DEF SetAdminState
<1>40. ASSUME NEW m \in {"update", "cease"}, SendToPeer(m) PROVE Control'
  BY <1>40 DEF SendToPeer
<1>41. CASE PeerCloses
  BY <1>41 DEF PeerCloses
<1>42. CASE GrTimerFires
  BY <1>42 DEF GrTimerFires
<1>43. CASE UNCHANGED vars
  BY <1>43
<1> QED
  BY <1>1, <1>2, <1>3, <1>4, <1>5, <1>6, <1>7, <1>8, <1>9, <1>10, <1>11, <1>12, <1>13,
     <1>14, <1>15, <1>16, <1>17, <1>18, <1>19, <1>20, <1>21, <1>22, <1>23, <1>24, <1>25,
     <1>26, <1>27, <1>28, <1>29, <1>30, <1>31, <1>32, <1>33, <1>34, <1>35, <1>36, <1>37,
     <1>38, <1>39, <1>40, <1>41, <1>42, <1>43
  DEF Next, HandlerStep, RecvStep, TxStep, ServerStep, HandleStateChange, ApiStep, Finished

\* The server takes a message of the session: the report stays last.
LEMMA TailKeepsOrder ==
  TypeOK /\ SessionMessagesInOrder /\ incoming # <<>> /\ Head(incoming) # "stateChange" /\
  incoming' = Tail(incoming) /\ hpc' = hpc /\ life' = life /\ state' = state
    => SessionMessagesInOrder'
<1> SUFFICES ASSUME TypeOK, SessionMessagesInOrder, hpc' = hpc, life' = life, state' = state,
                    incoming # <<>> /\ Head(incoming) # "stateChange"
             PROVE  incoming' = Tail(incoming) => SessionMessagesInOrder'
  OBVIOUS
<1>0. HAVE incoming' = Tail(incoming)
<1> USE DEF TypeOK, SessionMessagesInOrder
<1>1. /\ Len(incoming') = Len(incoming) - 1
      /\ \A i \in 1..Len(incoming') : incoming'[i] = incoming[i + 1]
  BY <1>0, HeadTailProperties
<1>2. Len(incoming) \in Nat /\ Len(incoming) >= 1 /\ incoming[1] # "stateChange"
  OBVIOUS
<1>3. \A i \in 1..Len(incoming') :
        incoming'[i] = "stateChange" => i = Len(incoming') /\ hpc' = "ended"
  BY <1>1, <1>2
<1>4. hpc' = "ended" /\ life' \in {"live", "cancelled"} =>
        incoming' # <<>> /\ incoming'[Len(incoming')] = "stateChange"
  <2> SUFFICES ASSUME hpc = "ended", life \in {"live", "cancelled"}
               PROVE  incoming' # <<>> /\ incoming'[Len(incoming')] = "stateChange"
    OBVIOUS
  <2>1. incoming[Len(incoming)] = "stateChange" /\ Len(incoming) >= 2
    BY <1>2
  <2>2. Len(incoming') >= 1 /\ incoming'[Len(incoming')] = "stateChange"
    BY <1>1, <1>2, <2>1
  <2> QED
    BY <2>2
<1>5. state' # "ESTABLISHED" => \A i \in 1..Len(incoming') : incoming'[i] = "stateChange"
  BY <1>1, <1>2
<1> QED
  BY <1>3, <1>4, <1>5

\* The messages of a session and the report that ends it.
LEMMA OrderStep ==
  ASSUME TypeOK, Control, SessionMessagesInOrder, [Next]_vars
  PROVE  SessionMessagesInOrder'
<1> USE DEF Control, Helpers, HelpersEnded, Handshake, SessionMessagesInOrder, TypeOK,
            Leave, vars, handlerVars, connVars, goVars, queueVars, adminVars, grVars
<1>1. CASE CtxDone
  BY <1>1 DEF CtxDone
<1>2. CASE ReadGrTick
  BY <1>2 DEF ReadGrTick, CloseIfHandshake
<1>3. CASE CloseExtraConn
  BY <1>3 DEF CloseExtraConn
<1>4. CASE IdleHoldTimerExpired
  BY <1>4 DEF IdleHoldTimerExpired, MayLeaveIdle, Selecting
<1>5. CASE RedundantAdminOp
  BY <1>5 DEF RedundantAdminOp
<1>6. ASSUME NEW op \in {"up", "down"}, IdleAdminOp(op) PROVE SessionMessagesInOrder'
  BY <1>6 DEF IdleAdminOp, IdleTimerAfter, TakeAdminOp, ChangeAdminState
<1>7. ASSUME NEW op \in {"up", "down"}, ConnectingAdminOp(op) PROVE SessionMessagesInOrder'
  BY <1>7 DEF ConnectingAdminOp, TakeAdminOp, ChangeAdminState, CloseIfHandshake
<1>8. ASSUME NEW op \in {"up", "down"}, EstablishedAdminOp(op) PROVE SessionMessagesInOrder'
  BY <1>8 DEF EstablishedAdminOp, SendCease, TakeAdminOp, ChangeAdminState
<1>9. CASE ActiveTakesConn
  BY <1>9 DEF ActiveTakesConn, Selecting
<1>10. CASE HandshakeMsg
  BY <1>10 DEF HandshakeMsg
<1>11. CASE HandshakeReason
  BY <1>11 DEF HandshakeReason
<1>12. CASE HandshakeHoldTimer
  BY <1>12 DEF HandshakeHoldTimer
<1>13. CASE EstablishedReason
  BY <1>13 DEF EstablishedReason, KillSender, ArmRestartTimer, Selecting, StopGrTick
<1>14. CASE EstablishedHoldTimer
  BY <1>14 DEF EstablishedHoldTimer, Selecting
<1>15. CASE ReportStateChange
  BY <1>15 DEF ReportStateChange
<1>16. CASE DialConnects
  BY <1>16 DEF DialConnects
<1>17. CASE DialStops
  BY <1>17 DEF DialStops
<1>18. ASSUME NEW m \in {"expected", "unexpected", "error"}, RecvHandshakeMsg(m) PROVE SessionMessagesInOrder'
  BY <1>18 DEF RecvHandshakeMsg
<1>19. ASSUME NEW m \in {"update", "eor"}, RecvUpdate(m) PROVE SessionMessagesInOrder'
  <2>0. m # "stateChange"
    BY <1>19
  <2>1. hpc # "ended" /\ state = "ESTABLISHED" /\ hpc' = hpc /\ life' = life /\ state' = state
    BY <1>19 DEF RecvUpdate, Receiving
  <2>2. \A i \in 1..Len(incoming) : incoming[i] # "stateChange"
    BY <2>1
  <2>3. \E x \in InMsgs \ {"stateChange"} : incoming' = Append(incoming, x)
    BY <1>19 DEF RecvUpdate, Receiving, InMsgs
  <2> QED
    BY <2>1, <2>2, <2>3
<1>20. CASE RecvFails
  BY <1>20 DEF RecvFails, OfferReason
<1>21. CASE RecvMalformed
  <2>1. hpc # "ended" /\ state = "ESTABLISHED" /\ hpc' = hpc /\ life' = life /\ state' = state
    BY <1>21 DEF RecvMalformed, Receiving
  <2>2. \A i \in 1..Len(incoming) : incoming[i] # "stateChange"
    BY <2>1
  <2>3. \E x \in InMsgs \ {"stateChange"} : incoming' = Append(incoming, x)
    BY <1>21 DEF RecvMalformed, Receiving, InMsgs
  <2> QED
    BY <2>1, <2>2, <2>3
<1>22. CASE RecvNotification
  BY <1>22 DEF RecvNotification, Receiving, OfferReason
<1>23. CASE TxSends
  BY <1>23 DEF TxSends, TxTakes, StayIdleIfPrefixLimit, ChangeAdminState, SentReason
<1>24. CASE TxSendFails
  BY <1>24 DEF TxSendFails, TxTakes, StayIdleIfPrefixLimit, ChangeAdminState
<1>25. CASE TxKilled
  BY <1>25 DEF TxKilled, TxTakes, TxEnds
<1>26. CASE TxCtxDone
  BY <1>26 DEF TxCtxDone, TxEnds
<1>27. CASE TxPushesReason
  BY <1>27 DEF TxPushesReason, TxEnds
<1>28. CASE TxKeepaliveFails
  BY <1>28 DEF TxKeepaliveFails
<1>29. CASE GracefulPeerDown
  <2>1. incoming' = <<>>
    BY <1>29, StateChangeFacts DEF GracefulPeerDown, NextHandler, DropDynamicPeer
  <2>2. hpc' = "select" \/ life' = "dropped"
    BY <1>29, StateChangeFacts DEF GracefulPeerDown, NextHandler, ClearCounter, StartHandler, DropDynamicPeer
  <2> QED
    BY <2>1, <2>2
<1>30. CASE PeerDown
  <2>1. incoming' = <<>>
    BY <1>30, StateChangeFacts DEF PeerDown, NextHandler, DropDynamicPeer
  <2>2. hpc' = "select" \/ life' = "dropped"
    BY <1>30, StateChangeFacts DEF PeerDown, NextHandler, ClearCounter, StartHandler, DropDynamicPeer
  <2> QED
    BY <2>1, <2>2
<1>31. CASE RestartEnds
  <2>1. incoming' = <<>>
    BY <1>31, StateChangeFacts DEF RestartEnds, NextHandler, DropDynamicPeer
  <2>2. hpc' = "select" \/ life' = "dropped"
    BY <1>31, StateChangeFacts DEF RestartEnds, NextHandler, ClearCounter, StartHandler, DropDynamicPeer
  <2> QED
    BY <2>1, <2>2
<1>32. CASE OtherStateChange
  <2>1. incoming' = <<>>
    BY <1>32, StateChangeFacts DEF OtherStateChange, NextHandler, DropDynamicPeer
  <2>2. hpc' = "select" \/ life' = "dropped"
    BY <1>32, StateChangeFacts DEF OtherStateChange, NextHandler, ClearCounter, StartHandler, DropDynamicPeer
  <2> QED
    BY <2>1, <2>2
<1>33. CASE HandleUpdate
  BY <1>33, TailKeepsOrder DEF HandleUpdate, ServerTakes
<1>34. CASE HandleEor
  BY <1>34, TailKeepsOrder DEF HandleEor, ServerTakes
<1>35. CASE HandleMalformed
  BY <1>35, TailKeepsOrder DEF HandleMalformed, ServerTakes
<1>36. CASE FreeHandler
  BY <1>36 DEF FreeHandler
<1>37. CASE PassConn
  BY <1>37 DEF PassConn
<1>38. CASE DeleteNeighbor
  BY <1>38 DEF DeleteNeighbor, PeerRestarting, Live
<1>39. ASSUME NEW op \in {"up", "down"}, SetAdminState(op) PROVE SessionMessagesInOrder'
  BY <1>39 DEF SetAdminState
<1>40. ASSUME NEW m \in {"update", "cease"}, SendToPeer(m) PROVE SessionMessagesInOrder'
  BY <1>40 DEF SendToPeer
<1>41. CASE PeerCloses
  BY <1>41 DEF PeerCloses
<1>42. CASE GrTimerFires
  BY <1>42 DEF GrTimerFires
<1>43. CASE UNCHANGED vars
  BY <1>43
<1> QED
  BY <1>1, <1>2, <1>3, <1>4, <1>5, <1>6, <1>7, <1>8, <1>9, <1>10, <1>11, <1>12, <1>13,
     <1>14, <1>15, <1>16, <1>17, <1>18, <1>19, <1>20, <1>21, <1>22, <1>23, <1>24, <1>25,
     <1>26, <1>27, <1>28, <1>29, <1>30, <1>31, <1>32, <1>33, <1>34, <1>35, <1>36, <1>37,
     <1>38, <1>39, <1>40, <1>41, <1>42, <1>43
  DEF Next, HandlerStep, RecvStep, TxStep, ServerStep, HandleStateChange, ApiStep, Finished

-----------------------------------------------------------------------------
\* The connection

\* What an operation on outgoingCh does to what is queued.
LEMMA QueuedSame ==
  ASSUME outgoing' = outgoing
  PROVE  (HoldQueued' <=> HoldQueued) /\ (KillQueued' <=> KillQueued)
  BY DEF HoldQueued, KillQueued

LEMMA QueuedAppend ==
  ASSUME TypeOK, NEW x \in OutMsgs, outgoing' = Append(outgoing, x)
  PROVE  (HoldQueued' <=> HoldQueued \/ x = "hold") /\ (KillQueued' <=> KillQueued \/ x = "kill")
<1>1. /\ Len(outgoing) \in Nat /\ Len(outgoing') = Len(outgoing) + 1
      /\ outgoing'[Len(outgoing) + 1] = x
      /\ \A i \in 1..Len(outgoing) : outgoing'[i] = outgoing[i]
  BY DEF TypeOK
<1>2. HoldQueued' <=> HoldQueued \/ x = "hold"
  BY <1>1 DEF HoldQueued
<1>3. KillQueued' <=> KillQueued \/ x = "kill"
  BY <1>1 DEF KillQueued
<1> QED
  BY <1>2, <1>3

LEMMA QueuedTail ==
  ASSUME TypeOK, outgoing # <<>>, outgoing' = Tail(outgoing)
  PROVE  /\ HoldQueued => Head(outgoing) = "hold" \/ HoldQueued'
         /\ KillQueued' => KillQueued
         /\ Head(outgoing) = "kill" => KillQueued
<1>1. /\ Len(outgoing) \in Nat \ {0} /\ Len(outgoing') = Len(outgoing) - 1
      /\ Head(outgoing) = outgoing[1]
      /\ \A i \in 1..Len(outgoing') : outgoing'[i] = outgoing[i + 1]
  BY HeadTailProperties DEF TypeOK
<1>2. HoldQueued => Head(outgoing) = "hold" \/ HoldQueued'
  BY <1>1 DEF HoldQueued
<1>3. KillQueued' => KillQueued
  BY <1>1 DEF KillQueued
<1>4. Head(outgoing) = "kill" => KillQueued
  BY <1>1 DEF KillQueued
<1> QED
  BY <1>2, <1>3, <1>4

LEMMA QueuedFresh ==
  ASSUME outgoing' = <<>> \/ outgoing' = <<"update">>
  PROVE  ~KillQueued'
  BY DEF KillQueued

\* An open connection keeps an owner that will close it.
LEMMA ConnStep ==
  ASSUME TypeOK, Control, SessionMessagesInOrder, ConnOwned, KillIsLast, [Next]_vars
  PROVE  ConnOwned' /\ KillIsLast'
<1> USE DEF Control, Helpers, Returns, OutMsgs, Notifies, HelpersEnded, Handshake, ConnOwned, KillIsLast, TypeOK, Selecting,
            Leave, NoExit, vars, handlerVars, connVars, goVars, queueVars, adminVars, grVars
<1>1. CASE CtxDone
  BY <1>1, QueuedSame DEF CtxDone
<1>2. CASE ReadGrTick
  BY <1>2, QueuedSame DEF ReadGrTick, CloseIfHandshake
<1>3. CASE CloseExtraConn
  BY <1>3, QueuedSame DEF CloseExtraConn
<1>4. CASE IdleHoldTimerExpired
  BY <1>4, QueuedSame DEF IdleHoldTimerExpired, MayLeaveIdle
<1>5. CASE RedundantAdminOp
  BY <1>5, QueuedSame DEF RedundantAdminOp
<1>6. ASSUME NEW op \in {"up", "down"}, IdleAdminOp(op) PROVE ConnOwned' /\ KillIsLast'
  BY <1>6, QueuedSame DEF IdleAdminOp, IdleTimerAfter, TakeAdminOp, ChangeAdminState
<1>7. ASSUME NEW op \in {"up", "down"}, ConnectingAdminOp(op) PROVE ConnOwned' /\ KillIsLast'
  BY <1>7, QueuedSame DEF ConnectingAdminOp, TakeAdminOp, ChangeAdminState, CloseIfHandshake
<1>8. ASSUME NEW op \in {"up", "down"}, EstablishedAdminOp(op) PROVE ConnOwned' /\ KillIsLast'
  <2>1. outgoing' \in {outgoing, Append(outgoing, "cease")}
    BY <1>8 DEF EstablishedAdminOp, SendCease, TakeAdminOp, ChangeAdminState
  <2>2. (HoldQueued => HoldQueued') /\ (KillQueued' => KillQueued)
    BY <2>1, QueuedSame, QueuedAppend
  <2> QED
    BY <1>8, <2>2 DEF EstablishedAdminOp, SendCease, TakeAdminOp, ChangeAdminState
<1>9. CASE ActiveTakesConn
  BY <1>9, QueuedSame DEF ActiveTakesConn
<1>10. CASE HandshakeMsg
  BY <1>10, QueuedSame DEF HandshakeMsg
<1>11. CASE HandshakeReason
  BY <1>11, QueuedSame DEF HandshakeReason
<1>12. CASE HandshakeHoldTimer
  BY <1>12, QueuedSame DEF HandshakeHoldTimer
<1>13. CASE EstablishedReason
  BY <1>13 DEF EstablishedReason, KillSender, ArmRestartTimer
<1>14. CASE EstablishedHoldTimer
  <2>1. HoldQueued' /\ (KillQueued' => KillQueued)
    BY <1>14, QueuedAppend DEF EstablishedHoldTimer
  <2> QED
    BY <1>14, <2>1 DEF EstablishedHoldTimer
<1>15. CASE ReportStateChange
  BY <1>15, QueuedSame DEF ReportStateChange, TxReasons
<1>16. CASE DialConnects
  BY <1>16, QueuedSame DEF DialConnects
<1>17. CASE DialStops
  BY <1>17, QueuedSame DEF DialStops
<1>18. ASSUME NEW m \in {"expected", "unexpected", "error"}, RecvHandshakeMsg(m) PROVE ConnOwned' /\ KillIsLast'
  BY <1>18, QueuedSame DEF RecvHandshakeMsg
<1>19. ASSUME NEW m \in {"update", "eor"}, RecvUpdate(m) PROVE ConnOwned' /\ KillIsLast'
  BY <1>19, QueuedSame DEF RecvUpdate, Receiving
<1>20. CASE RecvFails
  BY <1>20, QueuedSame DEF RecvFails, OfferReason
<1>21. CASE RecvMalformed
  BY <1>21, QueuedSame DEF RecvMalformed, Receiving
<1>22. CASE RecvNotification
  BY <1>22, QueuedSame DEF RecvNotification, Receiving, OfferReason
<1>23. CASE TxSends
  <2>1. /\ KillQueued' => KillQueued
        /\ HoldQueued => Head(outgoing) = "hold" \/ HoldQueued'
    BY <1>23, QueuedTail DEF TxSends, TxTakes
  <2> QED
    BY <1>23, <2>1 DEF TxSends, TxTakes, SentReason, TxReasons
<1>24. CASE TxSendFails
  <2>1. /\ KillQueued' => KillQueued
        /\ HoldQueued => Head(outgoing) = "hold" \/ HoldQueued'
    BY <1>24, QueuedTail DEF TxSendFails, TxTakes
  <2> QED
    BY <1>24, <2>1 DEF TxSendFails, TxTakes, SentReason, TxReasons
<1>25. CASE TxKilled
  <2>1. KillQueued /\ (KillQueued' => KillQueued)
    BY <1>25, QueuedTail DEF TxKilled, TxTakes
  <2> QED
    BY <1>25, <2>1 DEF TxKilled, TxEnds
<1>26. CASE TxCtxDone
  BY <1>26, QueuedSame DEF TxCtxDone, TxEnds
<1>27. CASE TxPushesReason
  BY <1>27, QueuedSame DEF TxPushesReason, TxEnds
<1>28. CASE TxKeepaliveFails
  BY <1>28, QueuedSame DEF TxKeepaliveFails, TxReasons
<1>29. CASE GracefulPeerDown
  <2>1. ~KillQueued'
    BY <1>29, QueuedFresh DEF GracefulPeerDown, NextHandler
  <2> QED
    BY <1>29, <2>1, StateChangeFacts DEF GracefulPeerDown, NextHandler, ClearCounter, StartHandler, States
<1>30. CASE PeerDown
  <2>1. ~KillQueued'
    BY <1>30, QueuedFresh DEF PeerDown, NextHandler, DropDynamicPeer
  <2>2. CASE DropDynamicPeer
    BY <1>30, <2>1, <2>2, StateChangeFacts DEF PeerDown, DropDynamicPeer, States
  <2>3. CASE NextHandler(exit.next)
    BY <1>30, <2>1, <2>3, StateChangeFacts DEF PeerDown, NextHandler, ClearCounter, StartHandler, States
  <2> QED
    BY <1>30, <2>2, <2>3 DEF PeerDown
<1>31. CASE RestartEnds
  <2>1. ~KillQueued'
    BY <1>31, QueuedFresh DEF RestartEnds, NextHandler, DropDynamicPeer
  <2>2. CASE DropDynamicPeer
    BY <1>31, <2>1, <2>2, StateChangeFacts DEF RestartEnds, DropDynamicPeer, States
  <2>3. CASE NextHandler(exit.next)
    BY <1>31, <2>1, <2>3, StateChangeFacts DEF RestartEnds, NextHandler, ClearCounter, StartHandler, States
  <2> QED
    BY <1>31, <2>2, <2>3 DEF RestartEnds
<1>32. CASE OtherStateChange
  <2>1. ~KillQueued'
    BY <1>32, QueuedFresh DEF OtherStateChange, NextHandler
  <2> QED
    BY <1>32, <2>1, StateChangeFacts DEF OtherStateChange, NextHandler, ClearCounter, StartHandler, States
<1>33. CASE HandleUpdate
  <2>1. outgoing' \in {outgoing, Append(outgoing, "prefixLimit")}
    BY <1>33 DEF HandleUpdate
  <2>2. (HoldQueued => HoldQueued') /\ (KillQueued' => KillQueued)
    BY <2>1, QueuedSame, QueuedAppend
  <2> QED
    BY <1>33, <2>2 DEF HandleUpdate
<1>34. CASE HandleEor
  BY <1>34, QueuedSame DEF HandleEor, PeerRestarting
<1>35. CASE HandleMalformed
  <2>1. outgoing' \in {outgoing, Append(outgoing, "error")}
    BY <1>35 DEF HandleMalformed
  <2>2. (HoldQueued => HoldQueued') /\ (KillQueued' => KillQueued)
    BY <2>1, QueuedSame, QueuedAppend
  <2> QED
    BY <1>35, <2>2 DEF HandleMalformed
<1>36. CASE FreeHandler
  <2>1. ~KillQueued'
    BY <1>36, QueuedFresh DEF FreeHandler
  <2> QED
    BY <1>36, <2>1 DEF FreeHandler
<1>37. CASE PassConn
  BY <1>37, QueuedSame DEF PassConn
<1>38. CASE DeleteNeighbor
  BY <1>38, QueuedSame DEF DeleteNeighbor, PeerRestarting, Live
<1>39. ASSUME NEW op \in {"up", "down"}, SetAdminState(op) PROVE ConnOwned' /\ KillIsLast'
  BY <1>39, QueuedSame DEF SetAdminState
<1>40. ASSUME NEW m \in {"update", "cease"}, SendToPeer(m) PROVE ConnOwned' /\ KillIsLast'
  <2>1. (HoldQueued => HoldQueued') /\ (KillQueued' => KillQueued)
    BY <1>40, QueuedAppend DEF SendToPeer
  <2> QED
    BY <1>40, <2>1 DEF SendToPeer
<1>41. CASE PeerCloses
  BY <1>41, QueuedSame DEF PeerCloses
<1>42. CASE GrTimerFires
  BY <1>42, QueuedSame DEF GrTimerFires
<1>43. CASE UNCHANGED vars
  BY <1>43, QueuedSame
<1> QED
  BY <1>1, <1>2, <1>3, <1>4, <1>5, <1>6, <1>7, <1>8, <1>9, <1>10, <1>11, <1>12, <1>13,
     <1>14, <1>15, <1>16, <1>17, <1>18, <1>19, <1>20, <1>21, <1>22, <1>23, <1>24, <1>25,
     <1>26, <1>27, <1>28, <1>29, <1>30, <1>31, <1>32, <1>33, <1>34, <1>35, <1>36, <1>37,
     <1>38, <1>39, <1>40, <1>41, <1>42, <1>43
  DEF Next, HandlerStep, RecvStep, TxStep, ServerStep, HandleStateChange, ApiStep, Finished

-----------------------------------------------------------------------------
\* The routes of a restarting peer

\* Stale routes keep something that will remove them.
LEMMA RetentionStep ==
  ASSUME TypeOK, Control, SessionMessagesInOrder, Retained, [Next]_vars
  PROVE  Retained'
<1> USE DEF Control, Returns, SessionStateKnown, Handshake, Retained, Retention, RetentionBounded,
            NoRoutesWithoutSession, TypeOK, Selecting, Leave, NoExit,
            vars, handlerVars, connVars, goVars, queueVars, adminVars, grVars
<1>1. CASE CtxDone
  BY <1>1 DEF CtxDone
<1>2. CASE ReadGrTick
  BY <1>2 DEF ReadGrTick, CloseIfHandshake
<1>3. CASE CloseExtraConn
  BY <1>3 DEF CloseExtraConn
<1>4. CASE IdleHoldTimerExpired
  BY <1>4 DEF IdleHoldTimerExpired, MayLeaveIdle
<1>5. CASE RedundantAdminOp
  BY <1>5 DEF RedundantAdminOp
<1>6. ASSUME NEW op \in {"up", "down"}, IdleAdminOp(op) PROVE Retained'
  BY <1>6 DEF IdleAdminOp, IdleTimerAfter, TakeAdminOp, ChangeAdminState
<1>7. ASSUME NEW op \in {"up", "down"}, ConnectingAdminOp(op) PROVE Retained'
  BY <1>7 DEF ConnectingAdminOp, TakeAdminOp, ChangeAdminState, CloseIfHandshake
<1>8. ASSUME NEW op \in {"up", "down"}, EstablishedAdminOp(op) PROVE Retained'
  BY <1>8 DEF EstablishedAdminOp, SendCease, TakeAdminOp, ChangeAdminState
<1>9. CASE ActiveTakesConn
  BY <1>9 DEF ActiveTakesConn
<1>10. CASE HandshakeMsg
  <2>1. gr'.restarting = gr.restarting
    BY <1>10 DEF HandshakeMsg, NegotiateGr
  <2> QED
    BY <1>10, <2>1 DEF HandshakeMsg
<1>11. CASE HandshakeReason
  <2>1. Head(reasonCh) # "gracefulRestart"
    BY <1>11 DEF HandshakeReason, TxReasons, RecvReasons
  <2> QED
    BY <1>11, <2>1 DEF HandshakeReason
<1>12. CASE HandshakeHoldTimer
  BY <1>12 DEF HandshakeHoldTimer
<1>13. CASE EstablishedReason
  <2>0. Head(reasonCh) \in TxReasons \cup RecvReasons
    BY <1>13 DEF EstablishedReason, KillSender, ArmRestartTimer
  <2>1. Head(reasonCh) # "gracefulRestart"
    BY <2>0 DEF TxReasons, RecvReasons
  <2> QED
    BY <1>13, <2>1 DEF EstablishedReason, KillSender, ArmRestartTimer
<1>14. CASE EstablishedHoldTimer
  BY <1>14 DEF EstablishedHoldTimer
<1>15. CASE ReportStateChange
  BY <1>15 DEF ReportStateChange
<1>16. CASE DialConnects
  BY <1>16 DEF DialConnects
<1>17. CASE DialStops
  BY <1>17 DEF DialStops
<1>18. ASSUME NEW m \in {"expected", "unexpected", "error"}, RecvHandshakeMsg(m) PROVE Retained'
  BY <1>18 DEF RecvHandshakeMsg
<1>19. ASSUME NEW m \in {"update", "eor"}, RecvUpdate(m) PROVE Retained'
  BY <1>19 DEF RecvUpdate, Receiving
<1>20. CASE RecvFails
  BY <1>20 DEF RecvFails, OfferReason
<1>21. CASE RecvMalformed
  BY <1>21 DEF RecvMalformed, Receiving
<1>22. CASE RecvNotification
  BY <1>22 DEF RecvNotification, Receiving, OfferReason
<1>23. CASE TxSends
  BY <1>23 DEF TxSends, TxTakes, StayIdleIfPrefixLimit, ChangeAdminState, SentReason
<1>24. CASE TxSendFails
  BY <1>24 DEF TxSendFails, TxTakes, StayIdleIfPrefixLimit, ChangeAdminState
<1>25. CASE TxKilled
  BY <1>25 DEF TxKilled, TxTakes, TxEnds
<1>26. CASE TxCtxDone
  BY <1>26 DEF TxCtxDone, TxEnds
<1>27. CASE TxPushesReason
  BY <1>27 DEF TxPushesReason, TxEnds
<1>28. CASE TxKeepaliveFails
  BY <1>28 DEF TxKeepaliveFails
<1>29. CASE GracefulPeerDown
  <2>1. gr'.restarting = TRUE /\ "current" \notin rib'
    BY <1>29, PeerRestartingType DEF GracefulPeerDown, StaleAll, GrType
  <2>2. exit' = NoExit /\ life' = "live" /\ exit.next = "IDLE" /\ state' = "IDLE"
    BY <1>29, StateChangeFacts DEF GracefulPeerDown, NextHandler, ClearCounter, StartHandler
  <2>3. grTimer' = grTimer /\ grTick' = grTick
    BY <1>29, <2>2 DEF GracefulPeerDown, NextHandler, ClearCounter, StartHandler
  <2>4. grTimer = "armed" \/ grTick # "none"
    BY <1>29 DEF GracefulPeerDown
  <2> QED
    BY <2>1, <2>2, <2>3, <2>4
<1>30. CASE PeerDown
  <2>1. rib' = {} /\ exit.reason # "gracefulRestart"
    BY <1>30 DEF PeerDown
  <2>2. exit' = exit \/ exit' = NoExit
    BY <1>30 DEF PeerDown, DropDynamicPeer, NextHandler, ClearCounter, StartHandler
  <2> QED
    BY <2>1, <2>2
<1>31. CASE RestartEnds
  <2>1. rib' = {} /\ exit.reason # "gracefulRestart"
    BY <1>31 DEF RestartEnds
  <2>2. exit' = exit \/ exit' = NoExit
    BY <1>31 DEF RestartEnds, DropDynamicPeer, NextHandler, ClearCounter, StartHandler
  <2> QED
    BY <2>1, <2>2
<1>32. CASE OtherStateChange
  <2>1. gr' = gr /\ rib' = rib /\ life' = life /\ exit' = NoExit /\ state' = exit.next
    BY <1>32 DEF OtherStateChange, NextHandler, ClearCounter, StartHandler
  <2>2. state' # "ESTABLISHED" => grTimer' = grTimer /\ grTick' = grTick
    BY <1>32, <2>1 DEF OtherStateChange, NextHandler, ClearCounter, StartHandler
  <2>3. ~NextStateIdle /\ state # "ESTABLISHED"
    BY <1>32 DEF OtherStateChange
  <2> QED
    BY <2>1, <2>2, <2>3 DEF NextStateIdle
<1>33. CASE HandleUpdate
  BY <1>33 DEF HandleUpdate
<1>34. CASE HandleEor
  <2>1. rib' \in SUBSET rib
    BY <1>34 DEF HandleEor
  <2>2. \/ gr' = gr /\ rib' = rib
        \/ "stale" \notin rib' /\ state = "ESTABLISHED"
    BY <1>34 DEF HandleEor
  <2> QED
    BY <1>34, <2>1, <2>2 DEF HandleEor
<1>35. CASE HandleMalformed
  BY <1>35 DEF HandleMalformed
<1>36. CASE FreeHandler
  BY <1>36 DEF FreeHandler
<1>37. CASE PassConn
  BY <1>37 DEF PassConn
<1>38. CASE DeleteNeighbor
  BY <1>38 DEF DeleteNeighbor, PeerRestarting, Live
<1>39. ASSUME NEW op \in {"up", "down"}, SetAdminState(op) PROVE Retained'
  BY <1>39 DEF SetAdminState
<1>40. ASSUME NEW m \in {"update", "cease"}, SendToPeer(m) PROVE Retained'
  BY <1>40 DEF SendToPeer
<1>41. CASE PeerCloses
  BY <1>41 DEF PeerCloses
<1>42. CASE GrTimerFires
  BY <1>42 DEF GrTimerFires
<1>43. CASE UNCHANGED vars
  BY <1>43
<1> QED
  BY <1>1, <1>2, <1>3, <1>4, <1>5, <1>6, <1>7, <1>8, <1>9, <1>10, <1>11, <1>12, <1>13,
     <1>14, <1>15, <1>16, <1>17, <1>18, <1>19, <1>20, <1>21, <1>22, <1>23, <1>24, <1>25,
     <1>26, <1>27, <1>28, <1>29, <1>30, <1>31, <1>32, <1>33, <1>34, <1>35, <1>36, <1>37,
     <1>38, <1>39, <1>40, <1>41, <1>42, <1>43
  DEF Next, HandlerStep, RecvStep, TxStep, ServerStep, HandleStateChange, ApiStep, Finished

-----------------------------------------------------------------------------
\* The theorems

LEMMA InitIInv == Init => IInv
<1> SUFFICES ASSUME Init PROVE IInv
  OBVIOUS
<1>1. TypeOK
  BY InitType
<1>2. Control
  BY DEF Init, Control, Helpers, HelpersEnded, Returns, Enabled, EnabledIdleHasTimer,
         SessionStateKnown, Selecting, Handshake, NoExit
<1>3. SessionMessagesInOrder /\ ConnOwned /\ KillIsLast
  BY DEF Init, SessionMessagesInOrder, ConnOwned, KillIsLast, KillQueued, Handshake, NoExit
<1>4. Retained
  BY DEF Init, Retained, Retention, RetentionBounded, NoRoutesWithoutSession, NoExit
<1> QED
  BY <1>1, <1>2, <1>3, <1>4 DEF IInv

LEMMA TypeStep == ASSUME TypeOK, Control, SessionMessagesInOrder, [Next]_vars PROVE TypeOK'
  BY HandlerType, GoroutineType, ServerType, ApiType DEF Next, Control

LEMMA NextIInv == IInv /\ [Next]_vars => IInv'
<1> SUFFICES ASSUME IInv, [Next]_vars PROVE IInv'
  OBVIOUS
<1>1. TypeOK'
  BY TypeStep DEF IInv
<1>2. Control'
  BY ControlStep DEF IInv
<1>3. SessionMessagesInOrder'
  BY OrderStep DEF IInv
<1>4. ConnOwned' /\ KillIsLast'
  BY ConnStep DEF IInv
<1>5. Retained'
  BY RetentionStep DEF IInv
<1> QED
  BY <1>1, <1>2, <1>3, <1>4, <1>5 DEF IInv

\* The inductive invariant holds of every neighbor, whatever its configuration and however
\* long its queues grow: each state function, its goroutines, the server goroutine and the
\* peer together keep it.
THEOREM IInvHolds == Spec => []IInv
  BY InitIInv, NextIInv, PTL DEF Spec

\* Type correctness: fsm.go and server.go only ever put these values in the FSM's state.
THEOREM TypeCorrect == Spec => []TypeOK
<1>1. IInv => TypeOK
  BY DEF IInv
<1> QED
  BY <1>1, IInvHolds, PTL

\* loop sends fsmMsgStateChange after wg.Wait: the messages the server goroutine handles
\* never come from a session that it has already taken down.
THEOREM MessagesInOrder == Spec => []SessionMessagesInOrder
<1>1. IInv => SessionMessagesInOrder
  BY DEF IInv
<1> QED
  BY <1>1, IInvHolds, PTL

\* The panics ("code logic bug") of active, opensent and openconfirm cannot be reached.
THEOREM LogicBugUnreachable == Spec => []NoLogicBug
<1>1. IInv => NoLogicBug
  BY DEF IInv, Control, Enabled, Returns, NoLogicBug, NoExit
<1> QED
  BY <1>1, IInvHolds, PTL

\* However a session or a handshake ends, its connection is closed when idle or active runs.
THEOREM ConnectionReleased == Spec => []ConnReleased
<1>1. IInv => ConnReleased
  BY DEF IInv, Control, Returns, ConnOwned, ConnReleased, NoExit, Handshake
<1> QED
  BY <1>1, IInvHolds, PTL

\* Routes kept as stale by handleFSMMessage never lose what will remove them.
THEOREM RetentionIsBounded == Spec => []RetentionSound
<1>1. IInv => RetentionSound
  BY DEF IInv, Retained, RetentionSound
<1> QED
  BY <1>1, IInvHolds, PTL

\* The old state that handleFSMMessage takes from pConf.State is right about sessions: every
\* session that ends is cleaned up as one, although an administratively down peer's
\* pConf.State is wiped.
THEOREM PeerDownIsSeen == Spec => []SessionStateKnown
<1>1. IInv => SessionStateKnown
  BY DEF IInv, Control
<1> QED
  BY <1>1, IInvHolds, PTL

\* idle never waits for nothing: an enabled peer has a running idle hold timer.
THEOREM IdleIsLeft == Spec => []EnabledIdleHasTimer
<1>1. IInv => EnabledIdleHasTimer
  BY DEF IInv, Control
<1> QED
  BY <1>1, IInvHolds, PTL
=============================================================================
