------------------------------ MODULE PeerFsm ------------------------------
(***************************************************************************)
(* The BGP session of one configured neighbor: pkg/server/fsm.go together  *)
(* with the part of pkg/server/server.go and peer.go that drives it.       *)
(*                                                                         *)
(* Every FSM state is served by a fresh handler goroutine (fsmHandler.loop)*)
(* that starts the goroutines the state needs (connectLoop, recvMessage,   *)
(* recvMessageloop, sendMessageloop), selects over its channels, leaves    *)
(* with a next state, WAITS for its goroutines, and only then reports a    *)
(* fsmMsgStateChange to the server goroutine, which moves the FSM and      *)
(* starts the next handler.  The actions below interleave the handler, its *)
(* goroutines, the server goroutine, the remote peer and the timers.       *)
(***************************************************************************)
EXTENDS Integers, Sequences

CONSTANTS
  MaxOut,        \* bound: updates and admin messages queued in outgoingCh
  MaxIn,         \* bound: received messages queued in incomingCh
  Passive,       \* Transport.Config.PassiveMode: no connectLoop
  Dynamic,       \* the neighbor was created from a dynamic-neighbor prefix
  AdminDown,     \* Config.AdminDown: the neighbor starts disabled
  OpenGr,        \* what an OPEN can negotiate, a subset of GrModes
  PeerNotifies,  \* the peer may send a NOTIFICATION before it closes
  PrefixLimit    \* a prefix limit is configured

GrModes == {"none", "gr", "notification"}

ASSUME BoundsAssumption == MaxOut \in Nat /\ MaxIn \in Nat
ASSUME ConfigAssumption ==
  /\ Passive \in BOOLEAN /\ Dynamic \in BOOLEAN /\ AdminDown \in BOOLEAN
  /\ PeerNotifies \in BOOLEAN /\ PrefixLimit \in BOOLEAN
  /\ OpenGr \subseteq GrModes

VARIABLES
  state,        \* fsm.state
  sessionState, \* pConf.State.SessionState, which the server takes the old state from
  adminState,   \* fsm.adminState
  adminFlag,    \* pConf.State.AdminDown
  adminStateCh, \* fsm.adminStateCh, capacity 1
  hpc,          \* the handler goroutine: in its select loop, in wg.Wait, ended
  exit,         \* what the state function returned: next state and reason
  connCh,       \* fsm.connCh (capacity 1) holds a connection
  conn,         \* fsm.conn: no socket (or closed here), open, closed by the peer
  dial,         \* the connectLoop goroutine runs
  recv,         \* the recvMessage / recvMessageloop goroutine runs
  tx,           \* sendMessageloop: off, running, or the reason it must push
  msgCh,        \* h.msgCh of a handshake state: at most one message
  reasonCh,     \* h.stateReasonCh, capacity 2
  outgoing,     \* fsm.outgoingCh
  incoming,     \* fsm.incomingCh
  idleTimer,    \* the idle hold timer of the IDLE state is running
  gr,           \* pConf.GracefulRestart.State: Enabled, NotificationEnabled, PeerRestarting
  grTimer,      \* fsm.gracefulRestartTimer is armed
  grTick,       \* an unread tick of that timer: of the last Reset, or older
  rib,          \* which kinds of routes adjRibIn holds
  life          \* in neighborMap, cancelled, freed, or dropped as dynamic peer

handlerVars == <<hpc, exit>>
connVars    == <<connCh, conn>>
goVars      == <<dial, recv, tx, msgCh, reasonCh>>
queueVars   == <<outgoing, incoming>>
adminVars   == <<adminState, adminFlag, adminStateCh>>
grVars      == <<gr, grTimer, grTick>>
vars == <<state, sessionState, adminVars, handlerVars, connVars, goVars, queueVars,
          idleTimer, grVars, rib, life>>

States     == {"IDLE", "ACTIVE", "OPENSENT", "OPENCONFIRM", "ESTABLISHED"}
Handshake  == {"OPENSENT", "OPENCONFIRM"}
Notifies   == {"cease", "hold", "prefixLimit", "error"}
OutMsgs    == Notifies \cup {"update", "kill"}
TxReasons  == {"writeFailed", "notificationSent", "holdSent"}
RecvReasons == {"readFailed", "notificationRecv", "hardReset"}
Reasons    == TxReasons \cup RecvReasons \cup
              {"dying", "adminDown", "newConnection", "openReceived", "negotiated",
               "invalidMsg", "holdTimerExpired", "idleTimerExpired",
               "restartTimerExpired", "gracefulRestart"}
InMsgs     == {"update", "eor", "error", "stateChange"}

NoExit == [next |-> "none", reason |-> "none"]
Exits  == [next : States \cup {"DYING"}, reason : Reasons]

TypeOK ==
  /\ state \in States /\ sessionState \in States \cup {"cleared"}
  /\ adminState \in {"up", "down", "pfxCt"}
  /\ adminFlag \in BOOLEAN
  /\ adminStateCh \in {"empty", "up", "down"}
  /\ hpc \in {"select", "wait", "ended", "panic"}
  /\ exit \in Exits \cup {NoExit}
  /\ connCh \in {"empty", "full"}
  /\ conn \in {"closed", "open", "peerClosed"}
  /\ dial \in {"off", "run"} /\ recv \in {"off", "run"}
  /\ tx \in {"off", "run"} \cup TxReasons
  /\ msgCh \in {"empty", "expected", "unexpected", "error"}
  /\ reasonCh \in Seq(TxReasons \cup RecvReasons) /\ Len(reasonCh) <= 2
  /\ outgoing \in Seq(OutMsgs)
  /\ incoming \in Seq(InMsgs)
  /\ idleTimer \in {"off", "armed"} /\ grTimer \in {"off", "armed"}
  /\ gr \in [enabled : BOOLEAN, notification : BOOLEAN, restarting : BOOLEAN]
  /\ grTick \in {"none", "fresh", "stale"}
  /\ rib \in SUBSET {"current", "stale"}
  /\ life \in {"live", "cancelled", "freed", "dropped"}

-----------------------------------------------------------------------------
\* The handler goroutine (fsmHandler.loop and the function of each state)

Selecting(s) == hpc = "select" /\ state = s

\* A state function returns: its deferred cancel() and wg.Wait() come next.
Leave(next, reason) == hpc' = "wait" /\ exit' = [next |-> next, reason |-> reason]

\* changeadminState: the flag is toggled, not assigned.
ToggledFlag == ~adminFlag
ChangeAdminState(s) == adminState' = s /\ adminFlag' = ToggledFlag

LeaveConnOpen == UNCHANGED conn                               \* mutant: no conn.Close()
CloseIfHandshake == conn' = IF state \in Handshake THEN "closed" ELSE conn

\* newFSMHandler: fresh channels, and the goroutines state s starts.
StopGrTick == IF grTick = "none" THEN "none" ELSE "stale"
StartHandler(s) ==
  /\ hpc' = "select" /\ exit' = NoExit
  /\ msgCh' = "empty" /\ reasonCh' = <<>>
  /\ idleTimer' = IF s = "IDLE" THEN "armed" ELSE "off"
  /\ dial' = IF s = "ACTIVE" /\ ~Passive THEN "run" ELSE "off"
  /\ recv' = IF s \in Handshake \cup {"ESTABLISHED"} THEN "run" ELSE "off"
  /\ tx' = IF s = "ESTABLISHED" THEN "run" ELSE "off"
  /\ IF s = "ESTABLISHED"
       THEN grTimer' = "off" /\ grTick' = StopGrTick   \* Timer.Stop drains nothing
       ELSE UNCHANGED <<grTimer, grTick>>

\* mutant: the connection of a deleted neighbor is left open
CtxDoneKeepsConn ==
  /\ hpc = "select" /\ life = "cancelled"
  /\ Leave("DYING", "dying")
  /\ UNCHANGED <<state, sessionState, adminVars, connVars, goVars, queueVars, idleTimer, grVars, rib, life>>
CtxDone ==
  /\ hpc = "select" /\ life = "cancelled"
  /\ Leave("DYING", "dying")
  /\ conn' = IF state \in {"IDLE", "ACTIVE"} THEN conn ELSE "closed"
  /\ UNCHANGED <<state, sessionState, adminVars, connCh, goVars, queueVars, idleTimer, grVars, rib, life>>

\* Every state but ESTABLISHED listens to the graceful restart timer.
\* mutant: only IDLE does
ReadGrTickInIdle ==
  /\ Selecting("IDLE") /\ grTick # "none"
  /\ grTick' = "none"
  /\ IF gr.restarting THEN Leave("IDLE", "restartTimerExpired") ELSE UNCHANGED handlerVars
  /\ UNCHANGED <<state, sessionState, adminVars, connVars, goVars, queueVars, idleTimer,
                 gr, grTimer, rib, life>>
ReadGrTick ==
  /\ hpc = "select" /\ state # "ESTABLISHED" /\ grTick # "none"
  /\ grTick' = "none"
  /\ \/ gr.restarting /\ Leave("IDLE", "restartTimerExpired") /\ CloseIfHandshake
     \/ ~gr.restarting /\ UNCHANGED <<handlerVars, conn>>
  /\ UNCHANGED <<state, sessionState, adminVars, connCh, goVars, queueVars, idleTimer,
                 gr, grTimer, rib, life>>

\* Every state but ACTIVE closes a connection that arrives.
CloseExtraConn ==
  /\ hpc = "select" /\ state # "ACTIVE" /\ connCh = "full"
  /\ connCh' = "empty"
  /\ UNCHANGED <<state, sessionState, adminVars, handlerVars, conn, goVars, queueVars, idleTimer,
                 grVars, rib, life>>

AlwaysLeaveIdle == TRUE                        \* mutant: adminState is not looked at
MayLeaveIdle == adminState = "up"
IdleHoldTimerExpired ==
  /\ Selecting("IDLE") /\ idleTimer = "armed"
  /\ idleTimer' = "off"
  /\ \/ MayLeaveIdle /\ Leave("ACTIVE", "idleTimerExpired")
     \/ ~MayLeaveIdle /\ UNCHANGED handlerVars
  /\ UNCHANGED <<state, sessionState, adminVars, connVars, goVars, queueVars, grVars, rib, life>>

\* The request asks for the state the FSM already has: logged and dropped.
RedundantAdminOp ==
  /\ hpc = "select" /\ adminStateCh = adminState
  /\ adminStateCh' = "empty"
  /\ UNCHANGED <<state, sessionState, adminState, adminFlag, handlerVars, connVars, goVars, queueVars,
                 idleTimer, grVars, rib, life>>

TakeAdminOp(op) ==
  /\ hpc = "select" /\ adminStateCh = op /\ adminState # op
  /\ adminStateCh' = "empty"
  /\ ChangeAdminState(op)

IdleTimerAfterNoReset(op) == idleTimer' = "off"    \* mutant: state-up restarts no timer
IdleTimerAfter(op) == idleTimer' = IF op = "up" THEN "armed" ELSE "off"
IdleAdminOp(op) ==
  /\ state = "IDLE" /\ TakeAdminOp(op)
  /\ IdleTimerAfter(op)
  /\ UNCHANGED <<state, sessionState, handlerVars, connVars, goVars, queueVars, grVars, rib, life>>

\* ACTIVE, OPENSENT and OPENCONFIRM panic ("code logic bug") on a state-up request.
ConnectingAdminOp(op) ==
  /\ state \in Handshake \cup {"ACTIVE"} /\ TakeAdminOp(op)
  /\ \/ op = "down" /\ Leave("IDLE", "adminDown") /\ CloseIfHandshake
     \/ op = "up" /\ hpc' = "panic" /\ UNCHANGED <<exit, conn>>
  /\ UNCHANGED <<state, sessionState, connCh, goVars, queueVars, idleTimer, grVars, rib, life>>

SendNoCease == UNCHANGED outgoing                              \* mutant: nothing is sent
SendCease == Len(outgoing) < MaxOut /\ outgoing' = Append(outgoing, "cease")
EstablishedAdminOp(op) ==
  /\ state = "ESTABLISHED" /\ TakeAdminOp(op)
  /\ \/ op = "down" /\ SendCease
     \/ op = "up" /\ UNCHANGED outgoing
  /\ UNCHANGED <<state, sessionState, handlerVars, connVars, goVars, incoming, idleTimer, grVars, rib, life>>

ActiveTakesConn ==
  /\ Selecting("ACTIVE") /\ connCh = "full"
  /\ connCh' = "empty" /\ conn' = "open"
  /\ Leave("OPENSENT", "newConnection")
  /\ UNCHANGED <<state, sessionState, adminVars, goVars, queueVars, idleTimer, grVars, rib, life>>

\* The OPEN's capabilities: the GR state is switched on, never off again.
NegotiateGr(mode) ==
  gr' = [enabled      |-> gr.enabled \/ mode # "none",
         notification |-> gr.notification \/ mode = "notification",
         restarting   |-> gr.restarting]
PeerRestarting(b) ==
  gr' = [enabled |-> gr.enabled, notification |-> gr.notification, restarting |-> b]

HandshakeMsg ==
  /\ hpc = "select" /\ state \in Handshake /\ msgCh # "empty"
  /\ msgCh' = "empty"
  /\ \/ /\ msgCh = "expected" /\ state = "OPENSENT"
        /\ Leave("OPENCONFIRM", "openReceived")
        /\ \E mode \in OpenGr : NegotiateGr(mode)
        /\ UNCHANGED conn
     \/ /\ msgCh = "expected" /\ state = "OPENCONFIRM"
        /\ Leave("ESTABLISHED", "negotiated")
        /\ UNCHANGED <<conn, gr>>
     \/ /\ msgCh # "expected"
        /\ Leave("IDLE", "invalidMsg") /\ conn' = "closed"
        /\ UNCHANGED gr
  /\ UNCHANGED <<state, sessionState, adminVars, connCh, dial, recv, tx, reasonCh, queueVars, idleTimer,
                 grTimer, grTick, rib, life>>

HandshakeReason ==
  /\ hpc = "select" /\ state \in Handshake /\ reasonCh # <<>>
  /\ reasonCh' = Tail(reasonCh)
  /\ Leave("IDLE", Head(reasonCh)) /\ conn' = "closed"
  /\ UNCHANGED <<state, sessionState, adminVars, connCh, dial, recv, tx, msgCh, queueVars, idleTimer,
                 grVars, rib, life>>

HandshakeHoldTimer ==
  /\ hpc = "select" /\ state \in Handshake
  /\ Leave("IDLE", "holdTimerExpired") /\ conn' = "closed"
  /\ UNCHANGED <<state, sessionState, adminVars, connCh, goVars, queueVars, idleTimer, grVars, rib, life>>

\* established: which session losses start a graceful restart of the peer.
Graceful(reason) ==
  /\ gr.enabled
  /\ \/ gr.notification /\ reason = "notificationRecv"
     \/ reason \in {"holdSent", "readFailed", "writeFailed"}

KillNothing == UNCHANGED outgoing         \* mutant: sendMessageloop is not told to stop
KillSender  == outgoing' = Append(outgoing, "kill")

ArmNoTimer == UNCHANGED <<grTimer, grTick>>   \* mutant: the restart timer is not started
ArmRestartTimer == grTimer' = "armed" /\ grTick' = StopGrTick    \* Timer.Reset drains nothing

EstablishedReason ==
  /\ Selecting("ESTABLISHED") /\ reasonCh # <<>>
  /\ reasonCh' = Tail(reasonCh)
  /\ conn' = "closed"
  /\ KillSender
  /\ \/ /\ Graceful(Head(reasonCh))
        /\ Leave("IDLE", "gracefulRestart")
        /\ ArmRestartTimer
     \/ /\ ~Graceful(Head(reasonCh))
        /\ Leave("IDLE", Head(reasonCh))
        /\ UNCHANGED <<grTimer, grTick>>
  /\ UNCHANGED <<state, sessionState, adminVars, connCh, dial, recv, tx, msgCh, incoming, idleTimer,
                 gr, rib, life>>

\* With graceful restart the handler stays and waits for the NOTIFICATION to be sent.
EstablishedHoldTimer ==
  /\ Selecting("ESTABLISHED")
  /\ outgoing' = Append(outgoing, "hold")
  /\ \/ ~gr.enabled /\ Leave("IDLE", "holdTimerExpired")
     \/ gr.enabled /\ Len(outgoing) < MaxOut /\ UNCHANGED handlerVars
  /\ UNCHANGED <<state, sessionState, adminVars, connVars, goVars, incoming, idleTimer, grVars, rib, life>>

\* wg.Wait() of the state function, then loop reports the state change.
SendersEnded == dial = "off" /\ tx = "off"    \* mutant: the receiver is not waited for
HelpersEnded == dial = "off" /\ recv = "off" /\ tx = "off"
ReportStateChange ==
  /\ hpc = "wait" /\ HelpersEnded
  /\ hpc' = "ended"
  /\ incoming' = Append(incoming, "stateChange")
  /\ UNCHANGED <<state, sessionState, adminVars, exit, connVars, goVars, outgoing, idleTimer, grVars,
                 rib, life>>

-----------------------------------------------------------------------------
\* connectLoop, started by ACTIVE

\* The check of ctx and the send to connCh are two steps: a dial that succeeds just as the
\* handler leaves still puts its connection in the channel.  A full channel closes it.
DialConnects ==
  /\ dial = "run" /\ connCh = "empty"
  /\ dial' = "off" /\ connCh' = "full"
  /\ UNCHANGED <<state, sessionState, adminVars, handlerVars, conn, recv, tx, msgCh, reasonCh, queueVars,
                 idleTimer, grVars, rib, life>>

DialStops ==
  /\ dial = "run" /\ (hpc = "wait" \/ life = "cancelled")
  /\ dial' = "off"
  /\ UNCHANGED <<state, sessionState, adminVars, handlerVars, connVars, recv, tx, msgCh, reasonCh, queueVars,
                 idleTimer, grVars, rib, life>>

-----------------------------------------------------------------------------
\* recvMessage (one message) and recvMessageloop (until an error)

RecvHandshakeMsg(m) ==
  /\ recv = "run" /\ state \in Handshake /\ conn # "closed"
  /\ msgCh' = m /\ recv' = "off"
  /\ UNCHANGED <<state, sessionState, adminVars, handlerVars, connVars, dial, tx, reasonCh, queueVars,
                 idleTimer, grVars, rib, life>>

\* sendToStateReasonCh: a full channel drops the reason.
OfferReason(r) == reasonCh' = IF Len(reasonCh) < 2 THEN Append(reasonCh, r) ELSE reasonCh

RecvFails ==
  /\ recv = "run" /\ conn # "open"
  /\ OfferReason("readFailed") /\ recv' = "off"
  /\ UNCHANGED <<state, sessionState, adminVars, handlerVars, connVars, dial, tx, msgCh, queueVars,
                 idleTimer, grVars, rib, life>>

Receiving == recv = "run" /\ state = "ESTABLISHED" /\ conn # "closed"

RecvUpdate(m) ==
  /\ Receiving /\ Len(incoming) < MaxIn
  /\ incoming' = Append(incoming, m)
  /\ UNCHANGED <<state, sessionState, adminVars, handlerVars, connVars, goVars, outgoing, idleTimer,
                 grVars, rib, life>>

RecvMalformed ==
  /\ Receiving
  /\ incoming' = Append(incoming, "error") /\ recv' = "off"
  /\ UNCHANGED <<state, sessionState, adminVars, handlerVars, connVars, dial, tx, msgCh, reasonCh, outgoing,
                 idleTimer, grVars, rib, life>>

\* The peer closes its end after a NOTIFICATION; the loop here goes on reading.
RecvNotification ==
  /\ Receiving /\ PeerNotifies /\ conn = "open"
  /\ conn' = "peerClosed"
  /\ \/ OfferReason("notificationRecv")
     \/ gr.enabled /\ gr.notification /\ OfferReason("hardReset")
  /\ UNCHANGED <<state, sessionState, adminVars, handlerVars, connCh, dial, recv, tx, msgCh, queueVars,
                 idleTimer, grVars, rib, life>>

-----------------------------------------------------------------------------
\* sendMessageloop

SentReason(m) == IF m = "hold" THEN "holdSent" ELSE "notificationSent"

\* The prefix limit NOTIFICATION takes the peer down (StayIdle) before it is sent.
StayIdleIfPrefixLimit(m) ==
  IF m = "prefixLimit" /\ adminState # "pfxCt" THEN ChangeAdminState("pfxCt")
                                               ELSE UNCHANGED <<adminState, adminFlag>>

TxTakes(S) == tx = "run" /\ outgoing # <<>> /\ Head(outgoing) \in S /\ outgoing' = Tail(outgoing)

\* A write that succeeds; one to a connection the peer closed may.
TxSends ==
  /\ TxTakes(Notifies \cup {"update"}) /\ conn # "closed"
  /\ StayIdleIfPrefixLimit(Head(outgoing))
  /\ tx' = IF Head(outgoing) = "update" THEN "run" ELSE SentReason(Head(outgoing))
  /\ UNCHANGED <<state, sessionState, adminStateCh, handlerVars, connVars, dial, recv, msgCh, reasonCh,
                 incoming, idleTimer, grVars, rib, life>>

\* A write that fails: closed connection, reset, or the write deadline.
TxSendFails ==
  /\ TxTakes(Notifies \cup {"update"})
  /\ StayIdleIfPrefixLimit(Head(outgoing))
  /\ tx' = "writeFailed"
  /\ UNCHANGED <<state, sessionState, adminStateCh, handlerVars, connVars, dial, recv, msgCh, reasonCh,
                 incoming, idleTimer, grVars, rib, life>>

TxKeepaliveFails ==
  /\ tx = "run" /\ tx' = "writeFailed"
  /\ UNCHANGED <<state, sessionState, adminVars, handlerVars, connVars, dial, recv, msgCh, reasonCh, queueVars,
                 idleTimer, grVars, rib, life>>

TxEnds == tx' = "off" /\ UNCHANGED <<state, sessionState, adminVars, handlerVars, connCh, dial, recv,
                                     msgCh, incoming, idleTimer, grVars, rib, life>>

TxKilled == TxTakes({"kill"}) /\ TxEnds /\ UNCHANGED <<conn, reasonCh>>

TxCtxDone == tx = "run" /\ life = "cancelled" /\ TxEnds /\ UNCHANGED <<conn, reasonCh, outgoing>>

\* h.stateReasonCh <- reason blocks while the channel is full.
TxPushesReason ==
  /\ tx \in TxReasons /\ Len(reasonCh) < 2
  /\ reasonCh' = Append(reasonCh, tx) /\ conn' = "closed"
  /\ TxEnds /\ UNCHANGED outgoing

-----------------------------------------------------------------------------
\* The server goroutine: handleFSMMessage and the operations of the API

Live == life = "live"
ServerTakes(m) == Live /\ incoming # <<>> /\ Head(incoming) = m

\* A peer that is down loses all of pConf.State.
ClearCounter(next) ==
  /\ adminFlag' = (adminFlag /\ adminState # "down")
  /\ sessionState' = IF adminState = "down" THEN "cleared" ELSE next

\* The tail of the state-change handler: a new outgoing channel, with the routes of a new
\* session in it, and the handler of the next state.
NextHandler(next) ==
  /\ state' = next
  /\ incoming' = Tail(incoming)
  /\ \/ outgoing' = <<>>
     \/ next = "ESTABLISHED" /\ MaxOut > 0 /\ outgoing' = <<"update">>
  /\ ClearCounter(next)
  /\ StartHandler(next)
  /\ UNCHANGED <<adminState, adminStateCh, connVars>>

\* deleteDynamicNeighbor: out of neighborMap, both channels closed, no next handler.
DropDynamicPeer ==
  /\ life' = "dropped" /\ state' = exit.next /\ sessionState' = exit.next
  /\ PeerRestarting(FALSE)
  /\ outgoing' = <<>> /\ incoming' = <<>>
  /\ UNCHANGED <<adminVars, handlerVars, connVars, goVars, idleTimer, grTimer, grTick>>

\* forwardingPreservedFamilies: the routes are kept as stale, or dropped.
KeepAll == rib' \in {{}, rib}                   \* mutant: kept, but not marked stale
StaleAll == rib' \in {{}, IF rib = {} THEN {} ELSE {"stale"}}

GracefulPeerDown ==
  /\ ServerTakes("stateChange") /\ sessionState = "ESTABLISHED"
  /\ exit.reason = "gracefulRestart"
  /\ PeerRestarting(TRUE)
  /\ StaleAll
  /\ NextHandler(exit.next) /\ UNCHANGED life

PeerDown ==
  /\ ServerTakes("stateChange") /\ sessionState = "ESTABLISHED"
  /\ exit.reason # "gracefulRestart"
  /\ rib' = {}
  /\ \/ Dynamic /\ DropDynamicPeer
     \/ ~Dynamic /\ NextHandler(exit.next) /\ UNCHANGED <<gr, life>>

\* Any change to IDLE while the peer restarts ends the restart.
NextStateIdle == gr.restarting /\ exit.next = "IDLE"
RestartEnds ==
  /\ ServerTakes("stateChange") /\ sessionState # "ESTABLISHED" /\ NextStateIdle
  /\ rib' = {}
  /\ \/ Dynamic /\ DropDynamicPeer
     \/ ~Dynamic /\ PeerRestarting(FALSE) /\ NextHandler(exit.next) /\ UNCHANGED life

OtherStateChange ==
  /\ ServerTakes("stateChange") /\ sessionState # "ESTABLISHED" /\ ~NextStateIdle
  /\ NextHandler(exit.next)
  /\ UNCHANGED <<gr, rib, life>>

HandleUpdate ==
  /\ ServerTakes("update")
  /\ incoming' = Tail(incoming)
  /\ \/ /\ state # "ESTABLISHED"
        /\ UNCHANGED <<rib, outgoing>>
     \/ /\ state = "ESTABLISHED"
        /\ rib' \in SUBSET (rib \cup {"current"})
        /\ \/ UNCHANGED outgoing
           \/ PrefixLimit /\ Len(outgoing) < MaxOut
              /\ outgoing' = Append(outgoing, "prefixLimit")
  /\ UNCHANGED <<state, sessionState, adminVars, handlerVars, connVars, goVars, idleTimer, grVars, life>>

\* One address family: its End-of-RIB is the last one that was awaited.
HandleEor ==
  /\ ServerTakes("eor")
  /\ incoming' = Tail(incoming)
  /\ IF state = "ESTABLISHED" /\ gr.restarting
       THEN PeerRestarting(FALSE) /\ rib' = rib \ {"stale"}
       ELSE UNCHANGED <<gr, rib>>
  /\ UNCHANGED <<state, sessionState, adminVars, handlerVars, connVars, goVars, outgoing, idleTimer,
                 grTimer, grTick, life>>

HandleMalformed ==
  /\ ServerTakes("error")
  /\ incoming' = Tail(incoming)
  /\ outgoing' = Append(outgoing, "error")
  /\ UNCHANGED <<state, sessionState, adminVars, handlerVars, connVars, goVars, idleTimer, grVars, rib, life>>

\* passConnToPeer and PassConn: refused unless the peer is enabled and the channel free.
PassConn ==
  /\ Live /\ adminState = "up" /\ connCh = "empty"
  /\ connCh' = "full"
  /\ UNCHANGED <<state, sessionState, adminVars, handlerVars, conn, goVars, queueVars, idleTimer, grVars,
                 rib, life>>

\* EnablePeer, DisablePeer: a request is dropped while the previous one is unread.
SetAdminState(op) ==
  /\ Live /\ adminStateCh = "empty"
  /\ adminStateCh' = op
  /\ UNCHANGED <<state, sessionState, adminState, adminFlag, handlerVars, connVars, goVars, queueVars,
                 idleTimer, grVars, rib, life>>

\* ShutdownPeer, ResetPeer: in any state; propagateUpdate only to an ESTABLISHED peer.
SendToPeer(m) ==
  /\ Live /\ Len(outgoing) < MaxOut
  /\ m = "update" => state = "ESTABLISHED"
  /\ outgoing' = Append(outgoing, m)
  /\ UNCHANGED <<state, sessionState, adminVars, handlerVars, connVars, goVars, incoming, idleTimer, grVars,
                 rib, life>>

DeleteNeighbor ==
  /\ Live
  /\ life' = "cancelled"
  /\ PeerRestarting(FALSE) /\ rib' = {}
  /\ UNCHANGED <<state, sessionState, adminVars, handlerVars, connVars, goVars, queueVars, idleTimer,
                 grTimer, grTick>>

\* The first message of a cancelled FSM: wait for the handler, then free everything.
FreeHandler ==
  /\ life = "cancelled" /\ incoming # <<>> /\ hpc = "ended"
  /\ life' = "freed" /\ outgoing' = <<>> /\ incoming' = <<>>
  /\ UNCHANGED <<state, sessionState, adminVars, handlerVars, connVars, goVars, idleTimer, grVars, rib>>

-----------------------------------------------------------------------------
\* The remote peer and the graceful restart timer

PeerCloses ==
  /\ conn = "open" /\ conn' = "peerClosed"
  /\ UNCHANGED <<state, sessionState, adminVars, handlerVars, connCh, goVars, queueVars, idleTimer, grVars,
                 rib, life>>

GrTimerFires ==
  /\ grTimer = "armed" /\ grTimer' = "off" /\ grTick' = "fresh"
  /\ UNCHANGED <<state, sessionState, adminVars, handlerVars, connVars, goVars, queueVars, idleTimer,
                 gr, rib, life>>

Finished == life \in {"freed", "dropped"} /\ UNCHANGED vars

Init ==
  /\ state = "IDLE" /\ sessionState = "IDLE" /\ life = "live" /\ rib = {}
  /\ adminState = (IF AdminDown THEN "down" ELSE "up")
  /\ adminFlag = AdminDown /\ adminStateCh = "empty"
  /\ hpc = "select" /\ exit = NoExit
  /\ connCh = "empty" /\ conn = "closed"
  /\ dial = "off" /\ recv = "off" /\ tx = "off"
  /\ msgCh = "empty" /\ reasonCh = <<>>
  /\ outgoing = <<>> /\ incoming = <<>>
  /\ idleTimer = "armed"
  /\ gr = [enabled |-> FALSE, notification |-> FALSE, restarting |-> FALSE]
  /\ grTimer = "off" /\ grTick = "none"

HandlerStep ==
  \/ CtxDone \/ ReadGrTick \/ CloseExtraConn \/ IdleHoldTimerExpired \/ RedundantAdminOp
  \/ \E op \in {"up", "down"} : IdleAdminOp(op) \/ ConnectingAdminOp(op) \/ EstablishedAdminOp(op)
  \/ ActiveTakesConn \/ HandshakeMsg \/ HandshakeReason \/ HandshakeHoldTimer
  \/ EstablishedReason \/ EstablishedHoldTimer \/ ReportStateChange

RecvStep ==
  \/ \E m \in {"expected", "unexpected", "error"} : RecvHandshakeMsg(m)
  \/ \E m \in {"update", "eor"} : RecvUpdate(m)
  \/ RecvFails \/ RecvMalformed \/ RecvNotification

TxStep == TxSends \/ TxSendFails \/ TxKilled \/ TxCtxDone \/ TxPushesReason

HandleStateChange == GracefulPeerDown \/ PeerDown \/ RestartEnds \/ OtherStateChange

ServerStep ==
  \/ HandleStateChange \/ HandleUpdate \/ HandleEor \/ HandleMalformed \/ FreeHandler

ApiStep ==
  \/ PassConn \/ DeleteNeighbor
  \/ \E op \in {"up", "down"} : SetAdminState(op)
  \/ \E m \in {"update", "cease"} : SendToPeer(m)

Next ==
  \/ HandlerStep \/ DialConnects \/ DialStops \/ RecvStep \/ TxStep \/ TxKeepaliveFails
  \/ ServerStep \/ ApiStep \/ PeerCloses \/ GrTimerFires \/ Finished

Spec == Init /\ [][Next]_vars

(***************************************************************************)
(* Every goroutine that can go on does.  A select picks at random among    *)
(* its ready channels, so a case that stays ready is taken although others *)
(* keep coming.  No fairness is assumed of the API, of the peer, of a      *)
(* dial that succeeds or of the hold timers; the graceful restart timer    *)
(* does fire.                                                              *)
(***************************************************************************)
Fairness ==
  /\ WF_vars(CtxDone) /\ WF_vars(ReadGrTick) /\ WF_vars(EstablishedReason)
  /\ WF_vars(ReportStateChange)
  /\ WF_vars(DialStops) /\ WF_vars(RecvFails) /\ WF_vars(TxStep) /\ WF_vars(ServerStep)
  /\ WF_vars(GrTimerFires)

FairSpec == Spec /\ Fairness

-----------------------------------------------------------------------------
\* Safety

\* The report of a state change is the last message of its handler: nothing of a session
\* can follow it, and none of a session's messages is left when the next one starts.
SessionMessagesInOrder ==
  /\ \A i \in 1..Len(incoming) :
       incoming[i] = "stateChange" => i = Len(incoming) /\ hpc = "ended"
  /\ hpc = "ended" /\ life \in {"live", "cancelled"} =>
       incoming # <<>> /\ incoming[Len(incoming)] = "stateChange"
  /\ state # "ESTABLISHED" => \A i \in 1..Len(incoming) : incoming[i] = "stateChange"

\* The "code logic bug" panics of ACTIVE, OPENSENT and OPENCONFIRM are unreachable: a peer
\* that is not administratively up never gets out of IDLE.
NoLogicBug ==
  /\ hpc # "panic"
  /\ state \in Handshake \cup {"ACTIVE"} /\ hpc = "select" => adminState = "up"

\* The server knows when a session goes down, although it takes the old state from
\* pConf.State, which is wiped when a peer is administratively down.
SessionStateKnown == (sessionState = "ESTABLISHED") <=> (state = "ESTABLISHED")

\* Whichever way a session or a handshake ends, its connection is closed before the FSM
\* is back in IDLE or ACTIVE.
ConnReleased == state \in {"IDLE", "ACTIVE"} /\ hpc = "select" => conn = "closed"

\* Routes retained over a restart always have something that will remove them: the timer,
\* its tick, or a change to IDLE on its way to the server.
RetentionBounded ==
  "stale" \in rib /\ state # "ESTABLISHED" =>
    /\ gr.restarting
    /\ grTimer = "armed" \/ grTick # "none" \/ (hpc # "select" /\ exit.next = "IDLE")

\* Without a session only stale routes are kept.
NoRoutesWithoutSession == state # "ESTABLISHED" => "current" \notin rib

\* What is kept of a lost session is marked, and will be removed (handleFSMMessage,
\* stopPeerRestarting).
RetentionSound == RetentionBounded /\ NoRoutesWithoutSession

\* An enabled peer waiting in IDLE has a running timer that will take it to ACTIVE.
EnabledIdleHasTimer == Selecting("IDLE") /\ adminState = "up" => idleTimer = "armed"

-----------------------------------------------------------------------------
\* Liveness

\* A handler that has left its select loop reports the state change: its goroutines end
\* (here while the neighbor is configured; DeletedIsFreed is about its deletion).
HandlerReports == (hpc = "wait" /\ Live) ~> (hpc # "wait" \/ ~Live)

\* A deleted neighbor is freed by the server, which waits for the neighbor's handler.
DeletedIsFreed == life = "cancelled" ~> life = "freed"

\* ... and it is, unless the hold timer of its session has expired as well.
DeletedIsFreedOrHeld ==
  life = "cancelled" ~> (life = "freed" \/ exit.reason = "holdTimerExpired")

\* A disabled peer gets to IDLE, unless it is enabled again or deleted.
DisabledGoesIdle ==
  adminState = "down" ~> (state = "IDLE" \/ adminState # "down" \/ life # "live")

\* If the session never comes back, the stale routes go.
StaleRoutesGo == <>[](state # "ESTABLISHED") => <>[]("stale" \notin rib)

\* RFC 4724 4.2 as the comment in handleFSMMessage quotes it: routes are given up when the
\* restart time has passed, that is on the tick of the timer's last Reset.
ExpiryIsOfThisRestart ==
  [][exit' # exit /\ exit'.reason = "restartTimerExpired" => grTick = "fresh"]_vars
=============================================================================
