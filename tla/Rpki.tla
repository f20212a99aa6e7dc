-------------------------------- MODULE Rpki --------------------------------
(***************************************************************************)
(* Origin validation: the ROA table and the manager that keeps it in step   *)
(* with an RTR cache. The manager runs in the server's loop; a client has a *)
(* goroutine that dials, one that reads what the cache sends, and timers,   *)
(* which all talk to the loop over one unbuffered channel. The cache is     *)
(* external: it has a session, a version of its ROAs, and answers queries.  *)
(***************************************************************************)
EXTENDS Integers, Sequences

CONSTANTS
  Roas,         \* the ROAs a cache may have
  Modulus,      \* serial numbers are taken modulo this (2^32 in the code)
  MaxChanges,   \* bounds: versions of the cache's ROAs, ...
  MaxRestarts,  \* ... restarts of the cache, ...
  MaxLosses,    \* ... lost or closed connections ...
  MaxRequests   \* ... and requests of the API

ASSUME BoundsAssumption == MaxChanges \in Nat
ASSUME ModulusAssumption == Modulus \in Nat /\ Modulus > 2 * MaxChanges

VARIABLES
  \* the cache (external)
  session, history,  \* its session, and the versions of its ROAs in it, the last one the present
  queries, wire,     \* what it has not read and what the client has not read
  \* the client (roaClient) and its entries in the ROA table
  phase,             \* "dialing", "connected", "reading" or "closed" (and not yet noticed)
  sessionID, oldSessionID, serialNumber, endOfData, pendingROAs,
  table,             \* its ROAs in the table
  timer,             \* client.timer: "none", "running" or "fired"
  forgotten,         \* timers that run although client.timer was overwritten
  due,               \* timers that have fired, and whose event the loop has not taken
  spoiled,           \* since the last answer to a reset query a timer has emptied the table, or the
                     \* differences from a version have come that is not the client's
  changes, restarts, losses, requests

cache == <<session, history>>
client == <<sessionID, oldSessionID, serialNumber, endOfData, pendingROAs>>
timers == <<timer, forgotten, due>>
bounds == <<changes, restarts, losses, requests>>
vars == <<cache, queries, wire, phase, client, table, timers, spoiled, bounds>>

Serial(n) == (Modulus - 1 + n) % Modulus    \* of the n-th version
Present == Len(history)
Connected == phase \in {"connected", "reading"}

Init ==
  /\ session = 1 /\ history \in {<<rs>> : rs \in SUBSET Roas}
  /\ queries = <<>> /\ wire = <<>>
  /\ phase = "dialing"
  /\ sessionID = 0 /\ oldSessionID = 0 /\ serialNumber = 0
  /\ endOfData = FALSE /\ pendingROAs = {}
  /\ table = {}
  /\ timer = "none" /\ forgotten = 0 /\ due = 0 /\ spoiled = FALSE
  /\ changes = 0 /\ restarts = 0 /\ losses = 0 /\ requests = 0

-----------------------------------------------------------------------------
(* The cache *)

\* Its ROAs change; it may tell the client so (not more than once in a while).
CacheChange ==
  /\ changes < MaxChanges /\ changes' = changes + 1
  /\ \E rs \in (SUBSET Roas) \ {history[Present]} : history' = Append(history, rs)
  /\ \/ wire' = wire
     \/ phase = "reading" /\ wire' = Append(wire, [type |-> "notify", serial |-> Serial(Present + 1)])
  /\ UNCHANGED <<session, queries, phase, client, table, timers, spoiled, restarts, losses, requests>>

\* It starts again with a new session and loses its connections.
CacheRestart ==
  /\ restarts < MaxRestarts /\ restarts' = restarts + 1
  /\ session' = session + 1 /\ history' \in {<<rs>> : rs \in SUBSET Roas}
  /\ phase' = IF phase = "dialing" THEN phase ELSE "closed"
  /\ queries' = <<>>
  /\ UNCHANGED <<wire, client, table, timers, spoiled, changes, losses, requests>>

\* An answer that takes a client to the present version: a response, the withdrawn and the announced
\* prefixes in any order, and the end of the data. The client reads them one by one: begun, dels and
\* adds say what is left. (It is not told if the answer is a full one, or from which version it leads.)
Answer(full, from, dels, adds) ==
  [type |-> "answer", begun |-> FALSE, dels |-> dels, adds |-> adds,
   full |-> full, from |-> from, session |-> session, serial |-> Serial(Present)]

\* It answers a reset query with all ROAs, a serial query of its session with the differences, and
\* any other query with a cache reset.
CacheAnswer ==
  LET q == Head(queries)
      now == history[Present]
      known == {n \in 1..Present : Serial(n) = q.serial}
  IN /\ queries # <<>> /\ phase = "reading"
     /\ queries' = Tail(queries)
     /\ wire' = Append(wire,
          IF q.type = "reset" THEN Answer(TRUE, 0, {}, now)
          ELSE IF q.session = session /\ known # {}
          THEN LET then == history[CHOOSE n \in known : TRUE]
               IN Answer(FALSE, q.serial, then \ now, now \ then)
          ELSE [type |-> "cacheReset"])
     /\ UNCHANGED <<cache, phase, client, table, timers, spoiled, bounds>>

-----------------------------------------------------------------------------
(* The client *)

\* softReset asks for everything and forgets what is half received; on a closed connection the
\* write fails and nothing happens.
SoftReset ==
  /\ queries' = IF Connected THEN Append(queries, [type |-> "reset"]) ELSE queries
  /\ endOfData' = (endOfData /\ ~Connected)
  /\ pendingROAs' = IF Connected THEN {} ELSE pendingROAs
  /\ UNCHANGED <<sessionID, oldSessionID, serialNumber>>

\* enable asks for what is new.
SerialQuery ==
  /\ queries' = IF Connected
                THEN Append(queries, [type |-> "serial", session |-> sessionID, serial |-> serialNumber])
                ELSE queries
  /\ UNCHANGED client

\* tryConnect gets through and the loop starts the reader, ...
RoaConnected ==
  /\ phase = "dialing"
  /\ phase' = "connected"
  /\ queries' = <<>> /\ wire' = <<>>
  /\ UNCHANGED <<cache, client, table, timers, spoiled, bounds>>

\* ... which begins with a reset query.
Established ==
  /\ phase = "connected"
  /\ phase' = "reading"
  /\ SoftReset
  /\ UNCHANGED <<cache, wire, table, timers, spoiled, bounds>>

\* The connection is lost.
Lose ==
  /\ phase \in {"connected", "reading"} /\ losses < MaxLosses
  /\ losses' = losses + 1
  /\ phase' = "closed"
  /\ UNCHANGED <<cache, queries, wire, client, table, timers, spoiled, changes, restarts, requests>>

\* A disconnection that does not note the session the ROAs are of.
RoaDisconnectedUnnoted ==
  /\ phase = "closed"
  /\ phase' = "dialing"
  /\ queries' = <<>> /\ wire' = <<>>
  /\ endOfData' = FALSE /\ pendingROAs' = {}
  /\ timer' = "running"
  /\ forgotten' = IF timer = "running" THEN forgotten + 1 ELSE forgotten
  /\ UNCHANGED <<cache, sessionID, oldSessionID, serialNumber, table, due, spoiled, bounds>>

\* roaDisconnected: the client dials again and the ROAs are kept for its lifetime. A timer that
\* still runs from an earlier loss is overwritten, not stopped.
RoaDisconnected ==
  /\ phase = "closed"
  /\ phase' = "dialing"
  /\ queries' = <<>> /\ wire' = <<>>
  /\ endOfData' = FALSE /\ pendingROAs' = {}
  /\ oldSessionID' = sessionID
  /\ timer' = "running"
  /\ forgotten' = IF timer = "running" THEN forgotten + 1 ELSE forgotten
  /\ UNCHANGED <<cache, sessionID, serialNumber, table, due, spoiled, bounds>>

\* The lifetime of the ROAs is over; of several timers the oldest fires first.
TimerFires ==
  /\ timer = "running" \/ forgotten > 0
  /\ IF forgotten > 0 THEN forgotten' = forgotten - 1 /\ timer' = timer
     ELSE forgotten' = forgotten /\ timer' = "fired"
  /\ due' = due + 1
  /\ UNCHANGED <<cache, queries, wire, phase, client, table, spoiled, bounds>>

\* roaLifetimeout: unless the session is another one by now, all ROAs go.
RoaLifetimeout ==
  /\ due > 0
  /\ due' = due - 1
  /\ table' = IF oldSessionID = sessionID THEN {} ELSE table
  /\ spoiled' = (spoiled \/ oldSessionID = sessionID)
  /\ UNCHANGED <<cache, queries, wire, phase, client, timer, forgotten, bounds>>

\* before(a, b): serial number arithmetic
Before(a, b) == (a - b) % Modulus >= Modulus \div 2

SerialNotify(m) ==
  /\ IF Before(serialNumber, m.serial) THEN SerialQuery
     ELSE IF serialNumber = m.serial THEN UNCHANGED <<queries, client>>
     ELSE SoftReset
  /\ UNCHANGED <<table, timers, spoiled>>

CacheResponse ==
  /\ endOfData' = FALSE
  /\ UNCHANGED <<queries, sessionID, oldSessionID, serialNumber, pendingROAs, table, timers, spoiled>>

\* An announced ROA waits for the end of the data; a withdrawn one goes at once.
IPPrefix(roa, announce) ==
  /\ pendingROAs' = IF announce /\ ~endOfData THEN pendingROAs \cup {roa} ELSE pendingROAs
  /\ table' = CASE announce /\ endOfData -> table \cup {roa}
                [] announce /\ ~endOfData -> table
                [] OTHER -> table \ {roa}
  /\ UNCHANGED <<queries, sessionID, oldSessionID, serialNumber, endOfData, timers, spoiled>>

\* The end of the data with its two steps swapped.
EndOfDataSwapped(m) ==
  /\ table' = IF sessionID # m.session THEN {} ELSE table \cup pendingROAs
  /\ sessionID' = m.session /\ serialNumber' = m.serial
  /\ endOfData' = TRUE /\ pendingROAs' = {}
  /\ timer' = "none"
  /\ spoiled' = (~m.full /\ (spoiled \/ m.from # serialNumber))
  /\ UNCHANGED <<queries, oldSessionID, forgotten, due>>

\* The ROAs of another session go, those that waited come, and the timer is stopped. (One that has
\* fired, or was overwritten, is not.)
EndOfData(m) ==
  /\ table' = (IF sessionID # m.session THEN {} ELSE table) \cup pendingROAs
  /\ sessionID' = m.session /\ serialNumber' = m.serial
  /\ endOfData' = TRUE /\ pendingROAs' = {}
  /\ timer' = "none"
  /\ spoiled' = (~m.full /\ (spoiled \/ m.from # serialNumber))
  /\ UNCHANGED <<queries, oldSessionID, forgotten, due>>

\* handleRTRMsg: what the client reads of what is on the wire, ...
ReadAnswer(m) ==
  \/ /\ ~m.begun /\ CacheResponse
     /\ wire' = [wire EXCEPT ![1].begun = TRUE]
  \/ \E r \in m.dels :
       /\ m.begun /\ IPPrefix(r, FALSE)
       /\ wire' = [wire EXCEPT ![1].dels = @ \ {r}]
  \/ \E r \in m.adds :
       /\ m.begun /\ IPPrefix(r, TRUE)
       /\ wire' = [wire EXCEPT ![1].adds = @ \ {r}]
  \/ /\ m.begun /\ m.dels \cup m.adds = {} /\ EndOfData(m)
     /\ wire' = Tail(wire)

ReadNotify(m) == SerialNotify(m) /\ wire' = Tail(wire)

ReadCacheReset == SoftReset /\ wire' = Tail(wire) /\ UNCHANGED <<table, timers, spoiled>>

\* ... one PDU at a time.
RoaRTR ==
  LET m == Head(wire)
  IN /\ phase = "reading" /\ wire # <<>>
     /\ \/ m.type = "answer" /\ ReadAnswer(m)
        \/ m.type = "notify" /\ ReadNotify(m)
        \/ m.type = "cacheReset" /\ ReadCacheReset
     /\ UNCHANGED <<cache, phase, bounds>>

\* The API. EnableRpki asks for what is new; DisableRpki and a hard reset close the connection, and
\* delete the ROAs of a source named without its port, that is none; a soft reset deletes all.
Enable == SerialQuery /\ UNCHANGED <<phase, table, spoiled>>

Disable ==
  /\ phase' = IF Connected THEN "closed" ELSE phase
  /\ UNCHANGED <<queries, client, table, spoiled>>

SoftResetServer == SoftReset /\ table' = {} /\ UNCHANGED <<phase, spoiled>>

Request ==
  /\ requests < MaxRequests /\ requests' = requests + 1
  /\ Enable \/ Disable \/ SoftResetServer
  /\ UNCHANGED <<cache, wire, timers, changes, restarts, losses>>

Next ==
  \/ CacheChange \/ CacheRestart \/ CacheAnswer
  \/ RoaConnected \/ Established \/ Lose \/ RoaDisconnected \/ RoaRTR
  \/ TimerFires \/ RoaLifetimeout
  \/ Request

Spec == Init /\ [][Next]_vars

\* Timers fire and the loop takes every event it is offered.
FairSpec ==
  /\ Spec
  /\ WF_vars(TimerFires) /\ WF_vars(RoaLifetimeout)
  /\ WF_vars(RoaDisconnected) /\ WF_vars(RoaRTR)

-----------------------------------------------------------------------------
Queries == [type : {"reset"}] \cup [type : {"serial"}, session : Nat, serial : Nat]
Pdus == [type : {"notify"}, serial : Nat] \cup [type : {"cacheReset"}]
          \cup [type : {"answer"}, begun : BOOLEAN, dels : SUBSET Roas, adds : SUBSET Roas,
                full : BOOLEAN, from : Nat, session : Nat, serial : Nat]

TypeOK ==
  /\ session \in Nat \ {0} /\ history \in Seq(SUBSET Roas) /\ Present \in 1..(changes + 1)
  /\ queries \in Seq(Queries) /\ wire \in Seq(Pdus)
  /\ phase \in {"dialing", "connected", "reading", "closed"}
  /\ sessionID \in Nat /\ oldSessionID \in Nat /\ serialNumber \in Nat
  /\ endOfData \in BOOLEAN /\ spoiled \in BOOLEAN
  /\ pendingROAs \subseteq Roas /\ table \subseteq Roas
  /\ timer \in {"none", "running", "fired"} /\ forgotten \in Nat /\ due \in Nat
  /\ changes \in 0..MaxChanges /\ restarts \in Nat /\ losses \in Nat /\ requests \in Nat

\* The client has all that the cache has sent.
Synced ==
  /\ phase = "reading" /\ queries = <<>> /\ wire = <<>> /\ endOfData
  /\ sessionID = session /\ serialNumber = Serial(Present)

\* A client that has heard all the cache has to say holds every ROA of the cache, whatever mixture of
\* full and incremental answers, lost connections and requests brought it there. (Two things can take
\* ROAs from it until the next full answer: a timer that nobody stopped, and, of two queries that are
\* under way at a time, the second one, whose answer leads from a version the client has left.)
RoasComplete == Synced /\ ~spoiled => history[Present] \subseteq table

\* What serial queries are for: a client that has heard all is complete, if it has had one connection
\* only since it knows a session of the cache.
IncrementsAddUp == Synced /\ oldSessionID = 0 => history[Present] \subseteq table

\* The ROAs of a cache that does not come back are dropped in the end.
RoasExpire == <>[](phase = "dialing") => <>[](table = {})

\* rpki.go:187, of a timer that fires: "already reconnected and received EndOfData so all stale ROAs
\* were deleted": a client that is in step holds no ROA the cache does not have.
StaleRoasGo == Synced => table \subseteq history[Present]

\* "... timer was cancelled so should not be here": no timer's event is taken after the end of the
\* data.
TimerWasCancelled == [][due' < due => ~endOfData]_vars
=============================================================================
