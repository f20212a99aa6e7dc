---------------------------- MODULE ClientProofs ----------------------------
(***************************************************************************)
(* Rpki: that a client which has heard all is complete, for any ROAs, any   *)
(* number of changes, restarts, lost connections and requests.              *)
(*                                                                         *)
(* The invariant follows what is under way. As long as an answer to a reset *)
(* query is to come (ResetDue) nothing need be said of the table. Otherwise *)
(* the client has all ROAs of the version its serial number names, but for  *)
(* those an answer it is reading withdraws; and an answer together with     *)
(* what has been read of it leads from the version it starts from to the    *)
(* one it ends with.                                                        *)
(*                                                                         *)
(* Monitor: that who watches the server and has heard all follows it, for   *)
(* any number of neighbors, prefixes, changes and lost connections.         *)
(*                                                                         *)
(* The invariant speaks of each subject by itself: of a prefix, a session,  *)
(* a route of a neighbor, the best path of an NLRI. What waits to be heard  *)
(* may say anything of it, but the last of it that speaks of the subject    *)
(* tells what the server holds now (EndsIn); and when nothing that waits      *)
(* speaks of it (Silent), the listener already knows. So the order of what  *)
(* waits is all that counts: news go to its end, a snapshot starts it with  *)
(* the truth, and taking its head leaves its end alone.                     *)
(***************************************************************************)
EXTENDS Rpki, Monitor, ListProofs

\* The ROAs of the version a serial number names.
Version(s) == history[s + 1]
IsVersion(s) == s \in Nat /\ s + 1 \in 1..Present

ResetAsked == \E i \in DOMAIN queries : queries[i].type = "reset"
FullAnswer(i) == wire[i].type = "answer" /\ wire[i].full
ResetDue == ResetAsked \/ \E i \in DOMAIN wire : FullAnswer(i)
\* The same behind the PDU that is being read.
DueLater == ResetAsked \/ \E i \in DOMAIN wire : i > 1 /\ FullAnswer(i)

\* What an answer brings with what is left of it and what the client has read of it.
Brings(m) == m.adds \cup (IF m.begun THEN pendingROAs ELSE {})

AnswerOK(m) ==
  /\ m.session = session /\ IsVersion(m.serial)
  /\ m.full => \/ Version(m.serial) \subseteq Brings(m)
               \/ m.begun /\ DueLater
  /\ ~m.full => /\ sessionID = session
                /\ IsVersion(m.from)
                /\ m.dels \cap Version(m.serial) = {}
                /\ \/ Version(m.serial) \subseteq Version(m.from) \cup Brings(m)
                   \/ m.begun /\ ResetDue

WireOK ==
  phase = "reading" =>
    \A i \in DOMAIN wire : wire[i].type = "answer" =>
      /\ AnswerOK(wire[i])
      /\ wire[i].begun => i = 1 /\ ~endOfData

QueriesOK ==
  Connected => \A i \in DOMAIN queries :
    queries[i].type = "serial" /\ queries[i].session = session => sessionID = session

\* The ROAs that an answer under way withdraws, or may have if it does not fit.
Withdrawn(r) ==
  /\ wire # <<>> /\ wire[1].type = "answer" /\ wire[1].begun
  /\ wire[1].from = serialNumber => r \notin Version(wire[1].serial)

TableOK ==
  phase = "reading" /\ ~ResetDue /\ ~spoiled /\ sessionID = session =>
    /\ IsVersion(serialNumber)
    /\ \A r \in Version(serialNumber) : r \in table \/ Withdrawn(r)

Inv ==
  /\ TypeOK /\ WireOK /\ QueriesOK /\ TableOK
  /\ phase = "connected" => wire = <<>>

-----------------------------------------------------------------------------
(* Types *)

\* The serial number of a version is the number of versions before it: it never wraps.
LEMMA SerialIs ==
  ASSUME TypeOK, NEW n \in 1..(MaxChanges + 1)
  PROVE  Serial(n) = n - 1
BY ModulusAssumption, BoundsAssumption DEF Serial

LEMMA InitTypes == Init => TypeOK
<1> SUFFICES ASSUME Init PROVE TypeOK
  OBVIOUS
<1>1. PICK rs \in SUBSET Roas : history = <<rs>>
  BY DEF Init
<1>2. history \in Seq(SUBSET Roas) /\ Present = 1
  BY <1>1 DEF Present
<1>3. queries \in Seq(Queries) /\ wire \in Seq(Pdus)
  BY DEF Init
<1>4. Present \in 1..(changes + 1) /\ changes \in 0..MaxChanges
  BY <1>2, BoundsAssumption DEF Init
<1>5. session \in Nat \ {0} /\ pendingROAs \subseteq Roas /\ table \subseteq Roas
  BY DEF Init
<1> QED
  BY <1>2, <1>3, <1>4, <1>5 DEF Init, TypeOK

LEMMA SoftResetTypes ==
  ASSUME TypeOK, SoftReset
  PROVE  /\ queries' \in Seq(Queries) /\ endOfData' \in BOOLEAN /\ pendingROAs' \subseteq Roas
         /\ sessionID' \in Nat /\ oldSessionID' \in Nat /\ serialNumber' \in Nat
<1>1. [type |-> "reset"] \in Queries
  BY DEF Queries
<1> QED
  BY <1>1 DEF TypeOK, SoftReset

LEMMA SerialQueryTypes ==
  ASSUME TypeOK, SerialQuery
  PROVE  /\ queries' \in Seq(Queries) /\ endOfData' \in BOOLEAN /\ pendingROAs' \subseteq Roas
         /\ sessionID' \in Nat /\ oldSessionID' \in Nat /\ serialNumber' \in Nat
<1>1. [type |-> "serial", session |-> sessionID, serial |-> serialNumber] \in Queries
  BY DEF TypeOK, Queries
<1> QED
  BY <1>1 DEF TypeOK, SerialQuery, client

\* The PDUs the cache sends.
LEMMA PduTypes ==
  ASSUME TypeOK
  PROVE  /\ [type |-> "cacheReset"] \in Pdus
         /\ \A n \in Nat : [type |-> "notify", serial |-> n] \in Pdus
         /\ \A full \in BOOLEAN, from \in Nat, dels \in SUBSET Roas, adds \in SUBSET Roas :
              Answer(full, from, dels, adds) \in Pdus
<1>1. Present \in 1..(MaxChanges + 1)
  BY BoundsAssumption DEF TypeOK
<1>2. Serial(Present) \in Nat
  BY <1>1, SerialIs
<1> QED
  BY <1>2 DEF TypeOK, Pdus, Answer

LEMMA CacheTypes ==
  ASSUME TypeOK, CacheChange \/ CacheRestart \/ CacheAnswer
  PROVE  TypeOK'
<1>1. CASE CacheChange
  <2>1. Present + 1 \in 1..(MaxChanges + 1)
    BY <1>1, BoundsAssumption DEF TypeOK, CacheChange
  <2>2. Serial(Present + 1) \in Nat
    BY <2>1, SerialIs
  <2> DEFINE m == [type |-> "notify", serial |-> Serial(Present + 1)]
  <2>3. wire' \in Seq(Pdus)
    <3>1. m \in Pdus
      BY <2>2, PduTypes
    <3>2. wire' = wire \/ wire' = Append(wire, m)
      BY <1>1 DEF CacheChange
    <3>3. wire \in Seq(Pdus)
      BY DEF TypeOK
    <3> HIDE DEF m
    <3>4. Append(wire, m) \in Seq(Pdus)
      BY <3>1, <3>3, AppendElements
    <3> QED
      BY <3>2, <3>3, <3>4
  <2>4. history' \in Seq(SUBSET Roas) /\ Present' \in 1..(changes' + 1) /\ changes' \in 0..MaxChanges
    BY <1>1, BoundsAssumption DEF TypeOK, CacheChange, Present
  <2> QED
    BY <1>1, <2>3, <2>4 DEF TypeOK, CacheChange, client, timers
<1>2. CASE CacheRestart
  <2>0. PICK rs \in SUBSET Roas : history' = <<rs>>
    BY <1>2 DEF CacheRestart
  <2>1. history' \in Seq(SUBSET Roas) /\ Present' = 1 /\ changes' = changes
    BY <1>2, <2>0 DEF CacheRestart, Present
  <2>2. session' \in Nat \ {0} /\ queries' \in Seq(Queries) /\ phase' \in {"dialing", "connected", "reading", "closed"}
    BY <1>2 DEF TypeOK, CacheRestart
  <2> QED
    BY <1>2, <2>1, <2>2 DEF TypeOK, CacheRestart, client, timers
<1>3. CASE CacheAnswer
  <2> DEFINE q == Head(queries)
             now == history[Present]
             known == {n \in 1..Present : Serial(n) = q.serial}
  <2>1. q \in Queries /\ queries' \in Seq(Queries)
    BY <1>3 DEF TypeOK, CacheAnswer
  <2>2. now \in SUBSET Roas
    BY DEF TypeOK, Present
  <2>3. CASE q.type = "reset"
    <3>1. wire' = Append(wire, Answer(TRUE, 0, {}, now))
      BY <1>3, <2>3 DEF CacheAnswer
    <3> DEFINE m == Answer(TRUE, 0, {}, now)
    <3>2. wire' \in Seq(Pdus)
      <4>1. m \in Pdus
        BY <2>2, PduTypes
      <4>2. wire' = Append(wire, m)
        BY <3>1
      <4> HIDE DEF m
      <4> QED
        BY <4>1, <4>2 DEF TypeOK
    <3> QED
      BY <1>3, <2>1, <3>2 DEF TypeOK, CacheAnswer, cache, client, timers, bounds, Present
  <2>4. CASE q.type # "reset" /\ q.session = session /\ known # {}
    <3> DEFINE then == history[CHOOSE n \in known : TRUE]
    <3>1. wire' = Append(wire, Answer(FALSE, q.serial, then \ now, now \ then))
      BY <1>3, <2>4 DEF CacheAnswer
    <3>2. then \in SUBSET Roas
      BY <2>4 DEF TypeOK, Present
    <3>3. q.serial \in Nat
      BY <2>1, <2>4 DEF Queries
    <3> DEFINE m == Answer(FALSE, q.serial, then \ now, now \ then)
    <3>4. m \in Pdus
      <4> HIDE DEF q, then, now
      <4> QED
        BY <2>2, <3>2, <3>3, PduTypes
    <3>5. wire' \in Seq(Pdus)
      <4>1. wire' = Append(wire, m)
        BY <3>1
      <4> HIDE DEF m
      <4> QED
        BY <3>4, <4>1 DEF TypeOK
    <3> QED
      BY <1>3, <2>1, <3>5 DEF TypeOK, CacheAnswer, cache, client, timers, bounds, Present
  <2>5. CASE ~(q.type = "reset") /\ ~(q.session = session /\ known # {})
    <3>1. wire' = Append(wire, [type |-> "cacheReset"])
      BY <1>3, <2>5 DEF CacheAnswer
    <3>2. wire' \in Seq(Pdus)
      BY <3>1, PduTypes DEF TypeOK
    <3> QED
      BY <1>3, <2>1, <3>2 DEF TypeOK, CacheAnswer, cache, client, timers, bounds, Present
  <2> QED
    BY <2>3, <2>4, <2>5
<1> QED
  BY <1>1, <1>2, <1>3

LEMMA AnswerTypes ==
  ASSUME NEW m \in Pdus, m.type = "answer"
  PROVE  /\ [m EXCEPT !.begun = TRUE] \in Pdus
         /\ \A r : [m EXCEPT !.dels = @ \ {r}] \in Pdus
         /\ \A r : [m EXCEPT !.adds = @ \ {r}] \in Pdus
BY DEF Pdus

\* Reading one PDU of an answer leaves the others as they are.
LEMMA HeadReplaced ==
  ASSUME NEW S, NEW s \in Seq(S), s # <<>>, NEW m \in S
  PROVE  [s EXCEPT ![1] = m] \in Seq(S)
OBVIOUS

\* What is behind the head moves up by one.
LEMMA TailElements ==
  ASSUME NEW S, NEW s \in Seq(S), s # <<>>
  PROVE  /\ 1 \in DOMAIN s /\ Head(s) = s[1]
         /\ \A i \in DOMAIN Tail(s) : i + 1 \in DOMAIN s /\ i + 1 > 1 /\ Tail(s)[i] = s[i + 1]
         /\ \A i \in DOMAIN s : i > 1 => i - 1 \in DOMAIN Tail(s) /\ Tail(s)[i - 1] = s[i]
<1>1. Len(s) \in Nat \ {0} /\ DOMAIN s = 1..Len(s) /\ Head(s) = s[1]
  OBVIOUS
<1>2. Len(Tail(s)) = Len(s) - 1 /\ DOMAIN Tail(s) = 1..(Len(s) - 1)
  OBVIOUS
<1>3. \A i \in 1..(Len(s) - 1) : Tail(s)[i] = s[i + 1]
  OBVIOUS
<1>4. \A i \in DOMAIN s : i > 1 => i - 1 \in DOMAIN Tail(s) /\ Tail(s)[i - 1] = s[i]
  <2> SUFFICES ASSUME NEW i \in 2..Len(s) PROVE i - 1 \in 1..(Len(s) - 1) /\ Tail(s)[i - 1] = s[i]
    BY <1>1, <1>2
  <2>1. i - 1 \in 1..(Len(s) - 1) /\ (i - 1) + 1 = i
    BY <1>1
  <2> QED
    BY <1>3, <2>1
<1> QED
  BY <1>1, <1>2, <1>3, <1>4

\* What is appended is behind all there was.
LEMMA AppendedLast ==
  ASSUME NEW S, NEW s \in Seq(S), NEW a \in S, NEW t, t = Append(s, a)
  PROVE  /\ Len(s) \in Nat
         /\ \A i \in DOMAIN t : (i \in DOMAIN s /\ t[i] = s[i]) \/ (i = Len(s) + 1 /\ t[i] = a)
         /\ \A i \in DOMAIN s : i \in DOMAIN t /\ t[i] = s[i]
         /\ Len(s) + 1 \in DOMAIN t /\ t[Len(s) + 1] = a
<1>1. Len(s) \in Nat /\ DOMAIN s = 1..Len(s)
  OBVIOUS
<1>2. DOMAIN t = 1..(Len(s) + 1)
  OBVIOUS
<1>3. (\A i \in 1..Len(s) : t[i] = s[i]) /\ t[Len(s) + 1] = a
  OBVIOUS
<1>4. \A i \in 1..(Len(s) + 1) : i \in 1..Len(s) \/ i = Len(s) + 1
  BY <1>1
<1>5. Len(s) + 1 \in 1..(Len(s) + 1) /\ \A i \in 1..Len(s) : i \in 1..(Len(s) + 1)
  BY <1>1
<1> QED
  BY <1>1, <1>2, <1>3, <1>4, <1>5

LEMMA WireHead ==
  ASSUME wire \in Seq(Pdus), wire # <<>>
  PROVE  1 \in DOMAIN wire /\ wire[1] \in Pdus /\ \A i \in DOMAIN wire : i = 1 \/ i > 1
<1>1. Len(wire) \in Nat \ {0} /\ DOMAIN wire = 1..Len(wire)
  OBVIOUS
<1>2. 1 \in DOMAIN wire /\ \A i \in DOMAIN wire : i = 1 \/ i > 1
  BY <1>1
<1> QED
  BY <1>2

LEMMA ReadTypes ==
  ASSUME TypeOK, RoaRTR
  PROVE  TypeOK'
<1> DEFINE m == Head(wire)
<1>1. m \in Pdus /\ m = wire[1] /\ Tail(wire) \in Seq(Pdus) /\ wire # <<>>
  BY DEF TypeOK, RoaRTR
<1>2. UNCHANGED <<session, history, phase, changes, restarts, losses, requests>>
  BY DEF RoaRTR, cache, bounds
<1>3. UNCHANGED Present
  BY <1>2 DEF Present
<1>4. CASE m.type = "answer" /\ ReadAnswer(m)
  <2> HIDE DEF m
  <2>0. m.dels \in SUBSET Roas /\ m.adds \in SUBSET Roas /\ m.session \in Nat /\ m.serial \in Nat
        /\ m.full \in BOOLEAN
    BY <1>1, <1>4 DEF Pdus
  <2>1. CASE ~m.begun /\ CacheResponse /\ wire' = [wire EXCEPT ![1].begun = TRUE]
    <3>1. wire' = [wire EXCEPT ![1] = [m EXCEPT !.begun = TRUE]]
      BY <1>1, <2>1
    <3>2. wire' \in Seq(Pdus)
      BY <1>1, <1>4, <3>1, AnswerTypes, HeadReplaced DEF TypeOK
    <3> QED
      BY <1>2, <1>3, <2>1, <3>2 DEF TypeOK, CacheResponse, timers
  <2>2. ASSUME NEW r \in m.dels, IPPrefix(r, FALSE), wire' = [wire EXCEPT ![1].dels = @ \ {r}]
        PROVE  TypeOK'
    <3>1. wire' = [wire EXCEPT ![1] = [m EXCEPT !.dels = @ \ {r}]]
      BY <1>1, <2>2
    <3>2. wire' \in Seq(Pdus)
      BY <1>1, <1>4, <3>1, AnswerTypes, HeadReplaced DEF TypeOK
    <3> QED
      BY <1>2, <1>3, <2>0, <2>2, <3>2 DEF TypeOK, IPPrefix, timers
  <2>3. ASSUME NEW r \in m.adds, IPPrefix(r, TRUE), wire' = [wire EXCEPT ![1].adds = @ \ {r}]
        PROVE  TypeOK'
    <3>1. wire' = [wire EXCEPT ![1] = [m EXCEPT !.adds = @ \ {r}]]
      BY <1>1, <2>3
    <3>2. wire' \in Seq(Pdus)
      BY <1>1, <1>4, <3>1, AnswerTypes, HeadReplaced DEF TypeOK
    <3> QED
      BY <1>2, <1>3, <2>0, <2>3, <3>2 DEF TypeOK, IPPrefix, timers
  <2>4. CASE EndOfData(m) /\ wire' = Tail(wire)
    BY <1>1, <1>2, <1>3, <2>0, <2>4 DEF TypeOK, EndOfData
  <2> QED
    BY <1>4, <2>1, <2>2, <2>3, <2>4 DEF ReadAnswer
<1>5. CASE ReadNotify(m)
  <2> HIDE DEF m
  <2>1. wire' \in Seq(Pdus) /\ UNCHANGED <<table, timers, spoiled>>
    BY <1>1, <1>5 DEF ReadNotify, SerialNotify
  <2>2. SerialQuery \/ UNCHANGED <<queries, client>> \/ SoftReset
    BY <1>5 DEF ReadNotify, SerialNotify
  <2>3. /\ queries' \in Seq(Queries) /\ endOfData' \in BOOLEAN /\ pendingROAs' \subseteq Roas
        /\ sessionID' \in Nat /\ oldSessionID' \in Nat /\ serialNumber' \in Nat
    BY <2>2, SoftResetTypes, SerialQueryTypes DEF TypeOK, client
  <2> QED
    BY <1>2, <1>3, <2>1, <2>3 DEF TypeOK, timers
<1>6. CASE ReadCacheReset
  BY <1>1, <1>2, <1>3, <1>6, SoftResetTypes DEF TypeOK, ReadCacheReset, timers
<1> QED
  BY <1>4, <1>5, <1>6 DEF RoaRTR

LEMMA ClientTypes ==
  ASSUME TypeOK,
         RoaConnected \/ Established \/ Lose \/ RoaDisconnected \/ TimerFires \/ RoaLifetimeout \/ Request
  PROVE  TypeOK'
<1>0. <<>> \in Seq(Queries) /\ <<>> \in Seq(Pdus)
  OBVIOUS
<1>1. CASE RoaConnected
  BY <1>0, <1>1 DEF TypeOK, RoaConnected, cache, client, timers, bounds, Present
<1>2. CASE Established
  BY <1>2, SoftResetTypes DEF TypeOK, Established, cache, timers, bounds, Present
<1>3. CASE Lose
  BY <1>3 DEF TypeOK, Lose, cache, client, timers, Present
<1>4. CASE RoaDisconnected
  <2>1. queries' \in Seq(Queries) /\ wire' \in Seq(Pdus) /\ forgotten' \in Nat
    BY <1>0, <1>4 DEF TypeOK, RoaDisconnected
  <2> QED
    BY <1>4, <2>1 DEF TypeOK, RoaDisconnected, cache, bounds, Present
<1>5. CASE TimerFires
  BY <1>5 DEF TypeOK, TimerFires, cache, client, bounds, Present
<1>6. CASE RoaLifetimeout
  BY <1>6 DEF TypeOK, RoaLifetimeout, cache, client, bounds, Present
<1>7. CASE Request
  <2>1. UNCHANGED <<cache, wire, timers, changes, restarts, losses>> /\ requests' \in Nat /\ UNCHANGED Present
    BY <1>7 DEF TypeOK, Request, cache, Present
  <2>2. CASE Enable
    BY <2>1, <2>2, SerialQueryTypes DEF TypeOK, Enable, cache, timers
  <2>3. CASE Disable
    BY <2>1, <2>3 DEF TypeOK, Disable, cache, client, timers
  <2>4. CASE SoftResetServer
    BY <2>1, <2>4, SoftResetTypes DEF TypeOK, SoftResetServer, cache, timers
  <2> QED
    BY <1>7, <2>2, <2>3, <2>4 DEF Request
<1> QED
  BY <1>1, <1>2, <1>3, <1>4, <1>5, <1>6, <1>7

LEMMA StutterTypes ==
  ASSUME TypeOK, UNCHANGED vars
  PROVE  TypeOK'
BY DEF TypeOK, vars, cache, client, timers, bounds, Present

LEMMA StepTypes ==
  ASSUME TypeOK, [Next]_vars
  PROVE  TypeOK'
BY CacheTypes, ReadTypes, ClientTypes, StutterTypes DEF Next

-----------------------------------------------------------------------------
(* The invariant *)

LEMMA InitInv == Init => Inv
<1> SUFFICES ASSUME Init PROVE Inv
  OBVIOUS
<1>1. TypeOK
  BY InitTypes
<1>2. phase = "dialing"
  BY DEF Init
<1> QED
  BY <1>1, <1>2 DEF Inv, WireOK, QueriesOK, TableOK, Connected

\* Steps after which the client does not read, and has asked nothing.
LEMMA NotReading ==
  ASSUME TypeOK', phase' \in {"dialing", "closed"} \/ (phase' = "connected" /\ queries' = <<>> /\ wire' = <<>>)
  PROVE  Inv'
BY DEF Inv, WireOK, QueriesOK, TableOK, Connected

\* What the client and the cache have is the same, but for the table.
Frame == <<session, history, queries, wire, phase, sessionID, serialNumber, endOfData, pendingROAs>>

LEMMA FrameKeeps ==
  ASSUME Inv, TypeOK', UNCHANGED Frame, spoiled' \/ UNCHANGED <<table, spoiled>>
  PROVE  Inv'
BY DEF Inv, Frame, WireOK, AnswerOK, QueriesOK, TableOK, Connected, Brings, IsVersion, Version, Withdrawn,
       ResetDue, DueLater, ResetAsked, FullAnswer, Present

\* A reset query is asked.
LEMMA ResetAsks ==
  ASSUME Inv, SoftReset, Connected, UNCHANGED session
  PROVE  /\ ResetAsked' /\ QueriesOK'
         /\ pendingROAs' = {} /\ endOfData' = FALSE /\ UNCHANGED <<sessionID, serialNumber>>
<1>1. /\ queries' = Append(queries, [type |-> "reset"])
      /\ pendingROAs' = {} /\ endOfData' = FALSE
      /\ UNCHANGED <<sessionID, serialNumber>>
  BY DEF SoftReset, Inv, TypeOK
<1>2. queries \in Seq(Queries)
  BY DEF Inv, TypeOK
<1>3. queries'[Len(queries) + 1].type = "reset" /\ Len(queries) + 1 \in DOMAIN queries'
  BY <1>1, <1>2
<1>4. \A i \in DOMAIN queries' : (i \in DOMAIN queries /\ queries'[i] = queries[i]) \/ queries'[i].type = "reset"
  BY <1>1, <1>2
<1>5. QueriesOK'
  BY <1>1, <1>4 DEF QueriesOK, Inv
<1> QED
  BY <1>1, <1>3, <1>5 DEF ResetAsked

LEMMA SoftResetKeeps ==
  ASSUME Inv, TypeOK', SoftReset, Connected, UNCHANGED <<session, history, wire>>,
         phase' = phase \/ (phase = "connected" /\ phase' = "reading")
  PROVE  Inv'
<1>1. /\ ResetAsked' /\ QueriesOK' /\ pendingROAs' = {} /\ endOfData' = FALSE
      /\ UNCHANGED <<sessionID, serialNumber>>
  BY ResetAsks
<1>2. wire \in Seq(Pdus) /\ (phase = "connected" => wire = <<>>)
  BY DEF Inv, TypeOK
<1>3. TableOK'
  BY <1>1 DEF TableOK, ResetDue
<1>4. WireOK'
  <2> SUFFICES ASSUME phase' = "reading", NEW i \in DOMAIN wire, wire[i].type = "answer"
               PROVE  AnswerOK(wire[i])' /\ (wire[i].begun => i = 1)
    BY <1>1 DEF WireOK
  <2>1. phase = "reading"
    BY <1>2
  <2>2. AnswerOK(wire[i]) /\ (wire[i].begun => i = 1)
    BY <2>1 DEF Inv, WireOK
  <2>3. DueLater' /\ ResetDue'
    BY <1>1 DEF DueLater, ResetDue
  <2>4. wire[i] \in Pdus /\ wire[i].begun \in BOOLEAN
    BY <1>2 DEF Pdus
  <2> QED
    BY <1>1, <2>2, <2>3, <2>4 DEF AnswerOK, Brings, IsVersion, Version, Present
<1> QED
  BY <1>1, <1>2, <1>3, <1>4 DEF Inv

\* A serial query is asked.
LEMMA SerialAsks ==
  ASSUME Inv, SerialQuery, UNCHANGED <<session, phase>>
  PROVE  (ResetAsked' <=> ResetAsked) /\ QueriesOK'
<1> DEFINE q == [type |-> "serial", session |-> sessionID, serial |-> serialNumber]
<1>1. queries' = queries \/ queries' = Append(queries, q)
  BY DEF SerialQuery
<1>2. queries \in Seq(Queries) /\ UNCHANGED sessionID
  BY DEF Inv, TypeOK, SerialQuery, client
<1>3. /\ \A i \in DOMAIN queries' : (i \in DOMAIN queries /\ queries'[i] = queries[i]) \/ queries'[i] = q
      /\ \A i \in DOMAIN queries : i \in DOMAIN queries' /\ queries'[i] = queries[i]
  <2> HIDE DEF q
  <2> QED
    BY <1>1, <1>2
<1>4. ResetAsked' <=> ResetAsked
  BY <1>3 DEF ResetAsked
<1>5. QueriesOK'
  BY <1>2, <1>3 DEF QueriesOK, Inv, Connected
<1> QED
  BY <1>4, <1>5

LEMMA SerialQueryKeeps ==
  ASSUME Inv, TypeOK', SerialQuery, UNCHANGED <<session, history, wire, phase, table, spoiled>>
  PROVE  Inv'
<1>1. (ResetAsked' <=> ResetAsked) /\ QueriesOK'
  BY SerialAsks
<1>2. (ResetDue' <=> ResetDue) /\ (DueLater' <=> DueLater)
  BY <1>1 DEF ResetDue, DueLater, FullAnswer
<1>3. UNCHANGED <<sessionID, serialNumber, endOfData, pendingROAs>>
  BY DEF SerialQuery, client
<1> QED
  BY <1>1, <1>2, <1>3 DEF Inv, WireOK, AnswerOK, TableOK, Brings, IsVersion, Version, Withdrawn, Present

-----------------------------------------------------------------------------
(* The cache *)

\* A new version does not change the ones before.
LEMMA CacheChangeKeeps ==
  ASSUME Inv, TypeOK', CacheChange
  PROVE  Inv'
<1> DEFINE n == [type |-> "notify", serial |-> Serial(Present + 1)]
<1>1. history \in Seq(SUBSET Roas) /\ wire \in Seq(Pdus)
  BY DEF Inv, TypeOK
<1>2. UNCHANGED <<session, queries, phase, sessionID, serialNumber, endOfData, pendingROAs, table, spoiled>>
  BY DEF CacheChange, client
<1>3. \A s : IsVersion(s) => IsVersion(s)' /\ Version(s)' = Version(s)
  BY <1>1 DEF CacheChange, IsVersion, Version, Present
<1>4. wire' = wire \/ (phase = "reading" /\ wire' = Append(wire, n))
  BY DEF CacheChange
<1>5. /\ \A i \in DOMAIN wire' : (i \in DOMAIN wire /\ wire'[i] = wire[i]) \/ wire'[i] = n
      /\ \A i \in DOMAIN wire : i \in DOMAIN wire' /\ wire'[i] = wire[i]
  <2> HIDE DEF n
  <2>1. CASE wire' = wire
    BY <2>1
  <2>2. CASE wire' = Append(wire, n)
    <3>1. PICK w \in Seq(Pdus) : w = wire
      BY <1>1
    <3>2. /\ DOMAIN Append(w, n) = 1..(Len(w) + 1) /\ DOMAIN w = 1..Len(w) /\ Len(w) \in Nat
          /\ Append(w, n)[Len(w) + 1] = n /\ \A i \in 1..Len(w) : Append(w, n)[i] = w[i]
      OBVIOUS
    <3>3. \A i \in 1..(Len(w) + 1) : i \in 1..Len(w) \/ i = Len(w) + 1
      BY <3>2
    <3>4. \A i \in 1..Len(w) : i \in 1..(Len(w) + 1)
      BY <3>2
    <3> QED
      BY <2>2, <3>1, <3>2, <3>3, <3>4
  <2> QED
    BY <1>4, <2>1, <2>2
<1>6. n.type # "answer"
  OBVIOUS
<1> HIDE DEF n
<1>7. (ResetDue' <=> ResetDue) /\ (DueLater' <=> DueLater)
  BY <1>2, <1>5, <1>6 DEF ResetDue, DueLater, ResetAsked, FullAnswer
<1>8. WireOK'
  <2> SUFFICES ASSUME phase = "reading", NEW i \in DOMAIN wire', wire'[i].type = "answer"
               PROVE  AnswerOK(wire[i])' /\ (wire[i].begun' => i = 1 /\ ~endOfData)
    BY <1>2 DEF WireOK
  <2>1. i \in DOMAIN wire /\ wire'[i] = wire[i]
    BY <1>5, <1>6
  <2>2. AnswerOK(wire[i]) /\ (wire[i].begun => i = 1 /\ ~endOfData)
    BY <2>1 DEF Inv, WireOK
  <2>3. wire[i].full \in BOOLEAN
    BY <1>1, <2>1, <1>5, <1>6 DEF Pdus
  <2> QED
    BY <1>2, <1>3, <1>7, <2>1, <2>2, <2>3 DEF AnswerOK, Brings
<1>9. TableOK'
  <2> SUFFICES ASSUME phase = "reading", ~ResetDue, ~spoiled, sessionID = session
               PROVE  /\ IsVersion(serialNumber)'
                      /\ \A r \in Version(serialNumber)' : r \in table \/ Withdrawn(r)'
    BY <1>2, <1>7 DEF TableOK
  <2>1. IsVersion(serialNumber) /\ \A r \in Version(serialNumber) : r \in table \/ Withdrawn(r)
    BY DEF Inv, TableOK
  <2>2. IsVersion(serialNumber)' /\ Version(serialNumber)' = Version(serialNumber)
    BY <1>2, <1>3, <2>1
  <2>3. ASSUME NEW r, Withdrawn(r) PROVE Withdrawn(r)'
    <3>1. 1 \in DOMAIN wire /\ wire[1].type = "answer" /\ wire[1].begun
      BY <1>1, <2>3 DEF Withdrawn
    <3>2. wire'[1] = wire[1] /\ wire' # <<>>
      BY <1>1, <1>5, <3>1
    <3>3. Version(wire[1].serial)' = Version(wire[1].serial)
      BY <1>3, <3>1, <3>2 DEF Inv, WireOK, AnswerOK
    <3> QED
      BY <1>2, <2>3, <3>1, <3>2, <3>3 DEF Withdrawn
  <2> QED
    BY <2>1, <2>2, <2>3
<1> QED
  BY <1>2, <1>5, <1>8, <1>9, <1>4 DEF Inv, QueriesOK, Connected

\* What the cache answers takes the client to the present version.
LEMMA AnswerFits ==
  ASSUME Inv, CacheAnswer
  PROVE  \E a \in Pdus :
           /\ wire' = Append(wire, a)
           /\ a.type # "notify"
           /\ a.type = "answer" => ~a.begun /\ AnswerOK(a)
           /\ Head(queries).type = "reset" <=> (a.type = "answer" /\ a.full)
<1> DEFINE q == Head(queries)
           now == history[Present]
           known == {n \in 1..Present : Serial(n) = q.serial}
<1>1. TypeOK /\ queries # <<>> /\ phase = "reading" /\ q = queries[1] /\ 1 \in DOMAIN queries /\ q \in Queries
  BY DEF Inv, CacheAnswer, TypeOK
<1>2. now \in SUBSET Roas /\ Present \in 1..(MaxChanges + 1) /\ session \in Nat
  BY <1>1, BoundsAssumption DEF TypeOK, Present
<1>3. Serial(Present) = Present - 1
  BY <1>1, <1>2, SerialIs
<1>4. IsVersion(Serial(Present)) /\ Version(Serial(Present)) = now
  BY <1>2, <1>3 DEF IsVersion, Version
<1>5. CASE q.type = "reset"
  <2> DEFINE a == Answer(TRUE, 0, {}, now)
  <2>1. wire' = Append(wire, a)
    BY <1>5 DEF CacheAnswer
  <2>2. a \in Pdus
    BY <1>1, <1>2, PduTypes
  <2>3. a.type = "answer" /\ a.full = TRUE /\ a.begun = FALSE /\ a.session = session /\ a.serial = Serial(Present)
        /\ a.adds = now
    BY DEF Answer
  <2>4. AnswerOK(a)
    <3> HIDE DEF a
    <3> QED
      BY <1>4, <2>3 DEF AnswerOK, Brings
  <2> HIDE DEF a
  <2> QED
    BY <1>5, <2>1, <2>2, <2>3, <2>4
<1>6. CASE q.type # "reset" /\ q.session = session /\ known # {}
  <2> DEFINE n == CHOOSE k \in known : TRUE
             a == Answer(FALSE, q.serial, history[n] \ now, now \ history[n])
  <2>1. wire' = Append(wire, a)
    BY <1>6 DEF CacheAnswer
  <2>2. n \in 1..Present /\ Serial(n) = q.serial
    BY <1>6
  <2>3. n \in 1..(MaxChanges + 1)
    <3> HIDE DEF n, q, known, now
    <3>1. n \in Int /\ n >= 1 /\ n <= Present /\ Present \in Int /\ Present <= MaxChanges + 1
      BY <1>2, <2>2, BoundsAssumption
    <3> HIDE DEF a
    <3> QED
      BY <3>1, BoundsAssumption
  <2>4. Serial(n) = n - 1
    BY <1>1, <2>3, SerialIs
  <2>5. IsVersion(q.serial) /\ Version(q.serial) = history[n] /\ history[n] \in SUBSET Roas
    <3> HIDE DEF n
    <3> QED
      BY <1>1, <1>2, <2>2, <2>4 DEF IsVersion, Version, TypeOK, Present
  <2>6. a \in Pdus
    <3> HIDE DEF n, q, now
    <3>1. q.serial \in Nat
      BY <2>5 DEF IsVersion
    <3> QED
      BY <1>1, <1>2, <2>5, <3>1, PduTypes
  <2>7. a.type = "answer" /\ a.full = FALSE /\ a.begun = FALSE /\ a.session = session /\ a.serial = Serial(Present)
        /\ a.from = q.serial /\ a.adds = now \ history[n] /\ a.dels = history[n] \ now
    BY DEF Answer
  <2>8. sessionID = session
    <3>1. queries[1].type = "serial" /\ queries[1].session = session
      BY <1>1, <1>6 DEF Queries
    <3> QED
      BY <1>1, <3>1 DEF Inv, QueriesOK, Connected
  <2>9. AnswerOK(a)
    <3> HIDE DEF a, n, now
    <3> QED
      BY <1>4, <2>5, <2>7, <2>8 DEF AnswerOK, Brings
  <2> HIDE DEF a
  <2> QED
    BY <1>6, <2>1, <2>6, <2>7, <2>9
<1>7. CASE ~(q.type = "reset") /\ ~(q.session = session /\ known # {})
  <2> DEFINE a == [type |-> "cacheReset"]
  <2>1. wire' = Append(wire, a)
    BY <1>7 DEF CacheAnswer
  <2>2. a \in Pdus /\ a.type = "cacheReset"
    BY <1>1, PduTypes
  <2> HIDE DEF a
  <2> QED
    BY <1>7, <2>1, <2>2
<1> QED
  BY <1>5, <1>6, <1>7

LEMMA CacheAnswerKeeps ==
  ASSUME Inv, TypeOK', CacheAnswer
  PROVE  Inv'
<1>1. /\ queries # <<>> /\ queries' = Tail(queries) /\ phase = "reading"
      /\ UNCHANGED <<session, history, phase, sessionID, serialNumber, endOfData, pendingROAs, table, spoiled>>
  BY DEF CacheAnswer, cache, client
<1>2. queries \in Seq(Queries) /\ wire \in Seq(Pdus)
  BY DEF Inv, TypeOK
<1>3. PICK a \in Pdus :
           /\ wire' = Append(wire, a)
           /\ a.type # "notify"
           /\ a.type = "answer" => ~a.begun /\ AnswerOK(a)
           /\ Head(queries).type = "reset" <=> (a.type = "answer" /\ a.full)
  BY AnswerFits
<1>4. /\ \A i \in DOMAIN wire' :
            (i \in DOMAIN wire /\ wire'[i] = wire[i]) \/ (i = Len(wire) + 1 /\ wire'[i] = a)
      /\ \A i \in DOMAIN wire : i \in DOMAIN wire' /\ wire'[i] = wire[i]
      /\ Len(wire) + 1 \in DOMAIN wire' /\ wire'[Len(wire) + 1] = a
  BY <1>2, <1>3, AppendedLast
<1>5. /\ \A i \in DOMAIN queries' : i + 1 \in DOMAIN queries /\ queries'[i] = queries[i + 1]
      /\ \A i \in DOMAIN queries : i > 1 => i - 1 \in DOMAIN queries' /\ queries'[i - 1] = queries[i]
      /\ Head(queries) = queries[1] /\ 1 \in DOMAIN queries
      /\ \A i \in DOMAIN queries : i = 1 \/ i > 1
  <2>1. \A i \in DOMAIN queries : i = 1 \/ i > 1
    BY <1>2
  <2> QED
    BY <1>1, <1>2, <2>1, TailElements
<1>6. ResetDue' <=> ResetDue
  <2>1. ResetDue => ResetDue'
    BY <1>3, <1>4, <1>5 DEF ResetDue, ResetAsked, FullAnswer
  <2>2. ResetDue' => ResetDue
    BY <1>3, <1>4, <1>5 DEF ResetDue, ResetAsked, FullAnswer
  <2> QED
    BY <2>1, <2>2
<1>7. wire # <<>> /\ DueLater => DueLater'
  <2>1. wire # <<>> => Len(wire) + 1 > 1
    BY <1>2
  <2> QED
    BY <1>3, <1>4, <1>5, <2>1 DEF DueLater, ResetAsked, FullAnswer
<1>8. WireOK'
  <2> SUFFICES ASSUME NEW i \in DOMAIN wire', wire'[i].type = "answer"
               PROVE  AnswerOK(wire[i])' /\ (wire[i].begun' => i = 1 /\ ~endOfData)
    BY <1>1 DEF WireOK
  <2>1. CASE i \in DOMAIN wire /\ wire'[i] = wire[i]
    <3>1. AnswerOK(wire[i]) /\ (wire[i].begun => i = 1 /\ ~endOfData) /\ wire # <<>>
      BY <1>1, <1>2, <2>1 DEF Inv, WireOK
    <3>2. wire[i].full \in BOOLEAN /\ wire[i].begun \in BOOLEAN
      BY <1>2, <2>1 DEF Pdus
    <3> QED
      BY <1>1, <1>6, <1>7, <2>1, <3>1, <3>2 DEF AnswerOK, Brings, IsVersion, Version, Present
  <2>2. CASE wire'[i] = a
    <3>1. a.full \in BOOLEAN /\ a.begun \in BOOLEAN
      BY <2>2 DEF Pdus
    <3> QED
      BY <1>1, <1>3, <2>2, <3>1 DEF AnswerOK, Brings, IsVersion, Version, Present
  <2> QED
    BY <1>4, <2>1, <2>2
<1>9. TableOK'
  <2>1. \A r : Withdrawn(r) => Withdrawn(r)'
    <3>1. wire # <<>> => wire' # <<>> /\ wire'[1] = wire[1]
      BY <1>2, <1>3
    <3> QED
      BY <1>1, <3>1 DEF Withdrawn, Version
  <2> QED
    BY <1>1, <1>6, <2>1 DEF Inv, TableOK, IsVersion, Version, Present
<1>10. QueriesOK'
  BY <1>1, <1>5 DEF Inv, QueriesOK, Connected
<1> QED
  BY <1>1, <1>8, <1>9, <1>10 DEF Inv

-----------------------------------------------------------------------------
(* The client reads *)

\* A PDU of the answer at the head of the wire is read: what is due stays so.
LEMMA HeadRead ==
  ASSUME Inv, wire # <<>>, wire[1].type = "answer", UNCHANGED queries,
         NEW n \in Pdus, wire' = [wire EXCEPT ![1] = n], n.type = "answer", n.full = wire[1].full
  PROVE  /\ wire' # <<>> /\ 1 \in DOMAIN wire /\ DOMAIN wire' = DOMAIN wire /\ wire'[1] = n
         /\ \A i \in DOMAIN wire : i # 1 => wire'[i] = wire[i]
         /\ ResetDue' <=> ResetDue
         /\ DueLater' <=> DueLater
<1>1. wire \in Seq(Pdus)
  BY DEF Inv, TypeOK
<1>2. wire' # <<>> /\ 1 \in DOMAIN wire /\ DOMAIN wire' = DOMAIN wire /\ wire'[1] = n
  BY <1>1
<1>3. \A i \in DOMAIN wire : i # 1 => wire'[i] = wire[i]
  BY <1>1
<1>4. \A i \in DOMAIN wire : FullAnswer(i)' <=> FullAnswer(i)
  BY <1>2, <1>3 DEF FullAnswer
<1>5. (ResetDue' <=> ResetDue) /\ (DueLater' <=> DueLater)
  BY <1>2, <1>4 DEF ResetDue, DueLater, ResetAsked
<1> QED
  BY <1>2, <1>3, <1>5

\* Only the answer at the head has begun: the others are as they were.
LEMMA HeadReadWire ==
  ASSUME Inv, phase = "reading", wire # <<>>, wire[1].type = "answer",
         UNCHANGED <<session, history, queries, phase, sessionID>>,
         NEW n \in Pdus, wire' = [wire EXCEPT ![1] = n], n.type = "answer", n.full = wire[1].full,
         AnswerOK(n)', ~endOfData'
  PROVE  WireOK'
<1> SUFFICES ASSUME NEW i \in DOMAIN wire', wire'[i].type = "answer"
             PROVE  AnswerOK(wire[i])' /\ (wire[i].begun' => i = 1)
  BY DEF WireOK
<1>1. DOMAIN wire' = DOMAIN wire /\ wire'[1] = n /\ (i # 1 => wire'[i] = wire[i])
  BY HeadRead
<1>2. CASE i = 1
  BY <1>1, <1>2
<1>3. CASE i # 1
  <2>1. AnswerOK(wire[i]) /\ ~wire[i].begun
    BY <1>1, <1>3 DEF Inv, WireOK
  <2>2. wire[i].full \in BOOLEAN
    BY <1>1, <1>3, SMTT(30) DEF Inv, TypeOK, Pdus
  <2> QED
    BY <1>1, <1>3, <2>1, <2>2 DEF AnswerOK, Brings, IsVersion, Version, Present
<1> QED
  BY <1>2, <1>3

\* A PDU is read from the wire: nothing behind it has begun.
LEMMA TailWire ==
  ASSUME Inv, phase = "reading", wire # <<>>, wire' = Tail(wire),
         UNCHANGED <<session, history, phase>>, sessionID' = sessionID \/ sessionID' = session
  PROVE  /\ WireOK'
         /\ \A i \in DOMAIN wire : i > 1 => i - 1 \in DOMAIN wire' /\ wire'[i - 1] = wire[i]
         /\ \A i \in DOMAIN wire' : i + 1 \in DOMAIN wire /\ i + 1 > 1 /\ wire'[i] = wire[i + 1]
         /\ \A r : ~(wire # <<>> /\ wire[1].type = "answer" /\ wire[1].begun)'
<1>1. wire \in Seq(Pdus) /\ wire' \in Seq(Pdus)
  BY DEF Inv, TypeOK
<1>2. /\ \A i \in DOMAIN wire : i > 1 => i - 1 \in DOMAIN wire' /\ wire'[i - 1] = wire[i]
      /\ \A i \in DOMAIN wire' : i + 1 \in DOMAIN wire /\ i + 1 > 1 /\ wire'[i] = wire[i + 1]
  BY <1>1, TailElements
<1>3. ASSUME NEW i \in DOMAIN wire', wire'[i].type = "answer"
      PROVE  AnswerOK(wire[i])' /\ ~wire[i].begun'
  <2>1. AnswerOK(wire[i + 1]) /\ ~wire[i + 1].begun /\ wire[i + 1].full \in BOOLEAN
    <3>1. i + 1 \in DOMAIN wire /\ i + 1 > 1 /\ wire'[i] = wire[i + 1]
      BY <1>2
    <3>2. i + 1 # 1
      BY <1>1
    <3> QED
      BY <1>1, <1>3, <3>1, <3>2 DEF Inv, WireOK, Pdus
  <2> QED
    BY <1>2, <2>1 DEF AnswerOK, Brings, IsVersion, Version, Present
<1>4. WireOK'
  BY <1>3 DEF WireOK
<1>5. ~(wire # <<>> /\ wire[1].type = "answer" /\ wire[1].begun)'
  <2>1. wire' # <<>> => 1 \in DOMAIN wire'
    BY <1>1
  <2> QED
    BY <1>3, <2>1
<1> QED
  BY <1>2, <1>4, <1>5

\* Cache Response: the answer has begun.
LEMMA BegunKeeps ==
  ASSUME Inv, TypeOK', phase = "reading", wire # <<>>, NEW m, m = wire[1], m.type = "answer",
         UNCHANGED <<session, history, phase>>,
         ~m.begun, CacheResponse, wire' = [wire EXCEPT ![1].begun = TRUE]
  PROVE  Inv'
<1>w. wire \in Seq(Pdus) /\ 1 \in DOMAIN wire /\ m \in Pdus
  BY WireHead DEF Inv, TypeOK
<1>n. PICK n \in Pdus : n = [m EXCEPT !.begun = TRUE]
  BY <1>w, AnswerTypes
<1>1. wire' = [wire EXCEPT ![1] = n]
  BY <1>w, <1>n
<1>2. UNCHANGED <<session, history, queries, phase, sessionID, serialNumber, pendingROAs, table, spoiled>>
      /\ endOfData' = FALSE
  BY DEF CacheResponse
<1>3. /\ n.type = "answer" /\ n.begun /\ n.full = m.full /\ n.from = m.from /\ n.session = m.session
      /\ n.serial = m.serial /\ n.adds = m.adds /\ n.dels = m.dels /\ m.full \in BOOLEAN
  BY <1>w, <1>n DEF Pdus
<1>4. AnswerOK(m) /\ ~m.begun
  BY <1>w DEF Inv, WireOK
<1>5. /\ ResetDue' <=> ResetDue
      /\ DueLater' <=> DueLater
      /\ wire'[1] = n
  BY <1>1, <1>2, <1>3, HeadRead
<1>6. AnswerOK(n)'
  <2> SUFFICES /\ n.session = session /\ IsVersion(n.serial)
               /\ n.full => Version(n.serial) \subseteq n.adds \cup pendingROAs
               /\ ~n.full => /\ sessionID = session /\ IsVersion(n.from)
                             /\ n.dels \cap Version(n.serial) = {}
                             /\ Version(n.serial) \subseteq Version(n.from) \cup n.adds \cup pendingROAs
    BY <1>2, <1>3 DEF AnswerOK, Brings, IsVersion, Version, Present
  <2> QED
    BY <1>3, <1>4 DEF AnswerOK, Brings
<1>7. WireOK'
  BY <1>1, <1>2, <1>3, <1>6, HeadReadWire
<1>8. TableOK'
  <2>1. \A r : ~Withdrawn(r)
    BY <1>4 DEF Withdrawn
  <2> QED
    BY <1>2, <1>5, <2>1 DEF Inv, TableOK, IsVersion, Version, Present
<1> QED
  BY <1>2, <1>7, <1>8 DEF Inv, QueriesOK, Connected

\* A withdrawn prefix: the answer leads to a version without it.
LEMMA WithdrawnKeeps ==
  ASSUME Inv, TypeOK', phase = "reading", wire # <<>>, NEW m, m = wire[1], m.type = "answer",
         UNCHANGED <<session, history, phase>>,
         m.begun, NEW r \in m.dels, IPPrefix(r, FALSE),
         wire' = [wire EXCEPT ![1].dels = @ \ {r}]
  PROVE  Inv'
<1>w. wire \in Seq(Pdus) /\ 1 \in DOMAIN wire /\ m \in Pdus
  BY WireHead DEF Inv, TypeOK
<1>n. PICK n \in Pdus : n = [m EXCEPT !.dels = @ \ {r}]
  BY <1>w, AnswerTypes
<1>1. wire' = [wire EXCEPT ![1] = n]
  BY <1>w, <1>n
<1>2. /\ UNCHANGED <<session, history, queries, phase, sessionID, serialNumber, pendingROAs, endOfData, spoiled>>
      /\ table' = table \ {r}
  BY DEF IPPrefix, Inv, TypeOK
<1>3. /\ n.type = "answer" /\ n.begun /\ n.full = m.full /\ n.from = m.from /\ n.session = m.session
      /\ n.serial = m.serial /\ n.adds = m.adds /\ n.dels \subseteq m.dels /\ m.full \in BOOLEAN
  BY <1>w, <1>n DEF Pdus
<1>4. AnswerOK(m) /\ m.begun /\ ~endOfData /\ r \in m.dels /\ 1 \in DOMAIN wire
  BY <1>w DEF Inv, WireOK
<1>5. /\ ResetDue' <=> ResetDue
      /\ DueLater' <=> DueLater
      /\ wire'[1] = n /\ wire' # <<>>
  BY <1>1, <1>2, <1>3, HeadRead
<1>6. AnswerOK(n)'
  BY <1>2, <1>3, <1>4, <1>5 DEF AnswerOK, Brings, IsVersion, Version, Present
<1>7. WireOK'
  BY <1>1, <1>2, <1>3, <1>4, <1>6, HeadReadWire
<1>8. TableOK'
  <2> SUFFICES ASSUME ~ResetDue, ~spoiled, sessionID = session
               PROVE  /\ IsVersion(serialNumber)
                      /\ \A x \in Version(serialNumber) : x \in table' \/ Withdrawn(x)'
    BY <1>2, <1>5 DEF TableOK, IsVersion, Version, Present
  <2>1. IsVersion(serialNumber) /\ \A x \in Version(serialNumber) : x \in table \/ Withdrawn(x)
    BY DEF Inv, TableOK
  <2>2. ~m.full
    BY <1>4 DEF ResetDue, FullAnswer
  <2>3. r \notin Version(m.serial)
    BY <1>4, <2>2 DEF AnswerOK
  <2>4. \A x : x = r \/ Withdrawn(x) => Withdrawn(x)'
    BY <1>2, <1>3, <1>5, <2>3 DEF Withdrawn, Version
  <2> QED
    BY <1>2, <2>1, <2>4
<1> QED
  BY <1>2, <1>7, <1>8 DEF Inv, QueriesOK, Connected

\* An announced prefix waits for the end of the data.
LEMMA AnnouncedKeeps ==
  ASSUME Inv, TypeOK', phase = "reading", wire # <<>>, NEW m, m = wire[1], m.type = "answer",
         UNCHANGED <<session, history, phase>>,
         m.begun, NEW r \in m.adds, IPPrefix(r, TRUE),
         wire' = [wire EXCEPT ![1].adds = @ \ {r}]
  PROVE  Inv'
<1>w. wire \in Seq(Pdus) /\ 1 \in DOMAIN wire /\ m \in Pdus
  BY WireHead DEF Inv, TypeOK
<1>n. PICK n \in Pdus : n = [m EXCEPT !.adds = @ \ {r}]
  BY <1>w, AnswerTypes
<1>1. wire' = [wire EXCEPT ![1] = n]
  BY <1>w, <1>n
<1>3. /\ n.type = "answer" /\ n.begun /\ n.full = m.full /\ n.from = m.from /\ n.session = m.session
      /\ n.serial = m.serial /\ n.adds = m.adds \ {r} /\ n.dels = m.dels /\ m.full \in BOOLEAN
  BY <1>w, <1>n DEF Pdus
<1>4. AnswerOK(m) /\ m.begun /\ ~endOfData /\ r \in m.adds /\ 1 \in DOMAIN wire
  BY <1>w DEF Inv, WireOK
<1>2. /\ UNCHANGED <<session, history, queries, phase, sessionID, serialNumber, endOfData, spoiled, table>>
      /\ pendingROAs' = pendingROAs \cup {r}
  BY <1>4 DEF IPPrefix, Inv, TypeOK
<1>5. /\ ResetDue' <=> ResetDue
      /\ DueLater' <=> DueLater
      /\ wire'[1] = n /\ wire' # <<>>
  BY <1>1, <1>2, <1>3, HeadRead
<1>6. AnswerOK(n)'
  <2>1. Brings(n)' = Brings(m)
    BY <1>2, <1>3, <1>4 DEF Brings
  <2> QED
    BY <1>2, <1>3, <1>4, <1>5, <2>1 DEF AnswerOK, IsVersion, Version, Present
<1>7. WireOK'
  BY <1>1, <1>2, <1>3, <1>4, <1>6, HeadReadWire
<1>8. TableOK'
  <2>1. \A x : Withdrawn(x) => Withdrawn(x)'
    BY <1>2, <1>3, <1>5 DEF Withdrawn, Version
  <2> QED
    BY <1>2, <1>5, <2>1 DEF Inv, TableOK, IsVersion, Version, Present
<1> QED
  BY <1>2, <1>7, <1>8 DEF Inv, QueriesOK, Connected

\* End of Data: the client has the version the answer leads to.
LEMMA EndOfDataKeeps ==
  ASSUME Inv, TypeOK', phase = "reading", wire # <<>>, NEW m, m = wire[1], m.type = "answer",
         UNCHANGED <<session, history, phase>>,
         m.begun, m.dels \cup m.adds = {}, EndOfData(m), wire' = Tail(wire)
  PROVE  Inv'
<1>1. m \in Pdus /\ m.full \in BOOLEAN /\ 1 \in DOMAIN wire
  <2>1. 1 \in DOMAIN wire /\ m \in Pdus
    BY WireHead DEF Inv, TypeOK
  <2> QED
    BY <2>1 DEF Pdus
<1>2. AnswerOK(m) /\ m.begun /\ Brings(m) = pendingROAs
  BY <1>1 DEF Inv, WireOK, Brings
<1>3. m.session = session
  BY <1>2 DEF AnswerOK
<1>4. /\ UNCHANGED <<session, history, queries, phase>>
      /\ sessionID' = session /\ serialNumber' = m.serial
      /\ table' = (IF sessionID # session THEN {} ELSE table) \cup pendingROAs
      /\ spoiled' = (~m.full /\ (spoiled \/ m.from # serialNumber))
  BY <1>3 DEF EndOfData
<1>6. /\ WireOK'
      /\ \A i \in DOMAIN wire : i > 1 => i - 1 \in DOMAIN wire' /\ wire'[i - 1] = wire[i]
  BY <1>4, TailWire
<1>7. ~ResetDue' => ~DueLater
  BY <1>4, <1>6 DEF ResetDue, DueLater, ResetAsked, FullAnswer
<1>8. DueLater \/ m.full \/ ~ResetDue
  <2>1. \A i \in DOMAIN wire : i = 1 \/ i > 1
    BY WireHead DEF Inv, TypeOK
  <2> QED
    BY <2>1 DEF ResetDue, DueLater, FullAnswer
<1>9. TableOK'
  <2> SUFFICES ASSUME ~ResetDue', ~spoiled'
               PROVE  IsVersion(m.serial) /\ Version(m.serial) \subseteq table'
    BY <1>4 DEF TableOK, IsVersion, Version, Present
  <2>1. IsVersion(m.serial)
    BY <1>2 DEF AnswerOK
  <2>2. CASE m.full
    BY <1>2, <1>4, <1>7, <2>1, <2>2 DEF AnswerOK
  <2>3. CASE ~m.full
    <3>1. ~spoiled /\ m.from = serialNumber /\ ~ResetDue /\ sessionID = session
      BY <1>2, <1>4, <1>7, <1>8, <2>3 DEF AnswerOK
    <3>2. \A r \in Version(m.serial) : r \in Version(serialNumber) \/ r \in pendingROAs
      BY <1>2, <2>3, <3>1 DEF AnswerOK
    <3>3. \A r \in Version(serialNumber) : r \in table \/ r \notin Version(m.serial)
      BY <1>2, <3>1 DEF Inv, TableOK, Withdrawn
    <3> QED
      BY <1>4, <2>1, <3>1, <3>2, <3>3
  <2> QED
    BY <2>2, <2>3
<1> QED
  BY <1>4, <1>6, <1>9 DEF Inv, QueriesOK

\* Serial Notify: what is new is asked for, or everything.
LEMMA NotifyKeeps ==
  ASSUME Inv, TypeOK', phase = "reading", wire # <<>>, NEW m, m = wire[1], m.type # "answer",
         UNCHANGED <<session, history, phase>>, ReadNotify(m)
  PROVE  Inv'
<1>1. /\ UNCHANGED <<table, spoiled>> /\ wire' = Tail(wire)
      /\ SerialQuery \/ UNCHANGED <<queries, client>> \/ SoftReset
  BY DEF ReadNotify, SerialNotify
<1>2. UNCHANGED <<sessionID, serialNumber>>
  BY <1>1 DEF SerialQuery, client, SoftReset
<1>3. /\ WireOK'
      /\ \A i \in DOMAIN wire : i > 1 => i - 1 \in DOMAIN wire' /\ wire'[i - 1] = wire[i]
      /\ \A i \in DOMAIN wire' : i + 1 \in DOMAIN wire /\ i + 1 > 1 /\ wire'[i] = wire[i + 1]
  BY <1>1, <1>2, TailWire
<1>4. CASE SoftReset
  <2>1. ResetAsked' /\ QueriesOK'
    BY <1>4, ResetAsks DEF Connected
  <2> QED
    BY <1>3, <2>1 DEF Inv, TableOK, ResetDue
<1>5. CASE SerialQuery \/ UNCHANGED <<queries, client>>
  <2>1. (ResetAsked' <=> ResetAsked) /\ QueriesOK'
    BY <1>2, <1>5, SerialAsks DEF ResetAsked, QueriesOK, Inv, Connected
  <2>2. ResetDue => ResetDue'
    <3>1. \A i \in DOMAIN wire : i = 1 \/ i > 1
      BY WireHead DEF Inv, TypeOK
    <3> QED
      BY <1>3, <2>1, <3>1 DEF ResetDue, FullAnswer
  <2>3. \A r : ~Withdrawn(r)
    BY DEF Withdrawn
  <2>4. TableOK'
    BY <1>1, <1>2, <2>2, <2>3 DEF Inv, TableOK, IsVersion, Version, Present
  <2> QED
    BY <1>3, <2>1, <2>4 DEF Inv
<1> QED
  BY <1>1, <1>4, <1>5

LEMMA CacheResetKeeps ==
  ASSUME Inv, TypeOK', phase = "reading", wire # <<>>, UNCHANGED <<session, history, phase>>, ReadCacheReset
  PROVE  Inv'
<1>1. SoftReset /\ wire' = Tail(wire)
  BY DEF ReadCacheReset
<1>2. ResetAsked' /\ QueriesOK' /\ UNCHANGED sessionID
  BY <1>1, ResetAsks DEF Connected
<1>3. WireOK'
  BY <1>1, <1>2, TailWire
<1> QED
  BY <1>2, <1>3 DEF Inv, TableOK, ResetDue

LEMMA RoaRTRKeeps ==
  ASSUME Inv, TypeOK', RoaRTR
  PROVE  Inv'
<1>1. phase = "reading" /\ wire # <<>> /\ UNCHANGED <<session, history, phase>>
  BY DEF RoaRTR, cache
<1>2. PICK m : m = wire[1] /\ m = Head(wire)
  <2>1. wire \in Seq(Pdus)
    BY DEF Inv, TypeOK
  <2>2. Head(wire) = wire[1]
    BY <1>1, <2>1
  <2> QED
    BY <2>2
<1>3. \/ m.type = "answer" /\ ReadAnswer(m)
      \/ m.type # "answer" /\ ReadNotify(m)
      \/ ReadCacheReset
  BY <1>2 DEF RoaRTR
<1>4. CASE m.type = "answer" /\ ReadAnswer(m)
  <2>1. CASE ~m.begun /\ CacheResponse /\ wire' = [wire EXCEPT ![1].begun = TRUE]
    BY <1>1, <1>2, <1>4, <2>1, BegunKeeps
  <2>2. ASSUME NEW r \in m.dels, m.begun, IPPrefix(r, FALSE), wire' = [wire EXCEPT ![1].dels = @ \ {r}]
        PROVE  Inv'
    BY <1>1, <1>2, <1>4, <2>2, WithdrawnKeeps
  <2>3. ASSUME NEW r \in m.adds, m.begun, IPPrefix(r, TRUE), wire' = [wire EXCEPT ![1].adds = @ \ {r}]
        PROVE  Inv'
    BY <1>1, <1>2, <1>4, <2>3, AnnouncedKeeps
  <2>4. CASE m.begun /\ m.dels \cup m.adds = {} /\ EndOfData(m) /\ wire' = Tail(wire)
    BY <1>1, <1>2, <1>4, <2>4, EndOfDataKeeps
  <2> QED
    BY <1>4, <2>1, <2>2, <2>3, <2>4 DEF ReadAnswer
<1>5. CASE m.type # "answer" /\ ReadNotify(m)
  BY <1>1, <1>2, <1>5, NotifyKeeps
<1>6. CASE ReadCacheReset
  BY <1>1, <1>6, CacheResetKeeps
<1> QED
  BY <1>3, <1>4, <1>5, <1>6

LEMMA ClientKeeps ==
  ASSUME Inv, TypeOK',
         RoaConnected \/ Established \/ Lose \/ RoaDisconnected \/ TimerFires \/ RoaLifetimeout \/ Request
  PROVE  Inv'
<1>1. CASE RoaConnected \/ Lose \/ RoaDisconnected
  BY <1>1, NotReading DEF RoaConnected, Lose, RoaDisconnected
<1>2. CASE Established
  BY <1>2, SoftResetKeeps DEF Established, Connected, cache
<1>3. CASE TimerFires \/ RoaLifetimeout
  BY <1>3, FrameKeeps DEF TimerFires, RoaLifetimeout, Frame, cache, client, Inv, TypeOK
<1>4. CASE Request
  <2>1. UNCHANGED <<session, history, wire>>
    BY <1>4 DEF Request, cache
  <2>2. CASE Enable
    BY <2>1, <2>2, SerialQueryKeeps DEF Enable
  <2>3. CASE Disable
    <3>1. phase' \in {"dialing", "closed"}
      BY <2>3 DEF Disable, Inv, TypeOK, Connected
    <3> QED
      BY <3>1, NotReading
  <2>4. CASE SoftResetServer
    <3>1. CASE Connected
      BY <2>1, <2>4, <3>1, SoftResetKeeps DEF SoftResetServer
    <3>2. CASE ~Connected
      BY <2>4, <3>2, NotReading DEF SoftResetServer, Connected, Inv, TypeOK
    <3> QED
      BY <3>1, <3>2
  <2> QED
    BY <1>4, <2>2, <2>3, <2>4 DEF Request
<1> QED
  BY <1>1, <1>2, <1>3, <1>4

LEMMA StepInv == Inv /\ [Next]_vars => Inv'
<1> SUFFICES ASSUME Inv, [Next]_vars PROVE Inv'
  OBVIOUS
<1>1. TypeOK'
  BY StepTypes DEF Inv
<1>2. CASE CacheChange
  BY <1>1, <1>2, CacheChangeKeeps
<1>3. CASE CacheRestart
  BY <1>1, <1>3, NotReading DEF CacheRestart
<1>4. CASE CacheAnswer
  BY <1>1, <1>4, CacheAnswerKeeps
<1>5. CASE RoaRTR
  BY <1>1, <1>5, RoaRTRKeeps
<1>6. CASE UNCHANGED vars
  BY <1>1, <1>6, FrameKeeps DEF vars, Frame, cache, client
<1> QED
  BY <1>1, <1>2, <1>3, <1>4, <1>5, <1>6, ClientKeeps DEF Next

\* Types are kept, whatever the cache and the API do.
THEOREM RpkiTypeCorrect == Spec => []TypeOK
<1>1. TypeOK /\ [Next]_vars => TypeOK'
  BY StepTypes
<1> QED
  BY InitTypes, <1>1, PTL DEF Spec

\* A client that has heard all the cache has to say and lost nothing to a timer or to an answer that
\* does not fit holds every ROA of the cache: for any ROAs, any number of changes and restarts of the
\* cache, of lost connections and of requests, and serial numbers that wrap late enough (handleRTRMsg,
\* roaClient.softReset, roaClient.enable).
THEOREM RoasAreComplete == Spec => []RoasComplete
<1>1. Inv => RoasComplete
  <2> SUFFICES ASSUME Inv, Synced, ~spoiled PROVE history[Present] \subseteq table
    BY DEF RoasComplete
  <2>1. Present \in 1..(MaxChanges + 1) /\ Present \in Nat
    BY BoundsAssumption DEF Inv, TypeOK
  <2>2. serialNumber = Present - 1
    BY <2>1, SerialIs DEF Synced, Inv
  <2>3. ~ResetDue /\ \A r : ~Withdrawn(r)
    BY DEF Synced, ResetDue, ResetAsked, Withdrawn
  <2>4. Version(serialNumber) \subseteq table
    BY <2>3 DEF Inv, TableOK, Synced
  <2> QED
    BY <2>1, <2>2, <2>4 DEF Version
<1> QED
  BY InitInv, StepInv, <1>1, PTL DEF Spec

-----------------------------------------------------------------------------
(* Monitor: the table of the server. *)

Adjs == [Sources -> [Nlris -> Prefs \cup {0, 1}]]
Best(a, n) == {Path(n, s, a[s][n]) : s \in {BestOf(a, n)} \ {None}}
IsBest(a, n, s) == /\ s \in Known(a, n)
                   /\ \A t \in Known(a, n) : a[s][n] > a[t][n] \/ (a[s][n] = a[t][n] /\ s <= t)

LEMMA SourcesAre == Sources = 0..NPeers /\ Peers \subseteq Sources /\ Local \in Sources /\ None \notin Sources
BY PrefsAssumption DEF Sources, Peers, Local, None

LEMMA FirstOfGreatest ==
  ASSUME NEW m \in Nat, NEW f \in [0..m -> Nat], NEW K \in SUBSET (0..m), K # {}
  PROVE  \E s \in K : \A t \in K : f[s] > f[t] \/ (f[s] = f[t] /\ s <= t)
<1> DEFINE First(R) == \E s \in R : \A t \in R : f[s] > f[t] \/ (f[s] = f[t] /\ s <= t)
           T == {k \in Nat : k <= m => \A R \in SUBSET (0..k) : R # {} => First(R)}
<1>1. 0 \in T
  <2>1. ASSUME NEW R \in SUBSET (0..0), R # {} PROVE First(R)
    <3>3. \A t \in R : t \in 0..0
      BY <2>1
    <3>4. \A t \in R : t = 0
      BY <3>3
    <3>1. 0 \in R /\ \A t \in R : t = 0
      BY <2>1, <3>4
    <3>2. \A t \in R : f[0] > f[t] \/ (f[0] = f[t] /\ 0 <= t)
      BY <3>1
    <3> QED
      BY <3>1, <3>2
  <2> QED
    BY <2>1
<1>2. ASSUME NEW k \in T PROVE k + 1 \in T
  <2> SUFFICES ASSUME k + 1 <= m, NEW R \in SUBSET (0..(k + 1)), R # {} PROVE First(R)
    OBVIOUS
  <2>1. k \in Nat /\ k <= m /\ \A Q \in SUBSET (0..k) : Q # {} => First(Q)
    OBVIOUS
  <2>2. PICK Q : Q = R \ {k + 1}
    OBVIOUS
  <2>3. Q \in SUBSET (0..k)
    BY <2>1, <2>2
  <2>4. CASE k + 1 \notin R
    <3>1. Q = R
      BY <2>2, <2>4
    <3> QED
      BY <2>1, <2>3, <3>1
  <2>5. CASE k + 1 \in R /\ Q = {}
    <3>1. R = {k + 1} /\ f[k + 1] \in Nat
      BY <2>1, <2>2, <2>5
    <3> QED
      BY <2>1, <3>1
  <2>6. CASE k + 1 \in R /\ Q # {}
    <3>1. PICK s \in Q : \A t \in Q : f[s] > f[t] \/ (f[s] = f[t] /\ s <= t)
      BY <2>1, <2>3, <2>6
    <3>2. s \in 0..k /\ s \in R /\ s <= k + 1 /\ f[s] \in Nat /\ f[k + 1] \in Nat
      BY <2>1, <2>2, <2>3
    <3>3. \A t \in R : t \in Q \/ t = k + 1
      BY <2>2
    <3>4. CASE f[k + 1] > f[s]
      <4>1. ASSUME NEW t \in R PROVE f[k + 1] > f[t] \/ (f[k + 1] = f[t] /\ k + 1 <= t)
        <5>1. CASE t = k + 1
          BY <2>1, <5>1
        <5>2. CASE t \in Q
          <6>1. f[t] \in Nat
            BY <2>1, <2>3, <5>2
          <6> QED
            BY <3>1, <3>2, <3>4, <5>2, <6>1
        <5> QED
          BY <3>3, <5>1, <5>2
      <4> QED
        BY <2>6, <4>1
    <3>5. CASE ~(f[k + 1] > f[s])
      <4>1. f[s] > f[k + 1] \/ f[s] = f[k + 1]
        BY <3>2, <3>5
      <4>2. ASSUME NEW t \in R PROVE f[s] > f[t] \/ (f[s] = f[t] /\ s <= t)
        BY <3>1, <3>2, <3>3, <4>1
      <4> QED
        BY <3>2, <4>2
    <3> QED
      BY <3>4, <3>5
  <2> QED
    BY <2>4, <2>5, <2>6
<1>3. T = Nat
  <2>1. T \subseteq Nat
    OBVIOUS
  <2> HIDE DEF T
  <2> QED
    BY <1>1, <1>2, <2>1, SetInduction
<1>4. m \in T
  <2> HIDE DEF T
  <2> QED
    BY <1>3
<1> QED
  BY <1>4

LEMMA PrefsAre == Prefs \cup {0, 1} \subseteq Nat
BY PrefsAssumption

LEMMA AdjType ==
  ASSUME NEW a \in Adjs, NEW s \in Sources, NEW n \in Nlris
  PROVE  a[s][n] \in Prefs \cup {0, 1} /\ a[s][n] \in Nat
<1>1. a[s] \in [Nlris -> Prefs \cup {0, 1}]
  BY DEF Adjs
<1>2. a[s][n] \in Prefs \cup {0, 1}
  BY <1>1
<1> QED
  BY <1>2, PrefsAre

LEMMA KnownFacts ==
  ASSUME NEW a \in Adjs, NEW n \in Nlris
  PROVE  /\ Known(a, n) \subseteq Sources
         /\ \A s \in Known(a, n) : a[s][n] > 0 /\ s \in Nat /\ a[s][n] \in Nat /\ a[s][n] \in Prefs \cup {0, 1}
BY AdjType, SourcesAre DEF Known, Accepted

LEMMA BestFacts ==
  ASSUME NEW a \in Adjs, NEW n \in Nlris
  PROVE  /\ Known(a, n) = {} => BestOf(a, n) = None /\ Best(a, n) = {}
         /\ Known(a, n) # {} => /\ IsBest(a, n, BestOf(a, n)) /\ BestOf(a, n) # None
                                /\ Best(a, n) = {Path(n, BestOf(a, n), a[BestOf(a, n)][n])}
<1>1. CASE Known(a, n) = {}
  <2>1. BestOf(a, n) = None
    BY <1>1 DEF BestOf
  <2> QED
    BY <1>1, <2>1 DEF Best
<1>2. CASE Known(a, n) # {}
  <2>1. PICK f : f = [s \in Sources |-> a[s][n]]
    OBVIOUS
  <2>2. f \in [0..NPeers -> Nat] /\ Known(a, n) \in SUBSET (0..NPeers) /\ NPeers \in Nat
    BY <2>1, AdjType, SourcesAre, KnownFacts, PrefsAssumption
  <2>3. PICK s \in Known(a, n) : \A t \in Known(a, n) : f[s] > f[t] \/ (f[s] = f[t] /\ s <= t)
    BY <1>2, <2>2, FirstOfGreatest
  <2>4. \A t \in Known(a, n) : f[t] = a[t][n]
    BY <2>1, KnownFacts
  <2>5. IsBest(a, n, s)
    BY <2>3, <2>4 DEF IsBest
  <2>6. IsBest(a, n, BestOf(a, n))
    BY <1>2, <2>5 DEF IsBest, BestOf
  <2>7. BestOf(a, n) # None
    BY <2>6, KnownFacts, SourcesAre DEF IsBest
  <2> QED
    BY <1>2, <2>6, <2>7 DEF Best
<1> QED
  BY <1>1, <1>2

LEMMA BestIsOne ==
  ASSUME NEW a \in Adjs, NEW n \in Nlris, NEW s, NEW t, IsBest(a, n, s), IsBest(a, n, t)
  PROVE  s = t
<1>1. /\ s \in Known(a, n) /\ t \in Known(a, n) /\ s \in Nat /\ t \in Nat /\ a[s][n] \in Nat /\ a[t][n] \in Nat
      /\ a[s][n] > a[t][n] \/ (a[s][n] = a[t][n] /\ s <= t)
      /\ a[t][n] > a[s][n] \/ (a[t][n] = a[s][n] /\ t <= s)
  BY KnownFacts DEF IsBest
<1> QED
  BY <1>1

\* What is known of an NLRI depends on what is announced of it.
LEMMA SameColumn ==
  ASSUME NEW a \in Adjs, NEW b \in Adjs, NEW n \in Nlris, \A s \in Sources : a[s][n] = b[s][n]
  PROVE  /\ Known(a, n) = Known(b, n) /\ BestOf(a, n) = BestOf(b, n)
         /\ Best(a, n) = Best(b, n) /\ Multi(a, n) = Multi(b, n)
<1>1. Known(a, n) = Known(b, n)
  BY DEF Known, Accepted
<1>2. BestOf(a, n) = BestOf(b, n)
  <2>1. CASE Known(a, n) = {}
    BY <1>1, <2>1, BestFacts
  <2>2. CASE Known(a, n) # {}
    <3>1. IsBest(a, n, BestOf(a, n)) /\ IsBest(b, n, BestOf(b, n))
      BY <1>1, <2>2, BestFacts
    <3>2. \A s \in Known(a, n) : a[s][n] = b[s][n]
      BY KnownFacts
    <3>3. IsBest(b, n, BestOf(a, n))
      BY <1>1, <3>1, <3>2 DEF IsBest
    <3> QED
      BY <3>1, <3>3, BestIsOne
  <2> QED
    BY <2>1, <2>2
<1>3. Best(a, n) = Best(b, n)
  <2>1. CASE Known(a, n) = {}
    BY <1>1, <2>1, BestFacts
  <2>2. CASE Known(a, n) # {}
    <3>1. BestOf(a, n) \in Sources
      BY <2>2, BestFacts, KnownFacts DEF IsBest
    <3> QED
      BY <1>1, <1>2, <2>2, <3>1, BestFacts
  <2> QED
    BY <2>1, <2>2
<1>4. MultiOf(a, n) = MultiOf(b, n)
  <2>1. CASE Known(a, n) = {}
    BY <1>1, <2>1 DEF MultiOf
  <2>2. CASE Known(a, n) # {}
    <3>1. BestOf(a, n) \in Sources
      BY <2>2, BestFacts, KnownFacts DEF IsBest
    <3>2. PICK m : m = BestOf(a, n)
      OBVIOUS
    <3>3. \A s \in Known(a, n) : s \in Sources
      BY KnownFacts
    <3> QED
      BY <1>1, <1>2, <3>1, <3>2, <3>3 DEF MultiOf
  <2> QED
    BY <2>1, <2>2
<1>5. \A s \in MultiOf(a, n) : s \in Sources
  BY KnownFacts DEF MultiOf
<1>6. Multi(a, n) = Multi(b, n)
  BY <1>4, <1>5 DEF Multi
<1> QED
  BY <1>1, <1>2, <1>3, <1>6

LEMMA PathType ==
  ASSUME NEW n \in Nlris, NEW s \in Sources, NEW v \in Prefs \cup {0, 1}
  PROVE  Path(n, s, v) \in Paths /\ Path(n, s, v).n = n /\ Path(n, s, v).src = s /\ Path(n, s, v).v = v
BY DEF Path, Paths

LEMMA OneOf ==
  ASSUME NEW S, NEW q \in S
  PROVE  <<q>> \in Seq(S) /\ <<q>> # <<>> /\ DOMAIN <<q>> = {1} /\ <<q>>[1] = q /\ ToSet(<<q>>) = {q}
BY DEF ToSet

LEMMA BestChangeIs ==
  ASSUME NEW a, NEW b, NEW n
  PROVE  BestChange(a, b, n) =
           IF BestOf(b, n) = BestOf(a, n) /\ (BestOf(b, n) = None \/ a[BestOf(a, n)][n] = b[BestOf(b, n)][n]) THEN <<>>
           ELSE IF BestOf(b, n) = None THEN <<Path(n, BestOf(a, n), 0)>>
           ELSE <<Path(n, BestOf(b, n), b[BestOf(b, n)][n])>>
<1>1. PICK x, y : x = BestOf(a, n) /\ y = BestOf(b, n)
  OBVIOUS
<1>3. BestChange(a, b, n) = CASE y = x /\ (y = None \/ a[x][n] = b[y][n]) -> <<>>
                              [] y = None /\ x # None -> <<Path(n, x, 0)>>
                              [] OTHER -> <<Path(n, y, b[y][n])>>
  BY <1>1 DEF BestChange
<1>4. CASE y = x /\ (y = None \/ a[x][n] = b[y][n])
  BY <1>1, <1>3, <1>4
<1>5. CASE ~(y = x /\ (y = None \/ a[x][n] = b[y][n])) /\ y = None
  BY <1>1, <1>3, <1>5
<1>6. CASE ~(y = x /\ (y = None \/ a[x][n] = b[y][n])) /\ y # None
  BY <1>1, <1>3, <1>6
<1> QED
  BY <1>4, <1>5, <1>6

LEMMA BestChangeFacts ==
  ASSUME NEW a \in Adjs, NEW b \in Adjs, NEW n \in Nlris
  PROVE  \/ BestChange(a, b, n) = <<>> /\ Best(a, n) = Best(b, n)
         \/ Best(b, n) = {} /\ \E s \in Sources : BestChange(a, b, n) = <<Path(n, s, 0)>>
         \/ \E q \in Paths : BestChange(a, b, n) = <<q>> /\ Best(b, n) = {q} /\ q.n = n /\ q.v > 0
<1>1. PICK x, y : x = BestOf(a, n) /\ y = BestOf(b, n)
  OBVIOUS
<1>2. CASE y = x /\ (y = None \/ a[x][n] = b[y][n])
  <2>1. BestChange(a, b, n) = <<>>
    BY <1>1, <1>2, BestChangeIs
  <2> QED
    BY <1>1, <1>2, <2>1 DEF Best
<1>3. CASE ~(y = x /\ (y = None \/ a[x][n] = b[y][n])) /\ y = None
  <2>1. BestChange(a, b, n) = <<Path(n, x, 0)>>
    BY <1>1, <1>3, BestChangeIs
  <2>2. Best(b, n) = {}
    BY <1>1, <1>3 DEF Best
  <2>3. x \in Sources
    BY <1>1, <1>3, BestFacts, KnownFacts DEF IsBest
  <2> QED
    BY <2>1, <2>2, <2>3
<1>4. CASE ~(y = x /\ (y = None \/ a[x][n] = b[y][n])) /\ y # None
  <2>1. BestChange(a, b, n) = <<Path(n, y, b[y][n])>>
    BY <1>1, <1>4, BestChangeIs
  <2>2. Best(b, n) = {Path(n, y, b[y][n])}
    BY <1>1, <1>4 DEF Best
  <2>3. y \in Sources /\ b[y][n] > 0 /\ b[y][n] \in Prefs \cup {0, 1}
    BY <1>1, <1>4, BestFacts, KnownFacts DEF IsBest
  <2> QED
    BY <2>1, <2>2, <2>3, PathType
<1> QED
  BY <1>2, <1>3, <1>4

LEMMA MultiFacts ==
  ASSUME NEW a \in Adjs, NEW n \in Nlris
  PROVE  /\ Multi(a, n) \subseteq Paths /\ IsFiniteSet(Multi(a, n)) /\ \A q \in Multi(a, n) : q.n = n /\ q.v > 0
         /\ Multi(a, n) = {} <=> Known(a, n) = {}
         /\ {q.src : q \in Multi(a, n)} = MultiOf(a, n)
         /\ Local \in MultiOf(a, n) => MultiOf(a, n) = {Local}
         /\ Known(a, n) # {} => BestOf(a, n) \in MultiOf(a, n)
<1>1. MultiOf(a, n) \subseteq Known(a, n)
  BY DEF MultiOf
<1>2. ASSUME NEW s \in MultiOf(a, n)
      PROVE  Path(n, s, a[s][n]) \in Paths /\ Path(n, s, a[s][n]).n = n /\ Path(n, s, a[s][n]).v > 0
             /\ Path(n, s, a[s][n]).src = s
  BY <1>1, KnownFacts, PathType
<1>3. IsFiniteSet(Multi(a, n))
  <2>1. IsFiniteSet(MultiOf(a, n))
    <3>1. IsFiniteSet(0..NPeers)
      BY PrefsAssumption, FS_Interval
    <3>2. MultiOf(a, n) \subseteq 0..NPeers
      BY <1>1, KnownFacts, SourcesAre
    <3> QED
      BY <3>1, <3>2, FS_Subset
  <2>2. PICK f : f = [s \in MultiOf(a, n) |-> Path(n, s, a[s][n])]
    OBVIOUS
  <2>3. f \in Surjection(MultiOf(a, n), Multi(a, n))
    BY <2>2 DEF Surjection, Multi
  <2> QED
    BY <2>1, <2>3, FS_Surjection
<1>4. Known(a, n) # {} => BestOf(a, n) \in MultiOf(a, n)
  BY BestFacts DEF MultiOf, IsBest
<1>5. Multi(a, n) = {} <=> MultiOf(a, n) = {}
  BY DEF Multi
<1>6. {q.src : q \in Multi(a, n)} = MultiOf(a, n)
  <2>1. Multi(a, n) = {Path(n, s, a[s][n]) : s \in MultiOf(a, n)}
    BY DEF Multi
  <2> QED
    BY <1>2, <2>1
<1>7. Local \in MultiOf(a, n) => MultiOf(a, n) = {Local}
  BY DEF MultiOf
<1>8. Multi(a, n) \subseteq Paths /\ \A q \in Multi(a, n) : q.n = n /\ q.v > 0
  BY <1>2 DEF Multi
<1> QED
  BY <1>1, <1>3, <1>4, <1>5, <1>6, <1>7, <1>8

\* The equal paths tell the best one.
LEMMA SameMulti ==
  ASSUME NEW a \in Adjs, NEW b \in Adjs, NEW n \in Nlris, Multi(a, n) = Multi(b, n)
  PROVE  BestChange(a, b, n) = <<>>
<1>1. CASE Multi(a, n) = {}
  <2>1. BestOf(a, n) = None /\ BestOf(b, n) = None
    BY <1>1, MultiFacts, BestFacts
  <2> QED
    BY <2>1, BestChangeIs
<1>2. CASE Multi(a, n) # {}
  <2>1. PICK x, y : x = BestOf(a, n) /\ y = BestOf(b, n)
    OBVIOUS
  <2>2. Known(a, n) # {} /\ Known(b, n) # {}
    BY <1>2, MultiFacts
  <2>3. MultiOf(a, n) = MultiOf(b, n)
    <3>1. {q.src : q \in Multi(a, n)} = MultiOf(a, n) /\ {q.src : q \in Multi(b, n)} = MultiOf(b, n)
      BY MultiFacts
    <3> QED
      BY <3>1
  <2>4. x \in MultiOf(b, n) /\ y \in MultiOf(a, n) /\ x \in MultiOf(a, n) /\ y \in MultiOf(b, n)
    BY <2>1, <2>2, <2>3, MultiFacts
  <2>5. IsBest(a, n, x) /\ IsBest(b, n, y)
    BY <2>1, <2>2, BestFacts
  <2>6. x = y
    <3>1. CASE Local \in {x, y}
      <4>1. MultiOf(a, n) = {Local}
        BY <2>4, <3>1, MultiFacts
      <4> QED
        BY <2>3, <2>4, <4>1
    <3>2. CASE Local \notin {x, y}
      <4>1. x \in Known(a, n) /\ y \in Known(a, n) /\ x \in Known(b, n) /\ y \in Known(b, n)
            /\ a[x][n] = a[y][n] /\ b[x][n] = b[y][n]
        BY <2>1, <2>4, <3>2 DEF MultiOf
      <4>2. x \in Nat /\ y \in Nat /\ a[x][n] \in Nat /\ b[x][n] \in Nat
        BY <4>1, KnownFacts
      <4>3. x <= y /\ y <= x
        BY <2>5, <4>1, <4>2 DEF IsBest
      <4> QED
        BY <4>2, <4>3
    <3> QED
      BY <3>1, <3>2
  <2>7. a[x][n] = b[x][n]
    <3>1. Path(n, x, a[x][n]) \in Multi(b, n)
      BY <2>4 DEF Multi
    <3>2. PICK s \in MultiOf(b, n) : Path(n, x, a[x][n]) = Path(n, s, b[s][n])
      BY <3>1 DEF Multi
    <3> QED
      BY <3>2 DEF Path
  <2> QED
    BY <2>1, <2>6, <2>7, BestChangeIs
<1> QED
  BY <1>1, <1>2

-----------------------------------------------------------------------------
(* Lists of paths *)

Shown(a, n) == IF multipath THEN Multi(a, n) ELSE Best(a, n)
WellFormed(l) == (\A i \in DOMAIN l : l[i].v > 0) \/ (\E n \in Nlris, s \in Sources : l = <<Path(n, s, 0)>>)
OneNlri(l) == \E n \in Nlris : PrefixesOf(l) = {n}
TellsOf(a, n, l) == \/ PathsOf(l, n) = Shown(a, n)
                    \/ Shown(a, n) = {} /\ \E s \in Sources : PathsOf(l, n) = {Path(n, s, 0)}
Naming(n) == {l \in Seq(Paths) : n \in PrefixesOf(l)}
Telling(a, n) == {l \in Seq(Paths) : TellsOf(a, n, l)}

LEMMA ListSets ==
  ASSUME NEW l \in Seq(Paths)
  PROVE  /\ PrefixesOf(l) = {q.n : q \in ToSet(l)} /\ PrefixesOf(l) \subseteq Nlris
         /\ \A n \in Nlris : PathsOf(l, n) = {q \in ToSet(l) : q.n = n}
         /\ (\A i \in DOMAIN l : l[i].v > 0) <=> (\A q \in ToSet(l) : q.v > 0)
<1>1. Len(l) \in Nat /\ DOMAIN l = 1..Len(l) /\ \A i \in 1..Len(l) : l[i] \in Paths
  OBVIOUS
<1>2. \A i \in DOMAIN l : l[i].n \in Nlris
  BY <1>1 DEF Paths
<1> QED
  BY <1>2 DEF PrefixesOf, PathsOf, ToSet

LEMMA OnePath ==
  ASSUME NEW q \in Paths
  PROVE  /\ <<q>> \in Seq(Paths) /\ <<q>> # <<>> /\ PrefixesOf(<<q>>) = {q.n} /\ q.n \in Nlris /\ PathsOf(<<q>>, q.n) = {q}
         /\ q.v > 0 => \A i \in DOMAIN <<q>> : <<q>>[i].v > 0
<1>1. <<q>> \in Seq(Paths) /\ <<q>> # <<>> /\ ToSet(<<q>>) = {q}
  BY OneOf
<1>2. q.n \in Nlris
  BY DEF Paths
<1>3. PICK l : l = <<q>>
  OBVIOUS
<1>4. l \in Seq(Paths) /\ ToSet(l) = {q}
  BY <1>1, <1>3
<1>5. PrefixesOf(l) = {r.n : r \in ToSet(l)} /\ PathsOf(l, q.n) = {r \in ToSet(l) : r.n = q.n}
  BY <1>2, <1>4, ListSets
<1>6. PrefixesOf(l) = {q.n} /\ PathsOf(l, q.n) = {q}
  BY <1>4, <1>5
<1>7. q.v > 0 => \A i \in DOMAIN l : l[i].v > 0
  BY <1>4, ListSets
<1> QED
  BY <1>1, <1>2, <1>3, <1>6, <1>7

LEMMA ZeroPath ==
  ASSUME NEW n \in Nlris, NEW s \in Sources
  PROVE  Path(n, s, 0) \in Paths /\ Path(n, s, 0).n = n /\ Path(n, s, 0).v = 0
BY PathType

\* A finite set of paths as a list.
LEMMA SetList ==
  ASSUME NEW M \in SUBSET Paths, IsFiniteSet(M), \A q \in M : q.v > 0
  PROVE  /\ SetToSeq(M) \in Seq(Paths) /\ ToSet(SetToSeq(M)) = M /\ (M # {} => SetToSeq(M) # <<>>)
         /\ \A i \in DOMAIN SetToSeq(M) : SetToSeq(M)[i].v > 0
         /\ PrefixesOf(SetToSeq(M)) = {q.n : q \in M}
         /\ \A n \in Nlris : PathsOf(SetToSeq(M), n) = {q \in M : q.n = n}
<1>1. PICK l : l = SetToSeq(M)
  OBVIOUS
<1>2. l \in Seq(M) /\ ToSet(l) = M
  BY <1>1, SetToSeqFacts
<1>3. l \in Seq(Paths)
  <2>1. Len(l) \in Nat /\ l = [i \in 1..Len(l) |-> l[i]] /\ \A i \in 1..Len(l) : l[i] \in Paths
    BY <1>2
  <2> QED
    BY <2>1, IsList
<1>4. M # {} => l # <<>>
  <2>1. ToSet(<<>>) = {}
    BY DEF ToSet
  <2> QED
    BY <1>2, <2>1
<1> QED
  BY <1>1, <1>2, <1>3, <1>4, ListSets

LEMMA ShownFacts ==
  ASSUME NEW a \in Adjs, NEW n \in Nlris
  PROVE  /\ Shown(a, n) \subseteq Paths /\ IsFiniteSet(Shown(a, n)) /\ \A q \in Shown(a, n) : q.n = n /\ q.v > 0
         /\ Shown(a, n) = {} <=> Known(a, n) = {}
         /\ BestOf(a, n) # Local => \A q \in Shown(a, n) : q.src # Local
<1>1. CASE Known(a, n) = {}
  <2>1. Best(a, n) = {} /\ Multi(a, n) = {}
    BY <1>1, BestFacts, MultiFacts
  <2>2. Shown(a, n) = {}
    BY <2>1 DEF Shown
  <2> QED
    BY <1>1, <2>2, FS_EmptySet
<1>2. CASE Known(a, n) # {}
  <2>1. PICK s : s = BestOf(a, n)
    OBVIOUS
  <2>2. s \in Sources /\ a[s][n] > 0 /\ a[s][n] \in Prefs \cup {0, 1} /\ Best(a, n) = {Path(n, s, a[s][n])}
    BY <1>2, <2>1, BestFacts, KnownFacts DEF IsBest
  <2>3. PICK q : q = Path(n, s, a[s][n])
    OBVIOUS
  <2>4. q \in Paths /\ q.n = n /\ q.v > 0 /\ q.src = s /\ Best(a, n) = {q} /\ IsFiniteSet({q})
    <3>1. \A x : IsFiniteSet({x})
      BY FS_Singleton
    <3>2. Path(n, s, a[s][n]) \in Paths /\ q.n = n /\ q.src = s /\ q.v = a[s][n]
      BY <2>2, <2>3, PathType
    <3> QED
      BY <2>2, <2>3, <3>1, <3>2
  <2>5. /\ Multi(a, n) \subseteq Paths /\ IsFiniteSet(Multi(a, n)) /\ \A r \in Multi(a, n) : r.n = n /\ r.v > 0
        /\ Multi(a, n) # {} /\ {r.src : r \in Multi(a, n)} = MultiOf(a, n)
        /\ Local \in MultiOf(a, n) => MultiOf(a, n) = {Local}
        /\ s \in MultiOf(a, n)
    BY <1>2, <2>1, MultiFacts
  <2>6. s # Local => \A r \in Multi(a, n) : r.src # Local
    BY <2>5
  <2> QED
    BY <1>2, <2>1, <2>4, <2>5, <2>6 DEF Shown
<1> QED
  BY <1>1, <1>2

LEMMA SameShown ==
  ASSUME NEW a \in Adjs, NEW b \in Adjs, NEW n \in Nlris, \A s \in Sources : a[s][n] = b[s][n]
  PROVE  Shown(a, n) = Shown(b, n)
BY SameColumn DEF Shown

LEMMA MultiChangeIs ==
  ASSUME NEW a, NEW b, NEW n
  PROVE  MultiChange(a, b, n) = IF ~multipath \/ Multi(a, n) = Multi(b, n) THEN <<>>
                                ELSE IF Multi(b, n) = {} THEN BestChange(a, b, n) ELSE SetToSeq(Multi(b, n))
<1>1. PICK x, y : x = Multi(a, n) /\ y = Multi(b, n)
  OBVIOUS
<1>2. PICK u, w : u = BestChange(a, b, n) /\ w = SetToSeq(y)
  OBVIOUS
<1>3. MultiChange(a, b, n) = CASE ~multipath \/ x = y -> <<>>
                               [] multipath /\ x # y /\ y = {} -> u
                               [] OTHER -> w
  BY <1>1, <1>2 DEF MultiChange
<1>4. CASE ~multipath \/ x = y
  BY <1>1, <1>3, <1>4
<1>5. CASE ~(~multipath \/ x = y) /\ y = {}
  BY <1>1, <1>2, <1>3, <1>5
<1>6. CASE ~(~multipath \/ x = y) /\ y # {}
  BY <1>1, <1>2, <1>3, <1>6
<1> QED
  BY <1>4, <1>5, <1>6

LEMMA WithdrawalTells ==
  ASSUME NEW a \in Adjs, NEW n \in Nlris, NEW s \in Sources, Known(a, n) = {}
  PROVE  LET l == <<Path(n, s, 0)>>
         IN l \in Seq(Paths) /\ l # <<>> /\ WellFormed(l) /\ PrefixesOf(l) = {n} /\ TellsOf(a, n, l)
<1>1. PICK q \in Paths : q = Path(n, s, 0) /\ q.n = n
  BY ZeroPath
<1>2. <<q>> \in Seq(Paths) /\ <<q>> # <<>> /\ PrefixesOf(<<q>>) = {n} /\ PathsOf(<<q>>, n) = {q}
  BY <1>1, OnePath
<1>3. Shown(a, n) = {}
  BY ShownFacts
<1>4. TellsOf(a, n, <<q>>)
  BY <1>1, <1>2, <1>3 DEF TellsOf
<1>5. WellFormed(<<q>>)
  BY <1>1 DEF WellFormed
<1> QED
  BY <1>1, <1>2, <1>4, <1>5

\* A change of an NLRI makes a list that tells of what is now shown of it, or nothing has changed.
LEMMA BestListsFacts ==
  ASSUME NEW a \in Adjs, NEW b \in Adjs, NEW n \in Nlris
  PROVE  \/ BestLists(a, b, n) = <<>> /\ Shown(a, n) = Shown(b, n)
         \/ \E l \in Seq(Paths) : /\ BestLists(a, b, n) = <<l>> /\ WellFormed(l)
                                  /\ PrefixesOf(l) = {n} /\ TellsOf(b, n, l)
<1> DEFINE Tells(l) == l \in Seq(Paths) /\ l # <<>> /\ WellFormed(l) /\ PrefixesOf(l) = {n} /\ TellsOf(b, n, l)
           change == IF MultiChange(a, b, n) # <<>> THEN MultiChange(a, b, n) ELSE BestChange(a, b, n)
<1>1. BestLists(a, b, n) = IF change = <<>> THEN <<>> ELSE <<change>>
  BY DEF BestLists
<1>2. (change = <<>> /\ Shown(a, n) = Shown(b, n)) \/ Tells(change)
  <2>1. CASE ~multipath
    <3>1. change = BestChange(a, b, n) /\ Shown(a, n) = Best(a, n) /\ Shown(b, n) = Best(b, n)
      BY <2>1, MultiChangeIs DEF Shown
    <3>2. CASE BestChange(a, b, n) = <<>> /\ Best(a, n) = Best(b, n)
      BY <3>1, <3>2
    <3>3. CASE Best(b, n) = {} /\ \E s \in Sources : BestChange(a, b, n) = <<Path(n, s, 0)>>
      <4>1. PICK s \in Sources : BestChange(a, b, n) = <<Path(n, s, 0)>>
        BY <3>3
      <4>2. Known(b, n) = {}
        BY <3>1, <3>3, ShownFacts
      <4> QED
        <5>1. PICK l : l = <<Path(n, s, 0)>>
          OBVIOUS
        <5>2. l \in Seq(Paths) /\ l # <<>> /\ WellFormed(l) /\ PrefixesOf(l) = {n} /\ TellsOf(b, n, l)
          BY <4>2, <5>1, WithdrawalTells
        <5>3. change = l
          BY <3>1, <4>1, <5>1
        <5> HIDE DEF change
        <5> QED
          BY <5>2, <5>3
    <3>4. CASE \E q \in Paths : BestChange(a, b, n) = <<q>> /\ Best(b, n) = {q} /\ q.n = n /\ q.v > 0
      <4>1. PICK q \in Paths : BestChange(a, b, n) = <<q>> /\ Best(b, n) = {q} /\ q.n = n /\ q.v > 0
        BY <3>4
      <4>2. /\ <<q>> \in Seq(Paths) /\ <<q>> # <<>> /\ PrefixesOf(<<q>>) = {n} /\ PathsOf(<<q>>, n) = {q}
            /\ \A i \in DOMAIN <<q>> : <<q>>[i].v > 0
        BY <4>1, OnePath
      <4>3. WellFormed(<<q>>)
        BY <4>2, Zenon DEF WellFormed
      <4>4. TellsOf(b, n, <<q>>)
        BY <3>1, <4>1, <4>2 DEF TellsOf
      <4> QED
        BY <3>1, <4>1, <4>2, <4>3, <4>4
    <3> QED
      BY <3>2, <3>3, <3>4, BestChangeFacts
  <2>2. CASE multipath /\ Multi(a, n) = Multi(b, n)
    <3>1. BestChange(a, b, n) = <<>>
      BY <2>2, SameMulti
    <3>2. MultiChange(a, b, n) = <<>>
      BY <2>2, MultiChangeIs
    <3> QED
      BY <2>2, <3>1, <3>2 DEF Shown
  <2>3. CASE multipath /\ Multi(a, n) # Multi(b, n) /\ Multi(b, n) = {}
    <3>1. MultiChange(a, b, n) = BestChange(a, b, n)
      BY <2>3, MultiChangeIs
    <3>2. Known(b, n) = {} /\ Known(a, n) # {}
      BY <2>3, MultiFacts
    <3>3. Best(b, n) = {} /\ Best(a, n) # {}
      BY <3>2, BestFacts
    <3>4. PICK s \in Sources : BestChange(a, b, n) = <<Path(n, s, 0)>>
      BY <3>3, BestChangeFacts
    <3> QED
      BY <3>1, <3>2, <3>4, WithdrawalTells
  <2>4. CASE multipath /\ Multi(a, n) # Multi(b, n) /\ Multi(b, n) # {}
    <3>1. PICK M : M = Multi(b, n)
      OBVIOUS
    <3>2. M \in SUBSET Paths /\ IsFiniteSet(M) /\ (\A q \in M : q.n = n /\ q.v > 0) /\ M # {}
      BY <2>4, <3>1, MultiFacts
    <3>3. PICK l : l = SetToSeq(M)
      OBVIOUS
    <3>4. /\ l \in Seq(Paths) /\ l # <<>> /\ (\A i \in DOMAIN l : l[i].v > 0)
          /\ PrefixesOf(l) = {q.n : q \in M} /\ PathsOf(l, n) = {q \in M : q.n = n}
      BY <3>2, <3>3, SetList
    <3>5. PrefixesOf(l) = {n} /\ PathsOf(l, n) = M
      BY <3>2, <3>4
    <3>6. Shown(b, n) = M
      BY <2>4, <3>1 DEF Shown
    <3>7. MultiChange(a, b, n) = l
      BY <2>4, <3>1, <3>3, MultiChangeIs
    <3>8. WellFormed(l) /\ TellsOf(b, n, l)
      BY <3>4, <3>5, <3>6 DEF WellFormed, TellsOf
    <3> QED
      BY <3>4, <3>5, <3>7, <3>8
  <2> QED
    BY <2>1, <2>2, <2>3, <2>4
<1> HIDE DEF change
<1>3. CASE Tells(change)
  BY <1>1, <1>3
<1> QED
  BY <1>1, <1>2, <1>3

LEMMA SnapshotFacts ==
  ASSUME adj \in Adjs
  PROVE  /\ Snapshot \in Seq(Paths) /\ WellFormed(Snapshot)
         /\ \A n \in Nlris : PathsOf(Snapshot, n) = Shown(adj, n)
<1>1. PICK M : M = UNION {Shown(adj, n) : n \in Nlris}
  OBVIOUS
<1>2. Snapshot = SetToSeq(M)
  BY <1>1 DEF Snapshot, Shown, Best
<1>3. IsFiniteSet(M)
  <2>1. PICK I : I = {Shown(adj, n) : n \in Nlris}
    OBVIOUS
  <2>2. PICK f : f = [n \in Nlris |-> Shown(adj, n)]
    OBVIOUS
  <2>3. f \in Surjection(Nlris, I)
    BY <2>1, <2>2 DEF Surjection
  <2>4. IsFiniteSet(Nlris)
    BY PrefsAssumption DEF Nlris
  <2>5. IsFiniteSet(I)
    BY <2>3, <2>4, FS_Surjection
  <2>6. \A T \in I : IsFiniteSet(T)
    BY <2>1, ShownFacts
  <2> QED
    BY <1>1, <2>1, <2>5, <2>6, FS_UNION
<1>4. M \in SUBSET Paths /\ \A q \in M : q.v > 0
  BY <1>1, ShownFacts
<1>5. ASSUME NEW n \in Nlris PROVE {q \in M : q.n = n} = Shown(adj, n)
  <2>1. \A m \in Nlris : \A q \in Shown(adj, m) : q.n = m
    BY ShownFacts
  <2> QED
    BY <1>1, <2>1
<1>6. PICK l : l = SetToSeq(M)
  OBVIOUS
<1>7. l \in Seq(Paths) /\ (\A i \in DOMAIN l : l[i].v > 0) /\ \A n \in Nlris : PathsOf(l, n) = {q \in M : q.n = n}
  BY <1>3, <1>4, <1>6, SetList
<1>8. WellFormed(l)
  BY <1>7, Zenon DEF WellFormed
<1> QED
  BY <1>2, <1>5, <1>6, <1>7, <1>8

-----------------------------------------------------------------------------
(* What the watchers are told of a change *)

OfSession(p) == {PeerUp(p), PeerDown(p)}
OfRoute(p, n) == {PeerDown(p)} \cup {PreUpdate(p, n, v) : v \in Prefs \cup {0, 1}}
OfBest(n) == {e \in Events : e.type = "best" /\ n \in PrefixesOf(e.list)}
TrueSession(u, p) == {IF p \in u THEN PeerUp(p) ELSE PeerDown(p)}
TrueRoute(a, p, n) == {PreUpdate(p, n, a[p][n])} \cup {e \in {PeerDown(p)} : a[p][n] = 0}
TrueBest(a, n) == {e \in Events : e.type = "best" /\ {q \in PathsOf(e.list, n) : q.v > 0} = Best(a, n)}

\* Lists that tell of all that has changed in the table, and nothing else.
ListsTell(a, lists) ==
  /\ lists \in Seq(Seq(Paths))
  /\ \A l \in ToSet(lists) : WellFormed(l) /\ \E n \in Nlris : PrefixesOf(l) = {n} /\ TellsOf(a, n, l)
  /\ \A n \in Nlris : Silent(lists, Naming(n)) => Shown(a, n) = Shown(adj, n)

\* ... and events of all that has changed in the sessions and the table.
EventsTell(u, a, events) ==
  /\ events \in Seq(Events)
  /\ \A p \in Peers : /\ ToSet(events) \cap OfSession(p) \subseteq TrueSession(u, p)
                      /\ Silent(events, OfSession(p)) => (p \in u <=> p \in up)
  /\ \A p \in Peers, n \in Nlris : /\ ToSet(events) \cap OfRoute(p, n) \subseteq TrueRoute(a, p, n)
                                   /\ Silent(events, OfRoute(p, n)) => a[p][n] = adj[p][n]
  /\ \A n \in Nlris : /\ ToSet(events) \cap OfBest(n) \subseteq TrueBest(a, n)
                      /\ Silent(events, OfBest(n)) => Best(a, n) = Best(adj, n)

LEMMA EventTypes ==
  ASSUME NEW p \in Peers, NEW n \in Nlris, NEW v \in Prefs \cup {0, 1}, NEW i \in BOOLEAN, NEW l \in Seq(Paths)
  PROVE  /\ PeerUp(p) \in Events /\ PeerDown(p) \in Events /\ PreUpdate(p, n, v) \in Events
         /\ PostUpdate(p, n, v, i) \in Events /\ BestPath(l) \in Events
<1>1. p \in Sources /\ Path(n, p, v) \in Paths /\ Path(n, p, v).src = p
  BY SourcesAre, PathType
<1>2. Path(n, p, v) \in PeerPaths
  BY <1>1 DEF PeerPaths
<1>3. PeerUp(p) \in Events /\ PeerDown(p) \in Events
  BY DEF Events, PeerUp, PeerDown
<1>4. PreUpdate(p, n, v) \in Events
  BY <1>2 DEF Events, PreUpdate
<1>5. PostUpdate(p, n, v, i) \in Events
  BY <1>2 DEF Events, PostUpdate
<1>6. BestPath(l) \in Events
  BY DEF Events, BestPath
<1> QED
  BY <1>3, <1>4, <1>5, <1>6

\* Events of one kind are not of another.
LEMMA EventKinds ==
  ASSUME NEW p \in Peers, NEW n \in Nlris, NEW q \in Peers, NEW m \in Nlris,
         NEW v \in Prefs \cup {0, 1}, NEW i \in BOOLEAN, NEW l \in Seq(Paths)
  PROVE  /\ PeerUp(p) \in OfSession(q) <=> p = q
         /\ PeerDown(p) \in OfSession(q) <=> p = q
         /\ PreUpdate(p, n, v) \notin OfSession(q) /\ PostUpdate(p, n, v, i) \notin OfSession(q)
         /\ BestPath(l) \notin OfSession(q)
         /\ PeerUp(p) \notin OfRoute(q, m) /\ PeerDown(p) \in OfRoute(q, m) <=> p = q
         /\ PreUpdate(p, n, v) \in OfRoute(q, m) <=> (p = q /\ n = m)
         /\ PostUpdate(p, n, v, i) \notin OfRoute(q, m) /\ BestPath(l) \notin OfRoute(q, m)
         /\ PeerUp(p) \notin OfBest(m) /\ PeerDown(p) \notin OfBest(m)
         /\ PreUpdate(p, n, v) \notin OfBest(m) /\ PostUpdate(p, n, v, i) \notin OfBest(m)
         /\ BestPath(l) \in OfBest(m) <=> m \in PrefixesOf(l)
<1>1. /\ PeerUp(p).type = "up" /\ PeerUp(p).peer = p /\ PeerDown(p).type = "down" /\ PeerDown(p).peer = p
      /\ PreUpdate(p, n, v).type = "pre" /\ PreUpdate(p, n, v).path = Path(n, p, v)
      /\ PostUpdate(p, n, v, i).type = "post" /\ BestPath(l).type = "best" /\ BestPath(l).list = l
      /\ PeerUp(q).type = "up" /\ PeerUp(q).peer = q /\ PeerDown(q).type = "down" /\ PeerDown(q).peer = q
      /\ Path(n, p, v).n = n /\ Path(n, p, v).src = p
  BY DEF PeerUp, PeerDown, PreUpdate, PostUpdate, BestPath, Path
<1>2. \A w : PreUpdate(q, m, w).type = "pre" /\ PreUpdate(q, m, w).path.n = m /\ PreUpdate(q, m, w).path.src = q
  BY DEF PreUpdate, Path
<1>3. PreUpdate(p, n, v) \in OfRoute(p, n)
  BY DEF OfRoute
<1>4. BestPath(l) \in Events
  BY EventTypes
<1>5. /\ PeerUp(p) \in OfSession(q) <=> p = q
      /\ PeerDown(p) \in OfSession(q) <=> p = q
      /\ PreUpdate(p, n, v) \notin OfSession(q) /\ PostUpdate(p, n, v, i) \notin OfSession(q)
      /\ BestPath(l) \notin OfSession(q)
  BY <1>1 DEF OfSession
<1>6. /\ PeerUp(p) \notin OfRoute(q, m) /\ PostUpdate(p, n, v, i) \notin OfRoute(q, m)
      /\ BestPath(l) \notin OfRoute(q, m)
  BY <1>1, <1>2 DEF OfRoute
<1>7. PeerDown(p) \in OfRoute(q, m) <=> p = q
  BY <1>1, <1>2 DEF OfRoute
<1>8. PreUpdate(p, n, v) \in OfRoute(q, m) <=> (p = q /\ n = m)
  BY <1>1, <1>2, <1>3 DEF OfRoute
<1>9. /\ PeerUp(p) \notin OfBest(m) /\ PeerDown(p) \notin OfBest(m)
      /\ PreUpdate(p, n, v) \notin OfBest(m) /\ PostUpdate(p, n, v, i) \notin OfBest(m)
      /\ BestPath(l) \in OfBest(m) <=> m \in PrefixesOf(l)
  BY <1>1, <1>4 DEF OfBest
<1> QED
  BY <1>5, <1>6, <1>7, <1>8, <1>9

LEMMA BestEventsFacts ==
  ASSUME NEW a \in Adjs, NEW b \in Adjs, NEW n \in Nlris
  PROVE  \/ BestEvents(a, b, n) = <<>> /\ Best(a, n) = Best(b, n)
         \/ \E l \in Seq(Paths) : /\ BestEvents(a, b, n) = <<BestPath(l)>> /\ PrefixesOf(l) = {n}
                                  /\ {q \in PathsOf(l, n) : q.v > 0} = Best(b, n)
<1>1. CASE BestChange(a, b, n) = <<>> /\ Best(a, n) = Best(b, n)
  BY <1>1 DEF BestEvents
<1>2. CASE Best(b, n) = {} /\ \E s \in Sources : BestChange(a, b, n) = <<Path(n, s, 0)>>
  <2>1. PICK s \in Sources : BestChange(a, b, n) = <<Path(n, s, 0)>>
    BY <1>2
  <2>2. PICK q \in Paths : q = Path(n, s, 0) /\ q.n = n /\ q.v = 0
    BY ZeroPath
  <2>3. PICK l : l = <<q>>
    OBVIOUS
  <2>4. l \in Seq(Paths) /\ l # <<>> /\ PrefixesOf(l) = {n} /\ PathsOf(l, n) = {q}
    BY <2>2, <2>3, OnePath
  <2>5. BestEvents(a, b, n) = <<BestPath(l)>>
    BY <2>1, <2>2, <2>3, <2>4 DEF BestEvents
  <2>6. {r \in PathsOf(l, n) : r.v > 0} = {}
    BY <2>2, <2>4
  <2> QED
    BY <1>2, <2>4, <2>5, <2>6
<1>3. CASE \E q \in Paths : BestChange(a, b, n) = <<q>> /\ Best(b, n) = {q} /\ q.n = n /\ q.v > 0
  <2>1. PICK q \in Paths : BestChange(a, b, n) = <<q>> /\ Best(b, n) = {q} /\ q.n = n /\ q.v > 0
    BY <1>3
  <2>2. PICK l : l = <<q>>
    OBVIOUS
  <2>3. l \in Seq(Paths) /\ l # <<>> /\ PrefixesOf(l) = {n} /\ PathsOf(l, n) = {q}
    BY <2>1, <2>2, OnePath
  <2>4. BestEvents(a, b, n) = <<BestPath(l)>>
    BY <2>1, <2>2, <2>3 DEF BestEvents
  <2>5. {r \in PathsOf(l, n) : r.v > 0} = {q}
    BY <2>1, <2>3
  <2> QED
    BY <2>1, <2>3, <2>4, <2>5
<1> QED
  BY <1>1, <1>2, <1>3, BestChangeFacts

\* Only the column of n changes.
OnlyColumn(a, b, n) == \A s \in Sources, m \in Nlris \ {n} : a[s][m] = b[s][m]

LEMMA ListsOfOne ==
  ASSUME adj \in Adjs, NEW a \in Adjs, NEW n \in Nlris, OnlyColumn(adj, a, n)
  PROVE  ListsTell(a, BestLists(adj, a, n))
<1>1. PICK lists : lists = BestLists(adj, a, n)
  OBVIOUS
<1>2. \A m \in Nlris \ {n} : Shown(a, m) = Shown(adj, m)
  BY SameShown DEF OnlyColumn
<1>3. CASE lists = <<>> /\ Shown(adj, n) = Shown(a, n)
  <2>1. lists \in Seq(Seq(Paths)) /\ ToSet(lists) = {}
    BY <1>3 DEF ToSet
  <2> QED
    BY <1>1, <1>2, <1>3, <2>1 DEF ListsTell
<1>4. CASE \E l \in Seq(Paths) : /\ lists = <<l>> /\ WellFormed(l) /\ PrefixesOf(l) = {n} /\ TellsOf(a, n, l)
  <2>1. PICK l \in Seq(Paths) : /\ lists = <<l>> /\ WellFormed(l) /\ PrefixesOf(l) = {n} /\ TellsOf(a, n, l)
    BY <1>4
  <2>2. lists \in Seq(Seq(Paths)) /\ ToSet(lists) = {l}
    BY <2>1, OneOf
  <2>3. ~Silent(lists, Naming(n))
    BY <2>1, <2>2 DEF Silent, Naming
  <2> QED
    BY <1>1, <1>2, <2>1, <2>2, <2>3 DEF ListsTell
<1> QED
  BY <1>1, <1>3, <1>4, BestListsFacts

LEMMA WithRoute ==
  ASSUME NEW a \in Adjs, NEW s \in Sources, NEW n \in Nlris, NEW v \in Prefs \cup {0, 1}
  PROVE  /\ [a EXCEPT ![s][n] = v] \in Adjs /\ OnlyColumn(a, [a EXCEPT ![s][n] = v], n)
         /\ [a EXCEPT ![s][n] = v][s][n] = v
         /\ \A t \in Sources \ {s}, m \in Nlris : [a EXCEPT ![s][n] = v][t][m] = a[t][m]
<1>1. PICK b : b = [a EXCEPT ![s][n] = v]
  OBVIOUS
<1>2. a[s] \in [Nlris -> Prefs \cup {0, 1}]
  BY DEF Adjs
<1>3. b \in Adjs
  BY <1>1, <1>2 DEF Adjs
<1>4. b[s][n] = v /\ \A m \in Nlris \ {n} : b[s][m] = a[s][m]
  BY <1>1, <1>2 DEF Adjs
<1>5. \A t \in Sources \ {s} : b[t] = a[t]
  BY <1>1 DEF Adjs
<1>6. OnlyColumn(a, b, n)
  BY <1>4, <1>5 DEF OnlyColumn
<1> QED
  BY <1>1, <1>3, <1>4, <1>5, <1>6

\* The best path of one NLRI, as an event.
LEMMA EventsOfOne ==
  ASSUME adj \in Adjs, NEW a \in Adjs, NEW n \in Nlris
  PROVE  /\ BestEvents(adj, a, n) \in Seq(Events)
         /\ \A p \in Peers : ToSet(BestEvents(adj, a, n)) \cap OfSession(p) = {}
         /\ \A p \in Peers, m \in Nlris : ToSet(BestEvents(adj, a, n)) \cap OfRoute(p, m) = {}
         /\ \A m \in Nlris \ {n} : ToSet(BestEvents(adj, a, n)) \cap OfBest(m) = {}
         /\ ToSet(BestEvents(adj, a, n)) \cap OfBest(n) \subseteq TrueBest(a, n)
         /\ Best(a, n) # Best(adj, n) => ToSet(BestEvents(adj, a, n)) \cap OfBest(n) # {}
<1>1. PICK events : events = BestEvents(adj, a, n)
  OBVIOUS
<1>2. CASE events = <<>> /\ Best(adj, n) = Best(a, n)
  <2>1. events \in Seq(Events) /\ ToSet(events) = {}
    BY <1>2 DEF ToSet
  <2> QED
    BY <1>1, <1>2, <2>1
<1>3. CASE \E l \in Seq(Paths) : /\ events = <<BestPath(l)>> /\ PrefixesOf(l) = {n}
                                 /\ {q \in PathsOf(l, n) : q.v > 0} = Best(a, n)
  <2>1. PICK l \in Seq(Paths) : /\ events = <<BestPath(l)>> /\ PrefixesOf(l) = {n}
                                /\ {q \in PathsOf(l, n) : q.v > 0} = Best(a, n)
    BY <1>3
  <2>2. PICK e : e = BestPath(l)
    OBVIOUS
  <2>3. e \in Events /\ e.type = "best" /\ e.list = l
    BY <2>2, EventTypes DEF Events, BestPath
  <2>4. events \in Seq(Events) /\ ToSet(events) = {e}
    BY <2>1, <2>2, <2>3, OneOf
  <2>5. e \in TrueBest(a, n) /\ e \in OfBest(n) /\ \A m \in Nlris \ {n} : e \notin OfBest(m)
    BY <2>1, <2>3 DEF TrueBest, OfBest
  <2>6. \A p \in Peers : e \notin OfSession(p)
    BY <2>3 DEF OfSession, PeerUp, PeerDown
  <2>7. \A p \in Peers, m \in Nlris : e \notin OfRoute(p, m)
    BY <2>3 DEF OfRoute, PreUpdate, PeerDown
  <2> QED
    BY <1>1, <2>4, <2>5, <2>6, <2>7
<1>4. \/ events = <<>> /\ Best(adj, n) = Best(a, n)
      \/ \E l \in Seq(Paths) : /\ events = <<BestPath(l)>> /\ PrefixesOf(l) = {n}
                               /\ {q \in PathsOf(l, n) : q.v > 0} = Best(a, n)
  BY <1>1, BestEventsFacts
<1> QED
  BY <1>2, <1>3, <1>4

LEMMA BestElsewhere ==
  ASSUME adj \in Adjs, NEW a \in Adjs, NEW n \in Nlris, OnlyColumn(adj, a, n), NEW m \in Nlris \ {n}
  PROVE  Best(a, m) = Best(adj, m)
BY SameColumn DEF OnlyColumn

LEMMA UpEvents ==
  ASSUME adj \in Adjs, NEW p \in Peers
  PROVE  ListsTell(adj, <<>>) /\ EventsTell(up \cup {p}, adj, <<PeerUp(p)>>)
<1>1. ListsTell(adj, <<>>)
  <2>1. <<>> \in Seq(Seq(Paths)) /\ ToSet(<<>>) = {}
    BY DEF ToSet
  <2> QED
    BY <2>1 DEF ListsTell
<1>2. PICK e : e = PeerUp(p)
  OBVIOUS
<1>3. e \in Events /\ e.type = "up" /\ e.peer = p
  BY <1>2 DEF Events, PeerUp
<1>4. <<e>> \in Seq(Events) /\ ToSet(<<e>>) = {e}
  BY <1>3, OneOf
<1>5. ASSUME NEW q \in Peers
      PROVE  /\ ToSet(<<e>>) \cap OfSession(q) \subseteq TrueSession(up \cup {p}, q)
             /\ Silent(<<e>>, OfSession(q)) => (q \in up \cup {p} <=> q \in up)
  <2>1. e \in OfSession(q) <=> q = p
    BY <1>2, <1>3 DEF OfSession, PeerUp, PeerDown
  <2>2. e \in TrueSession(up \cup {p}, p)
    BY <1>2 DEF TrueSession
  <2> QED
    BY <1>4, <2>1, <2>2 DEF Silent
<1>6. \A q \in Peers, n \in Nlris : e \notin OfRoute(q, n)
  BY <1>3 DEF OfRoute, PeerDown, PreUpdate
<1>7. \A n \in Nlris : e \notin OfBest(n)
  BY <1>3 DEF OfBest
<1> QED
  BY <1>1, <1>2, <1>4, <1>5, <1>6, <1>7 DEF EventsTell

LEMMA OwnPathEvents ==
  ASSUME adj \in Adjs, NEW n \in Nlris, NEW v \in {0, 1}
  PROVE  LET a == [adj EXCEPT ![Local][n] = v]
         IN a \in Adjs /\ ListsTell(a, BestLists(adj, a, n)) /\ EventsTell(up, a, BestEvents(adj, a, n))
<1>1. PICK a : a = [adj EXCEPT ![Local][n] = v]
  OBVIOUS
<1>2. a \in Adjs /\ OnlyColumn(adj, a, n) /\ \A t \in Sources \ {Local}, m \in Nlris : a[t][m] = adj[t][m]
  <2>1. Local \in Sources /\ v \in Prefs \cup {0, 1}
    BY SourcesAre
  <2>2. a \in Adjs
    BY <1>1, <2>1, WithRoute
  <2>3. OnlyColumn(adj, a, n)
    BY <1>1, <2>1, WithRoute
  <2>4. \A t \in Sources \ {Local}, m \in Nlris : a[t][m] = adj[t][m]
    BY <1>1, <2>1, WithRoute
  <2> QED
    BY <2>2, <2>3, <2>4
<1>3. \A p \in Peers : p \in Sources \ {Local}
  BY DEF Sources, Peers, Local
<1>4. ListsTell(a, BestLists(adj, a, n))
  BY <1>2, ListsOfOne
<1>5. PICK events : events = BestEvents(adj, a, n)
  OBVIOUS
<1>6. /\ events \in Seq(Events)
      /\ \A p \in Peers : ToSet(events) \cap OfSession(p) = {}
      /\ \A p \in Peers, m \in Nlris : ToSet(events) \cap OfRoute(p, m) = {}
      /\ \A m \in Nlris \ {n} : ToSet(events) \cap OfBest(m) = {}
      /\ ToSet(events) \cap OfBest(n) \subseteq TrueBest(a, n)
      /\ Best(a, n) # Best(adj, n) => ToSet(events) \cap OfBest(n) # {}
  BY <1>2, <1>5, EventsOfOne
<1>7. \A m \in Nlris \ {n} : Best(a, m) = Best(adj, m)
  BY <1>2, BestElsewhere
<1>8. EventsTell(up, a, events)
  <2>1. \A m \in Nlris : /\ ToSet(events) \cap OfBest(m) \subseteq TrueBest(a, m)
                         /\ Silent(events, OfBest(m)) => Best(a, m) = Best(adj, m)
    BY <1>6, <1>7 DEF Silent
  <2>2. \A p \in Peers, m \in Nlris : a[p][m] = adj[p][m]
    BY <1>2, <1>3
  <2> QED
    BY <1>6, <2>1, <2>2 DEF EventsTell
<1> QED
  BY <1>1, <1>2, <1>4, <1>5, <1>8

LEMMA UpdateEvents ==
  ASSUME adj \in Adjs, NEW p \in up, up \subseteq Peers, NEW n \in Nlris, NEW v \in Prefs \cup {0}
  PROVE  LET a == [adj EXCEPT ![p][n] = v]
         IN /\ a \in Adjs /\ ListsTell(a, BestLists(adj, a, n))
            /\ EventsTell(up, a, <<PreUpdate(p, n, v), PostUpdate(p, n, Accepted(a, p, n), FALSE)>> \o BestEvents(adj, a, n))
<1>0. p \in Peers /\ p \in Sources /\ v \in Prefs \cup {0, 1}
  BY SourcesAre
<1>1. PICK a : a = [adj EXCEPT ![p][n] = v]
  OBVIOUS
<1>2. /\ a \in Adjs /\ OnlyColumn(adj, a, n) /\ a[p][n] = v
      /\ \A t \in Sources \ {p}, m \in Nlris : a[t][m] = adj[t][m]
  <2>1. a \in Adjs
    BY <1>0, <1>1, WithRoute
  <2>2. OnlyColumn(adj, a, n)
    BY <1>0, <1>1, WithRoute
  <2>3. a[p][n] = v
    BY <1>0, <1>1, WithRoute
  <2>4. \A t \in Sources \ {p}, m \in Nlris : a[t][m] = adj[t][m]
    BY <1>0, <1>1, WithRoute
  <2> QED
    BY <2>1, <2>2, <2>3, <2>4
<1>3. ListsTell(a, BestLists(adj, a, n))
  BY <1>2, ListsOfOne
<1>4. PICK best : best = BestEvents(adj, a, n)
  OBVIOUS
<1>5. /\ best \in Seq(Events)
      /\ \A q \in Peers : ToSet(best) \cap OfSession(q) = {}
      /\ \A q \in Peers, m \in Nlris : ToSet(best) \cap OfRoute(q, m) = {}
      /\ \A m \in Nlris \ {n} : ToSet(best) \cap OfBest(m) = {}
      /\ ToSet(best) \cap OfBest(n) \subseteq TrueBest(a, n)
      /\ Best(a, n) # Best(adj, n) => ToSet(best) \cap OfBest(n) # {}
  BY <1>2, <1>4, EventsOfOne
<1>6. PICK e, f : e = PreUpdate(p, n, v) /\ f = PostUpdate(p, n, Accepted(a, p, n), FALSE)
  OBVIOUS
<1>7. Accepted(a, p, n) \in Prefs \cup {0, 1}
  BY <1>0, <1>2 DEF Accepted
<1>8. e \in Events /\ f \in Events
  <2>1. <<>> \in Seq(Paths)
    OBVIOUS
  <2> QED
    BY <1>0, <1>6, <1>7, <2>1, EventTypes
<1>9. <<e, f>> \in Seq(Events) /\ ToSet(<<e, f>>) = {e, f}
  BY <1>8 DEF ToSet
<1>10. PICK events : events = <<e, f>> \o best
  OBVIOUS
<1>11. events \in Seq(Events) /\ ToSet(events) = {e, f} \cup ToSet(best)
  <2>1. PICK x \in Seq(Events) : x = <<e, f>>
    BY <1>9
  <2>2. x \o best \in Seq(Events) /\ ToSet(x \o best) = ToSet(x) \cup ToSet(best)
    BY <1>5, ConcatElements
  <2> QED
    BY <1>9, <1>10, <2>1, <2>2
<1>12. ASSUME NEW q \in Peers
       PROVE  /\ ToSet(events) \cap OfSession(q) \subseteq TrueSession(up, q)
              /\ Silent(events, OfSession(q)) => (q \in up <=> q \in up)
  <2>1. e \notin OfSession(q) /\ f \notin OfSession(q)
    BY <1>6 DEF PreUpdate, PostUpdate, OfSession, PeerUp, PeerDown
  <2> QED
    BY <1>5, <1>11, <2>1
<1>13. ASSUME NEW q \in Peers, NEW m \in Nlris
       PROVE  /\ ToSet(events) \cap OfRoute(q, m) \subseteq TrueRoute(a, q, m)
              /\ Silent(events, OfRoute(q, m)) => a[q][m] = adj[q][m]
  <2>1. f \notin OfRoute(q, m)
    BY <1>6 DEF PreUpdate, PostUpdate, OfRoute, PeerDown
  <2>2. e \in OfRoute(q, m) <=> q = p /\ m = n
    BY <1>0, <1>6 DEF PreUpdate, OfRoute, PeerDown, Path
  <2>3. e \in TrueRoute(a, p, n)
    BY <1>2, <1>6 DEF TrueRoute
  <2>4. q \in Sources /\ (q # p \/ m # n => a[q][m] = adj[q][m])
    BY <1>2, SourcesAre DEF OnlyColumn
  <2> QED
    BY <1>5, <1>11, <2>1, <2>2, <2>3, <2>4 DEF Silent
<1>14. ASSUME NEW m \in Nlris
       PROVE  /\ ToSet(events) \cap OfBest(m) \subseteq TrueBest(a, m)
              /\ Silent(events, OfBest(m)) => Best(a, m) = Best(adj, m)
  <2>1. e \notin OfBest(m) /\ f \notin OfBest(m)
    BY <1>6 DEF PreUpdate, PostUpdate, OfBest
  <2>2. m # n => Best(a, m) = Best(adj, m)
    BY <1>2, BestElsewhere
  <2>3. ToSet(events) \cap OfBest(m) = ToSet(best) \cap OfBest(m)
    BY <1>11, <2>1
  <2> QED
    BY <1>5, <2>2, <2>3 DEF Silent
<1>15. EventsTell(up, a, events)
  BY <1>11, <1>12, <1>13, <1>14 DEF EventsTell
<1> QED
  BY <1>1, <1>2, <1>3, <1>4, <1>6, <1>10, <1>15

DownRoutes(p) == SetToSeq({n \in Nlris : adj[p][n] > 0})
Gone(p) == [n \in Nlris |-> [adj EXCEPT ![p][n] = 0]]
Without(p) == [adj EXCEPT ![p] = [n \in Nlris |-> 0]]
DownLists(p) == [i \in DOMAIN DownRoutes(p) |-> BestLists(adj, Gone(p)[DownRoutes(p)[i]], DownRoutes(p)[i])]
DownBests(p) == [i \in DOMAIN DownRoutes(p) |->
                   <<PostUpdate(p, DownRoutes(p)[i], 0, FALSE)>> \o BestEvents(adj, Gone(p)[DownRoutes(p)[i]], DownRoutes(p)[i])]

\* A session that is lost takes the routes of its neighbor along, one by one.
LEMMA DownEvents ==
  ASSUME adj \in Adjs, NEW p \in Peers
  PROVE  /\ Without(p) \in Adjs /\ \A n \in Nlris : Without(p)[p][n] = 0
         /\ \A s \in Sources \ {p} : Without(p)[s] = adj[s]
         /\ ListsTell(Without(p), FlattenSeq(DownLists(p)))
         /\ EventsTell(up \ {p}, Without(p), Append(FlattenSeq(DownBests(p)), PeerDown(p)))
<1>routes. PICK routes : routes = DownRoutes(p)
  OBVIOUS
<1>gone. PICK gone : gone = Gone(p)
  OBVIOUS
<1>a. PICK a : a = Without(p)
  OBVIOUS
<1>lists. PICK lists : lists = DownLists(p)
  OBVIOUS
<1>events. PICK events : events = DownBests(p)
  OBVIOUS
<1>0. p \in Sources
  BY SourcesAre
<1>1. a \in Adjs /\ (\A n \in Nlris : a[p][n] = 0) /\ \A s \in Sources \ {p} : a[s] = adj[s]
  BY <1>0, <1>a DEF Without, Adjs
<1>2. ASSUME NEW n \in Nlris
      PROVE  /\ gone[n] \in Adjs /\ OnlyColumn(adj, gone[n], n)
             /\ \A s \in Sources : gone[n][s][n] = a[s][n]
  <2>1. PICK b : b = [adj EXCEPT ![p][n] = 0]
    OBVIOUS
  <2>2. b \in Adjs
    BY <1>0, <2>1, WithRoute
  <2>3. OnlyColumn(adj, b, n)
    BY <1>0, <2>1, WithRoute
  <2>4. b[p][n] = 0
    BY <1>0, <2>1, WithRoute
  <2>5. \A t \in Sources \ {p}, m \in Nlris : b[t][m] = adj[t][m]
    BY <1>0, <2>1, WithRoute
  <2>6. gone[n] = b
    BY <1>gone, <2>1 DEF Gone
  <2> QED
    BY <1>1, <2>2, <2>3, <2>4, <2>5, <2>6
<1>3. ASSUME NEW n \in Nlris
      PROVE  Shown(gone[n], n) = Shown(a, n) /\ Best(gone[n], n) = Best(a, n)
  BY <1>1, <1>2, <1>3, SameShown, SameColumn
<1>4. PICK R : R = {n \in Nlris : adj[p][n] > 0}
  OBVIOUS
<1>5. IsFiniteSet(R) /\ R \subseteq Nlris
  <2>1. IsFiniteSet(Nlris)
    BY PrefsAssumption DEF Nlris
  <2> QED
    BY <1>4, <2>1, FS_Subset
<1>6. routes \in Seq(R) /\ ToSet(routes) = R
  BY <1>routes, <1>4, <1>5, SetToSeqFacts DEF DownRoutes
<1>7. /\ Len(routes) \in Nat /\ DOMAIN routes = 1..Len(routes)
      /\ \A i \in 1..Len(routes) : routes[i] \in Nlris
      /\ \A n \in R : \E i \in 1..Len(routes) : routes[i] = n
  BY <1>5, <1>6 DEF ToSet
<1>8. \A n \in Nlris \ R : \A s \in Sources : a[s][n] = adj[s][n]
  <2> SUFFICES ASSUME NEW n \in Nlris \ R PROVE adj[p][n] = 0
    BY <1>1
  <2>1. adj[p][n] \in Nat /\ ~(adj[p][n] > 0)
    BY <1>0, <1>4, AdjType
  <2> QED
    BY <2>1
<1>9. \A n \in Nlris \ R : Shown(a, n) = Shown(adj, n) /\ Best(a, n) = Best(adj, n)
  BY <1>1, <1>8, SameShown, SameColumn
<1>10. ASSUME NEW i \in 1..Len(routes)
       PROVE  lists[i] = BestLists(adj, gone[routes[i]], routes[i]) /\ ListsTell(gone[routes[i]], lists[i])
  <2>1. routes[i] \in Nlris
    BY <1>7
  <2>2. lists[i] = BestLists(adj, gone[routes[i]], routes[i])
    BY <1>routes, <1>gone, <1>lists, <1>7 DEF DownLists
  <2> QED
    BY <1>2, <2>1, <2>2, ListsOfOne
<1>11. lists \in Seq(Seq(Seq(Paths)))
  <2>1. \A i \in 1..Len(routes) : lists[i] \in Seq(Seq(Paths))
    BY <1>10 DEF ListsTell
  <2>2. lists = [i \in 1..Len(routes) |-> lists[i]]
    BY <1>routes, <1>gone, <1>lists, <1>7 DEF DownLists
  <2>3. PICK E : E = Seq(Seq(Paths))
    OBVIOUS
  <2>4. lists \in Seq(E)
    BY <1>7, <2>1, <2>2, <2>3, IsList
  <2> QED
    BY <2>3, <2>4
<1>12. PICK flat : flat = FlattenSeq(lists)
  OBVIOUS
<1>13. flat \in Seq(Seq(Paths)) /\ ToSet(flat) = UNION {ToSet(lists[i]) : i \in 1..Len(routes)}
  <2>1. DOMAIN lists = 1..Len(routes)
    BY <1>routes, <1>gone, <1>lists, <1>7 DEF DownLists
  <2> QED
    BY <1>11, <1>12, <2>1, FlattenElements
<1>14. ListsTell(a, flat)
  <2>1. ASSUME NEW l \in ToSet(flat)
        PROVE  WellFormed(l) /\ \E n \in Nlris : PrefixesOf(l) = {n} /\ TellsOf(a, n, l)
    <3>1. PICK i \in 1..Len(routes) : l \in ToSet(lists[i])
      BY <1>13
    <3>2. PICK n \in Nlris : n = routes[i]
      BY <1>7
    <3>3. lists[i] = BestLists(adj, gone[n], n) /\ gone[n] \in Adjs
      BY <1>2, <1>10, <3>2
    <3>4. PICK k \in Seq(Paths) : lists[i] = <<k>> /\ WellFormed(k) /\ PrefixesOf(k) = {n} /\ TellsOf(gone[n], n, k)
      <4>1. ToSet(<<>>) = {}
        BY DEF ToSet
      <4>2. lists[i] # <<>>
        BY <3>1, <4>1
      <4> QED
        BY <3>3, <4>2, BestListsFacts
    <3>5. l = k
      BY <3>1, <3>4, OneOf
    <3>6. TellsOf(a, n, k)
      BY <1>3, <3>4 DEF TellsOf
    <3> QED
      BY <3>4, <3>5, <3>6
  <2>2. ASSUME NEW n \in Nlris, Silent(flat, Naming(n)) PROVE Shown(a, n) = Shown(adj, n)
    <3>1. CASE n \notin R
      BY <1>9, <3>1
    <3>2. CASE n \in R
      <4>1. PICK i \in 1..Len(routes) : routes[i] = n
        BY <1>7, <3>2
      <4>2. Silent(lists[i], Naming(n))
        BY <1>13, <2>2 DEF Silent
      <4>3. Shown(gone[n], n) = Shown(adj, n)
        BY <1>10, <4>1, <4>2 DEF ListsTell
      <4> QED
        BY <1>3, <4>3
    <3> QED
      BY <3>1, <3>2
  <2> QED
    BY <1>13, <2>1, <2>2 DEF ListsTell
<1>15. \A n \in Nlris : /\ BestEvents(adj, gone[n], n) \in Seq(Events)
                        /\ \A q \in Peers : ToSet(BestEvents(adj, gone[n], n)) \cap OfSession(q) = {}
                        /\ \A q \in Peers, m \in Nlris : ToSet(BestEvents(adj, gone[n], n)) \cap OfRoute(q, m) = {}
                        /\ \A m \in Nlris \ {n} : ToSet(BestEvents(adj, gone[n], n)) \cap OfBest(m) = {}
                        /\ ToSet(BestEvents(adj, gone[n], n)) \cap OfBest(n) \subseteq TrueBest(a, n)
                        /\ Best(a, n) # Best(adj, n) => ToSet(BestEvents(adj, gone[n], n)) \cap OfBest(n) # {}
  <2> SUFFICES ASSUME NEW n \in Nlris
               PROVE  /\ BestEvents(adj, gone[n], n) \in Seq(Events)
                      /\ \A q \in Peers : ToSet(BestEvents(adj, gone[n], n)) \cap OfSession(q) = {}
                      /\ \A q \in Peers, m \in Nlris : ToSet(BestEvents(adj, gone[n], n)) \cap OfRoute(q, m) = {}
                      /\ \A m \in Nlris \ {n} : ToSet(BestEvents(adj, gone[n], n)) \cap OfBest(m) = {}
                      /\ ToSet(BestEvents(adj, gone[n], n)) \cap OfBest(n) \subseteq TrueBest(a, n)
                      /\ Best(a, n) # Best(adj, n) => ToSet(BestEvents(adj, gone[n], n)) \cap OfBest(n) # {}
    OBVIOUS
  <2>1. PICK b \in Adjs : b = gone[n]
    BY <1>2
  <2>2. Best(b, n) = Best(a, n) /\ TrueBest(b, n) = TrueBest(a, n)
    BY <1>3, <2>1 DEF TrueBest
  <2>3. /\ BestEvents(adj, b, n) \in Seq(Events)
        /\ \A q \in Peers : ToSet(BestEvents(adj, b, n)) \cap OfSession(q) = {}
        /\ \A q \in Peers, m \in Nlris : ToSet(BestEvents(adj, b, n)) \cap OfRoute(q, m) = {}
        /\ \A m \in Nlris \ {n} : ToSet(BestEvents(adj, b, n)) \cap OfBest(m) = {}
        /\ ToSet(BestEvents(adj, b, n)) \cap OfBest(n) \subseteq TrueBest(b, n)
        /\ Best(b, n) # Best(adj, n) => ToSet(BestEvents(adj, b, n)) \cap OfBest(n) # {}
    BY EventsOfOne
  <2> QED
    BY <2>1, <2>2, <2>3
<1>16. ASSUME NEW i \in 1..Len(routes)
       PROVE  /\ events[i] \in Seq(Events)
              /\ ToSet(events[i]) = {PostUpdate(p, routes[i], 0, FALSE)} \cup ToSet(BestEvents(adj, gone[routes[i]], routes[i]))
  <2>1. PICK n \in Nlris : n = routes[i]
    BY <1>7
  <2>2. PICK e \in Events : e = PostUpdate(p, n, 0, FALSE)
    <3>1. <<>> \in Seq(Paths)
      OBVIOUS
    <3> QED
      BY <3>1, EventTypes
  <2>3. PICK x \in Seq(Events) : x = <<e>> /\ ToSet(x) = {e}
    BY OneOf
  <2>4. PICK y \in Seq(Events) : y = BestEvents(adj, gone[n], n)
    BY <1>15
  <2>5. x \o y \in Seq(Events) /\ ToSet(x \o y) = ToSet(x) \cup ToSet(y)
    BY ConcatElements
  <2>6. events[i] = x \o y
    BY <1>routes, <1>gone, <1>events, <1>7, <2>1, <2>2, <2>3, <2>4 DEF DownBests
  <2> QED
    BY <2>1, <2>2, <2>3, <2>4, <2>5, <2>6
<1>17. events \in Seq(Seq(Events))
  <2>1. \A i \in 1..Len(routes) : events[i] \in Seq(Events)
    BY <1>16
  <2>2. events = [i \in 1..Len(routes) |-> events[i]]
    BY <1>routes, <1>gone, <1>events, <1>7 DEF DownBests
  <2>3. PICK E : E = Seq(Events)
    OBVIOUS
  <2>4. events \in Seq(E)
    BY <1>7, <2>1, <2>2, <2>3, IsList
  <2> QED
    BY <2>3, <2>4
<1>18. PICK before : before = FlattenSeq(events)
  OBVIOUS
<1>19. before \in Seq(Events) /\ ToSet(before) = UNION {ToSet(events[i]) : i \in 1..Len(routes)}
  <2>1. DOMAIN events = 1..Len(routes)
    BY <1>routes, <1>gone, <1>events, <1>7 DEF DownBests
  <2> QED
    BY <1>17, <1>18, <2>1, FlattenElements
<1>20. PICK down \in Events : down = PeerDown(p) /\ down.type = "down" /\ down.peer = p
  <2>1. [type |-> "down", peer |-> p] \in Events
    BY DEF Events
  <2> QED
    BY <2>1 DEF PeerDown
<1>21. PICK all : all = Append(before, down)
  OBVIOUS
<1>22. all \in Seq(Events) /\ ToSet(all) = ToSet(before) \cup {down}
  BY <1>19, <1>21, AppendElements
<1>23. ASSUME NEW e \in ToSet(before)
       PROVE  \E n \in Nlris : e = PostUpdate(p, n, 0, FALSE) \/ e \in ToSet(BestEvents(adj, gone[n], n))
  <2>1. PICK i \in 1..Len(routes) : e \in ToSet(events[i])
    BY <1>19
  <2>2. PICK n \in Nlris : n = routes[i]
    BY <1>7
  <2>3. ToSet(events[i]) = {PostUpdate(p, n, 0, FALSE)} \cup ToSet(BestEvents(adj, gone[n], n))
    BY <1>16, <2>2
  <2> QED
    BY <2>1, <2>3
<1>24. ASSUME NEW q \in Peers
       PROVE  /\ ToSet(all) \cap OfSession(q) \subseteq TrueSession(up \ {p}, q)
              /\ Silent(all, OfSession(q)) => (q \in up \ {p} <=> q \in up)
  <2>1. \A n \in Nlris : PostUpdate(p, n, 0, FALSE) \notin OfSession(q)
    BY DEF PostUpdate, OfSession, PeerUp, PeerDown
  <2>2. ToSet(before) \cap OfSession(q) = {}
    <3> SUFFICES ASSUME NEW e \in ToSet(before) PROVE e \notin OfSession(q)
      OBVIOUS
    <3>1. PICK n \in Nlris : e = PostUpdate(p, n, 0, FALSE) \/ e \in ToSet(BestEvents(adj, gone[n], n))
      BY <1>23
    <3>2. ToSet(BestEvents(adj, gone[n], n)) \cap OfSession(q) = {}
      BY <1>15
    <3> QED
      BY <2>1, <3>1, <3>2
  <2>3. down \in OfSession(q) <=> q = p
    BY <1>20 DEF OfSession, PeerUp, PeerDown
  <2>4. down \in TrueSession(up \ {p}, p)
    BY <1>20 DEF TrueSession
  <2> QED
    BY <1>22, <2>2, <2>3, <2>4 DEF Silent
<1>25. ASSUME NEW q \in Peers, NEW m \in Nlris
       PROVE  /\ ToSet(all) \cap OfRoute(q, m) \subseteq TrueRoute(a, q, m)
              /\ Silent(all, OfRoute(q, m)) => a[q][m] = adj[q][m]
  <2>1. \A n \in Nlris : PostUpdate(p, n, 0, FALSE) \notin OfRoute(q, m)
    BY DEF PostUpdate, OfRoute, PreUpdate, PeerDown
  <2>2. ToSet(before) \cap OfRoute(q, m) = {}
    <3> SUFFICES ASSUME NEW e \in ToSet(before) PROVE e \notin OfRoute(q, m)
      OBVIOUS
    <3>1. PICK n \in Nlris : e = PostUpdate(p, n, 0, FALSE) \/ e \in ToSet(BestEvents(adj, gone[n], n))
      BY <1>23
    <3>2. ToSet(BestEvents(adj, gone[n], n)) \cap OfRoute(q, m) = {}
      BY <1>15
    <3> QED
      BY <2>1, <3>1, <3>2
  <2>3. down \in OfRoute(q, m) <=> q = p
    BY <1>20 DEF OfRoute, PreUpdate, PeerDown
  <2>4. down \in TrueRoute(a, p, m)
    BY <1>1, <1>20 DEF TrueRoute
  <2>5. q # p => a[q] = adj[q]
    BY <1>1, SourcesAre
  <2> QED
    BY <1>22, <2>2, <2>3, <2>4, <2>5 DEF Silent
<1>26. ASSUME NEW m \in Nlris
       PROVE  /\ ToSet(all) \cap OfBest(m) \subseteq TrueBest(a, m)
              /\ Silent(all, OfBest(m)) => Best(a, m) = Best(adj, m)
  <2>1. \A n \in Nlris : PostUpdate(p, n, 0, FALSE) \notin OfBest(m)
    BY DEF PostUpdate, OfBest
  <2>2. down \notin OfBest(m)
    BY <1>20 DEF OfBest
  <2>3. ToSet(before) \cap OfBest(m) \subseteq TrueBest(a, m)
    <3> SUFFICES ASSUME NEW e \in ToSet(before), e \in OfBest(m) PROVE e \in TrueBest(a, m)
      OBVIOUS
    <3>1. PICK n \in Nlris : e = PostUpdate(p, n, 0, FALSE) \/ e \in ToSet(BestEvents(adj, gone[n], n))
      BY <1>23
    <3>2. e \in ToSet(BestEvents(adj, gone[n], n)) \cap OfBest(m)
      BY <2>1, <3>1
    <3>3. n = m
      BY <1>15, <3>2
    <3> QED
      BY <1>15, <3>2, <3>3
  <2>4. ASSUME Silent(all, OfBest(m)) PROVE Best(a, m) = Best(adj, m)
    <3>1. CASE m \notin R
      BY <1>9, <3>1
    <3>2. CASE m \in R
      <4>1. PICK i \in 1..Len(routes) : routes[i] = m
        BY <1>7, <3>2
      <4>2. ToSet(BestEvents(adj, gone[m], m)) \subseteq ToSet(all)
        BY <1>16, <1>19, <1>22, <4>1
      <4> QED
        BY <1>15, <2>4, <4>2 DEF Silent
    <3> QED
      BY <3>1, <3>2
  <2> QED
    BY <1>22, <2>2, <2>3, <2>4
<1>27. EventsTell(up \ {p}, a, all)
  BY <1>22, <1>24, <1>25, <1>26 DEF EventsTell
<1> QED
  BY <1>routes, <1>gone, <1>a, <1>lists, <1>events, <1>1, <1>12, <1>14, <1>18, <1>20, <1>21, <1>27

-----------------------------------------------------------------------------
(* The invariant *)

Pending == modRibCh \o kernelQ
Settled(n) == n \in missed \/ kernel[n] = {q.src : q \in Shown(adj, n)}

RouteKnown(p, n) == {q \in collector.pre : q.n = n /\ q.src = p} = {Path(n, p, v) : v \in {adj[p][n]} \ {0}}
BestKnown(n) == {q \in collector.loc : q.n = n} = Best(adj, n)

\* A list that waits tells of one NLRI, except for the first, and the last list that names a prefix
\* tells what is shown of it; if none names it, the kernel has it.
KernelInv ==
  /\ ~watching => Pending = <<>> /\ \A n \in V4 : kernel[n] = {}
  /\ \A l \in ToSet(Pending) : WellFormed(l)
  /\ \A i \in DOMAIN Pending : i # 1 => OneNlri(Pending[i])
  /\ \A l \in ToSet(modRibCh) : PrefixesOf(l) \subseteq V4
  /\ watching => \A n \in V4 : \/ EndsIn(Pending, Naming(n), Telling(adj, n))
                               \/ Silent(Pending, Naming(n)) /\ Settled(n)

\* The last event about a session, a route or a best path that waits tells the truth; if there is
\* none, the collector knows.
CollectorInv ==
  /\ \A p \in Peers \ up, n \in Nlris : adj[p][n] = 0
  /\ conn = "up" =>
       /\ \A p \in Peers : \/ EndsIn(bmpQ, OfSession(p), TrueSession(up, p))
                           \/ Silent(bmpQ, OfSession(p)) /\ (p \in collector.up <=> p \in up)
       /\ \A p \in Peers, n \in Nlris : \/ EndsIn(bmpQ, OfRoute(p, n), TrueRoute(adj, p, n))
                                        \/ Silent(bmpQ, OfRoute(p, n)) /\ RouteKnown(p, n)
       /\ \A n \in Nlris : \/ EndsIn(bmpQ, OfBest(n), TrueBest(adj, n))
                           \/ Silent(bmpQ, OfBest(n)) /\ BestKnown(n)

MonitorInv == MonitorTypeOK /\ KernelInv /\ CollectorInv

\* What is said of a subject when more is appended.
LEMMA MoreSaid ==
  ASSUME NEW E, NEW q \in Seq(E), NEW r \in Seq(E), NEW T, NEW S, NEW R, ToSet(r) \cap T \subseteq R
  PROVE  /\ ~Silent(r, T) => EndsIn(q \o r, T, R)
         /\ Silent(r, T) /\ S = R /\ EndsIn(q, T, S) => EndsIn(q \o r, T, R)
         /\ Silent(r, T) /\ Silent(q, T) => Silent(q \o r, T)
<1>1. ~Silent(r, T) => EndsIn(q \o r, T, R)
  BY EndsExtended
<1>2. Silent(r, T) /\ S = R /\ EndsIn(q, T, S) => EndsIn(q \o r, T, R)
  BY EndsBefore
<1>3. Silent(r, T) /\ Silent(q, T) => Silent(q \o r, T)
  BY SilentConcat
<1> QED
  BY <1>1, <1>2, <1>3

LEMMA Types ==
  ASSUME MonitorTypeOK
  PROVE  /\ adj \in Adjs /\ kernelQ \in Seq(Seq(Paths)) /\ modRibCh \in Seq(Seq(Paths)) /\ bmpQ \in Seq(Events)
         /\ Pending \in Seq(Seq(Paths)) /\ up \subseteq Peers /\ missed \subseteq V4
         /\ kernel \in [V4 -> SUBSET Peers]
         /\ collector \in [up : SUBSET Peers, pre : SUBSET PeerPaths, post : SUBSET PeerPaths, loc : SUBSET Paths]
<1>1. kernelQ \in Seq(Seq(Paths)) /\ modRibCh \in Seq(Seq(Paths))
  BY DEF MonitorTypeOK
<1>2. Pending \in Seq(Seq(Paths))
  BY <1>1, ConcatIndex DEF Pending
<1> QED
  BY <1>1, <1>2 DEF MonitorTypeOK, Adjs

\* What is told of stays true as long as what is shown stays.
LEMMA SameTelling ==
  ASSUME NEW a, NEW b, NEW n, Shown(a, n) = Shown(b, n)
  PROVE  Telling(a, n) = Telling(b, n)
BY DEF Telling, TellsOf

LEMMA KernelHears ==
  ASSUME MonitorTypeOK, KernelInv, NEW a \in Adjs, NEW lists, ListsTell(a, lists), adj' = a,
         kernelQ' = IF watching THEN kernelQ \o lists ELSE kernelQ,
         UNCHANGED <<multipath, watching, modRibCh, kernel, missed>>
  PROVE  KernelInv'
<1>1. /\ kernelQ \in Seq(Seq(Paths)) /\ modRibCh \in Seq(Seq(Paths)) /\ Pending \in Seq(Seq(Paths))
      /\ lists \in Seq(Seq(Paths))
  BY Types DEF ListsTell
<1>2. CASE ~watching
  <2>1. Pending' = Pending
    BY <1>2 DEF Pending
  <2> QED
    BY <1>2, <2>1 DEF KernelInv
<1>3. CASE watching
  <2>1. PICK E : E = Seq(Paths)
    OBVIOUS
  <2>2. PICK q, r, w : q = Pending /\ r = lists /\ w = Pending'
    OBVIOUS
  <2>3. q \in Seq(E) /\ r \in Seq(E) /\ w = q \o r
    <3>1. PICK x \in Seq(E), y \in Seq(E) : x = modRibCh /\ y = kernelQ
      BY <1>1, <2>1
    <3>2. q = x \o y /\ w = x \o (y \o r)
      BY <1>3, <2>2, <3>1 DEF Pending
    <3>3. r \in Seq(E) /\ q \in Seq(E)
      BY <1>1, <2>1, <2>2
    <3>4. x \o (y \o r) = (x \o y) \o r
      BY <3>3, ConcatThree, SMTT(30)
    <3> QED
      BY <3>2, <3>3, <3>4
  <2>4. w \in Seq(E) /\ ToSet(w) = ToSet(q) \cup ToSet(r)
    BY <2>3, ConcatElements
  <2>5. \A l \in ToSet(w) : WellFormed(l)
    BY <2>2, <2>4 DEF KernelInv, ListsTell
  <2>6. ASSUME NEW i \in DOMAIN w, i # 1 PROVE OneNlri(w[i])
    <3>1. /\ Len(q) \in Nat /\ Len(r) \in Nat /\ DOMAIN q = 1..Len(q) /\ DOMAIN r = 1..Len(r)
          /\ DOMAIN w = 1..(Len(q) + Len(r)) /\ w[i] = IF i <= Len(q) THEN q[i] ELSE r[i - Len(q)]
      BY <2>3, <2>6, ConcatIndex
    <3>2. CASE i <= Len(q)
      <4>1. i \in DOMAIN q
        BY <3>1, <3>2
      <4> QED
        BY <2>2, <2>6, <3>1, <3>2, <4>1 DEF KernelInv
    <3>3. CASE ~(i <= Len(q))
      <4>1. i - Len(q) \in DOMAIN r
        BY <3>1, <3>3
      <4>2. w[i] \in ToSet(r)
        BY <3>1, <3>3, <4>1 DEF ToSet
      <4> QED
        BY <2>2, <4>2 DEF ListsTell, OneNlri
    <3> QED
      BY <3>2, <3>3
  <2>7. ASSUME NEW n \in V4
        PROVE  \/ EndsIn(w, Naming(n), Telling(a, n))
               \/ Silent(w, Naming(n)) /\ (n \in missed \/ kernel[n] = {p.src : p \in Shown(a, n)})
    <3>0. n \in Nlris
      BY DEF Nlris
    <3>1. ToSet(r) \cap Naming(n) \subseteq Telling(a, n)
      <4> SUFFICES ASSUME NEW l \in ToSet(r), l \in Naming(n) PROVE l \in Telling(a, n)
        OBVIOUS
      <4>1. PICK m \in Nlris : PrefixesOf(l) = {m} /\ TellsOf(a, m, l)
        BY <2>2 DEF ListsTell
      <4>2. m = n /\ l \in Seq(Paths)
        BY <4>1 DEF Naming
      <4> QED
        BY <4>1, <4>2 DEF Telling
    <3>2. Silent(r, Naming(n)) => Shown(a, n) = Shown(adj, n)
      BY <2>2, <3>0 DEF ListsTell
    <3>3. EndsIn(q, Naming(n), Telling(adj, n)) \/ (Silent(q, Naming(n)) /\ Settled(n))
      BY <1>3, <2>2 DEF KernelInv
    <3>4. CASE ~Silent(r, Naming(n))
      BY <2>3, <3>1, <3>4, MoreSaid
    <3>5. CASE Silent(r, Naming(n)) /\ EndsIn(q, Naming(n), Telling(adj, n))
      <4>1. Telling(adj, n) = Telling(a, n)
        BY <3>2, <3>5, SameTelling
      <4> QED
        BY <2>3, <3>1, <3>5, <4>1, MoreSaid
    <3>6. CASE Silent(r, Naming(n)) /\ Silent(q, Naming(n)) /\ Settled(n)
      <4>1. Silent(w, Naming(n))
        BY <2>3, <3>1, <3>6, MoreSaid
      <4> QED
        BY <3>2, <3>6, <4>1 DEF Settled
    <3> QED
      BY <3>3, <3>4, <3>5, <3>6
  <2>8. \A n \in V4 : Shown(adj, n)' = Shown(a, n) /\ Telling(adj, n)' = Telling(a, n) /\ Naming(n)' = Naming(n)
    BY DEF Shown, Telling, TellsOf, Naming
  <2>9. \A n \in V4 : \/ EndsIn(Pending, Naming(n), Telling(adj, n))'
                      \/ Silent(Pending, Naming(n))' /\ Settled(n)'
    BY <2>2, <2>7, <2>8 DEF EndsIn, Silent, Settled
  <2>10. \A l \in ToSet(modRibCh') : PrefixesOf(l) \subseteq V4
    BY DEF KernelInv
  <2> QED
    BY <1>3, <2>2, <2>5, <2>6, <2>9, <2>10 DEF KernelInv
<1> QED
  BY <1>2, <1>3

LEMMA CollectorHears ==
  ASSUME MonitorTypeOK, CollectorInv, NEW u, NEW a \in Adjs, NEW events, EventsTell(u, a, events),
         \A p \in Peers \ u, n \in Nlris : a[p][n] = 0, up' = u, adj' = a,
         bmpQ' = IF conn # "down" THEN bmpQ \o events ELSE bmpQ, UNCHANGED <<conn, collector>>
  PROVE  CollectorInv'
<1>1. \A p \in Peers \ up', n \in Nlris : adj'[p][n] = 0
  OBVIOUS
<1>2. CASE conn # "up"
  BY <1>1, <1>2 DEF CollectorInv
<1>3. CASE conn = "up"
  <2>1. bmpQ \in Seq(Events) /\ events \in Seq(Events) /\ bmpQ' = bmpQ \o events
    BY <1>3, Types DEF EventsTell
  <2>2. ASSUME NEW p \in Peers
        PROVE  \/ EndsIn(bmpQ', OfSession(p), TrueSession(u, p))
               \/ Silent(bmpQ', OfSession(p)) /\ (p \in collector.up <=> p \in u)
    <3>1. /\ ToSet(events) \cap OfSession(p) \subseteq TrueSession(u, p)
          /\ Silent(events, OfSession(p)) => (p \in u <=> p \in up)
      BY DEF EventsTell
    <3>2. TrueSession(up, p) = TrueSession(u, p) \/ ~Silent(events, OfSession(p))
      BY <3>1 DEF TrueSession
    <3>3. \/ EndsIn(bmpQ, OfSession(p), TrueSession(up, p))
          \/ Silent(bmpQ, OfSession(p)) /\ (p \in collector.up <=> p \in up)
      BY <1>3 DEF CollectorInv
    <3>4. CASE ~Silent(events, OfSession(p))
      BY <2>1, <3>1, <3>4, MoreSaid
    <3>5. CASE Silent(events, OfSession(p)) /\ EndsIn(bmpQ, OfSession(p), TrueSession(up, p))
      BY <2>1, <3>1, <3>2, <3>5, MoreSaid
    <3>6. CASE Silent(events, OfSession(p)) /\ Silent(bmpQ, OfSession(p)) /\ (p \in collector.up <=> p \in up)
      <4>1. Silent(bmpQ', OfSession(p))
        BY <2>1, <3>1, <3>6, MoreSaid
      <4> QED
        BY <3>1, <3>6, <4>1
    <3> QED
      BY <3>3, <3>4, <3>5, <3>6
  <2>3. ASSUME NEW p \in Peers, NEW n \in Nlris
        PROVE  \/ EndsIn(bmpQ', OfRoute(p, n), TrueRoute(a, p, n))
               \/ Silent(bmpQ', OfRoute(p, n))
                    /\ {q \in collector.pre : q.n = n /\ q.src = p} = {Path(n, p, v) : v \in {a[p][n]} \ {0}}
    <3>1. /\ ToSet(events) \cap OfRoute(p, n) \subseteq TrueRoute(a, p, n)
          /\ Silent(events, OfRoute(p, n)) => a[p][n] = adj[p][n]
      BY DEF EventsTell
    <3>2. Silent(events, OfRoute(p, n)) => TrueRoute(adj, p, n) = TrueRoute(a, p, n)
      BY <3>1 DEF TrueRoute
    <3>3. \/ EndsIn(bmpQ, OfRoute(p, n), TrueRoute(adj, p, n))
          \/ Silent(bmpQ, OfRoute(p, n)) /\ RouteKnown(p, n)
      BY <1>3 DEF CollectorInv
    <3>4. CASE ~Silent(events, OfRoute(p, n))
      BY <2>1, <3>1, <3>4, MoreSaid
    <3>5. CASE Silent(events, OfRoute(p, n)) /\ EndsIn(bmpQ, OfRoute(p, n), TrueRoute(adj, p, n))
      BY <2>1, <3>1, <3>2, <3>5, MoreSaid
    <3>6. CASE Silent(events, OfRoute(p, n)) /\ Silent(bmpQ, OfRoute(p, n)) /\ RouteKnown(p, n)
      <4>1. Silent(bmpQ', OfRoute(p, n))
        BY <2>1, <3>1, <3>6, MoreSaid
      <4> QED
        BY <3>1, <3>6, <4>1 DEF RouteKnown
    <3> QED
      BY <3>3, <3>4, <3>5, <3>6
  <2>4. ASSUME NEW n \in Nlris
        PROVE  \/ EndsIn(bmpQ', OfBest(n), TrueBest(a, n))
               \/ Silent(bmpQ', OfBest(n)) /\ {q \in collector.loc : q.n = n} = Best(a, n)
    <3>1. /\ ToSet(events) \cap OfBest(n) \subseteq TrueBest(a, n)
          /\ Silent(events, OfBest(n)) => Best(a, n) = Best(adj, n)
      BY DEF EventsTell
    <3>2. Silent(events, OfBest(n)) => TrueBest(adj, n) = TrueBest(a, n)
      BY <3>1 DEF TrueBest
    <3>3. \/ EndsIn(bmpQ, OfBest(n), TrueBest(adj, n))
          \/ Silent(bmpQ, OfBest(n)) /\ BestKnown(n)
      BY <1>3 DEF CollectorInv
    <3>4. CASE ~Silent(events, OfBest(n))
      BY <2>1, <3>1, <3>4, MoreSaid
    <3>5. CASE Silent(events, OfBest(n)) /\ EndsIn(bmpQ, OfBest(n), TrueBest(adj, n))
      BY <2>1, <3>1, <3>2, <3>5, MoreSaid
    <3>6. CASE Silent(events, OfBest(n)) /\ Silent(bmpQ, OfBest(n)) /\ BestKnown(n)
      <4>1. Silent(bmpQ', OfBest(n))
        BY <2>1, <3>1, <3>6, MoreSaid
      <4> QED
        BY <3>1, <3>6, <4>1 DEF BestKnown
    <3> QED
      BY <3>3, <3>4, <3>5, <3>6
  <2> QED
    BY <1>1, <1>3, <2>2, <2>3, <2>4 DEF CollectorInv, RouteKnown, BestKnown, EndsIn, Silent
<1> QED
  BY <1>2, <1>3

LEMMA ChangeKeeps ==
  ASSUME MonitorInv, NEW u \in SUBSET Peers, NEW a \in Adjs, NEW lists, NEW events,
         ListsTell(a, lists), EventsTell(u, a, events), \A p \in Peers \ u, n \in Nlris : a[p][n] = 0,
         up' = u, adj' = a, Count, Notify(lists, events)
  PROVE  MonitorInv'
<1>1. /\ kernelQ' = IF watching THEN kernelQ \o lists ELSE kernelQ
      /\ bmpQ' = IF conn # "down" THEN bmpQ \o events ELSE bmpQ
      /\ UNCHANGED <<multipath, watching, modRibCh, kernel, missed, conn, ribout, collector, cuts>>
  BY DEF Notify
<1>2. KernelInv'
  BY <1>1, KernelHears DEF MonitorInv
<1>3. CollectorInv'
  BY <1>1, CollectorHears DEF MonitorInv
<1>4. MonitorTypeOK'
  <2>1. kernelQ' \in Seq(Seq(Paths))
    <3>1. kernelQ \in Seq(Seq(Paths)) /\ lists \in Seq(Seq(Paths))
      BY Types DEF MonitorInv, ListsTell
    <3>2. kernelQ \o lists \in Seq(Seq(Paths))
      BY <3>1, ConcatIndex
    <3> QED
      BY <1>1, <3>1, <3>2
  <2>2. bmpQ' \in Seq(Events)
    <3>1. bmpQ \in Seq(Events) /\ events \in Seq(Events)
      BY Types DEF MonitorInv, EventsTell
    <3>2. bmpQ \o events \in Seq(Events)
      BY <3>1, ConcatIndex
    <3> QED
      BY <1>1, <3>1, <3>2
  <2>3. serverChanges' \in Nat
    BY DEF Count, MonitorInv, MonitorTypeOK
  <2> QED
    BY <1>1, <2>1, <2>2, <2>3 DEF MonitorInv, MonitorTypeOK, Adjs
<1> QED
  BY <1>2, <1>3, <1>4 DEF MonitorInv

LEMMA SessionUpKeeps ==
  ASSUME MonitorInv, NEW p \in Peers, SessionUp(p)
  PROVE  MonitorInv'
<1>1. adj \in Adjs /\ up \subseteq Peers
  BY Types DEF MonitorInv
<1>2. ListsTell(adj, <<>>) /\ EventsTell(up \cup {p}, adj, <<PeerUp(p)>>)
  BY <1>1, UpEvents
<1>3. up' = up \cup {p} /\ adj' = adj /\ Count /\ Notify(<<>>, <<PeerUp(p)>>)
  BY DEF SessionUp
<1>4. \A q \in Peers \ (up \cup {p}), n \in Nlris : adj[q][n] = 0
  BY DEF MonitorInv, CollectorInv
<1>5. up \cup {p} \in SUBSET Peers
  BY <1>1
<1> QED
  BY <1>1, <1>2, <1>3, <1>4, <1>5, ChangeKeeps

LEMMA SessionDownKeeps ==
  ASSUME MonitorInv, NEW p \in Peers, SessionDown(p)
  PROVE  MonitorInv'
<1>1. adj \in Adjs /\ up \subseteq Peers
  BY Types DEF MonitorInv
<1>2. PICK u, a, lists, events : /\ u = up \ {p} /\ a = Without(p) /\ lists = FlattenSeq(DownLists(p))
                                 /\ events = Append(FlattenSeq(DownBests(p)), PeerDown(p))
  OBVIOUS
<1>3. /\ a \in Adjs /\ (\A n \in Nlris : a[p][n] = 0) /\ \A s \in Sources \ {p} : a[s] = adj[s]
      /\ ListsTell(a, lists) /\ EventsTell(u, a, events)
  BY <1>1, <1>2, DownEvents
<1>4. up' = u /\ adj' = a /\ Count /\ Notify(lists, events)
  BY <1>2 DEF SessionDown, Without, DownLists, DownBests, DownRoutes, Gone
<1>5. \A q \in Peers \ u, n \in Nlris : a[q][n] = 0
  <2>1. \A q \in Peers \ u : q = p \/ (q \in Peers \ up /\ q \in Sources \ {p})
    BY <1>2, SourcesAre
  <2>2. \A q \in Peers \ up, n \in Nlris : adj[q][n] = 0
    BY DEF MonitorInv, CollectorInv
  <2> QED
    BY <1>3, <2>1, <2>2
<1>6. u \in SUBSET Peers
  BY <1>1, <1>2
<1> QED
  BY <1>3, <1>4, <1>5, <1>6, ChangeKeeps

LEMMA UpdateKeeps ==
  ASSUME MonitorInv, NEW p \in Peers, NEW n \in Nlris, NEW v \in Prefs \cup {0}, Update(p, n, v)
  PROVE  MonitorInv'
<1>1. adj \in Adjs /\ up \subseteq Peers /\ p \in up
  BY Types DEF MonitorInv, Update
<1>2. PICK a, lists, events :
        /\ a = [adj EXCEPT ![p][n] = v] /\ lists = BestLists(adj, a, n)
        /\ events = <<PreUpdate(p, n, v), PostUpdate(p, n, Accepted(a, p, n), FALSE)>> \o BestEvents(adj, a, n)
  OBVIOUS
<1>3. a \in Adjs /\ ListsTell(a, lists) /\ EventsTell(up, a, events)
  BY <1>1, <1>2, UpdateEvents, Zenon
<1>4. up' = up /\ adj' = a /\ Count /\ Notify(lists, events)
  BY <1>2, Zenon DEF Update
<1>5. \A q \in Peers \ up, m \in Nlris : a[q][m] = 0
  <2>1. \A q \in Peers \ up : q \in Sources /\ q # p
    BY <1>1, SourcesAre
  <2>2. \A q \in Sources \ {p} : a[q] = adj[q]
    BY <1>1, <1>2 DEF Adjs
  <2> QED
    BY <2>1, <2>2 DEF MonitorInv, CollectorInv
<1> QED
  BY <1>1, <1>3, <1>4, <1>5, ChangeKeeps

LEMMA OwnPathKeeps ==
  ASSUME MonitorInv, NEW n \in V4, NEW v \in {0, 1}, OwnPath(n, v)
  PROVE  MonitorInv'
<1>1. adj \in Adjs /\ up \subseteq Peers /\ n \in Nlris
  BY Types DEF MonitorInv, Nlris
<1>2. PICK a, lists, events :
        a = [adj EXCEPT ![Local][n] = v] /\ lists = BestLists(adj, a, n) /\ events = BestEvents(adj, a, n)
  OBVIOUS
<1>3. a \in Adjs /\ ListsTell(a, lists) /\ EventsTell(up, a, events)
  BY <1>1, <1>2, OwnPathEvents, Zenon
<1>4. up' = up /\ adj' = a /\ Count /\ Notify(lists, events)
  BY <1>2, Zenon DEF OwnPath
<1>5. \A q \in Peers \ up, m \in Nlris : a[q][m] = 0
  <2>1. \A q \in Peers \ up : q \in Sources /\ q # Local
    BY SourcesAre DEF Peers, Local
  <2>2. \A q \in Sources \ {Local} : a[q] = adj[q]
    BY <1>1, <1>2 DEF Adjs
  <2> QED
    BY <2>1, <2>2 DEF MonitorInv, CollectorInv
<1> QED
  BY <1>1, <1>3, <1>4, <1>5, ChangeKeeps

-----------------------------------------------------------------------------
(* The dataplane *)

LEMMA SequencesEqual ==
  ASSUME NEW E, NEW s \in Seq(E), NEW t \in Seq(E), NEW k, DOMAIN s = 1..k, DOMAIN t = 1..k, \A i \in 1..k : s[i] = t[i]
  PROVE  s = t
<1>1. s = [i \in DOMAIN s |-> s[i]] /\ t = [i \in DOMAIN t |-> t[i]]
  OBVIOUS
<1> QED
  BY <1>1

\* The queues before and behind the goroutine that passes a list on.
LEMMA PassedOn ==
  ASSUME NEW E, NEW x \in Seq(E), NEW y \in Seq(E), y # <<>>
  PROVE  Append(x, Head(y)) \o Tail(y) = x \o y
<1>1. PICK w \in Seq(E), t \in Seq(E) : w = Append(x, Head(y)) /\ t = Tail(y)
  <2>1. Head(y) \in E /\ Tail(y) \in Seq(E)
    BY TailIndex
  <2>2. Append(x, Head(y)) \in Seq(E)
    BY <2>1
  <2> QED
    BY <2>1, <2>2
<1>2. /\ Len(x) \in Nat /\ Len(y) \in Nat \ {0} /\ Len(w) = Len(x) + 1 /\ Len(t) = Len(y) - 1
      /\ w[Len(x) + 1] = y[1] /\ \A i \in 1..Len(x) : w[i] = x[i]
      /\ \A i \in 1..Len(t) : t[i] = y[i + 1]
  BY <1>1
<1>3. w \o t \in Seq(E) /\ x \o y \in Seq(E)
  BY ConcatIndex
<1>4. DOMAIN (w \o t) = 1..(Len(x) + Len(y)) /\ DOMAIN (x \o y) = 1..(Len(x) + Len(y))
  <2>1. DOMAIN (w \o t) = 1..(Len(w) + Len(t))
    BY ConcatIndex
  <2>2. Len(w) + Len(t) = Len(x) + Len(y)
    BY <1>2
  <2> QED
    BY <2>1, <2>2, ConcatIndex
<1>5. ASSUME NEW i \in 1..(Len(x) + Len(y)) PROVE (w \o t)[i] = (x \o y)[i]
  <2>1. /\ (x \o y)[i] = IF i <= Len(x) THEN x[i] ELSE y[i - Len(x)]
        /\ (w \o t)[i] = IF i <= Len(w) THEN w[i] ELSE t[i - Len(w)]
    <3>1. i \in 1..(Len(w) + Len(t))
      BY <1>2
    <3> QED
      BY <3>1, ConcatIndex
  <2>2. CASE i <= Len(x)
    <3>1. i \in 1..Len(x) /\ i <= Len(w)
      BY <1>2, <2>2
    <3> QED
      BY <1>2, <2>1, <2>2, <3>1
  <2>3. CASE i = Len(x) + 1
    <3>1. ~(i <= Len(x)) /\ i <= Len(w) /\ i - Len(x) = 1
      BY <1>2, <2>3
    <3> QED
      BY <1>2, <2>1, <2>3, <3>1
  <2>4. CASE i > Len(x) + 1
    <3>1. ~(i <= Len(x)) /\ ~(i <= Len(w)) /\ i - Len(w) \in 1..Len(t) /\ (i - Len(w)) + 1 = i - Len(x)
      BY <1>2, <2>4
    <3>2. t[i - Len(w)] = y[i - Len(x)]
      BY <1>2, <3>1
    <3> QED
      BY <2>1, <3>1, <3>2
  <2> QED
    BY <1>2, <2>2, <2>3, <2>4
<1>6. w \o t = x \o y
  <2>1. PICK k : k = Len(x) + Len(y)
    OBVIOUS
  <2> QED
    BY <1>3, <1>4, <1>5, <2>1, SequencesEqual
<1> QED
  BY <1>1, <1>6

LEMMA TailOfConcat ==
  ASSUME NEW E, NEW x \in Seq(E), NEW y \in Seq(E), x # <<>>
  PROVE  x \o y # <<>> /\ Head(x \o y) = Head(x) /\ Tail(x \o y) = Tail(x) \o y
<1>1. PICK w \in Seq(E), t \in Seq(E) : w = x \o y /\ t = Tail(x)
  BY TailIndex, ConcatIndex
<1>2. /\ Len(x) \in Nat \ {0} /\ Len(y) \in Nat /\ Len(w) = Len(x) + Len(y) /\ Len(t) = Len(x) - 1
      /\ \A i \in 1..Len(w) : w[i] = IF i <= Len(x) THEN x[i] ELSE y[i - Len(x)]
      /\ \A i \in 1..Len(t) : t[i] = x[i + 1]
  BY <1>1
<1>3. w # <<>> /\ Head(w) = w[1] /\ Head(x) = x[1] /\ Tail(w) \in Seq(E) /\ DOMAIN Tail(w) = 1..(Len(w) - 1)
      /\ \A i \in 1..(Len(w) - 1) : Tail(w)[i] = w[i + 1]
  BY <1>2
<1>4. w[1] = x[1]
  <2>1. 1 \in 1..Len(w) /\ 1 <= Len(x)
    BY <1>2
  <2> QED
    BY <1>2, <2>1
<1>5. Tail(w) = t \o y
  <2>1. t \o y \in Seq(E) /\ DOMAIN (t \o y) = 1..(Len(w) - 1)
    <3>1. t \o y \in Seq(E) /\ DOMAIN (t \o y) = 1..(Len(t) + Len(y))
      BY ConcatIndex
    <3>2. Len(t) + Len(y) = Len(w) - 1
      BY <1>2
    <3> QED
      BY <3>1, <3>2
  <2>2. ASSUME NEW i \in 1..(Len(w) - 1) PROVE Tail(w)[i] = (t \o y)[i]
    <3>1. Tail(w)[i] = w[i + 1] /\ i + 1 \in 1..Len(w)
      BY <1>2, <1>3
    <3>2. (t \o y)[i] = IF i <= Len(t) THEN t[i] ELSE y[i - Len(t)]
      <4>1. i \in 1..(Len(t) + Len(y))
        BY <1>2
      <4> QED
        BY <4>1, ConcatIndex
    <3>3. CASE i <= Len(t)
      <4>1. i \in 1..Len(t) /\ i + 1 <= Len(x)
        BY <1>2, <3>3
      <4> QED
        BY <1>2, <3>1, <3>2, <3>3, <4>1
    <3>4. CASE ~(i <= Len(t))
      <4>1. ~(i + 1 <= Len(x)) /\ (i + 1) - Len(x) = i - Len(t)
        BY <1>2, <3>4
      <4> QED
        BY <1>2, <3>1, <3>2, <3>4, <4>1
    <3> QED
      BY <3>3, <3>4
  <2>3. PICK k : k = Len(w) - 1
    OBVIOUS
  <2> QED
    BY <1>3, <2>1, <2>2, <2>3, SequencesEqual
<1> QED
  BY <1>1, <1>3, <1>4, <1>5

\* Every item of v is one of w, and no later one.
TakenFrom(v, w) == \A i \in DOMAIN v : \E j \in DOMAIN w : j >= i /\ v[i] = w[j]

\* A list taken out of the middle.
LEMMA TakenOut ==
  ASSUME NEW E, NEW x \in Seq(E), NEW y \in Seq(E), y # <<>>
  PROVE  /\ x \o Tail(y) \in Seq(E) /\ Len(x) + 1 \in DOMAIN (x \o y) /\ (x \o y)[Len(x) + 1] = Head(y)
         /\ TakenFrom(x \o Tail(y), x \o y) /\ ToSet(x \o Tail(y)) \subseteq ToSet(x \o y)
<1>1. PICK w \in Seq(E), t \in Seq(E) : w = x \o y /\ t = Tail(y)
  BY TailIndex, ConcatIndex
<1>2. /\ Len(x) \in Nat /\ Len(y) \in Nat \ {0} /\ Len(w) = Len(x) + Len(y) /\ Len(t) = Len(y) - 1
      /\ DOMAIN w = 1..(Len(x) + Len(y))
      /\ \A i \in 1..Len(w) : w[i] = IF i <= Len(x) THEN x[i] ELSE y[i - Len(x)]
      /\ \A i \in 1..Len(t) : t[i] = y[i + 1]
  BY <1>1
<1>3. Len(x) + 1 \in DOMAIN w /\ w[Len(x) + 1] = Head(y)
  <2>1. Len(x) + 1 \in 1..Len(w) /\ ~(Len(x) + 1 <= Len(x)) /\ (Len(x) + 1) - Len(x) = 1
    BY <1>2
  <2>2. w[Len(x) + 1] = y[(Len(x) + 1) - Len(x)]
    BY <1>2, <2>1
  <2>3. Head(y) = y[1]
    OBVIOUS
  <2> QED
    BY <2>1, <2>2, <2>3
<1>4. x \o t \in Seq(E) /\ DOMAIN (x \o t) = 1..(Len(x) + Len(t))
  BY ConcatIndex
<1>5. ASSUME NEW i \in 1..(Len(x) + Len(t)) PROVE \E j \in DOMAIN w : j >= i /\ (x \o t)[i] = w[j]
  <2>1. (x \o t)[i] = IF i <= Len(x) THEN x[i] ELSE t[i - Len(x)]
    BY ConcatIndex
  <2>2. CASE i <= Len(x)
    <3>1. i \in DOMAIN w /\ i \in 1..Len(w)
      BY <1>2
    <3> QED
      BY <1>2, <2>1, <2>2, <3>1, SMTT(30)
  <2>3. CASE ~(i <= Len(x))
    <3>1. i - Len(x) \in 1..Len(t) /\ i + 1 \in 1..Len(w) /\ i + 1 \in DOMAIN w /\ ~(i + 1 <= Len(x))
          /\ (i - Len(x)) + 1 = (i + 1) - Len(x) /\ i + 1 >= i
      BY <1>2, <2>3
    <3>2. t[i - Len(x)] = w[i + 1]
      BY <1>2, <3>1
    <3> QED
      BY <2>1, <2>3, <3>1, <3>2
  <2> QED
    BY <2>2, <2>3
<1>6. ToSet(x \o t) \subseteq ToSet(w)
  BY <1>4, <1>5 DEF ToSet
<1>7. TakenFrom(x \o t, w)
  BY <1>4, <1>5 DEF TakenFrom
<1> QED
  BY <1>1, <1>3, <1>4, <1>6, <1>7

LEMMA EndsSplit ==
  ASSUME NEW E, NEW x \in Seq(E), NEW y \in Seq(E), NEW T, NEW S, EndsIn(x \o y, T, S)
  PROVE  EndsIn(y, T, S) \/ (EndsIn(x, T, S) /\ Silent(y, T))
<1>1. PICK w \in Seq(E) : w = x \o y
  BY ConcatIndex
<1>2. /\ Len(x) \in Nat /\ Len(y) \in Nat /\ DOMAIN w = 1..(Len(x) + Len(y))
      /\ DOMAIN x = 1..Len(x) /\ DOMAIN y = 1..Len(y)
      /\ \A i \in 1..(Len(x) + Len(y)) : w[i] = IF i <= Len(x) THEN x[i] ELSE y[i - Len(x)]
  BY <1>1, ConcatIndex
<1>3. PICK i \in 1..(Len(x) + Len(y)) : w[i] \in T \cap S /\ \A j \in 1..(Len(x) + Len(y)) : j > i => w[j] \notin T
  BY <1>1, <1>2 DEF EndsIn
<1>4. CASE i <= Len(x)
  <2>1. \A j \in 1..Len(y) : j + Len(x) \in 1..(Len(x) + Len(y)) /\ ~(j + Len(x) <= Len(x)) /\ j + Len(x) > i
                              /\ (j + Len(x)) - Len(x) = j
    BY <1>2, <1>4
  <2>2. \A j \in 1..Len(y) : y[j] \notin T
    BY <1>2, <1>3, <2>1
  <2>3. \A j \in 1..Len(x) : j \in 1..(Len(x) + Len(y)) /\ j <= Len(x)
    BY <1>2
  <2>4. i \in 1..Len(x) /\ x[i] \in T \cap S /\ \A j \in 1..Len(x) : j > i => x[j] \notin T
    BY <1>2, <1>3, <1>4, <2>3
  <2> QED
    BY <1>2, <2>2, <2>4 DEF EndsIn, Silent, ToSet
<1>5. CASE ~(i <= Len(x))
  <2>1. \A j \in 1..Len(y) : j + Len(x) \in 1..(Len(x) + Len(y)) /\ ~(j + Len(x) <= Len(x))
                              /\ (j + Len(x)) - Len(x) = j /\ (j > i - Len(x) => j + Len(x) > i)
    BY <1>2, <1>5
  <2>2. i - Len(x) \in 1..Len(y) /\ y[i - Len(x)] \in T \cap S
    BY <1>2, <1>3, <1>5
  <2>3. ASSUME NEW j \in 1..Len(y), j > i - Len(x) PROVE y[j] \notin T
    BY <1>2, <1>3, <2>1, <2>3
  <2> QED
    BY <1>2, <2>2, <2>3 DEF EndsIn
<1> QED
  BY <1>4, <1>5

LEMMA WatchingIf ==
  ASSUME MonitorTypeOK, KernelInv, kernelQ # <<>> \/ modRibCh # <<>>
  PROVE  watching
<1>1. PICK E : E = Seq(Paths)
  OBVIOUS
<1>2. kernelQ \in Seq(E) /\ modRibCh \in Seq(E)
  BY <1>1, Types
<1>3. Pending # <<>>
  BY <1>2 DEF Pending
<1> QED
  BY <1>3 DEF KernelInv

LEMMA MonitorBestKeeps ==
  ASSUME MonitorTypeOK, KernelInv, MonitorBest
  PROVE  KernelInv' /\ kernelQ' \in Seq(Seq(Paths))
<1>1. adj \in Adjs /\ kernelQ \in Seq(Seq(Paths)) /\ modRibCh \in Seq(Seq(Paths))
  BY Types
<1>2. PICK l : l = Snapshot
  OBVIOUS
<1>3. /\ l \in Seq(Paths) /\ WellFormed(l) /\ \A n \in Nlris : PathsOf(l, n) = Shown(adj, n)
  BY <1>1, <1>2, SnapshotFacts
<1>4. modRibCh = <<>>
  BY WatchingIf DEF MonitorBest
<1>5. PICK w : w = <<l>>
  OBVIOUS
<1>6. w \in Seq(Seq(Paths)) /\ DOMAIN w = {1} /\ w[1] = l /\ ToSet(w) = {l}
  BY <1>3, <1>5, OneOf
<1>7. kernelQ' = w /\ modRibCh' = <<>> /\ Pending' = w
  <2>1. <<>> \o w = w
    BY <1>6
  <2> QED
    BY <1>2, <1>4, <1>5, <2>1 DEF MonitorBest, Pending
<1>8. watching' /\ kernel' = kernel /\ missed' = missed /\ adj' = adj /\ multipath' = multipath
  BY DEF MonitorBest, serverVars
<1>9. ASSUME NEW n \in V4
      PROVE  \/ EndsIn(w, Naming(n), Telling(adj, n))
             \/ Silent(w, Naming(n)) /\ kernel[n] = {q.src : q \in Shown(adj, n)}
  <2>0. n \in Nlris
    BY DEF Nlris
  <2>1. CASE n \in PrefixesOf(l)
    <3>1. l \in Naming(n) \cap Telling(adj, n)
      BY <1>3, <2>0, <2>1 DEF Naming, Telling, TellsOf
    <3> QED
      BY <1>6, <3>1 DEF EndsIn
  <2>2. CASE n \notin PrefixesOf(l)
    <3>1. Silent(w, Naming(n))
      BY <1>6, <2>2 DEF Silent, Naming
    <3>2. PathsOf(l, n) = {}
      BY <2>2 DEF PathsOf, PrefixesOf
    <3>3. kernel[n] = {}
      BY DEF MonitorBest, KernelInv
    <3> QED
      BY <1>3, <2>0, <3>1, <3>2, <3>3
  <2> QED
    BY <2>1, <2>2
<1>10. \A n \in V4 : Naming(n)' = Naming(n) /\ Telling(adj, n)' = Telling(adj, n) /\ Shown(adj, n)' = Shown(adj, n)
  BY <1>8 DEF Naming, Telling, TellsOf, Shown
<1>11. \A n \in V4 : \/ EndsIn(Pending, Naming(n), Telling(adj, n))'
                     \/ Silent(Pending, Naming(n))' /\ Settled(n)'
  BY <1>7, <1>8, <1>9, <1>10 DEF EndsIn, Silent, Settled
<1>12. ToSet(modRibCh') = {}
  BY <1>7 DEF ToSet
<1> QED
  BY <1>3, <1>6, <1>7, <1>8, <1>11, <1>12 DEF KernelInv

LEMMA BestEventKeeps ==
  ASSUME MonitorTypeOK, KernelInv, BestEvent
  PROVE  /\ KernelInv' /\ kernelQ' \in Seq(Seq(Paths)) /\ modRibCh' \in Seq(Seq(Paths)) /\ missed' \subseteq V4
<1>0. PICK E : E = Seq(Paths)
  OBVIOUS
<1>1. PICK x \in Seq(E), y \in Seq(E) : x = modRibCh /\ y = kernelQ
  BY <1>0, Types
<1>2. y # <<>> /\ kernelQ' = Tail(y) /\ watching /\ watching' /\ kernel' = kernel /\ adj' = adj /\ multipath' = multipath
  BY <1>1, WatchingIf DEF BestEvent, serverVars
<1>3. PICK l \in E, t \in Seq(E) : l = Head(y) /\ t = Tail(y)
  BY <1>2, TailIndex
<1>4. PICK w \in Seq(E) : w = Pending /\ w = x \o y
  BY <1>1, ConcatIndex DEF Pending
<1>5. /\ \A k \in ToSet(w) : WellFormed(k)
      /\ \A i \in DOMAIN w : i # 1 => OneNlri(w[i])
      /\ \A k \in ToSet(x) : PrefixesOf(k) \subseteq V4
      /\ \A n \in V4 : EndsIn(w, Naming(n), Telling(adj, n)) \/ (Silent(w, Naming(n)) /\ Settled(n))
  BY <1>1, <1>2, <1>4 DEF KernelInv
<1>6. \A n \in V4 : Naming(n)' = Naming(n) /\ Telling(adj, n)' = Telling(adj, n) /\ Shown(adj, n)' = Shown(adj, n)
  BY <1>2 DEF Naming, Telling, TellsOf, Shown
<1>7. CASE PrefixesOf(l) \subseteq V4
  <2>1. modRibCh' = Append(x, l) /\ missed' = missed
    BY <1>1, <1>3, <1>7 DEF BestEvent
  <2>2. Append(x, l) \in Seq(E) /\ ToSet(Append(x, l)) = ToSet(x) \cup {l}
    BY AppendElements
  <2>3. Pending' = w
    BY <1>2, <1>3, <1>4, <2>1, PassedOn DEF Pending
  <2>4. \A n \in V4 : \/ EndsIn(Pending, Naming(n), Telling(adj, n))'
                      \/ Silent(Pending, Naming(n))' /\ Settled(n)'
    BY <1>2, <1>5, <1>6, <2>1, <2>3 DEF EndsIn, Silent, Settled
  <2>5. missed \subseteq V4
    BY DEF MonitorTypeOK
  <2>6. \A k \in ToSet(modRibCh') : PrefixesOf(k) \subseteq V4
    BY <1>5, <1>7, <2>1, <2>2
  <2>7. KernelInv'
    BY <1>2, <1>5, <2>3, <2>4, <2>6 DEF KernelInv
  <2> QED
    BY <1>0, <1>2, <1>3, <2>1, <2>2, <2>5, <2>7
<1>8. CASE ~(PrefixesOf(l) \subseteq V4)
  <2>1. modRibCh' = x /\ missed' = missed \cup (PrefixesOf(l) \cap V4)
    BY <1>1, <1>3, <1>8 DEF BestEvent
  <2>2. PICK v \in Seq(E) : v = x \o t /\ v = Pending'
    BY <1>2, <1>3, <2>1, ConcatIndex DEF Pending
  <2>3. /\ Len(x) \in Nat /\ Len(x) + 1 \in DOMAIN w /\ w[Len(x) + 1] = l
        /\ \A i \in DOMAIN v : \E j \in DOMAIN w : j >= i /\ v[i] = w[j]
        /\ ToSet(v) \subseteq ToSet(w) /\ DOMAIN v \subseteq Nat \ {0} /\ DOMAIN w \subseteq Nat \ {0}
    <3>1. Len(x) + 1 \in DOMAIN w /\ w[Len(x) + 1] = l /\ ToSet(v) \subseteq ToSet(w) /\ TakenFrom(v, w)
      <4>1. v = x \o Tail(y) /\ w = x \o y /\ y # <<>> /\ l = Head(y)
        BY <1>2, <1>3, <1>4, <2>2
      <4> QED
        BY <4>1, TakenOut
    <3>2. Len(x) \in Nat /\ DOMAIN v \subseteq Nat \ {0} /\ DOMAIN w \subseteq Nat \ {0}
      OBVIOUS
    <3> QED
      BY <3>1, <3>2 DEF TakenFrom
  <2>4. ASSUME NEW i \in DOMAIN v, i # 1 PROVE OneNlri(v[i])
    <3>1. PICK j \in DOMAIN w : j >= i /\ v[i] = w[j]
      BY <2>3
    <3>2. j # 1
      BY <2>3, <2>4, <3>1
    <3> QED
      BY <1>5, <3>1, <3>2
  <2>5. ASSUME NEW n \in V4
        PROVE  \/ EndsIn(v, Naming(n), Telling(adj, n))
               \/ Silent(v, Naming(n)) /\ (n \in missed' \/ kernel[n] = {q.src : q \in Shown(adj, n)})
    <3>1. CASE n \in PrefixesOf(l)
      <4>1. n \in missed'
        BY <2>1, <3>1
      <4>2. x = <<>>
        <5>1. ~OneNlri(l)
          BY <1>8, <3>1 DEF OneNlri
        <5>2. Len(x) + 1 = 1
          BY <1>5, <2>3, <5>1
        <5> QED
          BY <2>3, <5>2
      <4>3. w = y /\ v = t
        <5>1. \A z \in Seq(E) : <<>> \o z = z
          OBVIOUS
        <5> QED
          BY <1>4, <2>2, <4>2, <5>1
      <4>4. EndsIn(v, Naming(n), Telling(adj, n)) \/ Silent(v, Naming(n))
        <5>1. CASE EndsIn(w, Naming(n), Telling(adj, n))
          BY <1>2, <1>3, <4>3, <5>1, EndsTail
        <5>2. CASE Silent(w, Naming(n))
          BY <1>2, <1>3, <4>3, <5>2, SilentTail
        <5> QED
          BY <1>5, <5>1, <5>2
      <4> QED
        BY <4>1, <4>4
    <3>2. CASE n \notin PrefixesOf(l)
      <4>1. Head(y) \notin Naming(n)
        BY <1>3, <3>2 DEF Naming
      <4>2. CASE EndsIn(w, Naming(n), Telling(adj, n))
        <5>1. EndsIn(y, Naming(n), Telling(adj, n)) \/ (EndsIn(x, Naming(n), Telling(adj, n)) /\ Silent(y, Naming(n)))
          BY <1>4, <4>2, EndsSplit
        <5>2. CASE EndsIn(y, Naming(n), Telling(adj, n))
          <6>1. EndsIn(t, Naming(n), Telling(adj, n))
            BY <1>2, <1>3, <4>1, <5>2, EndsTail
          <6> QED
            BY <2>2, <6>1, EndsAfter
        <5>3. CASE EndsIn(x, Naming(n), Telling(adj, n)) /\ Silent(y, Naming(n))
          <6>1. Silent(t, Naming(n))
            BY <1>2, <1>3, <5>3, SilentTail
          <6> QED
            BY <2>2, <5>3, <6>1, EndsBefore
        <5> QED
          BY <5>1, <5>2, <5>3
      <4>3. CASE Silent(w, Naming(n)) /\ Settled(n)
        <5>1. Silent(v, Naming(n))
          BY <2>3, <4>3 DEF Silent
        <5> QED
          BY <2>1, <4>3, <5>1 DEF Settled
      <4> QED
        BY <1>5, <4>2, <4>3
    <3> QED
      BY <3>1, <3>2
  <2>6. \A n \in V4 : \/ EndsIn(Pending, Naming(n), Telling(adj, n))'
                      \/ Silent(Pending, Naming(n))' /\ Settled(n)'
    BY <1>2, <1>6, <2>2, <2>5 DEF EndsIn, Silent, Settled
  <2>7. missed' \subseteq V4
    BY <2>1 DEF MonitorTypeOK
  <2>8. KernelInv'
    BY <1>2, <1>5, <2>1, <2>2, <2>3, <2>4, <2>6 DEF KernelInv
  <2> QED
    BY <1>0, <1>2, <1>3, <2>1, <2>7, <2>8
<1> QED
  BY <1>7, <1>8

LEMMA ShownLocal ==
  ASSUME NEW a \in Adjs, NEW n \in Nlris, NEW q \in Shown(a, n), q.src = Local
  PROVE  Shown(a, n) = {q}
<1>1. CASE multipath
  <2>1. Shown(a, n) = Multi(a, n)
    BY <1>1 DEF Shown
  <2>2. Local \in MultiOf(a, n)
    BY <2>1, MultiFacts
  <2>3. MultiOf(a, n) = {Local}
    BY <2>2, MultiFacts
  <2>4. Multi(a, n) = {Path(n, Local, a[Local][n])}
    BY <2>3 DEF Multi
  <2> QED
    BY <2>1, <2>4
<1>2. CASE ~multipath
  <2>1. Shown(a, n) = Best(a, n)
    BY <1>2 DEF Shown
  <2>2. Known(a, n) # {}
    BY <2>1, BestFacts
  <2>3. Best(a, n) = {Path(n, BestOf(a, n), a[BestOf(a, n)][n])}
    BY <2>2, BestFacts
  <2> QED
    BY <2>1, <2>3
<1> QED
  BY <1>1, <1>2

\* What modRib makes of a list that tells what is shown of n.
LEMMA ModRibTold ==
  ASSUME MonitorTypeOK, NEW l, l = Head(modRibCh), l \in Seq(Paths), WellFormed(l), PrefixesOf(l) \subseteq V4, ModRib,
         NEW n \in V4
  PROVE  /\ n \notin PrefixesOf(l) => kernel'[n] = kernel[n] /\ (n \in missed => n \in missed')
         /\ n \in PrefixesOf(l) /\ l \in Telling(adj, n) =>
              n \in missed' \/ kernel'[n] = {q.src : q \in Shown(adj, n)}
<1>0. n \in Nlris /\ adj \in Adjs /\ kernel \in [V4 -> SUBSET Peers]
  BY Types DEF Nlris
<1>1. PICK withdrawn : withdrawn = {i \in DOMAIN l : l[i].v = 0}
  OBVIOUS
<1>2. PICK first : first = l[CHOOSE i \in withdrawn : \A j \in withdrawn : i <= j]
  OBVIOUS
<1>3. PICK own : own = {m \in PrefixesOf(l) : Cardinality(PathsOf(l, m)) = 1 /\ \E q \in PathsOf(l, m) : q.src = Local}
  OBVIOUS
<1>4. /\ withdrawn # {} => kernel' = [kernel EXCEPT ![first.n] = {}] /\ missed' = (missed \cup PrefixesOf(l)) \ {first.n}
      /\ withdrawn = {} /\ own # {} => missed' = missed \cup PrefixesOf(l) /\ kernel' = kernel
      /\ withdrawn = {} /\ own = {} =>
           /\ kernel' = [m \in V4 |-> IF m \in PrefixesOf(l) THEN {q.src : q \in PathsOf(l, m)} \ {Local} ELSE kernel[m]]
           /\ missed' = missed \ PrefixesOf(l)
  BY <1>1, <1>2, <1>3 DEF ModRib
<1>5. CASE withdrawn # {}
  <2>1. kernel' = [kernel EXCEPT ![first.n] = {}] /\ missed' = (missed \cup PrefixesOf(l)) \ {first.n}
    BY <1>4, <1>5
  <2>2. PICK m \in Nlris, s \in Sources : l = <<Path(m, s, 0)>>
    BY <1>1, <1>5 DEF WellFormed
  <2>3. PICK q \in Paths : q = Path(m, s, 0) /\ q.n = m /\ q.v = 0
    BY ZeroPath
  <2>4. l = <<q>> /\ PrefixesOf(l) = {m} /\ PathsOf(l, m) = {q} /\ DOMAIN l = {1} /\ l[1] = q
    <3>1. PrefixesOf(<<q>>) = {m} /\ PathsOf(<<q>>, m) = {q}
      BY <2>3, OnePath
    <3>2. DOMAIN <<q>> = {1} /\ <<q>>[1] = q
      BY OneOf
    <3> QED
      BY <2>2, <2>3, <3>1, <3>2
  <2>5. first = q
    <3>1. withdrawn = {1}
      BY <1>1, <2>3, <2>4
    <3>2. (CHOOSE i \in withdrawn : \A j \in withdrawn : i <= j) = 1
      BY <3>1
    <3> QED
      BY <1>2, <2>4, <3>2
  <2>6. kernel'[m] = {} /\ (n # m => kernel'[n] = kernel[n])
    BY <1>0, <2>1, <2>3, <2>4, <2>5
  <2>7. ASSUME n = m, l \in Telling(adj, n) PROVE Shown(adj, n) = {}
    <3>1. TellsOf(adj, n, l)
      BY <2>7 DEF Telling
    <3>2. PathsOf(l, n) # Shown(adj, n)
      BY <1>0, <2>3, <2>4, <2>7, ShownFacts
    <3> QED
      BY <3>1, <3>2 DEF TellsOf
  <2> QED
    BY <2>1, <2>3, <2>4, <2>5, <2>6, <2>7
<1>6. CASE withdrawn = {} /\ own # {}
  <2>1. missed' = missed \cup PrefixesOf(l) /\ kernel' = kernel
    BY <1>4, <1>6
  <2> QED
    BY <2>1
<1>7. CASE withdrawn = {} /\ own = {}
  <2>1. /\ kernel' = [m \in V4 |-> IF m \in PrefixesOf(l) THEN {q.src : q \in PathsOf(l, m)} \ {Local} ELSE kernel[m]]
        /\ missed' = missed \ PrefixesOf(l)
    BY <1>4, <1>7
  <2>2. n \notin PrefixesOf(l) => kernel'[n] = kernel[n] /\ (n \in missed => n \in missed')
    BY <2>1
  <2>3. ASSUME n \in PrefixesOf(l), l \in Telling(adj, n) PROVE kernel'[n] = {q.src : q \in Shown(adj, n)}
    <3>1. PathsOf(l, n) = Shown(adj, n)
      <4>1. TellsOf(adj, n, l)
        BY <2>3 DEF Telling
      <4>2. \A s \in Sources : PathsOf(l, n) # {Path(n, s, 0)}
        <5>1. \A q \in PathsOf(l, n) : q.v # 0
          BY <1>1, <1>7 DEF PathsOf
        <5>2. \A s : Path(n, s, 0).v = 0
          BY DEF Path
        <5> QED
          BY <5>1, <5>2
      <4> QED
        BY <4>1, <4>2 DEF TellsOf
    <3>2. \A q \in Shown(adj, n) : q.src # Local
      <4> SUFFICES ASSUME NEW q \in Shown(adj, n), q.src = Local PROVE FALSE
        OBVIOUS
      <4>1. Shown(adj, n) = {q}
        BY <1>0, ShownLocal
      <4>2. Cardinality(PathsOf(l, n)) = 1
        <5>1. \A x : Cardinality({x}) = 1
          BY FS_Singleton
        <5> QED
          BY <3>1, <4>1, <5>1
      <4>3. n \in own
        BY <1>3, <2>3, <3>1, <4>2
      <4> QED
        BY <1>7, <4>3
    <3>3. kernel'[n] = {q.src : q \in PathsOf(l, n)} \ {Local}
      BY <2>1, <2>3
    <3> QED
      BY <3>1, <3>2, <3>3
  <2> QED
    BY <2>2, <2>3
<1> QED
  BY <1>5, <1>6, <1>7

LEMMA ModRibTypes ==
  ASSUME MonitorTypeOK, NEW l, l = Head(modRibCh), l \in Seq(Paths), PrefixesOf(l) \subseteq V4, ModRib
  PROVE  kernel' \in [V4 -> SUBSET Peers] /\ missed' \subseteq V4
<1>0. kernel \in [V4 -> SUBSET Peers] /\ missed \subseteq V4
  BY Types
<1>1. PICK withdrawn : withdrawn = {i \in DOMAIN l : l[i].v = 0}
  OBVIOUS
<1>2. PICK first : first = l[CHOOSE i \in withdrawn : \A j \in withdrawn : i <= j]
  OBVIOUS
<1>3. PICK own : own = {m \in PrefixesOf(l) : Cardinality(PathsOf(l, m)) = 1 /\ \E q \in PathsOf(l, m) : q.src = Local}
  OBVIOUS
<1>4. /\ withdrawn # {} => kernel' = [kernel EXCEPT ![first.n] = {}] /\ missed' = (missed \cup PrefixesOf(l)) \ {first.n}
      /\ withdrawn = {} /\ own # {} => missed' = missed \cup PrefixesOf(l) /\ kernel' = kernel
      /\ withdrawn = {} /\ own = {} =>
           /\ kernel' = [m \in V4 |-> IF m \in PrefixesOf(l) THEN {q.src : q \in PathsOf(l, m)} \ {Local} ELSE kernel[m]]
           /\ missed' = missed \ PrefixesOf(l)
  BY <1>1, <1>2, <1>3 DEF ModRib
<1>5. \A m \in V4 : {q.src : q \in PathsOf(l, m)} \ {Local} \in SUBSET Peers
  <2>1. \A m : PathsOf(l, m) \subseteq Paths
    BY DEF PathsOf
  <2>2. \A q \in Paths : q.src \in Sources
    BY DEF Paths
  <2> QED
    BY <2>1, <2>2 DEF Sources
<1>6. CASE withdrawn # {}
  BY <1>0, <1>4, <1>6
<1>7. CASE withdrawn = {} /\ own # {}
  BY <1>0, <1>4, <1>7
<1>8. CASE withdrawn = {} /\ own = {}
  BY <1>0, <1>4, <1>5, <1>8
<1> QED
  BY <1>6, <1>7, <1>8

LEMMA ModRibKeeps ==
  ASSUME MonitorTypeOK, KernelInv, ModRib
  PROVE  /\ KernelInv' /\ modRibCh' \in Seq(Seq(Paths)) /\ missed' \subseteq V4
         /\ kernel' \in [V4 -> SUBSET Peers]
<1>0. PICK E : E = Seq(Paths)
  OBVIOUS
<1>1. PICK x \in Seq(E), y \in Seq(E) : x = modRibCh /\ y = kernelQ
  BY <1>0, Types
<1>2. /\ x # <<>> /\ modRibCh' = Tail(x) /\ kernelQ' = y /\ watching /\ watching'
      /\ adj' = adj /\ multipath' = multipath
  BY <1>1, WatchingIf DEF ModRib, serverVars
<1>3. PICK l \in E, t \in Seq(E) : l = Head(x) /\ t = Tail(x)
  BY <1>2, TailIndex
<1>4. PICK w \in Seq(E) : w = Pending /\ w = x \o y
  BY <1>1, ConcatIndex DEF Pending
<1>5. PICK v \in Seq(E) : v = t \o y /\ v = Pending'
  BY <1>2, <1>3, ConcatIndex DEF Pending
<1>6. w # <<>> /\ Head(w) = l /\ v = Tail(w)
  BY <1>2, <1>3, <1>4, <1>5, TailOfConcat, SMTT(30)
<1>7. /\ \A k \in ToSet(w) : WellFormed(k)
      /\ \A i \in DOMAIN w : i # 1 => OneNlri(w[i])
      /\ \A k \in ToSet(x) : PrefixesOf(k) \subseteq V4
      /\ \A n \in V4 : EndsIn(w, Naming(n), Telling(adj, n)) \/ (Silent(w, Naming(n)) /\ Settled(n))
  BY <1>1, <1>2, <1>4 DEF KernelInv
<1>8. /\ Len(w) \in Nat \ {0} /\ DOMAIN w = 1..Len(w) /\ w[1] = l /\ DOMAIN v = 1..(Len(w) - 1)
      /\ \A i \in 1..(Len(w) - 1) : v[i] = w[i + 1]
  BY <1>6, TailIndex
<1>9. ToSet(v) \subseteq ToSet(w) /\ l \in ToSet(w)
  <2>1. 1 \in DOMAIN w /\ \A i \in 1..(Len(w) - 1) : i + 1 \in DOMAIN w
    BY <1>8
  <2> QED
    BY <1>8, <2>1 DEF ToSet
<1>10. \A i \in DOMAIN v : i # 1 => OneNlri(v[i])
  <2>1. \A i \in DOMAIN v : i + 1 \in DOMAIN w /\ i + 1 # 1 /\ v[i] = w[i + 1]
    BY <1>8
  <2> QED
    BY <1>7, <2>1
<1>11. l \in ToSet(x) /\ ToSet(t) \subseteq ToSet(x)
  <2>1. Len(x) \in Nat \ {0} /\ DOMAIN x = 1..Len(x) /\ l = x[1] /\ DOMAIN t = 1..(Len(x) - 1)
        /\ \A i \in 1..(Len(x) - 1) : t[i] = x[i + 1]
    BY <1>2, <1>3, TailIndex
  <2>2. 1 \in DOMAIN x /\ \A i \in 1..(Len(x) - 1) : i + 1 \in DOMAIN x
    BY <2>1
  <2> QED
    BY <2>1, <2>2 DEF ToSet
<1>12. WellFormed(l) /\ PrefixesOf(l) \subseteq V4 /\ l \in Seq(Paths) /\ l = Head(modRibCh)
  BY <1>0, <1>1, <1>3, <1>7, <1>9, <1>11
<1>13. ASSUME NEW n \in V4
       PROVE  \/ EndsIn(v, Naming(n), Telling(adj, n))
              \/ Silent(v, Naming(n)) /\ (n \in missed' \/ kernel'[n] = {q.src : q \in Shown(adj, n)})
  <2>1. /\ n \notin PrefixesOf(l) => kernel'[n] = kernel[n] /\ (n \in missed => n \in missed')
        /\ n \in PrefixesOf(l) /\ l \in Telling(adj, n) =>
              n \in missed' \/ kernel'[n] = {q.src : q \in Shown(adj, n)}
    BY <1>12, ModRibTold
  <2>2. CASE EndsIn(w, Naming(n), Telling(adj, n))
    <3>1. EndsIn(v, Naming(n), Telling(adj, n)) \/ (l \in Naming(n) \cap Telling(adj, n) /\ Silent(v, Naming(n)))
      BY <1>6, <2>2, EndsTail
    <3> QED
      BY <2>1, <3>1 DEF Naming
  <2>3. CASE Silent(w, Naming(n)) /\ Settled(n)
    <3>1. Silent(v, Naming(n)) /\ l \notin Naming(n)
      BY <1>6, <2>3, SilentTail
    <3>2. n \notin PrefixesOf(l)
      BY <1>12, <3>1 DEF Naming
    <3> QED
      BY <2>1, <2>3, <3>1, <3>2 DEF Settled
  <2> QED
    BY <1>7, <2>2, <2>3
<1>14. \A n \in V4 : Naming(n)' = Naming(n) /\ Telling(adj, n)' = Telling(adj, n) /\ Shown(adj, n)' = Shown(adj, n)
  BY <1>2 DEF Naming, Telling, TellsOf, Shown
<1>15. \A n \in V4 : \/ EndsIn(Pending, Naming(n), Telling(adj, n))'
                     \/ Silent(Pending, Naming(n))' /\ Settled(n)'
  BY <1>2, <1>5, <1>13, <1>14 DEF EndsIn, Silent, Settled
<1>16. KernelInv'
  <2>1. \A k \in ToSet(v) : WellFormed(k)
    BY <1>7, <1>9
  <2>2. \A k \in ToSet(t) : PrefixesOf(k) \subseteq V4
    BY <1>7, <1>11
  <2> QED
    BY <1>2, <1>3, <1>5, <1>10, <1>15, <2>1, <2>2 DEF KernelInv
<1>17. kernel' \in [V4 -> SUBSET Peers] /\ missed' \subseteq V4
  BY <1>12, ModRibTypes
<1> QED
  BY <1>0, <1>2, <1>3, <1>16, <1>17

-----------------------------------------------------------------------------
(* The snapshot of a BMP client *)

LEMMA FiniteImage ==
  ASSUME NEW S, IsFiniteSet(S), NEW f, DOMAIN f = S
  PROVE  IsFiniteSet({f[x] : x \in S})
<1>1. PICK T : T = {f[x] : x \in S}
  OBVIOUS
<1>2. PICK g : g = [x \in S |-> f[x]]
  OBVIOUS
<1>3. g \in Surjection(S, T)
  BY <1>1, <1>2 DEF Surjection
<1> QED
  BY <1>1, <1>3, FS_Surjection

LEMMA FinitePeers == IsFiniteSet(Peers) /\ IsFiniteSet(Nlris) /\ IsFiniteSet(Peers \X Nlris)
<1>1. IsFiniteSet(1..NPeers)
  BY PrefsAssumption, FS_Interval
<1>2. IsFiniteSet(Peers) /\ IsFiniteSet(Nlris)
  BY <1>1, PrefsAssumption DEF Peers, Nlris
<1> QED
  BY <1>2, FS_Product

SessionsUp == {PeerUp(p) : p \in up}
Announced == {PreUpdate(x[1], x[2], adj[x[1]][x[2]]) : x \in {y \in up \X Nlris : adj[y[1]][y[2]] > 0}}
Passed == {PostUpdate(x[1], x[2], adj[x[1]][x[2]], TRUE) : x \in {y \in up \X Nlris : Accepted(adj, y[1], y[2]) > 0}}
BestPaths == {Path(n, BestOf(adj, n), adj[BestOf(adj, n)][n]) : n \in {m \in Nlris : Known(adj, m) # {}}}

LEMMA SnapshotParts ==
  ASSUME MonitorTypeOK
  PROVE  /\ IsFiniteSet(SessionsUp) /\ SessionsUp \subseteq Events
         /\ IsFiniteSet(Announced) /\ Announced \subseteq Events
         /\ IsFiniteSet(Passed) /\ Passed \subseteq Events
<1>0. adj \in Adjs /\ up \subseteq Peers /\ <<>> \in Seq(Paths)
  BY Types
<1>1. IsFiniteSet(SessionsUp)
  <2>1. PICK f : f = [p \in up |-> PeerUp(p)]
    OBVIOUS
  <2>2. IsFiniteSet(up)
    BY <1>0, FinitePeers, FS_Subset
  <2>3. IsFiniteSet({f[p] : p \in up})
    BY <2>1, <2>2, FiniteImage
  <2>4. SessionsUp = {f[p] : p \in up}
    BY <2>1 DEF SessionsUp
  <2> QED
    BY <2>3, <2>4
<1>2. IsFiniteSet(Announced)
  <2>1. PICK S : S = {y \in up \X Nlris : adj[y[1]][y[2]] > 0}
    OBVIOUS
  <2>2. PICK f : f = [x \in S |-> PreUpdate(x[1], x[2], adj[x[1]][x[2]])]
    OBVIOUS
  <2>3. S \in SUBSET (Peers \X Nlris)
    BY <1>0, <2>1
  <2>4. IsFiniteSet(S)
    BY <2>3, FinitePeers, FS_Subset
  <2>5. IsFiniteSet({f[x] : x \in S})
    BY <2>2, <2>4, FiniteImage
  <2>6. Announced = {f[x] : x \in S}
    BY <2>1, <2>2 DEF Announced
  <2> QED
    BY <2>5, <2>6
<1>3. IsFiniteSet(Passed)
  <2>1. PICK S : S = {y \in up \X Nlris : Accepted(adj, y[1], y[2]) > 0}
    OBVIOUS
  <2>2. PICK f : f = [x \in S |-> PostUpdate(x[1], x[2], adj[x[1]][x[2]], TRUE)]
    OBVIOUS
  <2>3. S \in SUBSET (Peers \X Nlris)
    BY <1>0, <2>1
  <2>4. IsFiniteSet(S)
    BY <2>3, FinitePeers, FS_Subset
  <2>5. IsFiniteSet({f[x] : x \in S})
    <3>1. DOMAIN f = S
      BY <2>2
    <3> QED
      BY <2>4, <3>1, FiniteImage
  <2>6. Passed = {f[x] : x \in S}
    BY <2>1, <2>2 DEF Passed
  <2> QED
    BY <2>5, <2>6
<1>4. SessionsUp \subseteq Events
  <2>1. \A p \in Peers : PeerUp(p) \in Events
    BY DEF Events, PeerUp
  <2> QED
    BY <1>0, <2>1 DEF SessionsUp
<1>5. ASSUME NEW x \in up \X Nlris
      PROVE  /\ PreUpdate(x[1], x[2], adj[x[1]][x[2]]) \in Events
             /\ PostUpdate(x[1], x[2], adj[x[1]][x[2]], TRUE) \in Events
  <2>1. x[1] \in Peers /\ x[1] \in Sources /\ x[2] \in Nlris
    BY <1>0, SourcesAre
  <2>2. adj[x[1]][x[2]] \in Prefs \cup {0, 1}
    BY <1>0, <2>1, AdjType
  <2> QED
    BY <1>0, <2>1, <2>2, EventTypes
<1>6. Announced \subseteq Events /\ Passed \subseteq Events
  BY <1>5 DEF Announced, Passed
<1> QED
  BY <1>1, <1>2, <1>3, <1>4, <1>6

LEMMA BestPathsFacts ==
  ASSUME adj \in Adjs
  PROVE  /\ BestPaths \subseteq Paths /\ IsFiniteSet(BestPaths) /\ \A q \in BestPaths : q.v > 0
         /\ \A n \in Nlris : {q \in BestPaths : q.n = n} = Best(adj, n)
<1>1. PICK S : S = {m \in Nlris : Known(adj, m) # {}}
  OBVIOUS
<1>2. PICK f : f = [n \in S |-> Path(n, BestOf(adj, n), adj[BestOf(adj, n)][n])]
  OBVIOUS
<1>3. BestPaths = {f[n] : n \in S}
  BY <1>1, <1>2 DEF BestPaths
<1>4. IsFiniteSet(BestPaths)
  <2>1. S \in SUBSET Nlris
    BY <1>1
  <2>2. IsFiniteSet(S)
    BY <2>1, FinitePeers, FS_Subset
  <2> QED
    BY <1>2, <1>3, <2>2, FiniteImage
<1>5. ASSUME NEW n \in S
      PROVE  f[n] \in Paths /\ f[n].n = n /\ f[n].v > 0 /\ Best(adj, n) = {f[n]}
  <2>1. n \in Nlris /\ Known(adj, n) # {}
    BY <1>1
  <2>2. PICK s : s = BestOf(adj, n)
    OBVIOUS
  <2>3. IsBest(adj, n, s) /\ Best(adj, n) = {Path(n, s, adj[s][n])} /\ f[n] = Path(n, s, adj[s][n])
    BY <1>2, <2>1, <2>2, BestFacts
  <2>4. s \in Sources /\ adj[s][n] > 0 /\ adj[s][n] \in Prefs \cup {0, 1}
    BY <2>1, <2>3, KnownFacts DEF IsBest
  <2>5. Path(n, s, adj[s][n]) \in Paths /\ Path(n, s, adj[s][n]).n = n /\ Path(n, s, adj[s][n]).v = adj[s][n]
    BY <2>1, <2>4, PathType
  <2> QED
    BY <2>3, <2>4, <2>5
<1>6. ASSUME NEW n \in Nlris PROVE {q \in BestPaths : q.n = n} = Best(adj, n)
  <2>1. CASE n \in S
    BY <1>3, <1>5, <2>1
  <2>2. CASE n \notin S
    <3>1. Best(adj, n) = {}
      BY <1>1, <2>2, BestFacts
    <3> QED
      BY <1>3, <1>5, <2>2, <3>1
  <2> QED
    BY <2>1, <2>2
<1>7. BestPaths \subseteq Paths /\ \A q \in BestPaths : q.v > 0
  BY <1>3, <1>5
<1> QED
  BY <1>4, <1>6, <1>7

LEMMA SeqOfSubset ==
  ASSUME NEW E, NEW S, S \subseteq E, NEW s \in Seq(S)
  PROVE  s \in Seq(E)
<1>1. Len(s) \in Nat /\ s = [i \in 1..Len(s) |-> s[i]] /\ \A i \in 1..Len(s) : s[i] \in E
  OBVIOUS
<1> QED
  BY <1>1, IsList

LEMMA SnapshotElements ==
  ASSUME MonitorTypeOK
  PROVE  /\ BmpSnapshot \in Seq(Events)
         /\ ToSet(BmpSnapshot) = SessionsUp \cup {BestPath(SetToSeq(BestPaths))} \cup Announced \cup Passed
<1>1. PICK u, a, p, b : /\ u = SetToSeq(SessionsUp) /\ a = SetToSeq(Announced) /\ p = SetToSeq(Passed)
                        /\ b = BestPath(SetToSeq(BestPaths))
  OBVIOUS
<1>2. BmpSnapshot = u \o (<<b>> \o a \o p)
  BY <1>1 DEF BmpSnapshot, SnapshotOfRoutes, SessionsUp, Announced, Passed, BestPaths
<1>3. u \in Seq(Events) /\ ToSet(u) = SessionsUp
  <2>1. u \in Seq(SessionsUp) /\ ToSet(u) = SessionsUp
    BY <1>1, SnapshotParts, SetToSeqFacts
  <2> QED
    BY <2>1, SnapshotParts, SeqOfSubset
<1>4. a \in Seq(Events) /\ ToSet(a) = Announced
  <2>1. a \in Seq(Announced) /\ ToSet(a) = Announced
    BY <1>1, SnapshotParts, SetToSeqFacts
  <2> QED
    BY <2>1, SnapshotParts, SeqOfSubset
<1>5. p \in Seq(Events) /\ ToSet(p) = Passed
  <2>1. p \in Seq(Passed) /\ ToSet(p) = Passed
    BY <1>1, SnapshotParts, SetToSeqFacts
  <2> QED
    BY <2>1, SnapshotParts, SeqOfSubset
<1>6. b \in Events
  <2>1. adj \in Adjs
    BY Types
  <2>2. SetToSeq(BestPaths) \in Seq(Paths)
    BY <2>1, BestPathsFacts, SetList
  <2> QED
    BY <1>1, <2>2 DEF Events, BestPath
<1>7. PICK h \in Seq(Events) : h = <<b>> /\ ToSet(h) = {b}
  BY <1>6, OneOf
<1>8. PICK i \in Seq(Events) : i = h \o a /\ ToSet(i) = {b} \cup Announced
  <2>1. h \o a \in Seq(Events) /\ ToSet(h \o a) = ToSet(h) \cup ToSet(a)
    BY ZenonT(60), <1>4, <1>7, ConcatElements
  <2> QED
    BY <1>4, <1>7, <2>1
<1>9. PICK j \in Seq(Events) : j = i \o p /\ ToSet(j) = {b} \cup Announced \cup Passed
  <2>1. i \o p \in Seq(Events) /\ ToSet(i \o p) = ToSet(i) \cup ToSet(p)
    <3>1. i \in Seq(Events) /\ p \in Seq(Events)
      BY <1>5, <1>8
    <3> QED
      BY <3>1, ConcatElements
  <2> QED
    BY <1>5, <1>8, <2>1
<1>10. u \o j \in Seq(Events) /\ ToSet(u \o j) = SessionsUp \cup ({b} \cup Announced \cup Passed)
  <2>1. u \o j \in Seq(Events) /\ ToSet(u \o j) = ToSet(u) \cup ToSet(j)
    <3>1. u \in Seq(Events) /\ j \in Seq(Events)
      BY <1>3, <1>9
    <3> QED
      BY <3>1, ConcatElements
  <2> QED
    BY <1>3, <1>9, <2>1
<1>11. BmpSnapshot = u \o j
  BY <1>2, <1>7, <1>8, <1>9
<1> QED
  BY <1>1, <1>10, <1>11

LEMMA SnapshotTells ==
  ASSUME MonitorTypeOK, \A p \in Peers \ up, n \in Nlris : adj[p][n] = 0
  PROVE  /\ BmpSnapshot \in Seq(Events)
         /\ \A p \in Peers : /\ ToSet(BmpSnapshot) \cap OfSession(p) \subseteq TrueSession(up, p)
                             /\ Silent(BmpSnapshot, OfSession(p)) => p \notin up
         /\ \A p \in Peers, n \in Nlris : /\ ToSet(BmpSnapshot) \cap OfRoute(p, n) \subseteq TrueRoute(adj, p, n)
                                          /\ Silent(BmpSnapshot, OfRoute(p, n)) => adj[p][n] = 0
         /\ \A n \in Nlris : /\ ToSet(BmpSnapshot) \cap OfBest(n) \subseteq TrueBest(adj, n)
                             /\ Silent(BmpSnapshot, OfBest(n)) => Best(adj, n) = {}
<1>0. adj \in Adjs /\ up \subseteq Peers /\ <<>> \in Seq(Paths)
  BY Types
<1>1. PICK l : l = SetToSeq(BestPaths)
  OBVIOUS
<1>2. PICK s : s = BmpSnapshot
  OBVIOUS
<1>3. s \in Seq(Events) /\ ToSet(s) = SessionsUp \cup {BestPath(l)} \cup Announced \cup Passed
  BY <1>1, <1>2, SnapshotElements
<1>4. /\ l \in Seq(Paths) /\ PrefixesOf(l) = {q.n : q \in BestPaths}
      /\ \A n \in Nlris : PathsOf(l, n) = Best(adj, n) /\ \A q \in PathsOf(l, n) : q.v > 0 /\ q.n = n
  <2>1. /\ BestPaths \subseteq Paths /\ IsFiniteSet(BestPaths) /\ \A q \in BestPaths : q.v > 0
        /\ \A n \in Nlris : {q \in BestPaths : q.n = n} = Best(adj, n)
    BY <1>0, BestPathsFacts
  <2>2. /\ l \in Seq(Paths) /\ PrefixesOf(l) = {q.n : q \in BestPaths}
        /\ \A n \in Nlris : PathsOf(l, n) = {q \in BestPaths : q.n = n}
    BY <1>1, <2>1, SetList
  <2> QED
    BY <2>1, <2>2
<1>5. ASSUME NEW x \in up \X Nlris
      PROVE  x[1] \in Peers /\ x[1] \in up /\ x[2] \in Nlris /\ adj[x[1]][x[2]] \in Prefs \cup {0, 1}
  <2>1. x[1] \in Peers /\ x[1] \in Sources /\ x[2] \in Nlris /\ x[1] \in up
    BY <1>0, SourcesAre
  <2> QED
    BY <1>0, <2>1, AdjType
<1>6. ASSUME NEW e \in ToSet(s)
      PROVE  \/ \E p \in up : e = PeerUp(p)
             \/ \E p \in up, n \in Nlris : e = PreUpdate(p, n, adj[p][n]) /\ adj[p][n] \in Prefs \cup {0, 1}
             \/ \E p \in up, n \in Nlris : e = PostUpdate(p, n, adj[p][n], TRUE) /\ adj[p][n] \in Prefs \cup {0, 1}
             \/ e = BestPath(l)
  <2>1. CASE e \in SessionsUp
    BY <2>1 DEF SessionsUp
  <2>2. CASE e \in Announced
    <3>1. PICK x \in up \X Nlris : e = PreUpdate(x[1], x[2], adj[x[1]][x[2]])
      BY <2>2 DEF Announced
    <3> QED
      BY <1>5, <3>1
  <2>3. CASE e \in Passed
    <3>1. PICK x \in up \X Nlris : e = PostUpdate(x[1], x[2], adj[x[1]][x[2]], TRUE)
      BY <2>3 DEF Passed
    <3> QED
      BY <1>5, <3>1
  <2> QED
    BY <1>3, <2>1, <2>2, <2>3
<1>7. ASSUME NEW p \in Peers
      PROVE  /\ ToSet(s) \cap OfSession(p) \subseteq TrueSession(up, p)
             /\ Silent(s, OfSession(p)) => p \notin up
  <2>1. ASSUME NEW e \in ToSet(s), e \in OfSession(p) PROVE e \in TrueSession(up, p)
    <3>1. CASE \E r \in up : e = PeerUp(r)
      <4>1. PICK r \in up : e = PeerUp(r)
        BY <3>1
      <4>2. r = p
        BY <2>1, <4>1 DEF OfSession, PeerUp, PeerDown
      <4> QED
        BY <4>1, <4>2 DEF TrueSession
    <3>2. CASE ~\E r \in up : e = PeerUp(r)
      BY <1>6, <2>1, <3>2 DEF OfSession, PeerUp, PeerDown, PreUpdate, PostUpdate, BestPath
    <3> QED
      BY <3>1, <3>2
  <2>2. p \in up => PeerUp(p) \in ToSet(s) \cap OfSession(p)
    BY <1>3 DEF SessionsUp, OfSession
  <2> QED
    BY <2>1, <2>2 DEF Silent
<1>8. ASSUME NEW p \in Peers, NEW n \in Nlris
      PROVE  /\ ToSet(s) \cap OfRoute(p, n) \subseteq TrueRoute(adj, p, n)
             /\ Silent(s, OfRoute(p, n)) => adj[p][n] = 0
  <2>1. ASSUME NEW e \in ToSet(s), e \in OfRoute(p, n) PROVE e \in TrueRoute(adj, p, n)
    <3>1. CASE \E r \in up, m \in Nlris : e = PreUpdate(r, m, adj[r][m]) /\ adj[r][m] \in Prefs \cup {0, 1}
      <4>1. PICK r \in up, m \in Nlris : e = PreUpdate(r, m, adj[r][m]) /\ adj[r][m] \in Prefs \cup {0, 1}
        BY <3>1
      <4>2. r = p /\ m = n
        BY <2>1, <4>1 DEF OfRoute, PreUpdate, PeerDown, Path
      <4> QED
        BY <4>1, <4>2 DEF TrueRoute
    <3>2. CASE ~\E r \in up, m \in Nlris : e = PreUpdate(r, m, adj[r][m]) /\ adj[r][m] \in Prefs \cup {0, 1}
      BY <1>6, <2>1, <3>2 DEF OfRoute, PeerUp, PeerDown, PreUpdate, PostUpdate, BestPath
    <3> QED
      BY <3>1, <3>2
  <2>2. ASSUME adj[p][n] # 0 PROVE PreUpdate(p, n, adj[p][n]) \in ToSet(s) \cap OfRoute(p, n)
    <3>1. p \in up /\ p \in Sources
      BY <2>2, SourcesAre
    <3>2. adj[p][n] \in Prefs \cup {0, 1} /\ adj[p][n] \in Nat
      BY <1>0, <3>1, AdjType
    <3>3. <<p, n>> \in up \X Nlris /\ adj[p][n] > 0
      BY <2>2, <3>1, <3>2
    <3>4. PreUpdate(p, n, adj[p][n]) \in Announced
      <4>1. PICK x \in up \X Nlris : x[1] = p /\ x[2] = n
        BY <3>3
      <4> QED
        BY <3>3, <4>1 DEF Announced
    <3> QED
      BY <1>3, <3>2, <3>4 DEF OfRoute
  <2> QED
    BY <2>1, <2>2 DEF Silent
<1>9. ASSUME NEW n \in Nlris
      PROVE  /\ ToSet(s) \cap OfBest(n) \subseteq TrueBest(adj, n)
             /\ Silent(s, OfBest(n)) => Best(adj, n) = {}
  <2>1. BestPath(l) \in Events /\ BestPath(l).type = "best" /\ BestPath(l).list = l
    BY <1>4 DEF BestPath, Events
  <2>2. {q \in PathsOf(l, n) : q.v > 0} = Best(adj, n)
    BY <1>4
  <2>3. BestPath(l) \in TrueBest(adj, n)
    BY <2>1, <2>2 DEF TrueBest
  <2>4. ASSUME NEW e \in ToSet(s), e \in OfBest(n) PROVE e = BestPath(l)
    <3>1. e.type = "best"
      BY <2>4 DEF OfBest
    <3> QED
      BY <1>6, <3>1 DEF PeerUp, PreUpdate, PostUpdate
  <2>5. ASSUME Best(adj, n) # {} PROVE BestPath(l) \in ToSet(s) \cap OfBest(n)
    <3>1. n \in PrefixesOf(l)
      <4>1. PICK q : q \in PathsOf(l, n) /\ q.n = n
        BY <1>4, <2>5
      <4> QED
        BY <4>1 DEF PathsOf, PrefixesOf
    <3> QED
      BY <1>3, <2>1, <3>1 DEF OfBest
  <2> QED
    BY <2>3, <2>4, <2>5 DEF Silent
<1> QED
  BY <1>2, <1>3, <1>7, <1>8, <1>9

LEMMA BmpConnectKeeps ==
  ASSUME MonitorTypeOK, CollectorInv, BmpConnect
  PROVE  CollectorInv' /\ bmpQ' \in Seq(Events)
<1>1. PICK s : s = BmpSnapshot
  OBVIOUS
<1>2. /\ bmpQ' = s /\ collector' = [up |-> {}, pre |-> {}, post |-> {}, loc |-> {}]
      /\ up' = up /\ adj' = adj
  BY <1>1 DEF BmpConnect, serverVars
<1>3. \A p \in Peers \ up, n \in Nlris : adj[p][n] = 0
  BY DEF CollectorInv
<1>4. /\ s \in Seq(Events)
      /\ \A p \in Peers : /\ ToSet(s) \cap OfSession(p) \subseteq TrueSession(up, p)
                          /\ Silent(s, OfSession(p)) => p \notin up
      /\ \A p \in Peers, n \in Nlris : /\ ToSet(s) \cap OfRoute(p, n) \subseteq TrueRoute(adj, p, n)
                                       /\ Silent(s, OfRoute(p, n)) => adj[p][n] = 0
      /\ \A n \in Nlris : /\ ToSet(s) \cap OfBest(n) \subseteq TrueBest(adj, n)
                          /\ Silent(s, OfBest(n)) => Best(adj, n) = {}
  BY <1>1, <1>3, SnapshotTells
<1>5. ASSUME NEW p \in Peers
      PROVE  \/ EndsIn(s, OfSession(p), TrueSession(up, p))
             \/ Silent(s, OfSession(p)) /\ (p \in {} <=> p \in up)
  BY <1>4, LastWord
<1>6. ASSUME NEW p \in Peers, NEW n \in Nlris
      PROVE  \/ EndsIn(s, OfRoute(p, n), TrueRoute(adj, p, n))
             \/ Silent(s, OfRoute(p, n)) /\ {Path(n, p, v) : v \in {adj[p][n]} \ {0}} = {}
  <2>1. CASE Silent(s, OfRoute(p, n))
    BY <1>4, <2>1
  <2>2. CASE ~Silent(s, OfRoute(p, n))
    BY <1>4, <2>2, LastWord
  <2> QED
    BY <2>1, <2>2
<1>7. ASSUME NEW n \in Nlris
      PROVE  \/ EndsIn(s, OfBest(n), TrueBest(adj, n))
             \/ Silent(s, OfBest(n)) /\ Best(adj, n) = {}
  BY <1>4, LastWord
<1>8. CollectorInv'
  BY <1>2, <1>3, <1>5, <1>6, <1>7 DEF CollectorInv, RouteKnown, BestKnown, EndsIn, Silent, TrueSession, TrueRoute, TrueBest, Best
<1> QED
  BY <1>2, <1>4, <1>8

-----------------------------------------------------------------------------
(* What the collector makes of an event *)

Collectors == [up : SUBSET Peers, pre : SUBSET PeerPaths, post : SUBSET PeerPaths, loc : SUBSET Paths]
RoutesOf(c, p, n) == {q \in c.pre : q.n = n /\ q.src = p}
BestOfCollector(c, n) == {q \in c.loc : q.n = n}

\* It then knows the truth an event tells, and as much as before of all the event is not about.
Learns(c, e) ==
  /\ c \in Collectors
  /\ \A p \in Peers : /\ e \notin OfSession(p) => (p \in c.up <=> p \in collector.up)
                      /\ e \in OfSession(p) /\ e \in TrueSession(up, p) => (p \in c.up <=> p \in up)
  /\ \A p \in Peers, n \in Nlris :
       /\ e \notin OfRoute(p, n) => RoutesOf(c, p, n) = RoutesOf(collector, p, n)
       /\ e \in OfRoute(p, n) /\ e \in TrueRoute(adj, p, n) =>
            RoutesOf(c, p, n) = {Path(n, p, v) : v \in {adj[p][n]} \ {0}}
  /\ \A n \in Nlris :
       /\ e \notin OfBest(n) => BestOfCollector(c, n) = BestOfCollector(collector, n)
       /\ e \in OfBest(n) /\ e \in TrueBest(adj, n) => BestOfCollector(c, n) = Best(adj, n)

LEMMA EventForms ==
  ASSUME NEW e \in Events
  PROVE  \/ e.type = "up" /\ \E p \in Peers : e = PeerUp(p) /\ e.peer = p
         \/ e.type = "down" /\ \E p \in Peers : e = PeerDown(p) /\ e.peer = p
         \/ e.type = "pre" /\ \E p \in Peers, n \in Nlris, v \in Prefs \cup {0, 1} :
                                e = PreUpdate(p, n, v) /\ e.path = Path(n, p, v)
         \/ e.type = "post" /\ \E p \in Peers, n \in Nlris, v \in Prefs \cup {0, 1}, i \in BOOLEAN :
                                e = PostUpdate(p, n, v, i) /\ e.path = Path(n, p, v)
         \/ e.type = "best" /\ \E l \in Seq(Paths) : e = BestPath(l) /\ e.list = l
<1>0. ASSUME NEW q \in PeerPaths
      PROVE  \E p \in Peers, n \in Nlris, v \in Prefs \cup {0, 1} : q = Path(n, p, v)
  BY DEF PeerPaths, Paths, Path
<1>1. CASE e \in [type : {"up", "down"}, peer : Peers]
  BY <1>1 DEF PeerUp, PeerDown
<1>2. CASE e \in [type : {"pre"}, path : PeerPaths]
  <2>1. e.type = "pre" /\ e.path \in PeerPaths /\ e = [type |-> "pre", path |-> e.path]
    BY <1>2
  <2> QED
    BY <1>0, <2>1 DEF PreUpdate
<1>3. CASE e \in [type : {"post"}, path : PeerPaths, init : BOOLEAN]
  <2>1. e.type = "post" /\ e.path \in PeerPaths /\ e.init \in BOOLEAN /\ e = [type |-> "post", path |-> e.path, init |-> e.init]
    BY <1>3
  <2> QED
    BY <1>0, <2>1 DEF PostUpdate
<1>4. CASE e \in [type : {"best"}, list : Seq(Paths)]
  BY <1>4 DEF BestPath
<1> QED
  BY <1>1, <1>2, <1>3, <1>4 DEF Events

LEMMA LearnsUp ==
  ASSUME MonitorTypeOK, NEW p \in Peers
  PROVE  Learns([collector EXCEPT !.up = @ \cup {p}], PeerUp(p))
<1>1. PICK e : e = PeerUp(p)
  OBVIOUS
<1>2. PICK c : c = [collector EXCEPT !.up = @ \cup {p}]
  OBVIOUS
<1>3. collector \in Collectors
  BY Types DEF Collectors
<1>4. c \in Collectors /\ c.up = collector.up \cup {p} /\ c.pre = collector.pre /\ c.loc = collector.loc
  BY <1>2, <1>3 DEF Collectors
<1>5. \A r \in Peers : (e \in OfSession(r) <=> r = p) /\ (e \in TrueSession(up, p) => p \in up)
  BY <1>1 DEF OfSession, PeerUp, PeerDown, TrueSession
<1>6. \A r \in Peers, n \in Nlris : e \notin OfRoute(r, n)
  BY <1>1 DEF OfRoute, PeerUp, PeerDown, PreUpdate
<1>7. \A n \in Nlris : e \notin OfBest(n)
  BY <1>1 DEF OfBest, PeerUp
<1>8. Learns(c, e)
  BY <1>4, <1>5, <1>6, <1>7 DEF Learns, RoutesOf, BestOfCollector
<1> QED
  BY <1>1, <1>2, <1>8

LEMMA LearnsDown ==
  ASSUME MonitorTypeOK, NEW p \in Peers
  PROVE  Learns([up |-> collector.up \ {p}, loc |-> collector.loc,
                 pre  |-> {r \in collector.pre : r.src # p},
                 post |-> {r \in collector.post : r.src # p}], PeerDown(p))
<1>1. PICK e : e = PeerDown(p)
  OBVIOUS
<1>2. PICK c : c = [up |-> collector.up \ {p}, loc |-> collector.loc,
                    pre  |-> {r \in collector.pre : r.src # p},
                    post |-> {r \in collector.post : r.src # p}]
  OBVIOUS
<1>3. collector \in Collectors
  BY Types DEF Collectors
<1>4. /\ c \in Collectors /\ c.up = collector.up \ {p} /\ c.loc = collector.loc
      /\ c.pre = {r \in collector.pre : r.src # p}
  BY <1>2, <1>3 DEF Collectors
<1>5. \A r \in Peers : (e \in OfSession(r) <=> r = p) /\ (e \in TrueSession(up, p) => p \notin up)
  BY <1>1 DEF OfSession, PeerUp, PeerDown, TrueSession
<1>6. \A r \in Peers, n \in Nlris : (e \in OfRoute(r, n) <=> r = p) /\ (e \in TrueRoute(adj, r, n) => adj[r][n] = 0)
  BY <1>1 DEF OfRoute, TrueRoute, PeerDown, PreUpdate
<1>7. \A n \in Nlris : e \notin OfBest(n)
  BY <1>1 DEF OfBest, PeerDown
<1>8. \A n \in Nlris : BestOfCollector(c, n) = BestOfCollector(collector, n)
  BY <1>4 DEF BestOfCollector
<1>9. ASSUME NEW r \in Peers, NEW n \in Nlris
      PROVE  RoutesOf(c, r, n) = IF r = p THEN {} ELSE RoutesOf(collector, r, n)
  BY <1>4 DEF RoutesOf
<1>10. \A r, n : adj[r][n] = 0 => {Path(n, r, v) : v \in {adj[r][n]} \ {0}} = {}
  OBVIOUS
<1>11. \A r \in Peers : r \in c.up <=> r \in collector.up /\ r # p
  BY <1>4
<1>12. Learns(c, e)
  BY <1>4, <1>5, <1>6, <1>7, <1>8, <1>9, <1>10, <1>11 DEF Learns
<1> QED
  BY <1>1, <1>2, <1>12

LEMMA LearnsPre ==
  ASSUME MonitorTypeOK, NEW p \in Peers, NEW n \in Nlris, NEW v \in Prefs \cup {0, 1}
  PROVE  Learns([collector EXCEPT !.pre = Received(@, Path(n, p, v))], PreUpdate(p, n, v))
<1>1. PICK e : e = PreUpdate(p, n, v)
  OBVIOUS
<1>2. PICK q : q = Path(n, p, v)
  OBVIOUS
<1>3. q \in PeerPaths /\ q.n = n /\ q.src = p /\ q.v = v /\ v \in Nat
  <2>1. p \in Sources
    BY SourcesAre
  <2>2. q \in Paths /\ q.n = n /\ q.src = p /\ q.v = v
    BY <1>2, <2>1, PathType
  <2> QED
    BY <2>2, PrefsAre DEF PeerPaths
<1>4. PICK c : c = [collector EXCEPT !.pre = Received(@, q)]
  OBVIOUS
<1>5. collector \in Collectors
  BY Types DEF Collectors
<1>6. Received(collector.pre, q) \in SUBSET PeerPaths
  BY <1>3, <1>5 DEF Received, Collectors
<1>7. c \in Collectors /\ c.up = collector.up /\ c.loc = collector.loc /\ c.pre = Received(collector.pre, q)
  BY <1>4, <1>5, <1>6 DEF Collectors
<1>8. \A r \in Peers : e \notin OfSession(r)
  BY <1>1 DEF OfSession, PeerUp, PeerDown, PreUpdate
<1>9. ASSUME NEW r \in Peers, NEW m \in Nlris
      PROVE  /\ e \in OfRoute(r, m) <=> r = p /\ m = n
             /\ e \in TrueRoute(adj, r, m) => adj[r][m] = v
  <2>1. e.type = "pre" /\ e.path = q
    BY <1>1, <1>2 DEF PreUpdate
  <2>2. \A w : PreUpdate(r, m, w).type = "pre" /\ PreUpdate(r, m, w).path = Path(m, r, w)
    BY DEF PreUpdate
  <2>3. \A w : Path(m, r, w).n = m /\ Path(m, r, w).src = r /\ Path(m, r, w).v = w
    BY DEF Path
  <2>4. PeerDown(r).type = "down"
    BY DEF PeerDown
  <2>5. e \in OfRoute(p, n)
    BY <1>1 DEF OfRoute
  <2>6. e \in OfRoute(r, m) => r = p /\ m = n
    BY <1>3, <2>1, <2>2, <2>3, <2>4 DEF OfRoute
  <2>7. e \in TrueRoute(adj, r, m) => adj[r][m] = v
    BY <1>3, <2>1, <2>2, <2>3, <2>4 DEF TrueRoute
  <2> QED
    BY <2>5, <2>6, <2>7
<1>10. \A m \in Nlris : e \notin OfBest(m)
  BY <1>1 DEF OfBest, PreUpdate
<1>11. \A m \in Nlris : BestOfCollector(c, m) = BestOfCollector(collector, m)
  BY <1>7 DEF BestOfCollector
<1>12. ASSUME NEW r \in Peers, NEW m \in Nlris, r # p \/ m # n
       PROVE  RoutesOf(c, r, m) = RoutesOf(collector, r, m)
  BY <1>3, <1>7, <1>12 DEF RoutesOf, Received
<1>13. RoutesOf(c, p, n) = {r \in {q} : r.v > 0}
  BY <1>3, <1>7 DEF RoutesOf, Received
<1>14. adj[p][n] = v => RoutesOf(c, p, n) = {Path(n, p, w) : w \in {adj[p][n]} \ {0}}
  <2>1. CASE v = 0
    BY <1>3, <1>13, <2>1
  <2>2. CASE v # 0
    <3>1. RoutesOf(c, p, n) = {q}
      BY <1>3, <1>13, <2>2
    <3> QED
      BY <1>2, <2>2, <3>1
  <2> QED
    BY <2>1, <2>2
<1>15. Learns(c, e)
  BY <1>7, <1>8, <1>9, <1>10, <1>11, <1>12, <1>14 DEF Learns
<1> QED
  BY <1>1, <1>2, <1>4, <1>15

LEMMA LearnsPost ==
  ASSUME MonitorTypeOK, NEW p \in Peers, NEW n \in Nlris, NEW v \in Prefs \cup {0, 1}, NEW i \in BOOLEAN
  PROVE  /\ Learns([collector EXCEPT !.post = Received(@, Path(n, p, v))], PostUpdate(p, n, v, i))
         /\ Learns(collector, PostUpdate(p, n, v, i))
<1>1. PICK e : e = PostUpdate(p, n, v, i)
  OBVIOUS
<1>2. PICK q : q = Path(n, p, v)
  OBVIOUS
<1>3. q \in PeerPaths
  <2>1. p \in Sources
    BY SourcesAre
  <2>2. q \in Paths /\ q.src = p
    BY <1>2, <2>1, PathType
  <2> QED
    BY <2>2 DEF PeerPaths
<1>4. PICK c : c = [collector EXCEPT !.post = Received(@, q)]
  OBVIOUS
<1>5. collector \in Collectors
  BY Types DEF Collectors
<1>6. Received(collector.post, q) \in SUBSET PeerPaths
  BY <1>3, <1>5 DEF Received, Collectors
<1>7. c \in Collectors /\ c.up = collector.up /\ c.loc = collector.loc /\ c.pre = collector.pre
  BY <1>4, <1>5, <1>6 DEF Collectors
<1>8. /\ \A r \in Peers : e \notin OfSession(r)
      /\ \A r \in Peers, m \in Nlris : e \notin OfRoute(r, m)
      /\ \A m \in Nlris : e \notin OfBest(m)
  BY <1>1 DEF OfSession, OfRoute, OfBest, PeerUp, PeerDown, PreUpdate, PostUpdate
<1>9. Learns(c, e) /\ Learns(collector, e)
  BY <1>5, <1>7, <1>8 DEF Learns, RoutesOf, BestOfCollector
<1> QED
  BY <1>1, <1>2, <1>4, <1>9

LEMMA LearnsBest ==
  ASSUME MonitorTypeOK, NEW l \in Seq(Paths)
  PROVE  /\ Learns([collector EXCEPT !.loc = {r \in @ : r.n \notin PrefixesOf(l)} \cup {r \in ToSet(l) : r.v > 0}], BestPath(l))
         /\ l = <<>> => Learns(collector, BestPath(l))
<1>1. PICK e : e = BestPath(l)
  OBVIOUS
<1>2. PICK c : c = [collector EXCEPT !.loc = {r \in @ : r.n \notin PrefixesOf(l)} \cup {r \in ToSet(l) : r.v > 0}]
  OBVIOUS
<1>3. collector \in Collectors
  BY Types DEF Collectors
<1>4. /\ PrefixesOf(l) = {q.n : q \in ToSet(l)} /\ PrefixesOf(l) \subseteq Nlris
      /\ \A n \in Nlris : PathsOf(l, n) = {q \in ToSet(l) : q.n = n}
  BY ListSets
<1>5. ToSet(l) \subseteq Paths
  BY DEF ToSet
<1>6. /\ c \in Collectors /\ c.up = collector.up /\ c.pre = collector.pre
      /\ c.loc = {r \in collector.loc : r.n \notin PrefixesOf(l)} \cup {r \in ToSet(l) : r.v > 0}
  BY <1>2, <1>3, <1>5 DEF Collectors
<1>7. e \in Events /\ e.type = "best" /\ e.list = l
  BY <1>1 DEF BestPath, Events
<1>8. /\ \A r \in Peers : e \notin OfSession(r)
      /\ \A r \in Peers, m \in Nlris : e \notin OfRoute(r, m)
  BY <1>7 DEF OfSession, OfRoute, PeerUp, PeerDown, PreUpdate
<1>9. \A m \in Nlris : e \in OfBest(m) <=> m \in PrefixesOf(l)
  BY <1>7 DEF OfBest
<1>10. ASSUME NEW m \in Nlris, m \notin PrefixesOf(l) PROVE BestOfCollector(c, m) = BestOfCollector(collector, m)
  BY <1>4, <1>6, <1>10 DEF BestOfCollector
<1>11. ASSUME NEW m \in Nlris, m \in PrefixesOf(l), e \in TrueBest(adj, m) PROVE BestOfCollector(c, m) = Best(adj, m)
  <2>1. {q \in PathsOf(l, m) : q.v > 0} = Best(adj, m)
    BY <1>7, <1>11 DEF TrueBest
  <2>2. BestOfCollector(c, m) = {q \in PathsOf(l, m) : q.v > 0}
    BY <1>4, <1>6, <1>11 DEF BestOfCollector
  <2> QED
    BY <2>1, <2>2
<1>12. Learns(c, e)
  BY <1>6, <1>8, <1>9, <1>10, <1>11 DEF Learns, RoutesOf
<1>13. l = <<>> => Learns(collector, e)
  <2>1. l = <<>> => PrefixesOf(l) = {}
    BY DEF PrefixesOf
  <2> QED
    BY <1>3, <1>8, <1>9, <2>1 DEF Learns
<1> QED
  BY <1>1, <1>2, <1>12, <1>13

LEMMA CollectedLearns ==
  ASSUME MonitorTypeOK, NEW e \in Events
  PROVE  /\ Learns(Collected(e), e)
         /\ e.type = "post" \/ (e.type = "best" /\ e.list = <<>>) => Learns(collector, e)
<1>1. CASE e.type = "up" /\ \E p \in Peers : e = PeerUp(p) /\ e.peer = p
  <2>1. PICK p \in Peers : e = PeerUp(p) /\ e.peer = p
    BY <1>1
  <2>2. Collected(e) = [collector EXCEPT !.up = @ \cup {p}]
    BY <1>1, <2>1 DEF Collected
  <2> QED
    BY <1>1, <2>1, <2>2, LearnsUp
<1>2. CASE e.type = "down" /\ \E p \in Peers : e = PeerDown(p) /\ e.peer = p
  <2>1. PICK p \in Peers : e = PeerDown(p) /\ e.peer = p
    BY <1>2
  <2>2. Collected(e) = [up |-> collector.up \ {p}, loc |-> collector.loc,
                        pre  |-> {r \in collector.pre : r.src # p},
                        post |-> {r \in collector.post : r.src # p}]
    BY <1>2, <2>1 DEF Collected
  <2> QED
    BY <1>2, <2>1, <2>2, LearnsDown
<1>3. CASE e.type = "pre" /\ \E p \in Peers, n \in Nlris, v \in Prefs \cup {0, 1} :
                               e = PreUpdate(p, n, v) /\ e.path = Path(n, p, v)
  <2>1. PICK p \in Peers, n \in Nlris, v \in Prefs \cup {0, 1} : e = PreUpdate(p, n, v) /\ e.path = Path(n, p, v)
    BY <1>3
  <2>2. Collected(e) = [collector EXCEPT !.pre = Received(@, Path(n, p, v))]
    BY <1>3, <2>1 DEF Collected
  <2> QED
    BY <1>3, <2>1, <2>2, LearnsPre
<1>4. CASE e.type = "post" /\ \E p \in Peers, n \in Nlris, v \in Prefs \cup {0, 1}, i \in BOOLEAN :
                                e = PostUpdate(p, n, v, i) /\ e.path = Path(n, p, v)
  <2>1. PICK p \in Peers, n \in Nlris, v \in Prefs \cup {0, 1}, i \in BOOLEAN :
               e = PostUpdate(p, n, v, i) /\ e.path = Path(n, p, v)
    BY <1>4
  <2>2. Collected(e) = [collector EXCEPT !.post = Received(@, Path(n, p, v))]
    BY <1>4, <2>1 DEF Collected
  <2> QED
    BY <2>1, <2>2, LearnsPost
<1>5. CASE e.type = "best" /\ \E l \in Seq(Paths) : e = BestPath(l) /\ e.list = l
  <2>1. PICK l \in Seq(Paths) : e = BestPath(l) /\ e.list = l
    BY <1>5
  <2>2. Collected(e) = [collector EXCEPT !.loc = {r \in @ : r.n \notin PrefixesOf(l)} \cup {r \in ToSet(l) : r.v > 0}]
    BY <1>5, <2>1 DEF Collected
  <2> QED
    BY <1>5, <2>1, <2>2, LearnsBest
<1> QED
  BY <1>1, <1>2, <1>3, <1>4, <1>5, EventForms

\* What waits in t is true of the table, and a collector c knows all that nothing waits about.
Agrees(c, t) ==
  /\ \A p \in Peers : \/ EndsIn(t, OfSession(p), TrueSession(up, p))
                      \/ Silent(t, OfSession(p)) /\ (p \in c.up <=> p \in up)
  /\ \A p \in Peers, n \in Nlris :
       \/ EndsIn(t, OfRoute(p, n), TrueRoute(adj, p, n))
       \/ Silent(t, OfRoute(p, n)) /\ RoutesOf(c, p, n) = {Path(n, p, v) : v \in {adj[p][n]} \ {0}}
  /\ \A n \in Nlris : \/ EndsIn(t, OfBest(n), TrueBest(adj, n))
                      \/ Silent(t, OfBest(n)) /\ BestOfCollector(c, n) = Best(adj, n)

\* An event that the collector learns of leaves the queue.
LEMMA LearningKeeps ==
  ASSUME MonitorTypeOK, CollectorInv, conn = "up", bmpQ # <<>>, NEW c, Learns(c, Head(bmpQ))
  PROVE  Agrees(c, Tail(bmpQ))
<1>1. PICK q \in Seq(Events) : q = bmpQ
  BY Types
<1>2. PICK e, t : e = Head(q) /\ t = Tail(q)
  OBVIOUS
<1>3. q # <<>> /\ t = Tail(q) /\ Learns(c, e)
  BY <1>1, <1>2
<1>4. ASSUME NEW p \in Peers
      PROVE  \/ EndsIn(t, OfSession(p), TrueSession(up, p))
             \/ Silent(t, OfSession(p)) /\ (p \in c.up <=> p \in up)
  <2>1. \/ EndsIn(q, OfSession(p), TrueSession(up, p))
        \/ Silent(q, OfSession(p)) /\ (p \in collector.up <=> p \in up)
    BY <1>1 DEF CollectorInv
  <2>2. /\ e \notin OfSession(p) => (p \in c.up <=> p \in collector.up)
        /\ e \in OfSession(p) /\ e \in TrueSession(up, p) => (p \in c.up <=> p \in up)
    BY <1>3 DEF Learns
  <2>3. CASE EndsIn(q, OfSession(p), TrueSession(up, p))
    <3>1. EndsIn(t, OfSession(p), TrueSession(up, p)) \/ (e \in OfSession(p) \cap TrueSession(up, p) /\ Silent(t, OfSession(p)))
      BY <1>2, <1>3, <2>3, EndsTail
    <3> QED
      BY <2>2, <3>1
  <2>4. CASE Silent(q, OfSession(p)) /\ (p \in collector.up <=> p \in up)
    <3>1. Silent(t, OfSession(p)) /\ e \notin OfSession(p)
      <4>1. Silent(Tail(q), OfSession(p)) /\ Head(q) \notin OfSession(p)
        BY <1>3, <2>4, SilentTail
      <4> QED
        BY <1>2, <1>3, <4>1
    <3> QED
      BY <2>2, <2>4, <3>1
  <2> QED
    BY <2>1, <2>3, <2>4
<1>5. ASSUME NEW p \in Peers, NEW n \in Nlris
      PROVE  \/ EndsIn(t, OfRoute(p, n), TrueRoute(adj, p, n))
             \/ Silent(t, OfRoute(p, n)) /\ RoutesOf(c, p, n) = {Path(n, p, v) : v \in {adj[p][n]} \ {0}}
  <2>1. \/ EndsIn(q, OfRoute(p, n), TrueRoute(adj, p, n))
        \/ Silent(q, OfRoute(p, n)) /\ RoutesOf(collector, p, n) = {Path(n, p, v) : v \in {adj[p][n]} \ {0}}
    BY <1>1 DEF CollectorInv, RouteKnown, RoutesOf
  <2>2. /\ e \notin OfRoute(p, n) => RoutesOf(c, p, n) = RoutesOf(collector, p, n)
        /\ e \in OfRoute(p, n) /\ e \in TrueRoute(adj, p, n) =>
             RoutesOf(c, p, n) = {Path(n, p, v) : v \in {adj[p][n]} \ {0}}
    BY <1>3 DEF Learns
  <2>3. CASE EndsIn(q, OfRoute(p, n), TrueRoute(adj, p, n))
    <3>1. \/ EndsIn(t, OfRoute(p, n), TrueRoute(adj, p, n))
          \/ e \in OfRoute(p, n) \cap TrueRoute(adj, p, n) /\ Silent(t, OfRoute(p, n))
      BY <1>2, <1>3, <2>3, EndsTail
    <3> QED
      BY <2>2, <3>1
  <2>4. CASE Silent(q, OfRoute(p, n)) /\ RoutesOf(collector, p, n) = {Path(n, p, v) : v \in {adj[p][n]} \ {0}}
    <3>1. Silent(t, OfRoute(p, n)) /\ e \notin OfRoute(p, n)
      <4>1. Silent(Tail(q), OfRoute(p, n)) /\ Head(q) \notin OfRoute(p, n)
        BY <1>3, <2>4, SilentTail
      <4> QED
        BY <1>2, <1>3, <4>1
    <3> QED
      BY <2>2, <2>4, <3>1
  <2> QED
    BY <2>1, <2>3, <2>4
<1>6. ASSUME NEW n \in Nlris
      PROVE  \/ EndsIn(t, OfBest(n), TrueBest(adj, n))
             \/ Silent(t, OfBest(n)) /\ BestOfCollector(c, n) = Best(adj, n)
  <2>1. \/ EndsIn(q, OfBest(n), TrueBest(adj, n))
        \/ Silent(q, OfBest(n)) /\ BestOfCollector(collector, n) = Best(adj, n)
    BY <1>1 DEF CollectorInv, BestKnown, BestOfCollector
  <2>2. /\ e \notin OfBest(n) => BestOfCollector(c, n) = BestOfCollector(collector, n)
        /\ e \in OfBest(n) /\ e \in TrueBest(adj, n) => BestOfCollector(c, n) = Best(adj, n)
    BY <1>3 DEF Learns
  <2>3. CASE EndsIn(q, OfBest(n), TrueBest(adj, n))
    <3>1. \/ EndsIn(t, OfBest(n), TrueBest(adj, n))
          \/ e \in OfBest(n) \cap TrueBest(adj, n) /\ Silent(t, OfBest(n))
      BY <1>2, <1>3, <2>3, EndsTail
    <3> QED
      BY <2>2, <3>1
  <2>4. CASE Silent(q, OfBest(n)) /\ BestOfCollector(collector, n) = Best(adj, n)
    <3>1. Silent(t, OfBest(n)) /\ e \notin OfBest(n)
      <4>1. Silent(Tail(q), OfBest(n)) /\ Head(q) \notin OfBest(n)
        BY <1>3, <2>4, SilentTail
      <4> QED
        BY <1>2, <1>3, <4>1
    <3> QED
      BY <2>2, <2>4, <3>1
  <2> QED
    BY <2>1, <2>3, <2>4
<1>7. Agrees(c, t)
  BY <1>4, <1>5, <1>6 DEF Agrees
<1> QED
  BY <1>1, <1>3, <1>7

LEMMA BmpEventKeeps ==
  ASSUME MonitorTypeOK, CollectorInv, BmpEvent
  PROVE  /\ CollectorInv' /\ conn' \in {"down", "up", "lost"} /\ bmpQ' \in Seq(Events) /\ collector' \in Collectors
         /\ ribout' \in [Nlris -> [Peers -> Prefs \cup {0, 1}]]
<1>1. PICK q \in Seq(Events) : q = bmpQ
  BY Types
<1>2. q # <<>> /\ conn # "down" /\ up' = up /\ adj' = adj
  BY <1>1 DEF BmpEvent, serverVars
<1>3. PICK e \in Events, t \in Seq(Events) : e = Head(q) /\ t = Tail(q)
  BY <1>2, TailIndex
<1>4. PICK live : live = (e.type = "post" /\ ~e.init)
  OBVIOUS
<1>5. PICK write : write = ((live => RiboutNews(e.path)) /\ (e.type = "best" => e.list # <<>>))
  OBVIOUS
<1>6. /\ ribout' = IF live /\ RiboutNews(e.path) THEN [ribout EXCEPT ![e.path.n][e.path.src] = e.path.v] ELSE ribout
      /\ collector' = IF write /\ conn = "up" THEN Collected(e) ELSE collector
      /\ conn' = IF write /\ conn = "lost" THEN "down" ELSE conn
      /\ bmpQ' = IF write /\ conn = "lost" THEN <<>> ELSE t
  BY <1>1, <1>3, <1>4, <1>5, Zenon DEF BmpEvent
<1>7. Learns(Collected(e), e) /\ (~write => Learns(collector, e))
  <2>1. ~write => e.type = "post" \/ (e.type = "best" /\ e.list = <<>>)
    BY <1>4, <1>5
  <2> QED
    BY <2>1, CollectedLearns
<1>8. collector \in Collectors /\ Collected(e) \in Collectors /\ conn \in {"down", "up", "lost"}
  BY <1>7, Types DEF Learns, Collectors, MonitorTypeOK
<1>9. ribout' \in [Nlris -> [Peers -> Prefs \cup {0, 1}]]
  <2>1. ribout \in [Nlris -> [Peers -> Prefs \cup {0, 1}]]
    BY DEF MonitorTypeOK
  <2>2. CASE live /\ RiboutNews(e.path)
    <3>1. e.type = "post"
      BY <1>4, <2>2
    <3>2. PICK p \in Peers, n \in Nlris, v \in Prefs \cup {0, 1} : e.path = Path(n, p, v)
      BY <3>1, EventForms
    <3>3. e.path.n = n /\ e.path.src = p /\ e.path.v = v
      BY <3>2 DEF Path
    <3>4. ribout' = [ribout EXCEPT ![n][p] = v]
      BY <1>6, <2>2, <3>3
    <3>5. ribout[n] \in [Peers -> Prefs \cup {0, 1}]
      BY <2>1
    <3> QED
      BY <2>1, <3>4, <3>5
  <2> QED
    BY <1>6, <2>1, <2>2
<1>10. \A p \in Peers \ up, n \in Nlris : adj[p][n] = 0
  BY DEF CollectorInv
<1>11. CollectorInv'
  <2>1. CASE conn' # "up"
    BY <1>2, <1>10, <2>1 DEF CollectorInv
  <2>2. CASE conn' = "up"
    <3>1. conn = "up" /\ bmpQ' = t
      BY <1>6, <2>2
    <3>2. PICK c : c = collector' /\ Learns(c, e)
      BY <1>6, <1>7, <3>1
    <3>3. /\ \A p \in Peers : \/ EndsIn(t, OfSession(p), TrueSession(up, p))
                              \/ Silent(t, OfSession(p)) /\ (p \in c.up <=> p \in up)
          /\ \A p \in Peers, n \in Nlris :
               \/ EndsIn(t, OfRoute(p, n), TrueRoute(adj, p, n))
               \/ Silent(t, OfRoute(p, n)) /\ {r \in c.pre : r.n = n /\ r.src = p} = {Path(n, p, v) : v \in {adj[p][n]} \ {0}}
          /\ \A n \in Nlris : \/ EndsIn(t, OfBest(n), TrueBest(adj, n))
                              \/ Silent(t, OfBest(n)) /\ {r \in c.loc : r.n = n} = Best(adj, n)
      <4>1. bmpQ # <<>> /\ t = Tail(bmpQ) /\ Learns(c, Head(bmpQ))
        BY <1>1, <1>2, <1>3, <3>2
      <4>2. Agrees(c, t)
        BY <3>1, <4>1, LearningKeeps
      <4> QED
        BY <4>2 DEF Agrees, RoutesOf, BestOfCollector
    <3> QED
      BY <1>2, <1>10, <3>1, <3>2, <3>3
         DEF CollectorInv, RouteKnown, BestKnown, EndsIn, Silent, TrueSession, TrueRoute, TrueBest, Best
  <2> QED
    BY <2>1, <2>2
<1>12. bmpQ' \in Seq(Events)
  <2>1. <<>> \in Seq(Events)
    OBVIOUS
  <2> QED
    BY <1>6, <2>1
<1> QED
  BY <1>6, <1>8, <1>9, <1>11, <1>12

-----------------------------------------------------------------------------
LEMMA DataplaneElsewhere ==
  ASSUME KernelInv, UNCHANGED <<serverVars, dataplane>>
  PROVE  KernelInv'
<1>1. adj' = adj /\ multipath' = multipath /\ watching' = watching /\ kernelQ' = kernelQ
      /\ modRibCh' = modRibCh /\ kernel' = kernel /\ missed' = missed
  BY DEF serverVars, dataplane
<1>2. Pending' = Pending
  BY <1>1 DEF Pending
<1>3. \A n \in V4 : Naming(n)' = Naming(n) /\ Telling(adj, n)' = Telling(adj, n) /\ Shown(adj, n)' = Shown(adj, n)
  BY <1>1 DEF Naming, Telling, TellsOf, Shown
<1>4. \A n \in V4 : Settled(n)' = Settled(n)
  BY <1>1, <1>3 DEF Settled
<1> QED
  BY <1>1, <1>2, <1>3, <1>4 DEF KernelInv, EndsIn, Silent, Settled

LEMMA CollectorElsewhere ==
  ASSUME CollectorInv, UNCHANGED <<serverVars, bmp>>
  PROVE  CollectorInv'
<1>1. adj' = adj /\ up' = up /\ conn' = conn /\ bmpQ' = bmpQ /\ collector' = collector
  BY DEF serverVars, bmp
<1> QED
  BY <1>1 DEF CollectorInv, RouteKnown, BestKnown, EndsIn, Silent, TrueSession, TrueRoute, TrueBest, Best

LEMMA MonitorInitially ==
  ASSUME MonitorInit
  PROVE  MonitorInv
<1>1. MonitorTypeOK
  <2>1. [s \in Sources |-> [n \in Nlris |-> 0]] \in [Sources -> [Nlris -> Prefs \cup {0, 1}]]
    OBVIOUS
  <2>2. [n \in V4 |-> {}] \in [V4 -> SUBSET Peers]
    OBVIOUS
  <2>3. [n \in Nlris |-> [p \in Peers |-> 0]] \in [Nlris -> [Peers -> Prefs \cup {0, 1}]]
    OBVIOUS
  <2>4. <<>> \in Seq(Seq(Paths)) /\ <<>> \in Seq(Events)
    OBVIOUS
  <2>5. collector \in [up : SUBSET Peers, pre : SUBSET PeerPaths, post : SUBSET PeerPaths, loc : SUBSET Paths]
    BY DEF MonitorInit
  <2> QED
    BY <2>1, <2>2, <2>3, <2>4, <2>5 DEF MonitorInit, MonitorTypeOK
<1>2. KernelInv
  <2>1. Pending = <<>> /\ modRibCh = <<>> /\ ~watching
    BY DEF MonitorInit, Pending
  <2>2. ToSet(<<>>) = {} /\ DOMAIN <<>> = {}
    BY DEF ToSet
  <2>3. \A n \in V4 : kernel[n] = {}
    BY DEF MonitorInit
  <2> QED
    BY <2>1, <2>2, <2>3 DEF KernelInv
<1>3. CollectorInv
  <2>1. \A p \in Peers, n \in Nlris : adj[p][n] = 0
    BY SourcesAre DEF MonitorInit
  <2>2. conn # "up"
    BY DEF MonitorInit
  <2> QED
    BY <2>1, <2>2 DEF CollectorInv
<1> QED
  BY <1>1, <1>2, <1>3 DEF MonitorInv

LEMMA MonitorInvStep ==
  ASSUME MonitorInv, [MonitorNext]_monitorVars
  PROVE  MonitorInv'
<1>0. MonitorTypeOK /\ KernelInv /\ CollectorInv
  BY DEF MonitorInv
<1>1. CASE \E p \in Peers : SessionUp(p) \/ SessionDown(p)
  BY <1>1, SessionUpKeeps, SessionDownKeeps
<1>2. CASE \E p \in Peers, n \in Nlris, v \in Prefs \cup {0} : Update(p, n, v)
  BY <1>2, UpdateKeeps
<1>3. CASE \E n \in V4, v \in {0, 1} : OwnPath(n, v)
  BY <1>3, OwnPathKeeps
<1>4. CASE MonitorBest
  <2>1. KernelInv' /\ kernelQ' \in Seq(Seq(Paths))
    BY <1>0, <1>4, MonitorBestKeeps
  <2>2. CollectorInv'
    BY <1>0, <1>4, CollectorElsewhere DEF MonitorBest
  <2>3. MonitorTypeOK'
    BY <1>0, <1>4, <2>1 DEF MonitorBest, MonitorTypeOK, serverVars, bmp
  <2> QED
    BY <2>1, <2>2, <2>3 DEF MonitorInv
<1>5. CASE BestEvent
  <2>1. KernelInv' /\ kernelQ' \in Seq(Seq(Paths)) /\ modRibCh' \in Seq(Seq(Paths)) /\ missed' \subseteq V4
    BY <1>0, <1>5, BestEventKeeps
  <2>2. CollectorInv'
    BY <1>0, <1>5, CollectorElsewhere DEF BestEvent
  <2>3. MonitorTypeOK'
    BY <1>0, <1>5, <2>1 DEF BestEvent, MonitorTypeOK, serverVars, bmp
  <2> QED
    BY <2>1, <2>2, <2>3 DEF MonitorInv
<1>6. CASE ModRib
  <2>1. KernelInv' /\ modRibCh' \in Seq(Seq(Paths)) /\ missed' \subseteq V4 /\ kernel' \in [V4 -> SUBSET Peers]
    BY <1>0, <1>6, ModRibKeeps
  <2>2. UNCHANGED <<serverVars, watching, kernelQ, bmp, serverChanges, cuts>>
    BY <1>6 DEF ModRib
  <2>3. CollectorInv'
    BY <1>0, <2>2, CollectorElsewhere
  <2>4. MonitorTypeOK'
    BY <1>0, <2>1, <2>2 DEF MonitorTypeOK, serverVars, bmp
  <2> QED
    BY <2>1, <2>3, <2>4 DEF MonitorInv
<1>7. CASE BmpConnect
  <2>1. CollectorInv' /\ bmpQ' \in Seq(Events)
    BY <1>0, <1>7, BmpConnectKeeps
  <2>2. KernelInv'
    BY <1>0, <1>7, DataplaneElsewhere DEF BmpConnect
  <2>3. collector' \in [up : SUBSET Peers, pre : SUBSET PeerPaths, post : SUBSET PeerPaths, loc : SUBSET Paths]
    BY <1>7 DEF BmpConnect
  <2>4. MonitorTypeOK'
    BY <1>0, <1>7, <2>1, <2>3 DEF BmpConnect, MonitorTypeOK, serverVars, dataplane
  <2> QED
    BY <2>1, <2>2, <2>4 DEF MonitorInv
<1>8. CASE BmpLose
  <2>1. KernelInv'
    BY <1>0, <1>8, DataplaneElsewhere DEF BmpLose
  <2>2. CollectorInv'
    BY <1>0, <1>8 DEF BmpLose, CollectorInv, serverVars
  <2>3. MonitorTypeOK'
    BY <1>0, <1>8 DEF BmpLose, MonitorTypeOK, serverVars, dataplane
  <2> QED
    BY <2>1, <2>2, <2>3 DEF MonitorInv
<1>9. CASE BmpEvent
  <2>1. /\ CollectorInv' /\ conn' \in {"down", "up", "lost"} /\ bmpQ' \in Seq(Events) /\ collector' \in Collectors
        /\ ribout' \in [Nlris -> [Peers -> Prefs \cup {0, 1}]]
    BY <1>0, <1>9, BmpEventKeeps
  <2>2. UNCHANGED <<serverVars, dataplane, serverChanges, cuts>>
    BY <1>9 DEF BmpEvent
  <2>3. KernelInv'
    BY <1>0, <2>2, DataplaneElsewhere
  <2>4. MonitorTypeOK'
    BY <1>0, <2>1, <2>2 DEF MonitorTypeOK, serverVars, dataplane, Collectors
  <2> QED
    BY <2>1, <2>3, <2>4 DEF MonitorInv
<1>10. CASE BmpTick
  <2>1. KernelInv'
    BY <1>0, <1>10, DataplaneElsewhere DEF BmpTick
  <2>2. CollectorInv'
    BY <1>0, <1>10 DEF BmpTick, CollectorInv, serverVars
  <2>3. MonitorTypeOK'
    BY <1>0, <1>10 DEF BmpTick, MonitorTypeOK, serverVars, dataplane
  <2> QED
    BY <2>1, <2>2, <2>3 DEF MonitorInv
<1>11. CASE UNCHANGED monitorVars
  <2>1. KernelInv' /\ CollectorInv'
    BY <1>0, <1>11, DataplaneElsewhere, CollectorElsewhere DEF monitorVars
  <2>2. MonitorTypeOK'
    BY <1>0, <1>11 DEF MonitorTypeOK, monitorVars, serverVars, dataplane, bmp
  <2> QED
    BY <2>1, <2>2 DEF MonitorInv
<1> QED
  BY <1>1, <1>2, <1>3, <1>4, <1>5, <1>6, <1>7, <1>8, <1>9, <1>10, <1>11 DEF MonitorNext

\* Every reachable state keeps the types, and of every prefix, session, route and best path the last
\* thing that waits for the dataplane or for the BMP client tells what the server holds (propagateUpdate,
\* notifyBestWatcher, Watch, monitorBest, bmpClient.loop).
THEOREM MonitorInvariant == MonitorSpec => []MonitorInv
<1>1. MonitorInit => MonitorInv
  BY MonitorInitially
<1>2. MonitorInv /\ [MonitorNext]_monitorVars => MonitorInv'
  BY MonitorInvStep
<1> QED
  BY <1>1, <1>2, PTL DEF MonitorSpec

\* Types are kept: of the tables, of what waits, of the kernel and of what the collector has been told.
THEOREM MonitorTypes == MonitorSpec => []MonitorTypeOK
<1>1. MonitorInv => MonitorTypeOK
  BY DEF MonitorInv
<1> QED
  BY <1>1, MonitorInvariant, PTL

LEMMA NothingWaits ==
  ASSUME NEW T, NEW S
  PROVE  Silent(<<>>, T) /\ ~EndsIn(<<>>, T, S) /\ <<>> \o <<>> = <<>>
BY DEF Silent, EndsIn, ToSet

LEMMA KernelFollowsThen ==
  ASSUME MonitorInv
  PROVE  KernelFollows
<1> SUFFICES ASSUME watching, kernelQ = <<>>, modRibCh = <<>>, NEW n \in V4 \ missed, BestOf(adj, n) # Local
             PROVE  kernel[n] = IF multipath THEN MultiOf(adj, n) ELSE {BestOf(adj, n)} \ {None}
  BY DEF KernelFollows
<1>1. adj \in Adjs /\ n \in Nlris
  BY Types DEF MonitorInv, Nlris
<1>2. Pending = <<>>
  BY NothingWaits DEF Pending
<1>3. kernel[n] = {q.src : q \in Shown(adj, n)}
  BY <1>2, NothingWaits DEF MonitorInv, KernelInv, Settled
<1>4. CASE multipath
  BY <1>1, <1>3, <1>4, MultiFacts DEF Shown
<1>5. CASE ~multipath
  <2>1. {q.src : q \in Best(adj, n)} = {BestOf(adj, n)} \ {None}
    <3>1. \A s, v : Path(n, s, v).src = s
      BY DEF Path
    <3> QED
      BY <3>1 DEF Best
  <2> QED
    BY <1>3, <1>5, <2>1 DEF Shown
<1> QED
  BY <1>4, <1>5

LEMMA CollectorFollowsThen ==
  ASSUME MonitorInv
  PROVE  CollectorFollows
<1> SUFFICES ASSUME conn = "up", bmpQ = <<>>
             PROVE  /\ collector.up = up
                    /\ collector.pre = {Path(x[2], x[1], adj[x[1]][x[2]]) : x \in {y \in Peers \X Nlris : adj[y[1]][y[2]] > 0}}
                    /\ collector.loc =
                         {Path(n, BestOf(adj, n), adj[BestOf(adj, n)][n]) : n \in {m \in Nlris : Known(adj, m) # {}}}
  BY DEF CollectorFollows, Heard
<1>1. adj \in Adjs /\ up \subseteq Peers /\ collector \in Collectors
  BY Types DEF MonitorInv, Collectors
<1>2. /\ \A p \in Peers : p \in collector.up <=> p \in up
      /\ \A p \in Peers, n \in Nlris : RouteKnown(p, n)
      /\ \A n \in Nlris : BestKnown(n)
  BY NothingWaits DEF MonitorInv, CollectorInv
<1>3. collector.up = up
  BY <1>1, <1>2 DEF Collectors
<1>4. collector.pre = {Path(x[2], x[1], adj[x[1]][x[2]]) : x \in {y \in Peers \X Nlris : adj[y[1]][y[2]] > 0}}
  <2>1. ASSUME NEW q \in collector.pre
        PROVE  \E x \in Peers \X Nlris : adj[x[1]][x[2]] > 0 /\ q = Path(x[2], x[1], adj[x[1]][x[2]])
    <3>1. q \in PeerPaths
      BY <1>1 DEF Collectors
    <3>2. q.src \in Peers /\ q.n \in Nlris /\ q.src \in Sources
      BY <3>1, SourcesAre DEF PeerPaths, Paths
    <3>3. PICK p \in Peers, n \in Nlris : p = q.src /\ n = q.n /\ p \in Sources
      BY <3>2
    <3>4. q \in {Path(n, p, v) : v \in {adj[p][n]} \ {0}}
      BY <1>2, <3>3 DEF RouteKnown
    <3>5. adj[p][n] > 0 /\ q = Path(n, p, adj[p][n])
      BY <1>1, <3>3, <3>4, AdjType
    <3>6. <<p, n>> \in Peers \X Nlris /\ <<p, n>>[1] = p /\ <<p, n>>[2] = n
      OBVIOUS
    <3> QED
      BY <3>5, <3>6
  <2>2. ASSUME NEW x \in Peers \X Nlris, adj[x[1]][x[2]] > 0
        PROVE  Path(x[2], x[1], adj[x[1]][x[2]]) \in collector.pre
    <3>1. PICK p \in Peers, n \in Nlris : p = x[1] /\ n = x[2]
      OBVIOUS
    <3>2. RouteKnown(p, n) /\ adj[p][n] > 0
      BY <1>2, <2>2, <3>1
    <3>3. Path(n, p, adj[p][n]) \in {Path(n, p, v) : v \in {adj[p][n]} \ {0}}
      BY <3>2
    <3> QED
      BY <3>1, <3>2, <3>3 DEF RouteKnown
  <2> QED
    BY <2>1, <2>2
<1>5. collector.loc = BestPaths
  <2>1. \A q \in collector.loc : q.n \in Nlris
    BY <1>1 DEF Collectors, Paths
  <2>2. \A q \in BestPaths : q.n \in Nlris
    BY <1>1, BestPathsFacts DEF Paths
  <2>3. \A n \in Nlris : {q \in collector.loc : q.n = n} = {q \in BestPaths : q.n = n}
    BY <1>1, <1>2, BestPathsFacts DEF BestKnown
  <2> QED
    BY <2>1, <2>2, <2>3
<1> QED
  BY <1>3, <1>4, <1>5 DEF BestPaths

\* With nothing left to handle, the kernel routes each prefix to the neighbors the table has for it,
\* where no list with the prefix was dropped since and the agent has no better path: for any
\* neighbors and prefixes, with and without equal paths (monitorBest, modRib).
THEOREM KernelIsFollowed == MonitorSpec => []KernelFollows
<1>1. MonitorInv => KernelFollows
  BY KernelFollowsThen
<1> QED
  BY <1>1, MonitorInvariant, PTL

\* A collector that has heard all knows the sessions that are up, what each neighbor announces and
\* every best path, however often its connection was lost and however late that was noticed
\* (Watch, bmpClient.loop).
THEOREM CollectorIsFollowed == MonitorSpec => []CollectorFollows
<1>1. MonitorInv => CollectorFollows
  BY CollectorFollowsThen
<1> QED
  BY <1>1, MonitorInvariant, PTL
=============================================================================
