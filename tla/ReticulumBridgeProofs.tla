------------------------ MODULE ReticulumBridgeProofs ------------------------
(***************************************************************************)
(* Theorems of ReticulumBridge: retries are made exactly when they are     *)
(* owed, no request outlives its socket, and nothing is dialled after      *)
(* disconnect(), for any sockets, commands and limits.                     *)
(***************************************************************************)
EXTENDS ReticulumBridge, FiniteSetTheorems, SequenceTheorems, TLAPS

-----------------------------------------------------------------------------
(* The inductive invariant.                                                *)

\* What scheduleReconnect reads and writes.
Schedule ==
    /\ state \in States /\ everReady \in BOOLEAN /\ explicitDisconnect \in BOOLEAN
    /\ attempts \in 0 .. MaxAttempts /\ timers \in 0 .. MaxTimers
    /\ reconnectTimer \in BOOLEAN
    /\ reconnectTimer => timers > 0
    /\ FirstFailureIsFinal

SocketTypes ==
    /\ ws \in Socket \cup {NoSocket}
    /\ sock \in [Socket -> SocketStates] /\ step \in [Socket -> Steps]
    /\ session \in [Socket -> Sessions]

RequestTypes ==
    /\ waiter \in Socket \cup {NoSocket} /\ helloTimers \subseteq Socket
    /\ pending \in [DOMAIN pending -> Socket \cup {NoSocket}]
    /\ DOMAIN pending \subseteq Socket \cup Command
    /\ wire \in [Socket -> Seq(Request)]

\* Before connect() there is nothing.
Unused ==
    state = "idle" =>
        /\ ~explicitDisconnect /\ ~everReady /\ ws = NoSocket
        /\ waiter = NoSocket /\ helloTimers = {} /\ DOMAIN pending = {}
        /\ \A s \in Socket : sock[s] = "closed" /\ step[s] = "none"

\* Where a call stands fits its socket, and configure is a pending request.
Calls ==
    /\ ws # NoSocket => sock[ws] # "closing"
    /\ \A s \in Socket :
        /\ sock[s] = "opening" => step[s] = "opening"
        /\ step[s] = "opening" => sock[s] \in {"opening", "closing"}
        /\ step[s] = "configure" => ws # NoSocket /\ s \in DOMAIN pending

\* Until the client is ready there is one call of connectOnce, on this.ws.
OneCall ==
    ~everReady /\ ws # NoSocket =>
        /\ \A s \in Socket : step[s] # "none" => s = ws
        /\ step[ws] \in {"hello", "configure"} => sock[ws] = "open"

\* A request that was sent waits on an open socket, while there is this.ws.
Requests ==
    \A id \in DOMAIN pending :
        pending[id] # NoSocket => ws # NoSocket /\ sock[pending[id]] = "open"

owed == MaxAttempts = 0 /\ everReady /\ ~explicitDisconnect

\* While this.ws names a socket that failed to open, a timer is armed.
Redialled == owed /\ ws # NoSocket /\ sock[ws] = "closed" => timers > 0

IInv == /\ Schedule /\ SocketTypes /\ RequestTypes /\ Unused /\ Calls /\ OneCall
        /\ Requests /\ Redialled /\ RetryAlive

-----------------------------------------------------------------------------
(* Facts of the constants and of scheduleReconnect.                        *)

\* What the assumptions say.
LEMMA Constants ==
    /\ MaxAttempts \in Nat /\ MaxTimers \in Nat /\ IsFiniteSet(Socket)
    /\ NoSocket \notin Socket /\ NoSocket \notin Command /\ Socket \cap Command = {}
BY NameAssumption, BoundAssumption

\* Calls that fail are retried, one by one, once the client was ready.
LEMMA RetriesCounted ==
    ASSUME NEW S \in SUBSET Socket
    PROVE  /\ retries(S) \in Nat
           /\ ~everReady \/ S = {} => retries(S) = 0
           /\ everReady /\ S # {} => retries(S) > 0
<1>1. IsFiniteSet(S)
    BY Constants, FS_Subset
<1>2. Cardinality(S) \in Nat
    BY <1>1, FS_CardinalityType
<1>3. Cardinality(S) = 0 <=> S = {}
    BY <1>1, FS_EmptySet
<1> QED
    BY <1>2, <1>3 DEF retries, isRetry

\* What n calls of scheduleReconnect do, from an armed count that is consistent.
LEMMA Scheduled ==
    ASSUME Schedule, NEW n \in Nat, NEW s, NEW armed \in 0 .. MaxTimers,
           NEW held \in BOOLEAN, held => armed > 0,
           scheduleReconnect(n, s, armed, held)
    PROVE  /\ attempts' \in 0 .. MaxAttempts /\ timers' \in 0 .. MaxTimers
           /\ reconnectTimer' \in BOOLEAN /\ (reconnectTimer' => timers' > 0)
           /\ n = 0 => timers' = armed /\ state' = s
           /\ timers' >= armed
           /\ n > 0 /\ MaxAttempts = 0 => timers' > 0
           /\ state' \in {s, "closed", "reconnecting"}
<1>1. /\ granted(n) \in Nat /\ (n = 0 => granted(n) = 0)
      /\ MaxAttempts = 0 => granted(n) = n
      /\ MaxAttempts # 0 => attempts + granted(n) \in 0 .. MaxAttempts
    BY Constants DEF granted, Schedule
<1>2. /\ timers' = armed + granted(n) /\ timers' <= MaxTimers
      /\ attempts' = IF MaxAttempts = 0 THEN 0 ELSE attempts + granted(n)
      /\ state' = IF n = 0 THEN s
                  ELSE IF granted(n) < n THEN "closed" ELSE "reconnecting"
    BY DEF scheduleReconnect
<1>3. timers' \in 0 .. MaxTimers /\ timers' >= armed
    BY <1>1, <1>2, Constants
<1>4. attempts' \in 0 .. MaxAttempts
    BY <1>1, <1>2, Constants
<1>5. reconnectTimer' \in BOOLEAN /\ (reconnectTimer' => held \/ granted(n) > 0)
    BY Zenon DEF scheduleReconnect
<1>6. held \/ granted(n) > 0 => timers' > 0
    BY <1>1, <1>2, Constants
<1>7. n = 0 => timers' = armed /\ state' = s
    BY <1>1, <1>2, Constants
<1>8. n > 0 /\ MaxAttempts = 0 => timers' > 0
    BY <1>1, <1>2, Constants
<1>9. state' \in {s, "closed", "reconnecting"}
    BY <1>2
<1> QED
    BY <1>3, <1>4, <1>5, <1>6, <1>7, <1>8, <1>9

\* From there Schedule is kept when only a client that was ready retries.
LEMMA ScheduledKept ==
    ASSUME Schedule, NEW n \in Nat, NEW s \in States, NEW armed \in 0 .. timers,
           NEW held \in BOOLEAN, held => armed > 0, ~everReady => n = 0,
           scheduleReconnect(n, s, armed, held),
           everReady' = everReady, explicitDisconnect' \in BOOLEAN
    PROVE  Schedule'
<1>1. armed \in 0 .. MaxTimers
    BY Constants DEF Schedule
<1>2. ~everReady => armed = 0
    BY DEF Schedule, FirstFailureIsFinal
<1>3. ~everReady' => timers' = 0
    BY <1>1, <1>2, Scheduled
<1>4. /\ attempts' \in 0 .. MaxAttempts /\ timers' \in 0 .. MaxTimers
      /\ reconnectTimer' \in BOOLEAN /\ (reconnectTimer' => timers' > 0)
      /\ state' \in States
    BY <1>1, Scheduled DEF States
<1> QED
    BY <1>3, <1>4 DEF Schedule, FirstFailureIsFinal

-----------------------------------------------------------------------------
(* What the client makes of a message of the bridge or of a timeout of a    *)
(* request.                                                                *)

\* What BridgeAnswers, BridgePushes and RequestTimeout amount to for the client.
Handles ==
    /\ UNCHANGED <<explicitDisconnect, ws, sock>>
    /\ \/ Refuse \/ Ignored
       \/ waiter # NoSocket /\ Welcome
       \/ \E id \in DOMAIN pending, ok \in BOOLEAN : Answer(id, ok)

\* The client handles an answer, ...
LEMMA AnswersHandled ==
    ASSUME NEW s \in Socket, BridgeAnswers(s)
    PROVE  Handles
<1>1. UNCHANGED <<explicitDisconnect, ws, sock>>
    BY DEF BridgeAnswers
<1>2. \/ Refuse \/ Ignored
      \/ waiter # NoSocket /\ Welcome
      \/ \E id \in DOMAIN pending, ok \in BOOLEAN : Answer(id, ok)
    BY DEF BridgeAnswers
<1> QED
    BY <1>1, <1>2 DEF Handles

\* ... a pushed event ...
LEMMA PushesHandled ==
    ASSUME NEW s \in Socket, BridgePushes(s)
    PROVE  Handles
BY DEF BridgePushes, Handles

\* ... and the timeout of a request.
LEMMA TimeoutHandled ==
    ASSUME NEW id \in Socket \cup Command, RequestTimeout(id)
    PROVE  Handles
BY DEF RequestTimeout, Handles

-----------------------------------------------------------------------------
(* scheduleReconnect's variables.                                          *)

\* The timers and attempts keep their types, and no timer is armed before the
\* client was ready.
LEMMA ScheduleKept ==
    ASSUME IInv, [Next]_vars
    PROVE  Schedule'
<1> USE DEF IInv
<1>1. CASE connect
    BY <1>1 DEF connect, connectOnce, Schedule, FirstFailureIsFinal, States
<1>2. CASE disconnect
  <2> DEFINE armed == timers - (IF reconnectTimer THEN 1 ELSE 0)
  <2>1. armed \in 0 .. timers
    BY DEF Schedule
  <2>2. rejected \in SUBSET Socket
    BY DEF rejected, Waiting
  <2>3. scheduleReconnect(retries(rejected), "closed", armed, FALSE)
    BY <1>2 DEF disconnect
  <2>4. everReady' = everReady /\ explicitDisconnect' \in BOOLEAN
    BY <1>2 DEF disconnect
  <2> HIDE DEF armed
  <2> QED
    BY <2>1, <2>2, <2>3, <2>4, RetriesCounted, ScheduledKept DEF States
<1>3. CASE ReconnectTimerFires
  <2>1. everReady
    BY <1>3 DEF ReconnectTimerFires, Schedule, FirstFailureIsFinal
  <2>2. /\ UNCHANGED <<everReady, explicitDisconnect, attempts>>
        /\ timers' \in 0 .. MaxTimers /\ reconnectTimer' = FALSE
        /\ state' \in {state, "connecting"}
    BY <1>3, Constants DEF ReconnectTimerFires, fieldAfterFire, connectOnce, Schedule
  <2> QED
    BY <2>1, <2>2 DEF Schedule, FirstFailureIsFinal, States
<1>4. ASSUME NEW s \in Socket, Opens(s) PROVE Schedule'
  <2>1. UNCHANGED <<everReady, explicitDisconnect>>
    BY <1>4 DEF Opens
  <2>2. CASE scheduleReconnect(retries({s}), "handshaking", timers, reconnectTimer)
    BY <2>1, <2>2, RetriesCounted, ScheduledKept DEF Schedule, States
  <2>3. CASE state' = "handshaking" /\ UNCHANGED <<attempts, timers, reconnectTimer>>
    BY <2>1, <2>3 DEF Schedule, FirstFailureIsFinal, States
  <2> QED
    BY <1>4, <2>2, <2>3 DEF Opens
<1>5. ASSUME NEW s \in Socket, OpenFails(s) PROVE Schedule'
    BY <1>5, RetriesCounted, ScheduledKept DEF OpenFails, Schedule
<1>6. ASSUME NEW s \in Socket, handleSocketClosed(s) PROVE Schedule'
  <2> DEFINE again == ~explicitDisconnect /\ everReady
             n == retries(rejected) + (IF again THEN 1 ELSE 0)
             to == IF again THEN state ELSE "closed"
  <2>1. UNCHANGED <<everReady, explicitDisconnect>>
    BY <1>6 DEF handleSocketClosed
  <2>2. CASE UNCHANGED <<state, attempts, timers, reconnectTimer>>
    BY <2>1, <2>2 DEF Schedule, FirstFailureIsFinal
  <2>3. CASE scheduleReconnect(n, to, timers, reconnectTimer)
    <3>1. n \in Nat /\ (~everReady => n = 0)
      BY RetriesCounted DEF rejected, Waiting
    <3>2. to \in States
      BY DEF Schedule, States
    <3> HIDE DEF n, to
    <3> QED
      BY <2>1, <2>3, <3>1, <3>2, ScheduledKept DEF Schedule
  <2> QED
    BY <1>6, <2>2, <2>3 DEF handleSocketClosed
<1>7. CASE Handles
  <2>1. CASE Refuse
    BY <1>7, <2>1, RetriesCounted, ScheduledKept DEF Handles, Refuse, Waiting, Schedule
  <2>2. CASE Ignored
    BY <1>7, <2>2 DEF Handles, Ignored, Schedule, FirstFailureIsFinal
  <2>3. CASE Welcome
    <3> DEFINE call == Waiting(waiter, {})
    <3>1. UNCHANGED <<everReady, explicitDisconnect>>
      BY <1>7, <2>3 DEF Handles, Welcome
    <3>2. CASE scheduleReconnect(retries(call), "configuring", timers, reconnectTimer)
      BY <3>1, <3>2, RetriesCounted, ScheduledKept DEF Waiting, Schedule, States
    <3>3. CASE /\ state' = IF call = {} THEN state ELSE "configuring"
               /\ UNCHANGED <<attempts, timers, reconnectTimer>>
      BY <3>1, <3>3 DEF Schedule, FirstFailureIsFinal, States
    <3> QED
      BY <2>3, <3>2, <3>3 DEF Welcome
  <2>4. ASSUME NEW id \in DOMAIN pending, NEW ok \in BOOLEAN, Answer(id, ok)
        PROVE  Schedule'
    <3> DEFINE call == Waiting(NoSocket, {id} \cap DOMAIN pending)
    <3>1. CASE ok /\ call # {}
      <4>1. /\ state' = "ready" /\ attempts' = 0 /\ everReady' = TRUE
            /\ UNCHANGED <<timers, reconnectTimer, explicitDisconnect>>
        BY <1>7, <2>4, <3>1 DEF Answer, Handles
      <4> QED
        BY <4>1, Constants DEF Schedule, FirstFailureIsFinal, States
    <3>2. CASE ~(ok /\ call # {})
      <4>1. /\ everReady' = (everReady \/ (ok /\ call # {}))
            /\ UNCHANGED explicitDisconnect
            /\ scheduleReconnect(retries(call), state, timers, reconnectTimer)
        BY <1>7, <2>4, <3>2 DEF Answer, Handles
      <4>2. everReady' = everReady
        BY <3>2, <4>1, Zenon DEF Schedule
      <4> QED
        BY <4>1, <4>2, RetriesCounted, ScheduledKept DEF Waiting, Schedule
    <3> QED
      BY <3>1, <3>2
  <2> QED
    BY <1>7, <2>1, <2>2, <2>3, <2>4 DEF Handles
<1>8. ASSUME NEW s \in Socket, HelloTimeout(s) PROVE Schedule'
    BY <1>8, RetriesCounted, ScheduledKept DEF HelloTimeout, Waiting, Schedule
<1>9. ASSUME NEW id \in Command, sendIdCorrelatedRequest(id) PROVE Schedule'
    BY <1>9 DEF sendIdCorrelatedRequest, Schedule, FirstFailureIsFinal
<1>10. CASE UNCHANGED vars
    BY <1>10 DEF vars, Schedule, FirstFailureIsFinal
<1> QED
    BY <1>1, <1>2, <1>3, <1>4, <1>5, <1>6, <1>7, <1>8, <1>9, <1>10, AnswersHandled,
        PushesHandled, TimeoutHandled DEF Next, SocketStep

-----------------------------------------------------------------------------
(* Types.                                                                  *)

\* The sockets, the calls and the bridge's sessions keep their types.
LEMMA SocketTypesKept ==
    ASSUME SocketTypes, RequestTypes, [Next]_vars
    PROVE  SocketTypes'
<1> USE DEF SocketTypes, SocketStates, Steps, Sessions
<1>1. CASE connect
    BY <1>1 DEF connect, connectOnce
<1>2. CASE disconnect
    BY <1>2 DEF disconnect, Ended
<1>3. CASE ReconnectTimerFires
    BY <1>3 DEF ReconnectTimerFires, connectOnce
<1>4. ASSUME NEW s \in Socket, Opens(s) PROVE SocketTypes'
    BY <1>4 DEF Opens, Ended
<1>5. ASSUME NEW s \in Socket, OpenFails(s) PROVE SocketTypes'
    BY <1>5 DEF OpenFails, Ended
<1>6. ASSUME NEW s \in Socket, handleSocketClosed(s) PROVE SocketTypes'
    BY <1>6 DEF handleSocketClosed, Ended
<1>7. ASSUME Handles, session' \in [Socket -> Sessions] PROVE SocketTypes'
    BY <1>7 DEF Handles, Refuse, Ignored, Welcome, Answer, Ended
<1>8. ASSUME NEW s \in Socket, BridgeAnswers(s) PROVE session' \in [Socket -> Sessions]
    BY <1>8 DEF BridgeAnswers
<1>9. ASSUME NEW s \in Socket, HelloTimeout(s) PROVE SocketTypes'
    BY <1>9 DEF HelloTimeout, Ended
<1>10. ASSUME NEW id \in Command, sendIdCorrelatedRequest(id) PROVE SocketTypes'
    BY <1>10 DEF sendIdCorrelatedRequest
<1>11. CASE UNCHANGED vars
    BY <1>11 DEF vars
<1>12. ASSUME NEW s \in Socket, BridgePushes(s) PROVE session' \in [Socket -> Sessions]
    BY <1>12 DEF BridgePushes
<1>13. ASSUME NEW id \in Socket \cup Command, RequestTimeout(id)
       PROVE  session' \in [Socket -> Sessions]
    BY <1>13 DEF RequestTimeout
<1> QED
    BY <1>1, <1>2, <1>3, <1>4, <1>5, <1>6, <1>7, <1>8, <1>9, <1>10, <1>11, <1>12, <1>13,
        AnswersHandled, PushesHandled, TimeoutHandled DEF Next, SocketStep

\* Something is appended to a socket's requests only as one of them.
LEMMA SentTyped ==
    ASSUME SocketTypes, RequestTypes, NEW msg \in Request
    PROVE  /\ Sent(msg) \in [Socket -> Seq(Request)]
           /\ \A s \in Socket : Append(wire[s], msg) \in Seq(Request)
<1>1. \A s \in Socket : Append(wire[s], msg) \in Seq(Request)
    BY AppendProperties DEF RequestTypes
<1> QED
    BY <1>1 DEF Sent, sendWorks, RequestTypes, SocketTypes

\* A request enters the pending ones with the socket that it went out on.
LEMMA WithTyped ==
    ASSUME SocketTypes, RequestTypes, NEW id \in Socket \cup Command
    PROVE  /\ With(id) \in [DOMAIN With(id) -> Socket \cup {NoSocket}]
           /\ DOMAIN With(id) = DOMAIN pending \cup {id}
           /\ DOMAIN With(id) \subseteq Socket \cup Command
           /\ \A i \in DOMAIN pending \ {id} : With(id)[i] = pending[i]
           /\ With(id)[id] = IF sendWorks THEN ws ELSE NoSocket
BY DEF With, SocketTypes, RequestTypes, sendWorks

\* Without a request the others are as they were.
LEMMA WithoutTyped ==
    ASSUME RequestTypes, NEW id
    PROVE  /\ Without(id) \in [DOMAIN Without(id) -> Socket \cup {NoSocket}]
           /\ DOMAIN Without(id) = DOMAIN pending \ {id}
           /\ \A i \in DOMAIN pending \ {id} : Without(id)[i] = pending[i]
BY DEF Without, RequestTypes

PendingTypes ==
    /\ waiter \in Socket \cup {NoSocket} /\ helloTimers \subseteq Socket
    /\ pending \in [DOMAIN pending -> Socket \cup {NoSocket}]
    /\ DOMAIN pending \subseteq Socket \cup Command

\* The waiter and the pending requests keep their types when a message is handled.
LEMMA HandledTyped ==
    ASSUME SocketTypes, RequestTypes, Handles
    PROVE  PendingTypes'
<1>1. CASE Refuse
    BY <1>1 DEF Refuse, RequestTypes, PendingTypes
<1>2. CASE Ignored
    BY <1>2 DEF Ignored, RequestTypes, PendingTypes
<1>3. CASE waiter # NoSocket /\ Welcome
  <2>1. /\ waiter \in Socket \cup Command
        /\ pending \in [DOMAIN pending -> Socket \cup {NoSocket}]
        /\ DOMAIN pending \subseteq Socket \cup Command
    BY <1>3 DEF RequestTypes
  <2>2. /\ With(waiter) \in [DOMAIN With(waiter) -> Socket \cup {NoSocket}]
        /\ DOMAIN With(waiter) \subseteq Socket \cup Command
    BY <2>1, WithTyped
  <2>3. pending' = pending \/ pending' = With(waiter)
    BY <1>3 DEF Welcome
  <2>4. waiter' = NoSocket /\ helloTimers' \subseteq Socket
    BY <1>3 DEF Welcome, RequestTypes
  <2> QED
    BY <2>1, <2>2, <2>3, <2>4 DEF PendingTypes
<1>4. ASSUME NEW id \in DOMAIN pending, NEW ok \in BOOLEAN, Answer(id, ok)
      PROVE  PendingTypes'
    BY <1>4, WithoutTyped DEF Answer, RequestTypes, PendingTypes
<1> QED
    BY <1>1, <1>2, <1>3, <1>4 DEF Handles

\* What the bridge leaves on the wires are requests.
LEMMA AnswersTyped ==
    ASSUME SocketTypes, RequestTypes, NEW s \in Socket, BridgeAnswers(s)
    PROVE  wire' \in [Socket -> Seq(Request)]
<1> DEFINE rest == [wire EXCEPT ![s] = Tail(@)]
<1>1. Tail(wire[s]) \in Seq(Request)
    BY HeadTailProperties DEF BridgeAnswers, RequestTypes
<1>2. rest \in [Socket -> Seq(Request)]
    BY <1>1 DEF RequestTypes
<1>3. CASE wire' = rest
    BY <1>2, <1>3
<1>4. CASE waiter # NoSocket /\ sendWorks /\ wire' = [rest EXCEPT ![ws] = Append(@, waiter)]
  <2>1. waiter \in Request /\ ws \in Socket
    BY <1>4 DEF RequestTypes, SocketTypes, sendWorks, Request
  <2>2. Append(rest[ws], waiter) \in Seq(Request)
    BY <1>2, <2>1, AppendProperties
  <2> HIDE DEF rest
  <2> QED
    BY <1>2, <1>4, <2>1, <2>2
<1> QED
    BY <1>3, <1>4 DEF BridgeAnswers

\* The requests, on the wire and pending, keep their types.
LEMMA RequestTypesKept ==
    ASSUME SocketTypes, RequestTypes, [Next]_vars
    PROVE  RequestTypes'
<1>1. CASE connect
    BY <1>1 DEF connect, RequestTypes
<1>2. CASE disconnect
    BY <1>2 DEF disconnect, rejectAllPending, RequestTypes
<1>3. CASE ReconnectTimerFires
    BY <1>3 DEF ReconnectTimerFires, RequestTypes
<1>4. ASSUME NEW s \in Socket, Opens(s) PROVE RequestTypes'
  <2>1. "hello" \in Request
    BY DEF Request
  <2>2. \A x \in Socket : Append(wire[x], "hello") \in Seq(Request)
    BY <2>1, SentTyped
  <2>3. \/ wire' = wire
        \/ ws \in Socket /\ wire' = [wire EXCEPT ![ws] = Append(@, "hello")]
    BY <1>4 DEF Opens, SocketTypes
  <2>4. wire' \in [Socket -> Seq(Request)]
    BY <2>2, <2>3 DEF RequestTypes
  <2> QED
    BY <1>4, <2>4 DEF Opens, RequestTypes
<1>5. ASSUME NEW s \in Socket, OpenFails(s) PROVE RequestTypes'
    BY <1>5 DEF OpenFails, RequestTypes
<1>6. ASSUME NEW s \in Socket, handleSocketClosed(s) PROVE RequestTypes'
  <2>1. wire' \in [Socket -> Seq(Request)]
    BY <1>6, EmptySeq DEF handleSocketClosed, RequestTypes
  <2> QED
    BY <1>6, <2>1 DEF handleSocketClosed, rejectAllPending, RequestTypes
<1>7. ASSUME NEW s \in Socket, BridgeAnswers(s) PROVE RequestTypes'
    BY <1>7, AnswersTyped, AnswersHandled, HandledTyped DEF PendingTypes, RequestTypes
<1>8. ASSUME NEW s \in Socket, BridgePushes(s) PROVE RequestTypes'
    BY <1>8, PushesHandled, HandledTyped DEF PendingTypes, RequestTypes, BridgePushes
<1>9. ASSUME NEW id \in Socket \cup Command, RequestTimeout(id) PROVE RequestTypes'
    BY <1>9, TimeoutHandled, HandledTyped DEF PendingTypes, RequestTypes, RequestTimeout
<1>10. ASSUME NEW s \in Socket, HelloTimeout(s) PROVE RequestTypes'
    BY <1>10 DEF HelloTimeout, RequestTypes
<1>11. ASSUME NEW id \in Command, sendIdCorrelatedRequest(id) PROVE RequestTypes'
  <2>1. id \in Request /\ id \in Socket \cup Command
    BY DEF Request
  <2>2. wire' \in [Socket -> Seq(Request)]
    BY <1>11, <2>1, SentTyped DEF sendIdCorrelatedRequest
  <2>3. pending' = With(id) /\ UNCHANGED <<waiter, helloTimers>>
    BY <1>11 DEF sendIdCorrelatedRequest
  <2>4. DOMAIN With(id) \subseteq Socket \cup Command
    BY <2>1, WithTyped
  <2>5. With(id) \in [DOMAIN With(id) -> Socket \cup {NoSocket}]
    BY <2>1, WithTyped
  <2> QED
    BY <2>2, <2>3, <2>4, <2>5 DEF RequestTypes
<1>12. CASE UNCHANGED vars
    BY <1>12 DEF vars, RequestTypes
<1> QED
    BY <1>1, <1>2, <1>3, <1>4, <1>5, <1>6, <1>7, <1>8, <1>9, <1>10, <1>11, <1>12
        DEF Next, SocketStep

-----------------------------------------------------------------------------
(* Before connect() nothing happens, and it is called once.                *)

\* scheduleReconnect leaves no client idle that was not.
LEMMA NeverIdle ==
    ASSUME Schedule, NEW n \in Nat, NEW s, NEW armed, NEW held,
           scheduleReconnect(n, s, armed, held), s # "idle"
    PROVE  state' # "idle"
BY DEF scheduleReconnect

\* Only connect() can happen to an idle client, and it leaves it dialling.
LEMMA IdleLeft ==
    ASSUME IInv, Next
    PROVE  /\ connect \/ state # "idle"
           /\ state' # "idle"
<1> USE DEF IInv
<1>1. CASE connect
    BY <1>1 DEF connect, connectOnce
<1>2. CASE disconnect
    BY <1>2, NeverIdle, RetriesCounted DEF disconnect, rejected, Waiting
<1>3. CASE ReconnectTimerFires
    BY <1>3 DEF ReconnectTimerFires, connectOnce, Unused, Schedule,
        FirstFailureIsFinal
<1>4. ASSUME NEW s \in Socket, Opens(s) PROVE state # "idle" /\ state' # "idle"
    BY <1>4, NeverIdle, RetriesCounted DEF Opens, Unused
<1>5. ASSUME NEW s \in Socket, OpenFails(s) PROVE state # "idle" /\ state' # "idle"
    BY <1>5, NeverIdle, RetriesCounted DEF OpenFails, Unused
<1>6. ASSUME NEW s \in Socket, handleSocketClosed(s)
      PROVE  state # "idle" /\ state' # "idle"
  <2>1. state # "idle"
    BY <1>6 DEF handleSocketClosed, Unused
  <2> DEFINE n == retries(rejected) + (IF ~explicitDisconnect /\ everReady THEN 1 ELSE 0)
  <2>2. n \in Nat
    BY RetriesCounted DEF rejected, Waiting
  <2> HIDE DEF n
  <2>3. \/ state' = state
        \/ \E to \in {state, "closed"} : scheduleReconnect(n, to, timers, reconnectTimer)
    BY <1>6 DEF handleSocketClosed, n
  <2> QED
    BY <2>1, <2>2, <2>3, NeverIdle
<1>7. ASSUME Handles, state # "idle" PROVE state' # "idle"
  <2>1. CASE Refuse
    BY <1>7, <2>1, NeverIdle, RetriesCounted DEF Refuse, Waiting
  <2>2. CASE Ignored
    BY <1>7, <2>2 DEF Ignored
  <2>3. CASE Welcome
    BY <1>7, <2>3, NeverIdle, RetriesCounted DEF Welcome, Waiting
  <2>4. ASSUME NEW id \in DOMAIN pending, NEW ok \in BOOLEAN, Answer(id, ok)
        PROVE  state' # "idle"
    BY <1>7, <2>4, NeverIdle, RetriesCounted DEF Answer, Waiting
  <2> QED
    BY <1>7, <2>1, <2>2, <2>3, <2>4 DEF Handles
<1>8. ASSUME NEW s \in Socket, BridgeAnswers(s) \/ BridgePushes(s) PROVE state # "idle"
    BY <1>8 DEF BridgeAnswers, BridgePushes, Unused
<1>9. ASSUME NEW id \in Socket \cup Command, RequestTimeout(id) PROVE state # "idle"
    BY <1>9 DEF RequestTimeout, Unused
<1>10. ASSUME NEW s \in Socket, HelloTimeout(s) PROVE state # "idle" /\ state' # "idle"
    BY <1>10, NeverIdle, RetriesCounted DEF HelloTimeout, Waiting, Unused
<1>11. ASSUME NEW id \in Command, sendIdCorrelatedRequest(id)
       PROVE  state # "idle" /\ state' # "idle"
    BY <1>11 DEF sendIdCorrelatedRequest
<1> QED
    BY <1>1, <1>2, <1>3, <1>4, <1>5, <1>6, <1>7, <1>8, <1>9, <1>10, <1>11,
        AnswersHandled, PushesHandled, TimeoutHandled DEF Next, SocketStep

\* An idle client stays as it was made.
LEMMA UnusedKept ==
    ASSUME IInv, [Next]_vars
    PROVE  Unused'
<1>1. CASE Next
    BY <1>1, IdleLeft DEF Unused
<1>2. CASE UNCHANGED vars
    BY <1>2 DEF vars, Unused, IInv
<1> QED
    BY <1>1, <1>2

-----------------------------------------------------------------------------
(* Calls of connectOnce and what they wait for.                            *)

\* Rejecting everything ends the calls that wait for configure.
LEMMA RejectedEnds ==
    ASSUME SocketTypes, Calls, NEW s \in Socket, Ended(rejected)[s] # "none"
    PROVE  step[s] = Ended(rejected)[s] /\ step[s] # "configure"
BY DEF Ended, rejected, Waiting, SocketTypes, Calls

\* A call that waits for configure keeps its pending request and this.ws.
LEMMA CallsKept ==
    ASSUME IInv, [Next]_vars
    PROVE  Calls'
<1> USE DEF IInv
<1>1. CASE connect
    BY <1>1 DEF connect, connectOnce, FreshSocket, Calls, SocketTypes, Unused
<1>2. CASE disconnect
    BY <1>2, RejectedEnds, Constants DEF disconnect, Ended, Calls, SocketTypes,
        rejected, Waiting
<1>3. CASE ReconnectTimerFires
  <2>1. CASE UNCHANGED <<ws, sock, step, pending>>
    BY <2>1 DEF Calls
  <2>2. ASSUME NEW s \in Socket, connectOnce(s), UNCHANGED pending PROVE Calls'
    BY <2>2, Constants DEF connectOnce, FreshSocket, Calls, SocketTypes
  <2> QED
    BY <1>3, <2>1, <2>2 DEF ReconnectTimerFires
<1>4. ASSUME NEW s \in Socket, Opens(s) PROVE Calls'
    BY <1>4 DEF Opens, Ended, Calls, SocketTypes
<1>5. ASSUME NEW s \in Socket, OpenFails(s) PROVE Calls'
    BY <1>5 DEF OpenFails, Ended, Calls, SocketTypes
<1>6. ASSUME NEW s \in Socket, handleSocketClosed(s) PROVE Calls'
    BY <1>6, RejectedEnds DEF handleSocketClosed, Ended, Calls, SocketTypes,
        rejected, Waiting
<1>7. CASE Handles
  <2>1. CASE Refuse
    BY <1>7, <2>1 DEF Handles, Refuse, Ended, Waiting, Calls, SocketTypes
  <2>2. CASE Ignored
    BY <1>7, <2>2 DEF Handles, Ignored, Calls
  <2>3. CASE waiter # NoSocket /\ Welcome
    <3>1. waiter \in Socket \cup Command
      BY <2>3 DEF RequestTypes
    <3>2. DOMAIN With(waiter) = DOMAIN pending \cup {waiter}
      BY <3>1, WithTyped
    <3> QED
      BY <1>7, <2>3, <3>2 DEF Handles, Welcome, Ended, Waiting, Calls, SocketTypes,
          sendThrows
  <2>4. ASSUME NEW id \in DOMAIN pending, NEW ok \in BOOLEAN, Answer(id, ok)
        PROVE  Calls'
    BY <1>7, <2>4, WithoutTyped DEF Handles, Answer, Ended, Waiting, Calls, SocketTypes
  <2> QED
    BY <1>7, <2>1, <2>2, <2>3, <2>4 DEF Handles
<1>8. ASSUME NEW s \in Socket, HelloTimeout(s) PROVE Calls'
    BY <1>8 DEF HelloTimeout, Ended, Waiting, Calls, SocketTypes
<1>9. ASSUME NEW id \in Command, sendIdCorrelatedRequest(id) PROVE Calls'
    BY <1>9, WithTyped DEF sendIdCorrelatedRequest, Calls
<1>10. CASE UNCHANGED vars
    BY <1>10 DEF vars, Calls
<1> QED
    BY <1>1, <1>2, <1>3, <1>4, <1>5, <1>6, <1>7, <1>8, <1>9, <1>10, AnswersHandled,
        PushesHandled, TimeoutHandled DEF Next, SocketStep

\* Until the client is ready only connect() makes a call.
LEMMA OneCallKept ==
    ASSUME IInv, [Next]_vars
    PROVE  OneCall'
<1> USE DEF IInv
<1>1. CASE connect
    BY <1>1 DEF connect, connectOnce, OneCall, SocketTypes, Unused
<1>2. CASE disconnect
    BY <1>2 DEF disconnect, OneCall
<1>3. CASE ReconnectTimerFires
    BY <1>3 DEF ReconnectTimerFires, Schedule, FirstFailureIsFinal, OneCall
<1>4. ASSUME NEW s \in Socket, Opens(s) PROVE OneCall'
    BY <1>4 DEF Opens, Ended, OneCall, SocketTypes, Calls
<1>5. ASSUME NEW s \in Socket, OpenFails(s) PROVE OneCall'
    BY <1>5 DEF OpenFails, Ended, OneCall, SocketTypes
<1>6. ASSUME NEW s \in Socket, handleSocketClosed(s) PROVE OneCall'
    BY <1>6 DEF handleSocketClosed, OneCall
<1>7. CASE Handles
  <2>1. CASE Refuse
    BY <1>7, <2>1 DEF Handles, Refuse, Ended, OneCall, SocketTypes
  <2>2. CASE Ignored
    BY <1>7, <2>2 DEF Handles, Ignored, OneCall
  <2>3. CASE waiter # NoSocket /\ Welcome
    BY <1>7, <2>3 DEF Handles, Welcome, Ended, Waiting, OneCall, SocketTypes,
          sendThrows
  <2>4. ASSUME NEW id \in DOMAIN pending, NEW ok \in BOOLEAN, Answer(id, ok)
        PROVE  OneCall'
    BY <1>7, <2>4 DEF Handles, Answer, Ended, Waiting, OneCall, SocketTypes
  <2> QED
    BY <1>7, <2>1, <2>2, <2>3, <2>4 DEF Handles
<1>8. ASSUME NEW s \in Socket, HelloTimeout(s) PROVE OneCall'
    BY <1>8 DEF HelloTimeout, Ended, OneCall, SocketTypes
<1>9. ASSUME NEW id \in Command, sendIdCorrelatedRequest(id) PROVE OneCall'
    BY <1>9 DEF sendIdCorrelatedRequest, OneCall
<1>10. CASE UNCHANGED vars
    BY <1>10 DEF vars, OneCall
<1> QED
    BY <1>1, <1>2, <1>3, <1>4, <1>5, <1>6, <1>7, <1>8, <1>9, <1>10, AnswersHandled,
        PushesHandled, TimeoutHandled DEF Next, SocketStep

\* A socket that is gone takes its pending requests with it.
LEMMA RequestsKept ==
    ASSUME IInv, [Next]_vars
    PROVE  Requests'
<1> USE DEF IInv
<1>1. CASE connect
    BY <1>1 DEF connect, Requests, Unused
<1>2. CASE disconnect
    BY <1>2 DEF disconnect, rejectAllPending, Requests
<1>3. CASE ReconnectTimerFires
    BY <1>3, Constants DEF ReconnectTimerFires, connectOnce, FreshSocket, Requests,
        SocketTypes, RequestTypes
<1>4. ASSUME NEW s \in Socket, Opens(s) PROVE Requests'
    BY <1>4 DEF Opens, Requests, SocketTypes
<1>5. ASSUME NEW s \in Socket, OpenFails(s) PROVE Requests'
    BY <1>5 DEF OpenFails, Requests, SocketTypes, Calls
<1>6. ASSUME NEW s \in Socket, handleSocketClosed(s) PROVE Requests'
    BY <1>6 DEF handleSocketClosed, rejectAllPending, Requests, SocketTypes
<1>7. CASE Handles
  <2>1. CASE Refuse
    BY <1>7, <2>1 DEF Handles, Refuse, Requests
  <2>2. CASE Ignored
    BY <1>7, <2>2 DEF Handles, Ignored, Requests
  <2>3. CASE waiter # NoSocket /\ Welcome
    <3>1. waiter \in Socket \cup Command
      BY <2>3 DEF RequestTypes
    <3>2. /\ DOMAIN With(waiter) = DOMAIN pending \cup {waiter}
          /\ \A i \in DOMAIN pending \ {waiter} : With(waiter)[i] = pending[i]
          /\ With(waiter)[waiter] = IF sendWorks THEN ws ELSE NoSocket
      BY <3>1, WithTyped
    <3>3. pending' = pending \/ pending' = With(waiter)
      BY <2>3 DEF Welcome
    <3> QED
      BY <1>7, <3>2, <3>3 DEF Handles, Requests, sendWorks
  <2>4. ASSUME NEW id \in DOMAIN pending, NEW ok \in BOOLEAN, Answer(id, ok)
        PROVE  Requests'
    BY <1>7, <2>4, WithoutTyped DEF Handles, Answer, Requests
  <2> QED
    BY <1>7, <2>1, <2>2, <2>3, <2>4 DEF Handles
<1>8. ASSUME NEW s \in Socket, HelloTimeout(s) PROVE Requests'
    BY <1>8 DEF HelloTimeout, Requests
<1>9. ASSUME NEW id \in Command, sendIdCorrelatedRequest(id) PROVE Requests'
  <2>1. /\ DOMAIN With(id) = DOMAIN pending \cup {id}
        /\ \A i \in DOMAIN pending \ {id} : With(id)[i] = pending[i]
        /\ With(id)[id] = IF sendWorks THEN ws ELSE NoSocket
    BY WithTyped
  <2> QED
    BY <1>9, <2>1 DEF sendIdCorrelatedRequest, Requests, sendWorks
<1>10. CASE UNCHANGED vars
    BY <1>10 DEF vars, Requests
<1> QED
    BY <1>1, <1>2, <1>3, <1>4, <1>5, <1>6, <1>7, <1>8, <1>9, <1>10, AnswersHandled,
        PushesHandled, TimeoutHandled DEF Next, SocketStep

-----------------------------------------------------------------------------
(* A client that was ready is ready again, or on its way.                  *)

\* n failures of calls that a client owes a retry leave a timer armed.
LEMMA FailureRetried ==
    ASSUME Schedule, NEW n \in Nat, NEW s, NEW held \in BOOLEAN, held => timers > 0,
           scheduleReconnect(n, s, timers, held), MaxAttempts = 0
    PROVE  /\ timers > 0 \/ n > 0 => timers' > 0
           /\ n = 0 => state' = s
<1>1. timers' \in 0 .. MaxTimers /\ timers' >= timers
    BY Scheduled DEF Schedule
<1>2. timers > 0 => timers' > 0
    BY <1>1, Constants DEF Schedule
<1>3. (n > 0 => timers' > 0) /\ (n = 0 => state' = s)
    BY Scheduled DEF Schedule
<1> QED
    BY <1>2, <1>3

\* Calls that end while a retry is owed leave a timer armed, or were none.
LEMMA CallsRetried ==
    ASSUME Schedule, SocketTypes, NEW S \in SUBSET Socket, NEW s,
           scheduleReconnect(retries(S), s, timers, reconnectTimer), owed
    PROVE  /\ timers > 0 \/ S # {} => timers' > 0
           /\ S = {} => Ended(S) = step /\ state' = s
<1>1. retries(S) \in Nat /\ (S # {} => retries(S) > 0) /\ (S = {} => retries(S) = 0)
    BY RetriesCounted DEF owed
<1>2. reconnectTimer \in BOOLEAN /\ (reconnectTimer => timers > 0)
    BY DEF Schedule
<1>3. S = {} => Ended(S) = step
    BY DEF Ended, SocketTypes
<1> QED
    BY <1>1, <1>2, <1>3, FailureRetried DEF owed

\* Steps that arm or keep a timer, or are on a socket other than this.ws.
LEMMA RedialledKept ==
    ASSUME IInv, [Next]_vars
    PROVE  Redialled'
<1> USE DEF IInv
<1> SUFFICES ASSUME owed', ws' # NoSocket, (sock[ws] = "closed")'
             PROVE  timers' > 0
    BY DEF Redialled
<1>1. CASE connect
    BY <1>1 DEF connect, owed, Unused
<1>2. CASE disconnect
    BY <1>2 DEF disconnect, owed
<1>3. CASE ReconnectTimerFires
    BY <1>3 DEF ReconnectTimerFires, connectOnce, mayDial, owed, SocketTypes
<1>4. ASSUME NEW s \in Socket, Opens(s) PROVE timers' > 0
  <2>1. owed /\ ws # NoSocket /\ sock[ws] = "closed"
    BY <1>4 DEF Opens, owed, SocketTypes
  <2>2. timers > 0
    BY <2>1 DEF Redialled
  <2> QED
    BY <1>4, <2>1, <2>2, CallsRetried DEF Opens
<1>5. ASSUME NEW s \in Socket, OpenFails(s) PROVE timers' > 0
    BY <1>5, CallsRetried DEF OpenFails, owed
<1>6. ASSUME NEW s \in Socket, handleSocketClosed(s) PROVE timers' > 0
    BY <1>6 DEF handleSocketClosed, SocketTypes
<1>7. CASE Handles
  <2>1. CASE ~everReady
    <3>1. PICK id \in DOMAIN pending, ok \in BOOLEAN : Answer(id, ok) /\ everReady'
      BY <1>7, <2>1 DEF Handles, Refuse, Ignored, Welcome, Answer, owed
    <3>2. Waiting(NoSocket, {id} \cap DOMAIN pending) # {}
      BY <2>1, <3>1, Zenon DEF Answer
    <3>3. PICK s \in Socket : step[s] = "configure"
      BY <3>2, Constants DEF Waiting
    <3> QED
      BY <1>7, <2>1, <3>3, Constants DEF Handles, OneCall, Calls, SocketTypes
  <2>2. CASE everReady
    <3>1. owed /\ timers > 0
      BY <1>7, <2>2 DEF Handles, Redialled, owed
    <3>2. CASE timers' = timers
      BY <3>1, <3>2
    <3>3. ASSUME NEW S \in SUBSET Socket, NEW s,
                 scheduleReconnect(retries(S), s, timers, reconnectTimer)
          PROVE  timers' > 0
      BY <3>1, <3>3, CallsRetried
    <3> QED
      BY <1>7, <3>2, <3>3 DEF Handles, Refuse, Ignored, Welcome, Answer, Waiting
  <2> QED
    BY <2>1, <2>2 DEF Schedule
<1>8. ASSUME NEW s \in Socket, HelloTimeout(s) PROVE timers' > 0
  <2>1. owed /\ timers > 0
    BY <1>8 DEF HelloTimeout, Redialled, owed
  <2> QED
    BY <1>8, <2>1, CallsRetried DEF HelloTimeout, Waiting
<1>9. ASSUME NEW id \in Command, sendIdCorrelatedRequest(id) PROVE timers' > 0
    BY <1>9 DEF sendIdCorrelatedRequest, Redialled, owed
<1>10. CASE UNCHANGED vars
    BY <1>10 DEF vars, Redialled, owed
<1> QED
    BY <1>1, <1>2, <1>3, <1>4, <1>5, <1>6, <1>7, <1>8, <1>9, <1>10, AnswersHandled,
        PushesHandled, TimeoutHandled DEF Next, SocketStep

\* Ready on a live socket, about to dial, or dialling.
OnItsWay ==
    \/ state = "ready" /\ ws # NoSocket /\ sock[ws] = "open"
    \/ timers > 0
    \/ \E s \in Socket : step[s] # "none"

\* A step that ends calls, schedules their retries and touches no socket leaves
\* the client on its way.
LEMMA StillOnItsWay ==
    ASSUME IInv, owed, OnItsWay, NEW S \in SUBSET Socket,
           scheduleReconnect(retries(S), state, timers, reconnectTimer),
           step' = Ended(S), UNCHANGED <<ws, sock>>
    PROVE  OnItsWay'
<1>1. CASE S = {}
  <2>1. state' = state /\ (timers > 0 => timers' > 0) /\ step' = step
    BY <1>1, CallsRetried DEF IInv
  <2> QED
    BY <2>1 DEF OnItsWay
<1>2. CASE S # {}
    BY <1>2, CallsRetried DEF OnItsWay, IInv
<1> QED
    BY <1>1, <1>2

\* No step strands a client that was ready.
LEMMA RetryAliveKept ==
    ASSUME IInv, [Next]_vars
    PROVE  RetryAlive'
<1> USE DEF IInv
<1> SUFFICES ASSUME owed'
             PROVE  OnItsWay'
    BY DEF RetryAlive, owed, OnItsWay
<1>0. owed => OnItsWay
    BY DEF RetryAlive, owed, OnItsWay
<1>1. CASE connect
    BY <1>1 DEF connect, owed, Unused
<1>2. CASE disconnect
    BY <1>2 DEF disconnect, owed
<1>3. CASE ReconnectTimerFires
  <2>1. PICK s \in Socket : connectOnce(s)
    BY <1>3 DEF ReconnectTimerFires, mayDial, owed
  <2> QED
    BY <2>1 DEF connectOnce, OnItsWay, SocketTypes
<1>4. ASSUME NEW s \in Socket, Opens(s) PROVE OnItsWay'
  <2>1. CASE step' = [step EXCEPT ![s] = "hello"]
    BY <2>1 DEF OnItsWay, SocketTypes
  <2>2. CASE scheduleReconnect(retries({s}), "handshaking", timers, reconnectTimer)
    BY <1>4, <2>2, CallsRetried DEF OnItsWay, Opens, owed
  <2> QED
    BY <1>4, <2>1, <2>2 DEF Opens
<1>5. ASSUME NEW s \in Socket, OpenFails(s) PROVE OnItsWay'
    BY <1>5, CallsRetried DEF OpenFails, owed, OnItsWay
<1>6. ASSUME NEW s \in Socket, handleSocketClosed(s) PROVE OnItsWay'
  <2>1. owed /\ OnItsWay
    BY <1>6, <1>0 DEF handleSocketClosed, owed
  <2>2. CASE UNCHANGED <<state, timers, ws, step>>
    BY <1>6, <2>1, <2>2 DEF handleSocketClosed, OnItsWay, owed
  <2>3. CASE scheduleReconnect(retries(rejected) + 1, state, timers, reconnectTimer)
    <3>1. retries(rejected) + 1 \in Nat /\ retries(rejected) + 1 > 0
      BY RetriesCounted DEF rejected, Waiting
    <3> QED
      BY <2>1, <2>3, <3>1, FailureRetried DEF OnItsWay, owed, Schedule
  <2> QED
    BY <1>6, <2>1, <2>2, <2>3 DEF handleSocketClosed, owed
<1>7. CASE Handles
  <2>1. CASE Refuse
    <3>1. owed
      BY <1>7, <2>1 DEF Handles, Refuse, owed
    <3> QED
      BY <1>0, <1>7, <2>1, <3>1, StillOnItsWay DEF Handles, Refuse, Waiting
  <2>2. CASE Ignored
    BY <1>0, <1>7, <2>2 DEF Handles, Ignored, owed, OnItsWay
  <2>3. CASE Welcome
    <3> DEFINE call == Waiting(waiter, {})
    <3>1. owed
      BY <1>7, <2>3 DEF Handles, Welcome, owed
    <3>2. CASE call = {}
      <4>1. UNCHANGED <<state, timers, ws, sock>> /\ step' = [s \in Socket |-> step[s]]
        BY <1>7, <2>3, <3>2 DEF Handles, Welcome
      <4>2. step' = step
        BY <4>1 DEF SocketTypes
      <4> QED
        BY <1>0, <3>1, <4>1, <4>2 DEF OnItsWay
    <3>3. CASE call # {} /\ sendThrows
      BY <2>3, <3>1, <3>3, CallsRetried DEF Welcome, Waiting, OnItsWay
    <3>4. CASE call # {} /\ ~sendThrows
      <4>1. PICK s \in Socket : s \in call
        BY <3>4 DEF Waiting
      <4>2. step'[s] = "configure"
        BY <2>3, <3>4, <4>1 DEF Welcome
      <4> QED
        BY <4>2 DEF OnItsWay
    <3> QED
      BY <3>2, <3>3, <3>4
  <2>4. ASSUME NEW id \in DOMAIN pending, NEW ok \in BOOLEAN, Answer(id, ok)
        PROVE  OnItsWay'
    <3> DEFINE call == Waiting(NoSocket, {id} \cap DOMAIN pending)
    <3>1. CASE ok /\ call # {}
      <4>1. call = {id} /\ id \in Socket /\ step[id] = "configure"
        BY <3>1, Constants DEF Waiting
      <4>2. ws \in Socket
        BY <4>1 DEF Calls, SocketTypes
      <4>3. state' = "ready" /\ timers' = timers /\ UNCHANGED <<ws, sock>>
        BY <1>7, <2>4, <3>1 DEF Handles, Answer
      <4>4. CASE sock[ws] = "open"
        BY <4>2, <4>3, <4>4, Constants DEF OnItsWay
      <4>5. CASE sock[ws] = "opening"
        <5>1. ws # id /\ step[ws] = "opening"
          BY <4>1, <4>2, <4>5 DEF Calls
        <5>2. step'[ws] = "opening"
          BY <2>4, <4>1, <4>2, <5>1 DEF Answer, Ended
        <5> QED
          BY <4>2, <5>2 DEF OnItsWay
      <4>6. CASE sock[ws] = "closed"
        <5>1. everReady
          BY <4>1, <4>2, <4>6, Constants DEF OneCall, Schedule
        <5> QED
          BY <1>7, <4>2, <4>3, <4>6, <5>1, Constants DEF Redialled, OnItsWay, owed, Handles
      <4> QED
        BY <4>2, <4>4, <4>5, <4>6, Constants DEF Calls, SocketTypes, SocketStates
    <3>2. CASE ~(ok /\ call # {})
      <4>1. everReady' = (everReady \/ (ok /\ call # {}))
        BY <2>4 DEF Answer
      <4>2. everReady
        BY <3>2, <4>1 DEF owed
      <4>3. owed
        BY <1>7, <4>2 DEF Handles, owed
      <4> QED
        BY <1>0, <1>7, <2>4, <3>2, <4>3, StillOnItsWay DEF Handles, Answer, Waiting
    <3> QED
      BY <3>1, <3>2
  <2> QED
    BY <1>7, <2>1, <2>2, <2>3, <2>4 DEF Handles
<1>8. ASSUME NEW s \in Socket, HelloTimeout(s) PROVE OnItsWay'
  <2>1. owed
    BY <1>8 DEF HelloTimeout, owed
  <2> QED
    BY <1>0, <1>8, <2>1, StillOnItsWay DEF HelloTimeout, Waiting
<1>9. ASSUME NEW id \in Command, sendIdCorrelatedRequest(id) PROVE OnItsWay'
    BY <1>0, <1>9 DEF sendIdCorrelatedRequest, owed, OnItsWay
<1>10. CASE UNCHANGED vars
    BY <1>0, <1>10 DEF vars, owed, OnItsWay
<1> QED
    BY <1>1, <1>2, <1>3, <1>4, <1>5, <1>6, <1>7, <1>8, <1>9, <1>10, AnswersHandled,
        PushesHandled, TimeoutHandled DEF Next, SocketStep

-----------------------------------------------------------------------------
(* The theorems.                                                           *)

\* A new client satisfies the invariant.
LEMMA InitHolds == Init => IInv
<1> SUFFICES ASSUME Init
             PROVE  IInv
    OBVIOUS
<1>1. Schedule
  <2>1. attempts \in 0 .. MaxAttempts /\ timers \in 0 .. MaxTimers
    BY Constants DEF Init
  <2> QED
    BY <2>1 DEF Init, Schedule, FirstFailureIsFinal, States
<1>2. SocketTypes
    BY DEF Init, SocketTypes, SocketStates, Steps, Sessions
<1>3. RequestTypes
  <2>2. wire \in [Socket -> Seq(Request)]
    BY EmptySeq DEF Init
  <2>3. DOMAIN pending = {}
    BY DEF Init
  <2>4. pending \in [DOMAIN pending -> Socket \cup {NoSocket}]
    BY DEF Init
  <2> QED
    BY <2>2, <2>3, <2>4 DEF Init, RequestTypes
<1>4. Unused /\ Calls /\ OneCall /\ Redialled /\ RetryAlive
    BY DEF Init, Unused, Calls, OneCall, Redialled, owed, RetryAlive
<1>5. Requests
    BY DEF Init, Requests
<1> QED
    BY <1>1, <1>2, <1>3, <1>4, <1>5 DEF IInv

\* Every step keeps it.
LEMMA StepKeeps == IInv /\ [Next]_vars => IInv'
<1> SUFFICES ASSUME IInv, [Next]_vars
             PROVE  IInv'
    OBVIOUS
<1>1. SocketTypes' /\ RequestTypes'
    BY SocketTypesKept, RequestTypesKept DEF IInv
<1>2. Schedule' /\ Unused' /\ Calls' /\ OneCall'
    BY ScheduleKept, UnusedKept, CallsKept, OneCallKept
<1>3. Requests' /\ Redialled' /\ RetryAlive'
    BY RequestsKept, RedialledKept, RetryAliveKept
<1> QED
    BY <1>1, <1>2, <1>3 DEF IInv

\* The invariant holds in every state of every behaviour.
LEMMA InvariantHolds == Spec => []IInv
BY InitHolds, StepKeeps, PTL DEF Spec

\* Every variable has its type, and reconnectTimer names no timer that fired.
THEOREM TypeCorrect == Spec => []TypeOK
<1>1. IInv => TypeOK
  <2> SUFFICES ASSUME IInv
               PROVE  TypeOK
    OBVIOUS
  <2>1. \A s \in Socket : \A i \in DOMAIN wire[s] : wire[s][i] \in Request
    BY ElementOfSeq, LenProperties DEF IInv, RequestTypes
  <2>2. {explicitDisconnect, everReady, reconnectTimer} \subseteq BOOLEAN
    BY DEF IInv, Schedule
  <2> QED
    BY <2>1, <2>2 DEF IInv, TypeOK, Schedule, SocketTypes, RequestTypes
<1> QED
    BY InvariantHolds, <1>1, PTL

\* A first failure is not retried, and no sequence of failures, late answers and
\* overlapping dials ends the retries of a client that was ready
\* (scheduleReconnect, connectOnce, handleSocketClosed).
THEOREM RetriedWhenOwed == Spec => []RetryWhenOwed
<1>1. IInv => RetryWhenOwed
    BY DEF IInv, Schedule, RetryWhenOwed
<1> QED
    BY InvariantHolds, <1>1, PTL

\* No request waits for an answer on a socket that is gone (handleSocketClosed,
\* rejectAllPending).
THEOREM NoRequestStranded == Spec => []RequestsFollowSocket
<1>1. IInv => RequestsFollowSocket
    BY DEF IInv, Requests, RequestsFollowSocket
<1> QED
    BY InvariantHolds, <1>1, PTL

\* Nothing is dialled after disconnect(), whatever timers are still armed and
\* whatever calls are still in progress (scheduleReconnect's callback).
THEOREM NeverDialsAgain == Spec => NoDialAfterDisconnect
<1>1. ASSUME IInv, [Next]_vars, NEW s \in Socket, sock[s] = "closed",
             sock'[s] = "opening"
      PROVE  ~explicitDisconnect
  <2> USE DEF IInv, SocketTypes
  <2>1. CASE connect
    BY <1>1, <2>1 DEF connect, Unused
  <2>2. CASE ReconnectTimerFires
    <3>1. mayDial \/ UNCHANGED sock
      BY <2>2 DEF ReconnectTimerFires
    <3> QED
      BY <1>1, <3>1 DEF mayDial
  <2>3. CASE disconnect
    BY <1>1, <2>3 DEF disconnect
  <2>4. ASSUME NEW t \in Socket, SocketStep(t) PROVE FALSE
    BY <1>1, <2>4, AnswersHandled, PushesHandled DEF SocketStep, Opens, OpenFails,
        handleSocketClosed, Handles, HelloTimeout
  <2>5. CASE UNCHANGED sock
    BY <1>1, <2>5
  <2> QED
    BY <1>1, <2>1, <2>2, <2>3, <2>4, <2>5 DEF Next, vars, sendIdCorrelatedRequest,
        RequestTimeout
<1>2. IInv /\ [Next]_vars => [\A s \in Socket : sock[s] = "closed" /\ sock'[s] = "opening"
                                => ~explicitDisconnect]_vars
    BY <1>1
<1> QED
    BY InvariantHolds, <1>2, PTL DEF Spec, NoDialAfterDisconnect

===============================================================================
