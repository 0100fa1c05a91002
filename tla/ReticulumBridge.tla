---------------------------- MODULE ReticulumBridge ----------------------------
(***************************************************************************)
(* One ReticulumBridgeClient (src/src/server/reticulumBridgeClient.ts) and *)
(* the sidecar it talks to (src/bridge/meshmonitor_rns_bridge/             *)
(* ws_server.py).  ReticulumManager makes a client per connection: it      *)
(* calls connect() once and disconnect() at most once.                     *)
(*                                                                         *)
(* A call of connectOnce is named by the socket it opens.  A socket keeps  *)
(* the requests in order until the bridge answers them; the answer is      *)
(* delivered in the same step, which delays and losses make no narrower.   *)
(***************************************************************************)
EXTENDS Integers, FiniteSets, Sequences

CONSTANTS
    Socket,       \* names for WebSocket objects
    NoSocket,     \* null
    Command,      \* ids of requests other than configure
    MaxAttempts,  \* reconnectMaxAttempts; 0 retries forever
    MaxTimers     \* bound: reconnect timers armed at once

ASSUME NameAssumption ==
    NoSocket \notin Socket /\ Socket \cap Command = {} /\ NoSocket \notin Command

ASSUME BoundAssumption ==
    {MaxAttempts, MaxTimers} \subseteq Nat /\ IsFiniteSet(Socket)

VARIABLES
    state,              \* state
    explicitDisconnect,
    everReady,
    attempts,           \* reconnectAttempts, counted only up to a limit
    timers,             \* reconnect timers that are armed
    reconnectTimer,     \* whether the field holds one of them
    ws,                 \* this.ws
    sock,               \* the sockets
    step,               \* where the connectOnce call of a socket stands
    waiter,             \* whose hello handshakeWaiter belongs to
    helloTimers,        \* calls whose hello timeout is armed
    pending,            \* pendingRequests: the socket each went out on, if any
    wire,               \* requests on a socket
    session             \* what the bridge knows of a socket

vars == <<state, explicitDisconnect, everReady, attempts, timers, reconnectTimer,
          ws, sock, step, waiter, helloTimers, pending, wire, session>>

States == {"idle", "connecting", "handshaking", "configuring", "ready",
           "reconnecting", "closed"}
SocketStates == {"closed", "opening", "open", "closing"}
Steps == {"none", "opening", "hello", "configure"}
Sessions == {"new", "welcomed", "configured", "over"}
Request == {"hello"} \cup Socket \cup Command

Init ==
    /\ state = "idle" /\ explicitDisconnect = FALSE /\ everReady = FALSE
    /\ attempts = 0 /\ timers = 0 /\ reconnectTimer = FALSE
    /\ ws = NoSocket
    /\ sock = [s \in Socket |-> "closed"]
    /\ step = [s \in Socket |-> "none"]
    /\ waiter = NoSocket /\ helloTimers = {}
    /\ pending = [id \in {} |-> NoSocket]
    /\ wire = [s \in Socket |-> <<>>]
    /\ session = [s \in Socket |-> "new"]

-------------------------------------------------------------------------------
\* Building blocks.

\* Mutants: a timer dials although the owner hung up; a first dial that fails is
\* retried; a close leaves the requests alone; a failed retry is the last; a
\* timer that fired stays in its field.
dialAnyway == TRUE
retryFirst == TRUE
keepPending == pending
neverAgain(failed) == 0
staleTimer == reconnectTimer

\* scheduleReconnect called n times, from state s, when `armed` timers are armed
\* and the field holds one of them or not: the last call decides the state.
granted(n) == IF MaxAttempts = 0 \/ n <= MaxAttempts - attempts THEN n
              ELSE MaxAttempts - attempts

scheduleReconnect(n, s, armed, held) ==
    /\ timers' = armed + granted(n)
    /\ timers' <= MaxTimers
    /\ attempts' = IF MaxAttempts = 0 THEN 0 ELSE attempts + granted(n)
    /\ reconnectTimer' = (held \/ granted(n) > 0)
    /\ state' = IF n = 0 THEN s
                ELSE IF granted(n) < n THEN "closed" ELSE "reconnecting"

\* A call of connectOnce that the reconnect timer made is retried when it
\* fails; the first one, made by connect(), is not.
isRetry == everReady

retries(failed) == IF isRetry THEN Cardinality(failed) ELSE 0

\* The calls in progress whose promise the waiter or a pending request holds.
Waiting(w, ids) ==
    {s \in Socket : \/ s = w /\ step[s] = "hello"
                    \/ s \in ids /\ step[s] = "configure"}

Ended(calls) == [s \in Socket |-> IF s \in calls THEN "none" ELSE step[s]]

\* ws.send: throws without an open socket, is ignored once it is closing.
sendThrows == ws = NoSocket \/ sock[ws] = "opening"
sendWorks == ws # NoSocket /\ sock[ws] = "open"

Sent(msg) == IF sendWorks THEN [wire EXCEPT ![ws] = Append(@, msg)] ELSE wire

Without(id) == [i \in DOMAIN pending \ {id} |-> pending[i]]

With(id) == [i \in DOMAIN pending \cup {id} |->
               IF i # id THEN pending[i] ELSE IF sendWorks THEN ws ELSE NoSocket]

\* rejectAllPending rejects the waiter and every request.
rejectAllPending == [id \in {} |-> NoSocket]
rejected == Waiting(waiter, DOMAIN pending)

\* No socket carries a request with this id.
Unsent(id) == \A s \in Socket : \A i \in DOMAIN wire[s] : wire[s][i] # id

\* A socket object nothing refers to.
FreshSocket(s) ==
    /\ sock[s] = "closed" /\ step[s] = "none" /\ wire[s] = <<>>
    /\ s \notin {ws, waiter} \cup helloTimers \cup DOMAIN pending
    /\ \A id \in DOMAIN pending : pending[id] # s
    /\ Unsent(s)

\* connectOnce up to its first await.
connectOnce(s) ==
    /\ FreshSocket(s)
    /\ state' = "connecting"
    /\ ws' = s
    /\ sock' = [sock EXCEPT ![s] = "opening"]
    /\ step' = [step EXCEPT ![s] = "opening"]
    /\ session' = [session EXCEPT ![s] = "new"]

-------------------------------------------------------------------------------
\* The owner.

connect ==
    /\ state = "idle"
    /\ \E s \in Socket : connectOnce(s)
    /\ UNCHANGED <<explicitDisconnect, everReady, attempts, timers, reconnectTimer,
                   waiter, helloTimers, pending, wire>>

\* The reject handlers of the calls in progress run after disconnect() itself.
disconnect ==
    /\ state # "idle" /\ ~explicitDisconnect
    /\ explicitDisconnect' = TRUE
    /\ scheduleReconnect(retries(rejected), "closed",
                         timers - (IF reconnectTimer THEN 1 ELSE 0), FALSE)
    /\ step' = Ended(rejected)
    /\ waiter' = NoSocket /\ helloTimers' = helloTimers \ {waiter}
    /\ pending' = rejectAllPending
    /\ ws' = NoSocket
    /\ sock' = [s \in Socket |-> IF s = ws /\ sock[s] # "closed" THEN "closing"
                                 ELSE sock[s]]
    /\ UNCHANGED <<everReady, wire, session>>

\* sendIdCorrelatedRequest and requestStatus.
sendIdCorrelatedRequest(id) ==
    /\ ws # NoSocket /\ state = "ready"
    /\ id \notin DOMAIN pending /\ Unsent(id)
    /\ pending' = With(id)
    /\ wire' = Sent(id)
    /\ UNCHANGED <<state, explicitDisconnect, everReady, attempts, timers,
                   reconnectTimer, ws, sock, step, waiter, helloTimers, session>>

-------------------------------------------------------------------------------
\* Sockets.

\* 'open': hello goes out on this.ws, which may be another socket by now.
Opens(s) ==
    /\ sock[s] = "opening"
    /\ sock' = [sock EXCEPT ![s] = "open"]
    /\ waiter' = s /\ helloTimers' = helloTimers \cup {s}
    /\ IF ws = NoSocket \/ (ws # s /\ sock[ws] = "opening")
       THEN /\ step' = Ended({s}) /\ wire' = wire
            /\ scheduleReconnect(retries({s}), "handshaking", timers, reconnectTimer)
       ELSE /\ step' = [step EXCEPT ![s] = "hello"]
            /\ wire' = IF sock'[ws] = "open" THEN [wire EXCEPT ![ws] = Append(@, "hello")]
                       ELSE wire
            /\ state' = "handshaking"
            /\ UNCHANGED <<attempts, timers, reconnectTimer>>
    /\ UNCHANGED <<explicitDisconnect, everReady, ws, pending, session>>

\* The open fails, or disconnect() closed the socket before it was open.
OpenFails(s) ==
    /\ step[s] = "opening"
    /\ sock' = [sock EXCEPT ![s] = "closed"]
    /\ step' = Ended({s})
    /\ scheduleReconnect(retries({s}), state, timers, reconnectTimer)
    /\ UNCHANGED <<explicitDisconnect, everReady, ws, waiter, helloTimers, pending,
                   wire, session>>

\* handleSocketClosed, whichever socket it was.
handleSocketClosed(s) ==
    /\ sock[s] \in {"open", "closing"} /\ step[s] # "opening"
    /\ sock' = [sock EXCEPT ![s] = "closed"]
    /\ wire' = [wire EXCEPT ![s] = <<>>]
    /\ IF ws = NoSocket /\ state = "closed"
       THEN UNCHANGED <<state, attempts, timers, reconnectTimer, ws, step, waiter,
                        helloTimers, pending>>
       ELSE /\ ws' = NoSocket
            /\ step' = Ended(rejected)
            /\ waiter' = NoSocket /\ helloTimers' = helloTimers \ {waiter}
            /\ pending' = rejectAllPending
            /\ scheduleReconnect(
                 retries(rejected) + (IF ~explicitDisconnect /\ everReady THEN 1 ELSE 0),
                 IF ~explicitDisconnect /\ everReady THEN state ELSE "closed",
                 timers, reconnectTimer)
    /\ UNCHANGED <<explicitDisconnect, everReady, session>>

\* The timer's callback.
mayDial == ~explicitDisconnect

fieldAfterFire == FALSE

ReconnectTimerFires ==
    /\ timers > 0
    /\ timers' = timers - 1 /\ reconnectTimer' = fieldAfterFire
    /\ IF mayDial THEN \E s \in Socket : connectOnce(s)
       ELSE UNCHANGED <<state, ws, sock, step, session>>
    /\ UNCHANGED <<explicitDisconnect, everReady, attempts, waiter, helloTimers,
                   pending, wire>>

-------------------------------------------------------------------------------
\* What the bridge sends.

\* A message that is no answer the handshake can use.
Refuse ==
    /\ waiter' = NoSocket /\ helloTimers' = helloTimers \ {waiter}
    /\ step' = Ended(Waiting(waiter, {}))
    /\ scheduleReconnect(retries(Waiting(waiter, {})), state, timers, reconnectTimer)
    /\ UNCHANGED <<everReady, pending>>

\* handleRawMessage of a welcome: configure goes out on this.ws.
Welcome ==
    LET call == Waiting(waiter, {})
    IN /\ waiter' = NoSocket /\ helloTimers' = helloTimers \ {waiter}
       /\ pending' = IF call = {} THEN pending ELSE With(waiter)
       /\ IF call # {} /\ sendThrows
          THEN /\ step' = Ended(call)
               /\ scheduleReconnect(retries(call), "configuring", timers, reconnectTimer)
          ELSE /\ step' = [s \in Socket |-> IF s \in call THEN "configure" ELSE step[s]]
               /\ state' = IF call = {} THEN state ELSE "configuring"
               /\ UNCHANGED <<attempts, timers, reconnectTimer>>
       /\ UNCHANGED everReady

\* The answer to a request: configure's makes the client ready or fails.
Answer(id, ok) ==
    LET call == Waiting(NoSocket, {id} \cap DOMAIN pending)
    IN /\ pending' = Without(id)
       /\ step' = Ended(call)
       /\ everReady' = (everReady \/ (ok /\ call # {}))
       /\ IF ok /\ call # {}
          THEN /\ state' = "ready" /\ attempts' = 0
               /\ UNCHANGED <<timers, reconnectTimer>>
          ELSE scheduleReconnect(retries(call), state, timers, reconnectTimer)
       /\ UNCHANGED <<waiter, helloTimers>>

\* A message that nobody waits for.
Ignored == UNCHANGED <<state, everReady, attempts, timers, reconnectTimer, step,
                       waiter, helloTimers, pending>>

\* The bridge answers the oldest request of a socket, and handleRawMessage
\* takes the answer.
BridgeAnswers(s) ==
    /\ sock[s] = "open" /\ wire[s] # <<>> /\ session[s] # "over"
    /\ LET msg == Head(wire[s])
           rest == [wire EXCEPT ![s] = Tail(@)]
       IN \/ /\ session[s] = "new" /\ msg = "hello"
             /\ session' = [session EXCEPT ![s] = "welcomed"]
             /\ IF waiter # NoSocket
                THEN /\ Welcome
                     /\ wire' = IF Waiting(waiter, {}) = {} \/ ~sendWorks
                                THEN rest
                                ELSE [rest EXCEPT ![ws] = Append(@, waiter)]
                ELSE Ignored /\ wire' = rest
          \/ /\ session[s] = "new"
             /\ session' = [session EXCEPT ![s] = "over"]
             /\ IF waiter # NoSocket THEN Refuse ELSE Ignored
             /\ wire' = rest
          \/ /\ session[s] # "new" /\ msg = "hello"
             /\ Ignored /\ wire' = rest /\ UNCHANGED session
          \/ /\ session[s] # "new" /\ msg # "hello"
             /\ \E ok \in BOOLEAN :
                  /\ session' = IF ok /\ msg \in Socket
                                THEN [session EXCEPT ![s] = "configured"] ELSE session
                  /\ session[s] = "configured" /\ msg \in Socket => ok
                  /\ IF waiter # NoSocket THEN Refuse
                     ELSE IF msg \in DOMAIN pending THEN Answer(msg, ok) ELSE Ignored
             /\ wire' = rest
    /\ UNCHANGED <<explicitDisconnect, ws, sock>>

\* An event the bridge pushes on a configured socket: a waiter takes it for the
\* answer to hello.
BridgePushes(s) ==
    /\ sock[s] = "open" /\ session[s] = "configured" /\ waiter # NoSocket
    /\ Refuse
    /\ UNCHANGED <<explicitDisconnect, ws, sock, wire, session>>

-------------------------------------------------------------------------------
\* Timeouts.

\* performHello's timer resets the waiter, even one of a later call.
HelloTimeout(s) ==
    /\ s \in helloTimers
    /\ helloTimers' = helloTimers \ {s}
    /\ waiter' = NoSocket
    /\ LET call == Waiting(s, {})
       IN /\ step' = Ended(call)
          /\ scheduleReconnect(retries(call), state, timers, reconnectTimer)
    /\ UNCHANGED <<explicitDisconnect, everReady, ws, sock, pending, wire, session>>

RequestTimeout(id) ==
    /\ id \in DOMAIN pending
    /\ Answer(id, FALSE)
    /\ UNCHANGED <<explicitDisconnect, ws, sock, wire, session>>

SocketStep(s) ==
    \/ Opens(s) \/ OpenFails(s) \/ handleSocketClosed(s)
    \/ BridgeAnswers(s) \/ BridgePushes(s) \/ HelloTimeout(s)

Next ==
    \/ connect \/ disconnect \/ ReconnectTimerFires
    \/ \E s \in Socket : SocketStep(s)
    \/ \E id \in Command : sendIdCorrelatedRequest(id)
    \/ \E id \in Socket \cup Command : RequestTimeout(id)

Spec == Init /\ [][Next]_vars
-------------------------------------------------------------------------------
\* Properties.

\* Every variable has its type, and reconnectTimer never names a timer that
\* fired already.
TypeOK ==
    /\ state \in States /\ ws \in Socket \cup {NoSocket}
    /\ {explicitDisconnect, everReady, reconnectTimer} \subseteq BOOLEAN
    /\ attempts \in 0..MaxAttempts /\ timers \in 0..MaxTimers
    /\ reconnectTimer => timers > 0
    /\ sock \in [Socket -> SocketStates] /\ step \in [Socket -> Steps]
    /\ waiter \in Socket \cup {NoSocket} /\ helloTimers \subseteq Socket
    /\ DOMAIN pending \subseteq Socket \cup Command
    /\ \A id \in DOMAIN pending : pending[id] \in Socket \cup {NoSocket}
    /\ \A s \in Socket : \A i \in DOMAIN wire[s] : wire[s][i] \in Request
    /\ session \in [Socket -> Sessions]

\* After disconnect() no socket is dialled, whatever timers and calls of
\* connectOnce it left behind ("Does not reconnect").
NoDialAfterDisconnect ==
    [][\A s \in Socket : sock[s] = "closed" /\ sock'[s] = "opening"
                           => ~explicitDisconnect]_vars

\* A failure of the first connect() is the caller's: no retry is armed before
\* the client was ready once.
FirstFailureIsFinal == ~everReady => timers = 0

\* A client that was ready once and has no limit on its attempts (the manager
\* sets none) is ready on a socket that is alive, is dialling or about to, until
\* the owner hangs up.
RetryAlive ==
    MaxAttempts = 0 /\ everReady /\ ~explicitDisconnect =>
        \/ state = "ready" /\ ws # NoSocket /\ sock[ws] = "open"
        \/ timers > 0
        \/ \E s \in Socket : step[s] # "none"

\* Retries exactly when they are owed: none before the client was ready once, and
\* from then on no sequence of failures ends them but the owner's disconnect().
RetryWhenOwed == FirstFailureIsFinal /\ RetryAlive

\* No request waits for an answer on a socket that is gone: its caller was told.
RequestsFollowSocket ==
    \A id \in DOMAIN pending : pending[id] # NoSocket => sock[pending[id]] = "open"

\* A pending reconnect is the only one, and in reconnectTimer, where disconnect()
\* "cancels any pending reconnect".
OneReconnect == timers > 0 => timers = 1 /\ reconnectTimer
===============================================================================
