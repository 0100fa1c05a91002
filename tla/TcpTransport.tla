----------------------------- MODULE TcpTransport -----------------------------
(***************************************************************************)
(* The TCP link to one Meshtastic node (src/src/server/tcpTransport.ts):   *)
(* connect attempts and their timeout, the reconnect timer with its        *)
(* backoff, grace window and sync-loss ladder, the health check and the    *)
(* heartbeat timer.                                                        *)
(*                                                                         *)
(* Every socket event and timer callback is one uninterrupted piece of     *)
(* JavaScript and one action here.  Between destroy() or a socket error    *)
(* and the 'close' event other callbacks run: that gap is the state        *)
(* "closing".  A socket whose listeners were removed and that was          *)
(* destroyed can never be heard of again: its name is "unused" anew.       *)
(***************************************************************************)
EXTENDS Integers, FiniteSets

CONSTANTS
    Socket,           \* names for net.Socket objects
    NoSocket,         \* null
    StaleTimeout,     \* staleConnectionTimeout, 0 disables it
    HeartbeatTimeout, \* three times the heartbeat interval
    ConfigSyncStall,  \* CONFIG_SYNC_STALL_MS
    BufferStale,      \* BUFFER_STALE_TIMEOUT_MS
    MaxAge,           \* ages stop here: beyond every timeout
    MaxAttempts,      \* reconnectAttempts stops here: the delay is at its cap
    Rungs             \* length of SYNC_LOSS_RETRY_LADDER_MS

ASSUME SocketAssumption == NoSocket \notin Socket

ASSUME TimingAssumption ==
    /\ {StaleTimeout, HeartbeatTimeout, ConfigSyncStall, BufferStale,
        MaxAge, MaxAttempts, Rungs} \subseteq Nat
    /\ \A t \in {StaleTimeout, HeartbeatTimeout, ConfigSyncStall, BufferStale} :
            t < MaxAge

VARIABLES
    socket,           \* this.socket
    link,             \* what has become of each socket
    isConnected,
    isConnecting,
    shouldReconnect,
    destroyed,
    connectTimeout,   \* socket of the timer in the connectTimeout handle
    connectTimers,    \* sockets whose connect-timeout timer is pending
    reconnectTimer,   \* which delay the pending reconnect timer has, or "none"
    reconnectAttempts,
    inGrace,          \* the startup-grace window is open
    syncLossRetryPending,
    syncLossRetryStep,
    configSyncActive,
    healthCheck,      \* healthCheckInterval is installed
    heartbeatOn,      \* heartbeatIntervalMs > 0
    heartbeatTimer,   \* heartbeatTimer is installed
    sinceData,        \* age of lastDataReceived
    sinceMessage,     \* age of lastMessageEmitted
    buffered,         \* buffer holds bytes of an incomplete frame
    connectCall,      \* what became of the owner's last connect() promise
    lossMidSync       \* history: the last 'close' cut a running config sync

attemptVars == <<connectTimeout, connectTimers, connectCall>>
retryVars   == <<reconnectTimer, reconnectAttempts, syncLossRetryPending,
                 syncLossRetryStep, lossMidSync>>
flagVars    == <<isConnected, isConnecting, shouldReconnect, destroyed>>
watchVars   == <<healthCheck, sinceData, sinceMessage, buffered>>
beatVars    == <<heartbeatOn, heartbeatTimer>>
vars == <<socket, link, flagVars, attemptVars, retryVars, inGrace,
          configSyncActive, watchVars, beatVars>>

LinkStates == {"unused", "opening", "open", "closing", "closed"}
Delays == {"none", "ladder", "grace", "backoff"}
CallResults == {"none", "waiting", "resolved", "rejected", "abandoned"}

-------------------------------------------------------------------------------
\* Building blocks.

\* Mutants: the timer of a reclaimed attempt stays armed; the reclaimed socket
\* stays open; the ladder has no end; reconnecting is given up.
leaveTimer == connectTimers
leaveSocket == link
endlessLadder(pending) == pending
givesUp == shouldReconnect /\ ~destroyed /\ reconnectAttempts < MaxAttempts

\* teardownSocket: the current socket is stripped of listeners and destroyed.
teardownSocket ==
    [s \in Socket |-> IF s = socket THEN "unused" ELSE link[s]]

\* clearConnectTimeout: the timer in the handle is cancelled.
clearConnectTimeout == connectTimers \ {connectTimeout}

\* socket.destroy() while listening: 'close' will follow.
Destroyed(s) ==
    [link EXCEPT ![s] = IF @ \in {"opening", "open"} THEN "closing" ELSE @]

stopHeartbeat == FALSE

effectiveTimeout == IF heartbeatOn THEN HeartbeatTimeout ELSE StaleTimeout

\* A name no socket or pending timer has.
Fresh(s) == link[s] = "unused" /\ s # socket /\ s \notin connectTimers

\* doConnect: reclaim the old socket, open s, arm the connect timeout.
doConnect(s) ==
    /\ Fresh(s)
    /\ link' = [teardownSocket EXCEPT ![s] = "opening"]
    /\ socket' = s
    /\ isConnecting' = TRUE
    /\ connectTimeout' = s
    /\ connectTimers' = clearConnectTimeout \cup {s}

\* The class fields.
Init ==
    /\ socket = NoSocket
    /\ link = [s \in Socket |-> "unused"]
    /\ isConnected = FALSE /\ isConnecting = FALSE
    /\ shouldReconnect = TRUE /\ destroyed = FALSE
    /\ connectTimeout = NoSocket /\ connectTimers = {}
    /\ reconnectTimer = "none" /\ reconnectAttempts = 0
    /\ syncLossRetryPending = FALSE /\ syncLossRetryStep = 0
    /\ inGrace = FALSE
    /\ configSyncActive = FALSE
    /\ healthCheck = FALSE
    /\ heartbeatOn = FALSE /\ heartbeatTimer = FALSE
    /\ sinceData = 0 /\ sinceMessage = 0 /\ buffered = FALSE
    /\ connectCall = "none"
    /\ lossMidSync = FALSE

-------------------------------------------------------------------------------
\* The owner's calls.

\* meshtasticManager calls connect() once on each transport it builds and
\* never while a reconnect is pending; a torn-down transport may be re-armed.
CanConnect == reconnectTimer = "none"

connect ==
    /\ CanConnect
    /\ ~isConnecting /\ ~isConnected
    /\ shouldReconnect' = TRUE
    /\ destroyed' = FALSE
    /\ connectCall' = "waiting"
    /\ \E s \in Socket : doConnect(s)
    /\ UNCHANGED <<isConnected, retryVars, inGrace, configSyncActive,
                   watchVars, beatVars>>

\* The promise of an attempt cut short here is never settled: the listeners
\* and the timer that would settle it are gone.
disconnect ==
    /\ shouldReconnect' = FALSE
    /\ destroyed' = TRUE
    /\ reconnectTimer' = "none"
    /\ healthCheck' = FALSE
    /\ heartbeatTimer' = stopHeartbeat
    /\ link' = teardownSocket
    /\ socket' = NoSocket
    /\ connectTimers' = clearConnectTimeout
    /\ connectTimeout' = NoSocket
    /\ isConnected' = FALSE /\ isConnecting' = FALSE
    /\ buffered' = FALSE
    /\ connectCall' = IF connectCall = "waiting" THEN "abandoned" ELSE connectCall
    /\ UNCHANGED <<reconnectAttempts, syncLossRetryPending, syncLossRetryStep,
                   lossMidSync, inGrace, configSyncActive, sinceData,
                   sinceMessage, heartbeatOn>>

\* Restarting the health-check interval changes its period only.
setConfigSyncActive(active) ==
    /\ active # configSyncActive
    /\ configSyncActive' = active
    /\ UNCHANGED <<socket, link, flagVars, attemptVars, retryVars, inGrace,
                   watchVars, beatVars>>

resetConfigSyncLossRetries ==
    /\ syncLossRetryStep' = 0
    /\ syncLossRetryPending' = FALSE
    /\ UNCHANGED <<socket, link, flagVars, attemptVars, reconnectTimer,
                   reconnectAttempts, lossMidSync, inGrace, configSyncActive,
                   watchVars, beatVars>>

setStartupGraceReconnect(open) ==
    /\ inGrace' = open
    /\ UNCHANGED <<socket, link, flagVars, attemptVars, retryVars,
                   configSyncActive, watchVars, beatVars>>

\* stopHeartbeat, then startHeartbeat if enabled and online.
setHeartbeatInterval(on) ==
    /\ heartbeatOn' = on
    /\ heartbeatTimer' = (on /\ isConnected)
    /\ UNCHANGED <<socket, link, flagVars, attemptVars, retryVars, inGrace,
                   configSyncActive, watchVars>>

-------------------------------------------------------------------------------
\* Socket events.

\* startHealthCheck returns early when nothing is configured, leaving the
\* interval as it was.
startHealthCheck ==
    IF StaleTimeout = 0 /\ ~heartbeatOn THEN healthCheck ELSE TRUE

SocketConnects(s) ==
    /\ link[s] = "opening"
    /\ link' = [link EXCEPT ![s] = "open"]
    /\ connectTimers' = clearConnectTimeout /\ connectTimeout' = NoSocket
    /\ isConnecting' = FALSE /\ isConnected' = TRUE
    /\ reconnectAttempts' = 0
    /\ sinceData' = 0 /\ sinceMessage' = 0 /\ buffered' = FALSE
    /\ healthCheck' = startHealthCheck
    /\ heartbeatTimer' = (heartbeatTimer \/ heartbeatOn)
    /\ connectCall' = IF connectCall = "waiting" THEN "resolved" ELSE connectCall
    /\ UNCHANGED <<socket, shouldReconnect, destroyed, reconnectTimer,
                   syncLossRetryPending, syncLossRetryStep, lossMidSync,
                   inGrace, configSyncActive, heartbeatOn>>

\* 'error': refused, reset.  The socket is already being destroyed.
SocketErrors(s) ==
    /\ link[s] \in {"opening", "open"}
    /\ link' = Destroyed(s)
    /\ connectTimers' = clearConnectTimeout /\ connectTimeout' = NoSocket
    /\ connectCall' = IF isConnecting /\ connectCall = "waiting"
                      THEN "rejected" ELSE connectCall
    /\ UNCHANGED <<socket, flagVars, retryVars, inGrace, configSyncActive,
                   watchVars, beatVars>>

\* The node hangs up in order: no 'error' before the 'close'.
PeerCloses(s) ==
    /\ link[s] = "open"
    /\ link' = Destroyed(s)
    /\ UNCHANGED <<socket, flagVars, attemptVars, retryVars, inGrace,
                   configSyncActive, watchVars, beatVars>>

\* scheduleReconnect: which delay the next timer gets.
useLadder(pending) == pending /\ syncLossRetryStep < Rungs

reconnectDelay(pending) ==
    IF useLadder(pending) THEN "ladder"
    ELSE IF inGrace THEN "grace" ELSE "backoff"

\* It describes the disconnect that just happened and is consumed either way.
pendingAfter(pending) == FALSE

mayReconnect == shouldReconnect /\ ~destroyed

scheduleReconnect(pending) ==
    IF mayReconnect
    THEN /\ reconnectTimer' = reconnectDelay(pending)
         /\ reconnectAttempts' = IF reconnectAttempts < MaxAttempts
                                 THEN reconnectAttempts + 1 ELSE MaxAttempts
         /\ syncLossRetryStep' = IF useLadder(pending)
                                 THEN syncLossRetryStep + 1
                                 ELSE syncLossRetryStep
         /\ syncLossRetryPending' = pendingAfter(pending)
    ELSE /\ syncLossRetryPending' = pending
         /\ UNCHANGED <<reconnectTimer, reconnectAttempts, syncLossRetryStep>>

\* Inside emit('disconnect') the owner's handleDisconnected runs up to its
\* first await: it notes a loss when the sync is running, and disarms the
\* sync watchdog unless a passive source keeps its snapshot.
noteConfigSyncLoss == syncLossRetryPending \/ (isConnected /\ configSyncActive)

SocketCloses(s) ==
    /\ link[s] = "closing"
    /\ link' = [link EXCEPT ![s] = "closed"]
    /\ connectTimers' = clearConnectTimeout /\ connectTimeout' = NoSocket
    /\ isConnecting' = FALSE /\ isConnected' = FALSE
    /\ heartbeatTimer' = stopHeartbeat
    /\ lossMidSync' = (isConnected /\ configSyncActive)
    /\ \/ configSyncActive' = configSyncActive
       \/ isConnected /\ configSyncActive' = FALSE
    /\ scheduleReconnect(noteConfigSyncLoss)
    /\ UNCHANGED <<socket, shouldReconnect, destroyed, inGrace, watchVars,
                   heartbeatOn, connectCall>>

\* handleIncomingData: a chunk may complete frames, and may leave a rest.
handleIncomingData(s) ==
    /\ link[s] = "open"
    /\ sinceData' = 0
    /\ sinceMessage' \in {0, sinceMessage}
    /\ buffered' \in BOOLEAN
    /\ UNCHANGED <<socket, link, flagVars, attemptVars, retryVars, inGrace,
                   configSyncActive, healthCheck, beatVars>>

-------------------------------------------------------------------------------
\* Timers.

\* The timer is bound to its attempt's socket; it rejects the promise and
\* leaves the rest to 'close'.
timesOut(s) == socket = s /\ isConnecting

ConnectTimeoutFires(s) ==
    /\ s \in connectTimers
    /\ connectTimers' = connectTimers \ {s}
    /\ connectTimeout' = NoSocket
    /\ IF timesOut(s)
       THEN /\ link' = Destroyed(s)
            /\ connectCall' = IF connectCall = "waiting" THEN "rejected"
                              ELSE connectCall
       ELSE UNCHANGED <<link, connectCall>>
    /\ UNCHANGED <<socket, flagVars, retryVars, inGrace, configSyncActive,
                   watchVars, beatVars>>

ReconnectTimerFires ==
    /\ reconnectTimer # "none"
    /\ reconnectTimer' = "none"
    /\ IF destroyed
       THEN UNCHANGED <<socket, link, isConnecting, connectTimeout, connectTimers>>
       ELSE \E s \in Socket : doConnect(s)
    /\ UNCHANGED <<isConnected, shouldReconnect, destroyed, connectCall,
                   reconnectAttempts, syncLossRetryPending, syncLossRetryStep,
                   lossMidSync, inGrace, configSyncActive, watchVars, beatVars>>

\* checkConnection: the sync stall, the idle limit, a buffer that never
\* completes a frame, and data without messages.
syncStalled == configSyncActive /\ sinceData > ConfigSyncStall
staleBuffer == buffered /\ sinceMessage > BufferStale
phantom     == ~staleBuffer /\ sinceMessage > StaleTimeout
mustDrop    == syncStalled \/ sinceData > effectiveTimeout \/ phantom

checkConnection ==
    /\ healthCheck /\ isConnected /\ effectiveTimeout # 0
    /\ \/ /\ mustDrop /\ socket # NoSocket
          /\ link' = Destroyed(socket)
          /\ buffered' = buffered
       \/ /\ ~mustDrop /\ staleBuffer
          /\ buffered' = FALSE
          /\ link' = link
    /\ UNCHANGED <<socket, flagVars, attemptVars, retryVars, inGrace,
                   configSyncActive, healthCheck, sinceData, sinceMessage,
                   beatVars>>

GraceExpires ==
    /\ inGrace /\ inGrace' = FALSE
    /\ UNCHANGED <<socket, link, flagVars, attemptVars, retryVars,
                   configSyncActive, watchVars, beatVars>>

\* Ages matter while connected only: 'connect' stamps them anew.
Tick ==
    /\ isConnected
    /\ sinceMessage < MaxAge \/ sinceData < MaxAge
    /\ sinceData' = IF sinceData < MaxAge THEN sinceData + 1 ELSE MaxAge
    /\ sinceMessage' = IF sinceMessage < MaxAge THEN sinceMessage + 1 ELSE MaxAge
    /\ UNCHANGED <<socket, link, flagVars, attemptVars, retryVars, inGrace,
                   configSyncActive, healthCheck, buffered, beatVars>>

OwnerStep ==
    \/ connect
    \/ disconnect
    \/ \E b \in BOOLEAN : setConfigSyncActive(b)
    \/ resetConfigSyncLossRetries
    \/ \E b \in BOOLEAN : setStartupGraceReconnect(b)
    \/ \E b \in BOOLEAN : setHeartbeatInterval(b)

SocketStep(s) ==
    \/ SocketConnects(s)
    \/ SocketErrors(s)
    \/ PeerCloses(s)
    \/ SocketCloses(s)
    \/ handleIncomingData(s)
    \/ ConnectTimeoutFires(s)

TimerStep == ReconnectTimerFires \/ checkConnection \/ GraceExpires \/ Tick

Next == OwnerStep \/ TimerStep \/ \E s \in Socket : SocketStep(s)

Spec == Init /\ [][Next]_vars

\* Timers fire and a destroyed socket reports 'close'.
Fairness ==
    /\ WF_vars(ReconnectTimerFires)
    /\ WF_vars(checkConnection)
    /\ WF_vars(Tick)
    /\ \A s \in Socket : /\ WF_vars(SocketCloses(s))
                         /\ WF_vars(ConnectTimeoutFires(s))

FairSpec == Spec /\ Fairness

-------------------------------------------------------------------------------
\* Properties.

SocketTypes ==
    /\ socket \in Socket \cup {NoSocket}
    /\ link \in [Socket -> LinkStates]
    /\ connectTimeout \in Socket \cup {NoSocket}
    /\ connectTimers \subseteq Socket
    /\ connectCall \in CallResults
    /\ reconnectTimer \in Delays

FlagTypes ==
    /\ isConnected \in BOOLEAN /\ isConnecting \in BOOLEAN
    /\ shouldReconnect \in BOOLEAN /\ destroyed \in BOOLEAN
    /\ syncLossRetryPending \in BOOLEAN /\ lossMidSync \in BOOLEAN
    /\ inGrace \in BOOLEAN /\ configSyncActive \in BOOLEAN
    /\ healthCheck \in BOOLEAN /\ buffered \in BOOLEAN
    /\ heartbeatOn \in BOOLEAN /\ heartbeatTimer \in BOOLEAN

CountTypes ==
    /\ reconnectAttempts \in 0..MaxAttempts
    /\ syncLossRetryStep \in 0..Rungs
    /\ sinceData \in 0..MaxAge
    /\ sinceMessage \in 0..MaxAge

\* Every variable of the transport has its type.
TypeOK == SocketTypes /\ FlagTypes /\ CountTypes

AtNode == {s \in Socket : link[s] \in {"opening", "open"}}

\* The node never sees two connections of one transport: every new attempt
\* and every teardown reclaims the socket before it (#3270).
OneSocketAtNode == \A s, t \in AtNode : s = t

\* A pending connect timeout belongs to the attempt in progress: none outlives
\* its socket to hit a later, healthy connection (#5122).
NoStaleTimer == \A s \in connectTimers : s = socket /\ link[s] = "opening"

\* A transport that was hung up on holds no socket and no timer that could
\* bring it back to life (#3270).
TornDownStaysDown ==
    destroyed => /\ \A s \in Socket : link[s] = "unused"
                 /\ connectTimers = {}
                 /\ reconnectTimer = "none"
                 /\ ~healthCheck /\ ~heartbeatTimer
                 /\ ~isConnected /\ ~isConnecting

\* The flags tell the truth about the socket: an attempt has a socket that is
\* opening or failing, an established link one that is open or whose 'close'
\* is still to come, and never both at once.
FlagsMatchSocket ==
    /\ ~(isConnected /\ isConnecting)
    /\ isConnecting => /\ socket # NoSocket
                       /\ link[socket] \in {"opening", "closing"}
    /\ isConnected => /\ socket # NoSocket
                      /\ link[socket] \in {"open", "closing"}

\* A link that is wanted is never forgotten: from connect() to disconnect()
\* it is up, an attempt is under way, or a reconnect timer is pending.
AlwaysRetrying ==
    (socket # NoSocket /\ ~destroyed) =>
        (isConnected \/ isConnecting \/ reconnectTimer # "none")

\* The heartbeat runs exactly while a configured link is up, whatever the
\* order of setHeartbeatInterval, connects and losses.
HeartbeatFollowsLink == heartbeatTimer <=> (isConnected /\ heartbeatOn)

\* The fast ramp of #5122 serves only the reconnect right after a link that
\* was lost in the middle of a config sync; it never leaks into a later one.
LadderOnlyAfterSyncLoss == reconnectTimer = "ladder" => lossMidSync

\* One link, told truly: the node sees at most one connection (#3270), the flags
\* say what the socket is, and a link that is wanted is up, tried or due.
LinkTruthful == OneSocketAtNode /\ FlagsMatchSocket /\ AlwaysRetrying

\* No timer outlives what it is for: the connect timeout its attempt (#5122), the
\* heartbeat its link, the fast ramp its loss, and none of them the hang-up.
TimersTruthful ==
    NoStaleTimer /\ HeartbeatFollowsLink /\ LadderOnlyAfterSyncLoss /\ TornDownStaysDown

\* The owner sees the link it was promised: Link, with the connections the
\* node can see and what 'connect' and 'disconnect' events have told.
Phase == IF isConnected THEN "up"
         ELSE IF destroyed \/ socket = NoSocket THEN "idle" ELSE "seeking"
Promise == INSTANCE Link WITH phase <- Phase, conns <- AtNode
KeepsPromise == Promise!Spec

\* A connect() call settles unless the owner hangs up on it.
ConnectCallSettles == connectCall = "waiting" ~> connectCall # "waiting"

\* A peer that stays silent beyond the limit in force is given up on.
DeadPeerDropped ==
    (isConnected /\ effectiveTimeout > 0 /\ sinceData > effectiveTimeout)
        ~> (~isConnected \/ sinceData = 0)

\* A node that is tried again and again answers some day.
NodeAnswers == \A s \in Socket : SF_vars(SocketConnects(s))

\* If the node answers, a link that is wanted comes up: no sequence of losses,
\* errors and timeouts stops the retries.
ComesUp == NodeAnswers => (connectCall # "none" ~> (isConnected \/ destroyed))

\* Nothing waits for ever: a connect() call settles unless it is hung up on, a
\* silent peer is given up, and a wanted link comes up if the node answers.
NeverStuck == ConnectCallSettles /\ DeadPeerDropped /\ ComesUp

-------------------------------------------------------------------------------
\* What a comment of the source claims and the code does not keep.

\* "0 to disable": with the idle limit off, only silence beyond the heartbeat
\* limit or a stalled sync ends a link.  The phantom test compares with the 0.
ZeroDisables ==
    [][StaleTimeout = 0 /\ checkConnection /\ link' # link =>
          syncStalled \/ sinceData > effectiveTimeout]_vars
===============================================================================
