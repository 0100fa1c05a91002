-------------------------- MODULE TcpTransportProofs --------------------------
(***************************************************************************)
(* The safety of TcpTransport for any set of socket names and any timing,  *)
(* and that it implements Link.  The inductive invariant IInv says which   *)
(* socket may be alive, what each of its states means for the flags and    *)
(* which timers may be pending then.                                       *)
(***************************************************************************)
EXTENDS TcpTransport, TLAPS

\* The constants that bound ages and counters are natural numbers.
LEMMA Constants ==
    /\ MaxAge \in Nat /\ MaxAttempts \in Nat /\ Rungs \in Nat
    /\ NoSocket \notin Socket
  BY SocketAssumption, TimingAssumption DEF SocketAssumption, TimingAssumption

-------------------------------------------------------------------------------
\* The inductive invariant.

\* Only the current socket exists, and it is never a reclaimed one.
OnlyCurrent ==
    /\ \A s \in Socket : s # socket => link[s] = "unused"
    /\ socket # NoSocket => link[socket] # "unused"

\* The flags follow the socket (FlagsMatchSocket is the other direction).
SocketMatchesFlags ==
    \A s \in Socket :
        /\ link[s] = "opening" => isConnecting
        /\ link[s] = "open" => isConnected
        /\ link[s] = "closing" => isConnecting \/ isConnected

\* A pending connect timeout is in the handle, so it can be cancelled.
TimerInHandle == \A s \in connectTimers : s = connectTimeout

\* A reconnect is pending only between attempts of a wanted link.
BackoffIsIdle ==
    reconnectTimer # "none" => ~isConnecting /\ ~isConnected /\ socket # NoSocket

\* A transport with a socket is wanted; one that was hung up on has neither a
\* socket nor an interval.
Wanted ==
    /\ socket # NoSocket => shouldReconnect /\ ~destroyed
    /\ destroyed => ~healthCheck /\ ~heartbeatTimer
    /\ ~syncLossRetryPending

Safe ==
    /\ OnlyCurrent
    /\ SocketMatchesFlags
    /\ FlagsMatchSocket
    /\ NoStaleTimer
    /\ TimerInHandle
    /\ BackoffIsIdle
    /\ Wanted
    /\ AlwaysRetrying
    /\ HeartbeatFollowsLink
    /\ LadderOnlyAfterSyncLoss

IInv == TypeOK /\ Safe

\* A fresh transport satisfies the invariant.
THEOREM InitInv == Init => IInv
<1>. SUFFICES ASSUME Init PROVE IInv
  OBVIOUS
<1>1. TypeOK
  <2>1. SocketTypes
    BY DEF Init, SocketTypes, LinkStates, CallResults, Delays
  <2>2. FlagTypes
    BY DEF Init, FlagTypes
  <2>3. CountTypes
    BY Constants DEF Init, CountTypes
  <2>. QED  BY <2>1, <2>2, <2>3 DEF TypeOK
<1>2. OnlyCurrent /\ SocketMatchesFlags /\ NoStaleTimer /\ TimerInHandle
  BY DEF Init, OnlyCurrent, SocketMatchesFlags, NoStaleTimer, TimerInHandle
<1>3. FlagsMatchSocket /\ BackoffIsIdle /\ AlwaysRetrying
  BY DEF Init, FlagsMatchSocket, BackoffIsIdle, AlwaysRetrying
<1>4. Wanted /\ HeartbeatFollowsLink /\ LadderOnlyAfterSyncLoss
  BY DEF Init, Wanted, HeartbeatFollowsLink, LadderOnlyAfterSyncLoss
<1>. QED  BY <1>1, <1>2, <1>3, <1>4 DEF IInv, Safe

-------------------------------------------------------------------------------
\* What the building blocks do to the sockets.

\* teardownSocket leaves no socket at all.
LEMMA TeardownAll ==
    ASSUME link \in [Socket -> LinkStates], OnlyCurrent
    PROVE  teardownSocket = [s \in Socket |-> "unused"]
  BY DEF OnlyCurrent, teardownSocket

\* doConnect leaves one socket, opening, with its timer.
LEMMA DoConnectEffect ==
    ASSUME link \in [Socket -> LinkStates], OnlyCurrent, TimerInHandle,
           connectTimers \subseteq Socket,
           NEW s \in Socket, doConnect(s)
    PROVE  /\ link' = [t \in Socket |-> IF t = s THEN "opening" ELSE "unused"]
           /\ socket' = s /\ connectTimeout' = s /\ connectTimers' = {s}
           /\ isConnecting' = TRUE
<1>1. teardownSocket = [t \in Socket |-> "unused"]
  BY TeardownAll
<1>2. clearConnectTimeout = {}
  BY DEF TimerInHandle, clearConnectTimeout
<1>. QED  BY <1>1, <1>2 DEF doConnect

\* destroy() makes a live socket "closing" and touches no other.
LEMMA DestroyEffect ==
    ASSUME link \in [Socket -> LinkStates], NEW s \in Socket
    PROVE  /\ Destroyed(s) \in [Socket -> LinkStates]
           /\ \A t \in Socket : t # s => Destroyed(s)[t] = link[t]
           /\ Destroyed(s)[s] = IF link[s] \in {"opening", "open"} THEN "closing"
                                ELSE link[s]
  BY DEF Destroyed, LinkStates

\* The facts about one live socket that every socket event starts from.
LEMMA LiveSocket ==
    ASSUME IInv, NEW s \in Socket, link[s] \in {"opening", "open", "closing"}
    PROVE  /\ s = socket /\ socket # NoSocket
           /\ shouldReconnect /\ ~destroyed
           /\ reconnectTimer = "none"
           /\ link[s] = "opening" => isConnecting /\ ~isConnected
           /\ link[s] = "open" => isConnected /\ ~isConnecting
           /\ isConnecting \/ isConnected
           /\ clearConnectTimeout = {}
  BY SocketAssumption DEF SocketAssumption, IInv, Safe, TypeOK, SocketTypes, OnlyCurrent,
     SocketMatchesFlags, FlagsMatchSocket, BackoffIsIdle, Wanted, TimerInHandle,
     clearConnectTimeout

-------------------------------------------------------------------------------
\* The owner's calls keep the invariant.

\* connect() on an idle transport.
LEMMA ConnectStep == IInv /\ connect => IInv'
<1>. SUFFICES ASSUME IInv, connect PROVE IInv'
  OBVIOUS
<1>. USE DEF IInv, Safe
<1>1. PICK s \in Socket : doConnect(s)
  BY DEF connect
<1>2. /\ link' = [t \in Socket |-> IF t = s THEN "opening" ELSE "unused"]
      /\ socket' = s /\ connectTimeout' = s /\ connectTimers' = {s}
      /\ isConnecting' = TRUE
  BY <1>1, DoConnectEffect DEF TypeOK, SocketTypes, FlagTypes, CountTypes
<1>3. /\ shouldReconnect' = TRUE /\ destroyed' = FALSE
      /\ connectCall' = "waiting"
      /\ reconnectTimer = "none" /\ ~isConnected
      /\ isConnected' = isConnected /\ syncLossRetryPending' = syncLossRetryPending
      /\ reconnectTimer' = reconnectTimer /\ lossMidSync' = lossMidSync
      /\ heartbeatTimer' = heartbeatTimer /\ heartbeatOn' = heartbeatOn
      /\ UNCHANGED <<reconnectAttempts, syncLossRetryStep, inGrace,
                     configSyncActive, healthCheck, sinceData, sinceMessage,
                     buffered>>
  BY DEF connect, CanConnect, retryVars, watchVars, beatVars
<1>4. TypeOK'
  <2>1. SocketTypes'
    BY <1>2, <1>3 DEF TypeOK, SocketTypes, LinkStates, CallResults
  <2>2. FlagTypes'
    BY <1>2, <1>3 DEF TypeOK, FlagTypes
  <2>3. CountTypes'
    BY <1>3 DEF TypeOK, CountTypes
  <2>. QED  BY <2>1, <2>2, <2>3 DEF TypeOK
<1>5. (OnlyCurrent /\ SocketMatchesFlags)'
  BY <1>2, <1>3 DEF OnlyCurrent, SocketMatchesFlags
<1>9. FlagsMatchSocket'
  <2>1. link'[socket'] = "opening" /\ socket' # NoSocket
    BY <1>2, SocketAssumption DEF SocketAssumption
  <2>. QED  BY <1>2, <1>3, <2>1 DEF FlagsMatchSocket
<1>6. (NoStaleTimer /\ TimerInHandle)'
  BY <1>2 DEF NoStaleTimer, TimerInHandle
<1>7. (BackoffIsIdle /\ Wanted /\ AlwaysRetrying)'
  BY <1>2, <1>3 DEF BackoffIsIdle, Wanted, AlwaysRetrying, retryVars
<1>8. (HeartbeatFollowsLink /\ LadderOnlyAfterSyncLoss)'
  BY <1>3 DEF HeartbeatFollowsLink, LadderOnlyAfterSyncLoss, retryVars, beatVars
<1>. QED  BY <1>4, <1>5, <1>9, <1>6, <1>7, <1>8

\* disconnect() in any state.
LEMMA DisconnectStep == IInv /\ disconnect => IInv'
<1>. SUFFICES ASSUME IInv, disconnect PROVE IInv'
  OBVIOUS
<1>. USE DEF IInv, Safe
<1>1. link' = [s \in Socket |-> "unused"] /\ connectTimers' = {}
  BY TeardownAll DEF disconnect, TypeOK, SocketTypes, TimerInHandle, clearConnectTimeout
<1>2. /\ socket' = NoSocket /\ connectTimeout' = NoSocket
      /\ shouldReconnect' = FALSE /\ destroyed' = TRUE
      /\ isConnected' = FALSE /\ isConnecting' = FALSE
      /\ reconnectTimer' = "none" /\ healthCheck' = FALSE
      /\ heartbeatTimer' = FALSE /\ buffered' = FALSE
      /\ connectCall' \in {"abandoned", connectCall}
      /\ UNCHANGED <<reconnectAttempts, syncLossRetryPending, syncLossRetryStep,
                     lossMidSync, inGrace, configSyncActive, sinceData,
                     sinceMessage, heartbeatOn>>
  BY DEF disconnect, stopHeartbeat
<1>3. TypeOK'
  <2>1. SocketTypes'
    BY <1>1, <1>2 DEF TypeOK, SocketTypes, LinkStates, CallResults, Delays
  <2>2. FlagTypes'
    BY <1>2 DEF TypeOK, FlagTypes
  <2>3. CountTypes'
    BY <1>2 DEF TypeOK, CountTypes
  <2>. QED  BY <2>1, <2>2, <2>3 DEF TypeOK
<1>4. (OnlyCurrent /\ SocketMatchesFlags /\ FlagsMatchSocket)'
  BY <1>1, <1>2 DEF OnlyCurrent, SocketMatchesFlags, FlagsMatchSocket
<1>5. (NoStaleTimer /\ TimerInHandle)'
  BY <1>1 DEF NoStaleTimer, TimerInHandle
<1>6. (BackoffIsIdle /\ Wanted /\ AlwaysRetrying)'
  BY <1>2 DEF BackoffIsIdle, Wanted, AlwaysRetrying
<1>7. (HeartbeatFollowsLink /\ LadderOnlyAfterSyncLoss)'
  BY <1>2 DEF HeartbeatFollowsLink, LadderOnlyAfterSyncLoss
<1>. QED  BY <1>3, <1>4, <1>5, <1>6, <1>7

\* Steps that leave the socket, the flags and the timers of attempts alone.
Quiet ==
    /\ socket' = socket /\ link' = link
    /\ isConnected' = isConnected /\ isConnecting' = isConnecting
    /\ shouldReconnect' = shouldReconnect /\ destroyed' = destroyed
    /\ connectTimeout' = connectTimeout /\ connectTimers' = connectTimers
    /\ connectCall' = connectCall
    /\ reconnectTimer' = reconnectTimer /\ lossMidSync' = lossMidSync

\* A step that touches neither sockets nor reconnect timers keeps the invariant.
LEMMA QuietStep ==
    ASSUME IInv, Quiet, TypeOK', HeartbeatFollowsLink',
           syncLossRetryPending' \in {FALSE, syncLossRetryPending},
           healthCheck' = healthCheck,
           heartbeatTimer' => isConnected
    PROVE  IInv'
<1>. USE DEF IInv, Safe, Quiet, flagVars, attemptVars
<1>1. (OnlyCurrent /\ SocketMatchesFlags /\ FlagsMatchSocket)'
  BY DEF OnlyCurrent, SocketMatchesFlags, FlagsMatchSocket
<1>2. (NoStaleTimer /\ TimerInHandle)'
  BY DEF NoStaleTimer, TimerInHandle
<1>3. (BackoffIsIdle /\ AlwaysRetrying /\ LadderOnlyAfterSyncLoss)'
  BY DEF BackoffIsIdle, AlwaysRetrying, LadderOnlyAfterSyncLoss
<1>4. isConnected => ~destroyed
  BY DEF FlagsMatchSocket, Wanted
<1>6. ~syncLossRetryPending'
  BY DEF Wanted
<1>5. Wanted'
  BY <1>4, <1>6 DEF Wanted
<1>. QED  BY <1>1, <1>2, <1>3, <1>5

\* The owner's setters are such steps.
LEMMA OwnerSettingsStep ==
    ASSUME IInv,
           \/ \E b \in BOOLEAN : setConfigSyncActive(b)
           \/ resetConfigSyncLossRetries
           \/ \E b \in BOOLEAN : setStartupGraceReconnect(b)
           \/ \E b \in BOOLEAN : setHeartbeatInterval(b)
           \/ GraceExpires
           \/ Tick
           \/ \E s \in Socket : handleIncomingData(s)
    PROVE  IInv'
<1>1. Quiet /\ healthCheck' = healthCheck
  BY DEF setConfigSyncActive, resetConfigSyncLossRetries,
     setStartupGraceReconnect, setHeartbeatInterval, GraceExpires, Tick,
     handleIncomingData, Quiet, flagVars, attemptVars, retryVars, watchVars
<1>2. syncLossRetryPending' \in {FALSE, syncLossRetryPending}
  BY DEF setConfigSyncActive, resetConfigSyncLossRetries,
     setStartupGraceReconnect, setHeartbeatInterval, GraceExpires, Tick,
     handleIncomingData, retryVars, watchVars, beatVars
<1>7. \/ heartbeatTimer' = heartbeatTimer /\ heartbeatOn' = heartbeatOn
      \/ heartbeatOn' \in BOOLEAN /\ heartbeatTimer' = (heartbeatOn' /\ isConnected)
  BY DEF setConfigSyncActive, resetConfigSyncLossRetries,
     setStartupGraceReconnect, setHeartbeatInterval, GraceExpires, Tick,
     handleIncomingData, retryVars, watchVars, beatVars
<1>8. /\ configSyncActive' \in BOOLEAN \/ configSyncActive' = configSyncActive
      /\ inGrace' \in BOOLEAN \/ inGrace' = inGrace
      /\ buffered' \in BOOLEAN \/ buffered' = buffered
  BY DEF setConfigSyncActive, resetConfigSyncLossRetries,
     setStartupGraceReconnect, setHeartbeatInterval, GraceExpires, Tick,
     handleIncomingData, retryVars, watchVars, beatVars
<1>3. CountTypes'
  BY Constants DEF IInv, TypeOK, CountTypes, setConfigSyncActive,
     resetConfigSyncLossRetries, setStartupGraceReconnect,
     setHeartbeatInterval, GraceExpires, Tick, handleIncomingData, retryVars,
     watchVars
<1>4. FlagTypes'
  <2>1. heartbeatOn' \in BOOLEAN /\ heartbeatTimer' \in BOOLEAN
    BY <1>7 DEF IInv, TypeOK, FlagTypes
  <2>. QED  BY <1>1, <1>2, <1>8, <2>1 DEF IInv, TypeOK, FlagTypes, Quiet
<1>5. SocketTypes'
  BY <1>1 DEF IInv, TypeOK, SocketTypes, Quiet
<1>6. HeartbeatFollowsLink' /\ (heartbeatTimer' => isConnected)
  BY <1>1, <1>7 DEF IInv, Safe, TypeOK, FlagTypes, HeartbeatFollowsLink, Quiet
<1>. QED  BY <1>1, <1>2, <1>3, <1>4, <1>5, <1>6, QuietStep DEF TypeOK

-------------------------------------------------------------------------------
\* Socket events and timers keep the invariant.

\* A socket that is established.
LEMMA SocketConnectsStep ==
    ASSUME IInv, NEW s \in Socket, SocketConnects(s) PROVE IInv'
<1>1. link[s] = "opening" /\ link' = [link EXCEPT ![s] = "open"]
  BY DEF SocketConnects
<1>2. /\ s = socket /\ socket # NoSocket
      /\ shouldReconnect /\ ~destroyed /\ reconnectTimer = "none"
      /\ connectTimers' = {}
  BY <1>1, LiveSocket DEF SocketConnects
<1>3. /\ socket' = socket /\ connectTimeout' = NoSocket
      /\ isConnecting' = FALSE /\ isConnected' = TRUE
      /\ shouldReconnect' = shouldReconnect /\ destroyed' = destroyed
      /\ reconnectTimer' = reconnectTimer /\ lossMidSync' = lossMidSync
      /\ syncLossRetryPending' = syncLossRetryPending
      /\ connectCall' \in {"resolved", connectCall}
      /\ inGrace' = inGrace /\ configSyncActive' = configSyncActive
      /\ heartbeatOn' = heartbeatOn /\ buffered' = FALSE
  BY DEF SocketConnects
<1>4. healthCheck' \in BOOLEAN
  BY DEF SocketConnects, startHealthCheck, IInv, TypeOK, FlagTypes
<1>5. heartbeatTimer' \in BOOLEAN /\ (heartbeatTimer' <=> heartbeatOn)
  BY DEF SocketConnects, IInv, Safe, TypeOK, FlagTypes, HeartbeatFollowsLink
<1>6. \A t \in Socket : link'[t] = IF t = s THEN "open" ELSE link[t]
  BY <1>1 DEF IInv, TypeOK, SocketTypes
<1>7. TypeOK'
  <2>1. SocketTypes'
    BY <1>1, <1>2, <1>3 DEF IInv, TypeOK, SocketTypes, LinkStates, CallResults
  <2>2. FlagTypes'
    BY <1>3, <1>4, <1>5 DEF IInv, TypeOK, FlagTypes
  <2>3. CountTypes'
    BY Constants DEF SocketConnects, IInv, TypeOK, CountTypes
  <2>. QED  BY <2>1, <2>2, <2>3 DEF TypeOK
<1>8. (OnlyCurrent /\ SocketMatchesFlags /\ NoStaleTimer /\ TimerInHandle)'
  BY <1>2, <1>3, <1>6 DEF IInv, Safe, OnlyCurrent, SocketMatchesFlags,
     NoStaleTimer, TimerInHandle
<1>9. (FlagsMatchSocket /\ BackoffIsIdle /\ AlwaysRetrying)'
  BY <1>2, <1>3, <1>6 DEF FlagsMatchSocket, BackoffIsIdle, AlwaysRetrying
<1>10. (Wanted /\ LadderOnlyAfterSyncLoss)'
  BY <1>2, <1>3 DEF IInv, Safe, Wanted, LadderOnlyAfterSyncLoss
<1>11. HeartbeatFollowsLink'
  BY <1>3, <1>5 DEF HeartbeatFollowsLink
<1>. QED  BY <1>7, <1>8, <1>9, <1>10, <1>11 DEF IInv, Safe

\* A live socket that fails: destroyed with 'close' to come, or failing already.
Fails(s) ==
    /\ link[s] \in {"opening", "open", "closing"} /\ link' = Destroyed(s)
    /\ socket' = socket
    /\ isConnected' = isConnected /\ isConnecting' = isConnecting
    /\ shouldReconnect' = shouldReconnect /\ destroyed' = destroyed
    /\ connectTimers' = {} /\ connectTimeout' \in {NoSocket, connectTimeout}
    /\ connectCall' \in {"rejected", connectCall}
    /\ reconnectTimer' = reconnectTimer /\ reconnectAttempts' = reconnectAttempts
    /\ lossMidSync' = lossMidSync /\ inGrace' = inGrace
    /\ syncLossRetryPending' = syncLossRetryPending
    /\ syncLossRetryStep' = syncLossRetryStep
    /\ configSyncActive' = configSyncActive
    /\ healthCheck' = healthCheck /\ buffered' = buffered
    /\ sinceData' = sinceData /\ sinceMessage' = sinceMessage
    /\ heartbeatOn' = heartbeatOn /\ heartbeatTimer' = heartbeatTimer

\* A socket that fails: an error, a close by the peer, a timeout, a dropped link.
LEMMA FailStep ==
    ASSUME IInv, NEW s \in Socket, Fails(s) PROVE IInv'
<1>1. s = socket
  BY LiveSocket DEF Fails
<1>2. /\ link' \in [Socket -> LinkStates] /\ link'[s] = "closing"
      /\ \A t \in Socket : t # s => link'[t] = link[t]
  BY DestroyEffect DEF Fails, IInv, TypeOK, SocketTypes
<1>3. TypeOK'
  <2>1. SocketTypes'
    BY <1>2 DEF Fails, IInv, TypeOK, SocketTypes, CallResults
  <2>2. FlagTypes'
    BY DEF Fails, IInv, TypeOK, FlagTypes
  <2>3. CountTypes'
    BY DEF Fails, IInv, TypeOK, CountTypes
  <2>. QED  BY <2>1, <2>2, <2>3 DEF TypeOK
<1>4. (OnlyCurrent /\ NoStaleTimer /\ TimerInHandle)'
  BY <1>1, <1>2 DEF Fails, IInv, Safe, OnlyCurrent, NoStaleTimer, TimerInHandle
<1>5. isConnecting \/ isConnected
  BY LiveSocket DEF Fails
<1>6. (SocketMatchesFlags /\ FlagsMatchSocket)'
  BY <1>1, <1>2, <1>5 DEF Fails, IInv, Safe, OnlyCurrent, SocketMatchesFlags,
     FlagsMatchSocket
<1>7. (BackoffIsIdle /\ Wanted /\ AlwaysRetrying)'
  BY DEF Fails, IInv, Safe, BackoffIsIdle, Wanted, AlwaysRetrying
<1>8. (HeartbeatFollowsLink /\ LadderOnlyAfterSyncLoss)'
  BY DEF Fails, IInv, Safe, HeartbeatFollowsLink, LadderOnlyAfterSyncLoss
<1>. QED  BY <1>3, <1>4, <1>6, <1>7, <1>8 DEF IInv, Safe

\* No connect timeout is pending once a socket is open or closing.
LEMMA OpenHasNoTimer ==
    ASSUME IInv, isConnected PROVE connectTimers = {}
<1>1. ~isConnecting
  BY DEF IInv, Safe, FlagsMatchSocket
<1>2. \A s \in Socket : link[s] # "opening"
  BY <1>1 DEF IInv, Safe, SocketMatchesFlags
<1>. QED  BY <1>2 DEF IInv, Safe, TypeOK, SocketTypes, NoStaleTimer

\* A socket's 'error' is a failure of the current socket.
LEMMA SocketErrorsFails ==
    ASSUME IInv, NEW s \in Socket, SocketErrors(s) PROVE Fails(s)
<1>1. link[s] \in {"opening", "open"}
  BY DEF SocketErrors
<1>2. clearConnectTimeout = {}
  BY <1>1, LiveSocket
<1>. QED  BY <1>1, <1>2 DEF SocketErrors, Fails, flagVars, retryVars, watchVars,
             beatVars

\* So is a close by the peer.
LEMMA PeerClosesFails ==
    ASSUME IInv, NEW s \in Socket, PeerCloses(s) PROVE Fails(s)
<1>1. link[s] = "open"
  BY DEF PeerCloses
<1>2. connectTimers = {}
  BY <1>1, LiveSocket, OpenHasNoTimer
<1>. QED  BY <1>1, <1>2 DEF PeerCloses, Fails, flagVars, attemptVars, retryVars,
             watchVars, beatVars

\* So is the connect timeout.
LEMMA ConnectTimeoutFails ==
    ASSUME IInv, NEW s \in Socket, ConnectTimeoutFires(s) PROVE Fails(s)
<1>1. s \in connectTimers
  BY DEF ConnectTimeoutFires
<1>2. s = socket /\ link[s] = "opening" /\ connectTimers \ {s} = {}
  BY <1>1 DEF IInv, Safe, NoStaleTimer
<1>3. timesOut(s)
  BY <1>2 DEF timesOut, IInv, Safe, SocketMatchesFlags
<1>. QED  BY <1>2, <1>3 DEF ConnectTimeoutFires, Fails, flagVars, retryVars,
             watchVars, beatVars

\* The health check, which drops the link or not.
LEMMA CheckStep == IInv /\ checkConnection => IInv'
<1>. SUFFICES ASSUME IInv, checkConnection PROVE IInv'
  OBVIOUS
<1>1. isConnected /\ connectTimers = {}
  BY OpenHasNoTimer DEF checkConnection
<1>2. CASE link' = Destroyed(socket) /\ socket # NoSocket /\ buffered' = buffered
  <2>1. link[socket] \in {"open", "closing"} /\ socket \in Socket
    BY <1>1, <1>2 DEF IInv, Safe, TypeOK, SocketTypes, FlagsMatchSocket
  <2>2. Fails(socket)
    BY <1>1, <1>2, <2>1 DEF checkConnection, Fails, flagVars, attemptVars,
       retryVars, beatVars
  <2>. QED  BY <2>1, <2>2, FailStep
<1>3. CASE link' = link /\ buffered' = FALSE
  <2>1. Quiet
    BY <1>3 DEF checkConnection, Quiet, flagVars, attemptVars, retryVars
  <2>2. /\ healthCheck' = healthCheck /\ heartbeatTimer' = heartbeatTimer
        /\ heartbeatOn' = heartbeatOn /\ inGrace' = inGrace
        /\ configSyncActive' = configSyncActive
        /\ syncLossRetryPending' = syncLossRetryPending
    BY DEF checkConnection, beatVars, retryVars
  <2>3. HeartbeatFollowsLink' /\ (heartbeatTimer' => isConnected)
    BY <2>1, <2>2 DEF IInv, Safe, HeartbeatFollowsLink, Quiet
  <2>4. SocketTypes'
    BY <2>1 DEF IInv, TypeOK, SocketTypes, Quiet
  <2>5. FlagTypes'
    BY <1>3, <2>1, <2>2 DEF IInv, TypeOK, FlagTypes, Quiet
  <2>6. CountTypes'
    BY DEF checkConnection, retryVars, IInv, TypeOK, CountTypes
  <2>. QED  BY <2>1, <2>2, <2>3, <2>4, <2>5, <2>6, QuietStep DEF TypeOK
<1>. QED  BY <1>2, <1>3 DEF checkConnection

\* 'close' of the current socket, which schedules a reconnect.
LEMMA SocketClosesStep ==
    ASSUME IInv, NEW s \in Socket, SocketCloses(s) PROVE IInv'
<1>1. link[s] = "closing" /\ link' = [link EXCEPT ![s] = "closed"]
  BY DEF SocketCloses
<1>2. /\ s = socket /\ socket # NoSocket
      /\ shouldReconnect /\ ~destroyed
      /\ connectTimers' = {}
  BY <1>1, LiveSocket DEF SocketCloses
<1>3. mayReconnect
  BY <1>2 DEF mayReconnect
<1>4. /\ socket' = socket /\ connectTimeout' = NoSocket
      /\ isConnecting' = FALSE /\ isConnected' = FALSE
      /\ shouldReconnect' = shouldReconnect /\ destroyed' = destroyed
      /\ connectCall' = connectCall /\ inGrace' = inGrace
      /\ heartbeatTimer' = FALSE /\ heartbeatOn' = heartbeatOn
      /\ healthCheck' = healthCheck /\ buffered' = buffered
      /\ sinceData' = sinceData /\ sinceMessage' = sinceMessage
  BY DEF SocketCloses, stopHeartbeat, watchVars
<1>5. configSyncActive' \in BOOLEAN
  BY DEF SocketCloses, IInv, TypeOK, FlagTypes
<1>6. lossMidSync' = (isConnected /\ configSyncActive)
  BY DEF SocketCloses
<1>7. noteConfigSyncLoss <=> (isConnected /\ configSyncActive)
  BY DEF noteConfigSyncLoss, IInv, Safe, Wanted
<1>8. /\ reconnectTimer' = reconnectDelay(noteConfigSyncLoss)
      /\ syncLossRetryPending' = FALSE
  BY <1>3 DEF SocketCloses, scheduleReconnect, pendingAfter
<1>9. /\ reconnectTimer' \in {"ladder", "grace", "backoff"}
      /\ reconnectTimer' = "ladder" => noteConfigSyncLoss
  BY <1>8 DEF reconnectDelay, useLadder
<1>10. CountTypes'
  <2>1. reconnectAttempts' \in 0..MaxAttempts
    BY <1>3, Constants DEF SocketCloses, scheduleReconnect, IInv, TypeOK, CountTypes
  <2>2. syncLossRetryStep' \in 0..Rungs
    BY <1>3, Constants DEF SocketCloses, scheduleReconnect, useLadder, IInv,
       TypeOK, CountTypes
  <2>. QED  BY <1>4, <2>1, <2>2 DEF IInv, TypeOK, CountTypes
<1>11. SocketTypes'
  BY <1>1, <1>2, <1>4, <1>9 DEF IInv, TypeOK, SocketTypes, LinkStates, Delays
<1>12. FlagTypes'
  BY <1>4, <1>5, <1>6, <1>8 DEF IInv, TypeOK, FlagTypes
<1>13. \A t \in Socket : link'[t] = IF t = s THEN "closed" ELSE link[t]
  BY <1>1 DEF IInv, TypeOK, SocketTypes
<1>14. (OnlyCurrent /\ SocketMatchesFlags /\ NoStaleTimer /\ TimerInHandle)'
  BY <1>2, <1>4, <1>13 DEF IInv, Safe, OnlyCurrent, SocketMatchesFlags,
     NoStaleTimer, TimerInHandle
<1>15. (FlagsMatchSocket /\ BackoffIsIdle /\ AlwaysRetrying)'
  BY <1>2, <1>4, <1>9 DEF FlagsMatchSocket, BackoffIsIdle, AlwaysRetrying
<1>16. (Wanted /\ HeartbeatFollowsLink)'
  BY <1>2, <1>4, <1>8 DEF Wanted, HeartbeatFollowsLink
<1>17. LadderOnlyAfterSyncLoss'
  BY <1>6, <1>7, <1>9 DEF LadderOnlyAfterSyncLoss
<1>. QED  BY <1>10, <1>11, <1>12, <1>14, <1>15, <1>16, <1>17 DEF IInv, Safe, TypeOK

\* The reconnect timer, which dials again.
LEMMA ReconnectStep == IInv /\ ReconnectTimerFires => IInv'
<1>. SUFFICES ASSUME IInv, ReconnectTimerFires PROVE IInv'
  OBVIOUS
<1>1. ~isConnecting /\ ~isConnected /\ socket # NoSocket
      /\ shouldReconnect /\ ~destroyed
  BY DEF ReconnectTimerFires, IInv, Safe, BackoffIsIdle, Wanted
<1>2. PICK s \in Socket : doConnect(s)
  BY <1>1 DEF ReconnectTimerFires
<1>3. /\ link' = [t \in Socket |-> IF t = s THEN "opening" ELSE "unused"]
      /\ socket' = s /\ connectTimeout' = s /\ connectTimers' = {s}
      /\ isConnecting' = TRUE
  BY <1>2, DoConnectEffect DEF IInv, Safe, TypeOK, SocketTypes
<1>4. /\ reconnectTimer' = "none"
      /\ isConnected' = isConnected /\ shouldReconnect' = shouldReconnect
      /\ destroyed' = destroyed /\ connectCall' = connectCall
      /\ syncLossRetryPending' = syncLossRetryPending
      /\ lossMidSync' = lossMidSync /\ inGrace' = inGrace
      /\ configSyncActive' = configSyncActive
      /\ healthCheck' = healthCheck /\ buffered' = buffered
      /\ heartbeatOn' = heartbeatOn /\ heartbeatTimer' = heartbeatTimer
  BY DEF ReconnectTimerFires, watchVars, beatVars
<1>5. SocketTypes'
  BY <1>3, <1>4 DEF IInv, TypeOK, SocketTypes, LinkStates, Delays
<1>6. FlagTypes'
  BY <1>3, <1>4 DEF IInv, TypeOK, FlagTypes
<1>7. CountTypes'
  BY DEF ReconnectTimerFires, watchVars, IInv, TypeOK, CountTypes
<1>8. (OnlyCurrent /\ SocketMatchesFlags /\ NoStaleTimer /\ TimerInHandle)'
  BY <1>3 DEF OnlyCurrent, SocketMatchesFlags, NoStaleTimer, TimerInHandle
<1>9. FlagsMatchSocket'
  BY <1>1, <1>3, <1>4, SocketAssumption DEF FlagsMatchSocket, SocketAssumption
<1>10. (BackoffIsIdle /\ AlwaysRetrying /\ Wanted)'
  BY <1>1, <1>3, <1>4 DEF IInv, Safe, BackoffIsIdle, AlwaysRetrying, Wanted
<1>11. (HeartbeatFollowsLink /\ LadderOnlyAfterSyncLoss)'
  BY <1>4 DEF IInv, Safe, HeartbeatFollowsLink, LadderOnlyAfterSyncLoss
<1>. QED  BY <1>5, <1>6, <1>7, <1>8, <1>9, <1>10, <1>11 DEF IInv, Safe, TypeOK

\* Stuttering changes nothing the invariant speaks of.
LEMMA StutterStep == IInv /\ UNCHANGED vars => IInv'
<1>. SUFFICES ASSUME IInv, UNCHANGED vars PROVE IInv'
  OBVIOUS
<1>. USE DEF vars, flagVars, attemptVars, retryVars, watchVars, beatVars
<1>1. Quiet
  BY DEF Quiet
<1>2. SocketTypes' /\ FlagTypes' /\ CountTypes'
  BY DEF IInv, TypeOK, SocketTypes, FlagTypes, CountTypes
<1>3. HeartbeatFollowsLink' /\ (heartbeatTimer' => isConnected)
  BY DEF IInv, Safe, HeartbeatFollowsLink
<1>4. syncLossRetryPending' = syncLossRetryPending /\ healthCheck' = healthCheck
  OBVIOUS
<1>. QED  BY <1>1, <1>2, <1>3, <1>4, QuietStep DEF TypeOK

\* Every step keeps the invariant.
THEOREM NextInv == IInv /\ [Next]_vars => IInv'
<1>. SUFFICES ASSUME IInv, [Next]_vars PROVE IInv'
  OBVIOUS
<1>1. CASE OwnerStep
  BY <1>1, ConnectStep, DisconnectStep, OwnerSettingsStep DEF OwnerStep
<1>2. CASE TimerStep
  BY <1>2, ReconnectStep, CheckStep, OwnerSettingsStep DEF TimerStep
<1>3. CASE \E s \in Socket : SocketStep(s)
  <2>1. PICK s \in Socket : SocketStep(s)
    BY <1>3
  <2>2. CASE SocketConnects(s)
    BY <2>2, SocketConnectsStep
  <2>3. CASE SocketErrors(s) \/ PeerCloses(s) \/ ConnectTimeoutFires(s)
    BY <2>3, SocketErrorsFails, PeerClosesFails, ConnectTimeoutFails, FailStep
  <2>4. CASE SocketCloses(s)
    BY <2>4, SocketClosesStep
  <2>5. CASE handleIncomingData(s)
    BY <2>5, OwnerSettingsStep
  <2>. QED  BY <2>1, <2>2, <2>3, <2>4, <2>5 DEF SocketStep
<1>4. CASE UNCHANGED vars
  BY <1>4, StutterStep
<1>. QED  BY <1>1, <1>2, <1>3, <1>4 DEF Next

\* The invariant holds throughout every behaviour.
THEOREM Invariance == Spec => []IInv
  BY InitInv, NextInv, PTL DEF Spec

-------------------------------------------------------------------------------
\* What follows for the runs' properties.

\* The variables keep their types (the class fields of TcpTransport).
THEOREM TypeCorrect == Spec => []TypeOK
<1>1. IInv => TypeOK
  BY DEF IInv
<1>. QED  BY <1>1, Invariance, PTL

\* The node never sees two connections of one transport (#3270).
THEOREM OneConnection == Spec => []OneSocketAtNode
<1>1. IInv => OneSocketAtNode
  BY DEF IInv, Safe, OnlyCurrent, OneSocketAtNode, AtNode
<1>. QED  BY <1>1, Invariance, PTL

\* No connect timeout outlives its attempt (#5122), the flags tell the truth
\* about the socket, and the heartbeat runs exactly while the link is up.
THEOREM TimersFollowSocket ==
    Spec => [](NoStaleTimer /\ FlagsMatchSocket /\ HeartbeatFollowsLink)
<1>1. IInv => NoStaleTimer /\ FlagsMatchSocket /\ HeartbeatFollowsLink
  BY DEF IInv, Safe
<1>. QED  BY <1>1, Invariance, PTL

\* A transport that was hung up on holds nothing that could revive it (#3270).
THEOREM NoResurrection == Spec => []TornDownStaysDown
<1>1. IInv => TornDownStaysDown
  <2>. SUFFICES ASSUME IInv, destroyed PROVE TornDownStaysDown
    BY DEF TornDownStaysDown
  <2>1. socket = NoSocket /\ ~healthCheck /\ ~heartbeatTimer
    BY DEF IInv, Safe, Wanted
  <2>2. \A s \in Socket : link[s] = "unused"
    BY <2>1, SocketAssumption DEF SocketAssumption, IInv, Safe, OnlyCurrent
  <2>3. ~isConnected /\ ~isConnecting /\ reconnectTimer = "none"
    BY <2>1 DEF IInv, Safe, FlagsMatchSocket, BackoffIsIdle
  <2>4. connectTimers = {}
    BY <2>2 DEF IInv, Safe, TypeOK, SocketTypes, NoStaleTimer
  <2>. QED  BY <2>1, <2>2, <2>3, <2>4 DEF TornDownStaysDown
<1>. QED  BY <1>1, Invariance, PTL

\* A wanted link is up, being attempted, or has a reconnect timer; the fast
\* ramp follows only a link lost in the middle of a sync.
THEOREM NeverForgotten == Spec => [](AlwaysRetrying /\ LadderOnlyAfterSyncLoss)
<1>1. IInv => AlwaysRetrying /\ LadderOnlyAfterSyncLoss
  BY DEF IInv, Safe
<1>. QED  BY <1>1, Invariance, PTL

\* The node sees one connection, the flags say what the socket is, and a link
\* that is wanted is up, tried or due.
THEOREM LinkIsTruthful == Spec => []LinkTruthful
<1>1. OneSocketAtNode /\ FlagsMatchSocket /\ AlwaysRetrying => LinkTruthful
  BY DEF LinkTruthful
<1>. QED  BY <1>1, OneConnection, TimersFollowSocket, NeverForgotten, PTL

\* No timer outlives its attempt, its link, its loss or the hang-up.
THEOREM TimersAreTruthful == Spec => []TimersTruthful
<1>1. NoStaleTimer /\ HeartbeatFollowsLink /\ LadderOnlyAfterSyncLoss /\ TornDownStaysDown
        => TimersTruthful
  BY DEF TimersTruthful
<1>. QED  BY <1>1, TimersFollowSocket, NeverForgotten, NoResurrection, PTL

-------------------------------------------------------------------------------
\* TcpTransport implements Link.

\* What the node sees is at most the current socket.
LEMMA NodeSees ==
    ASSUME IInv
    PROVE  AtNode = IF socket # NoSocket /\ link[socket] \in {"opening", "open"}
                    THEN {socket} ELSE {}
  BY SocketAssumption DEF SocketAssumption, IInv, Safe, TypeOK, SocketTypes,
     OnlyCurrent, AtNode

\* connect() opens an idle link; the reconnect timer starts an attempt.
LEMMA AttemptRefines ==
    ASSUME IInv, connect \/ ReconnectTimerFires PROVE Promise!Next
<1>. USE DEF IInv, Safe
<1>1. ~isConnected /\ ~isConnecting
  BY DEF connect, ReconnectTimerFires, BackoffIsIdle
<1>2. AtNode = {}
  BY <1>1 DEF SocketMatchesFlags, AtNode
<1>3. ReconnectTimerFires => ~destroyed /\ socket # NoSocket
  BY DEF ReconnectTimerFires, BackoffIsIdle, Wanted
<1>4. PICK s \in Socket : doConnect(s)
  BY <1>3 DEF connect, ReconnectTimerFires
<1>5. link' = [t \in Socket |-> IF t = s THEN "opening" ELSE "unused"]
      /\ socket' = s
  BY <1>4, DoConnectEffect DEF TypeOK, SocketTypes
<1>6. AtNode' = {s}
  BY <1>5 DEF AtNode
<1>7. isConnected' = FALSE /\ destroyed' = FALSE
  BY <1>1, <1>3 DEF connect, ReconnectTimerFires, TypeOK, FlagTypes
<1>8. Phase' = "seeking"
  BY <1>5, <1>7, SocketAssumption DEF Phase, SocketAssumption
<1>9. CASE connect
  <2>1. Phase = "idle"
    BY <1>1, <1>9 DEF connect, CanConnect, AlwaysRetrying, Phase
  <2>. QED  BY <1>6, <1>8, <2>1 DEF Promise!Next, Promise!Open
<1>10. CASE ReconnectTimerFires
  <2>1. Phase = "seeking"
    BY <1>1, <1>3, <1>10 DEF Phase
  <2>. QED  BY <1>2, <1>6, <1>8, <2>1 DEF Promise!Next, Promise!Attempt
<1>. QED  BY <1>9, <1>10

\* A step that leaves the socket and the flags alone is a stutter.
LEMMA QuietRefines ==
    ASSUME Quiet PROVE Phase' = Phase /\ AtNode' = AtNode
  BY DEF Quiet, Phase, AtNode

\* A failing attempt or link drops its connection, or had done so already.
LEMMA FailRefines ==
    ASSUME IInv, NEW s \in Socket, Fails(s)
    PROVE  Promise!Next \/ (Phase' = Phase /\ AtNode' = AtNode)
<1>1. s = socket /\ Phase' = Phase
  BY LiveSocket DEF Fails, Phase
<1>2. link'[s] = "closing" /\ \A t \in Socket : t # s => link'[t] = "unused"
  BY <1>1, DestroyEffect DEF Fails, IInv, Safe, TypeOK, SocketTypes, OnlyCurrent
<1>3. AtNode' = {}
  BY <1>2 DEF AtNode
<1>. QED  BY <1>1, <1>3 DEF Promise!Next, Promise!Drop

\* 'connect' establishes the attempt's connection.
LEMMA ConnectsRefines ==
    ASSUME IInv, NEW s \in Socket, SocketConnects(s) PROVE Promise!Next
<1>1. link[s] = "opening" /\ link' = [link EXCEPT ![s] = "open"]
      /\ isConnected' = TRUE
  BY DEF SocketConnects
<1>2. s = socket /\ socket # NoSocket /\ ~destroyed /\ ~isConnected
  BY <1>1, LiveSocket
<1>3. AtNode' = AtNode /\ s \in AtNode
  BY <1>1 DEF AtNode, IInv, TypeOK, SocketTypes
<1>4. Phase = "seeking" /\ Phase' = "up"
  BY <1>1, <1>2 DEF Phase
<1>. QED  BY <1>3, <1>4 DEF Promise!Next, Promise!Establish

\* 'close' tells the owner that the link is lost, or ends a failed attempt.
LEMMA ClosesRefines ==
    ASSUME IInv, NEW s \in Socket, SocketCloses(s)
    PROVE  Promise!Next \/ (Phase' = Phase /\ AtNode' = AtNode)
<1>1. link[s] = "closing" /\ link' = [link EXCEPT ![s] = "closed"]
      /\ isConnected' = FALSE /\ socket' = socket /\ destroyed' = destroyed
  BY DEF SocketCloses
<1>2. s = socket /\ socket # NoSocket /\ ~destroyed
  BY <1>1, LiveSocket
<1>3. AtNode = {} /\ AtNode' = {}
  BY <1>1, <1>2 DEF AtNode, IInv, Safe, OnlyCurrent, TypeOK, SocketTypes
<1>4. Phase \in {"up", "seeking"} /\ Phase' = "seeking"
  BY <1>1, <1>2 DEF Phase
<1>. QED  BY <1>3, <1>4 DEF Promise!Next, Promise!Lose

\* disconnect() hangs up.
LEMMA DisconnectRefines ==
    ASSUME IInv, disconnect PROVE Promise!Next
<1>1. link' = [s \in Socket |-> "unused"]
  BY TeardownAll DEF disconnect, IInv, Safe, TypeOK, SocketTypes
<1>2. AtNode' = {}
  BY <1>1 DEF AtNode
<1>3. Phase' = "idle"
  BY DEF disconnect, Phase
<1>. QED  BY <1>2, <1>3 DEF Promise!Next, Promise!HangUp

\* Settings, data, time and a health check that only clears the buffer.
LEMMA SettingsAreQuiet ==
    ASSUME \/ \E b \in BOOLEAN : setConfigSyncActive(b)
           \/ resetConfigSyncLossRetries
           \/ \E b \in BOOLEAN : setStartupGraceReconnect(b)
           \/ \E b \in BOOLEAN : setHeartbeatInterval(b)
           \/ GraceExpires
           \/ Tick
           \/ \E s \in Socket : handleIncomingData(s)
           \/ checkConnection /\ link' = link
           \/ UNCHANGED vars
    PROVE  Quiet
  BY DEF setConfigSyncActive, resetConfigSyncLossRetries,
     setStartupGraceReconnect, setHeartbeatInterval, GraceExpires, Tick,
     handleIncomingData, checkConnection, vars, Quiet, flagVars, attemptVars,
     retryVars

\* A health check that drops the link fails its socket.
LEMMA CheckFails ==
    ASSUME IInv, checkConnection, link' # link
    PROVE  socket \in Socket /\ Fails(socket)
<1>1. isConnected /\ connectTimers = {}
  BY OpenHasNoTimer DEF checkConnection
<1>2. link' = Destroyed(socket) /\ socket # NoSocket /\ buffered' = buffered
  BY DEF checkConnection
<1>3. link[socket] \in {"open", "closing"} /\ socket \in Socket
  BY <1>1, <1>2 DEF IInv, Safe, TypeOK, SocketTypes, FlagsMatchSocket
<1>. QED  BY <1>1, <1>2, <1>3 DEF checkConnection, Fails, flagVars, attemptVars,
             retryVars, beatVars

\* Every step of the transport is a step of Link or a stutter.
THEOREM StepRefines ==
    IInv /\ [Next]_vars => Promise!Next \/ (Phase' = Phase /\ AtNode' = AtNode)
<1>. SUFFICES ASSUME IInv, [Next]_vars
              PROVE  Promise!Next \/ (Phase' = Phase /\ AtNode' = AtNode)
  OBVIOUS
<1>1. CASE OwnerStep
  BY <1>1, AttemptRefines, DisconnectRefines, SettingsAreQuiet, QuietRefines
     DEF OwnerStep
<1>2. CASE TimerStep
  BY <1>2, AttemptRefines, CheckFails, FailRefines, SettingsAreQuiet, QuietRefines
     DEF TimerStep
<1>3. CASE \E s \in Socket : SocketStep(s)
  <2>1. PICK s \in Socket : SocketStep(s)
    BY <1>3
  <2>2. CASE SocketConnects(s)
    BY <2>2, ConnectsRefines
  <2>3. CASE SocketErrors(s) \/ PeerCloses(s) \/ ConnectTimeoutFires(s)
    BY <2>3, SocketErrorsFails, PeerClosesFails, ConnectTimeoutFails, FailRefines
  <2>4. CASE SocketCloses(s)
    BY <2>4, ClosesRefines
  <2>5. CASE handleIncomingData(s)
    BY <2>5, SettingsAreQuiet, QuietRefines
  <2>. QED  BY <2>1, <2>2, <2>3, <2>4, <2>5 DEF SocketStep
<1>4. CASE UNCHANGED vars
  BY <1>4, SettingsAreQuiet, QuietRefines
<1>. QED  BY <1>1, <1>2, <1>3, <1>4 DEF Next

\* The transport keeps the promise of Link: Spec implements Link's Spec.
THEOREM LinkImplemented == Spec => KeepsPromise
<1>1. Init => Promise!Init
  BY DEF Init, Promise!Init, Phase, AtNode
<1>2. IInv /\ [Next]_vars => [Promise!Next]_<<Phase, AtNode>>
  BY StepRefines
<1>. QED  BY <1>1, <1>2, Invariance, PTL DEF Spec, KeepsPromise, Promise!Spec

===============================================================================
