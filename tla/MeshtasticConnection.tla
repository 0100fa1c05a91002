------------------------- MODULE MeshtasticConnection -------------------------
(***************************************************************************)
(* The connection lifecycle of one Meshtastic source: the connect flow,    *)
(* the handlers of transport events and the operator's calls in            *)
(* src/src/server/meshtasticManager.ts with the reducer of                 *)
(* src/src/server/meshtastic/connectionStateMachine.ts.                    *)
(*                                                                         *)
(* The transports are Links (module Link): idle, seeking or up.  Every     *)
(* stretch of code between two awaits is one action; a method that awaits  *)
(* leaves a record of where it stopped, and any other callback may run     *)
(* before it resumes.                                                      *)
(***************************************************************************)
EXTENDS Integers

CONSTANTS
    Transport,    \* names for transport objects
    NoTransport,  \* null
    MaxHandlers,  \* handleConnected calls that may be suspended at once
    Modes,        \* the modes a source may run in
    MaxNotices,   \* handleDisconnected calls that may be suspended at once
    MaxCalls      \* how many calls come from outside

ASSUME TransportAssumption == NoTransport \notin Transport

ASSUME ModeAssumption == Modes \subseteq {"plain", "passive", "passive_vn"}

ASSUME BoundAssumption == {MaxHandlers, MaxNotices, MaxCalls} \subseteq Nat

VARIABLES
    mode,        \* passive mode, with or without a virtual node server
    state,       \* #state
    transport,   \* this.transport
    phase,       \* what each transport is doing
    syncWatch,   \* setConfigSyncActive, as last told to this.transport
    attempts,    \* doConnectInternal calls in progress
    handlers,    \* handleConnected calls in progress
    notices,     \* handleDisconnected calls that await their notification
    stopping,    \* a userDisconnect awaits its notification
    completing,  \* where the handling of a configComplete stands
    capturing,   \* isCapturingInitConfig
    complete,    \* configCaptureComplete
    known,       \* a passive source has localNodeInfo and actualDeviceConfig
    wasDown,     \* and its lastDisconnectAt is set
    owed,        \* the node has yet to answer a want_config_id
    callback,    \* onConfigCaptureComplete is set
    fallback,    \* configCompleteFallbackTimer is armed
    postReset,   \* postResetCooldownUntil > 0
    suppressNext,\* suppressNextAutoSync
    inFlight,    \* manualResyncInFlight
    watchdogs,   \* manual-resync watchdogs that are armed
    resyncSend,  \* requestManualResync awaits its send
    calls        \* calls from outside so far

linkVars    == <<transport, phase>>
captureVars == <<capturing, complete, syncWatch>>
nodeVars    == <<known, wasDown, owed>>
timerVars   == <<callback, fallback, postReset>>
resyncVars  == <<suppressNext, inFlight, watchdogs, resyncSend>>
workVars    == <<attempts, handlers, notices, stopping, completing>>
vars == <<mode, state, linkVars, captureVars, nodeVars, timerVars, resyncVars,
          workVars, calls>>

States == {"disconnected", "connecting", "probing", "config_sync", "connected",
           "user_disconnected"}
Handler == 1..MaxHandlers
AttemptSteps == {"config", "init", "probing", "dialing"}
HandlerSteps == {"none", "notifying", "snapshot", "sending"}
Reasons == {"full", "cached", "recovery"}
Completions == {"none", "refreshing", "migrating"}
NoHandler == [pc |-> "none", at |-> NoTransport, via |-> NoTransport,
              reason |-> "full"]

isConnected == state \in {"config_sync", "connected"}
\* Mutant: connect() does not look for an attempt in flight.
neverInFlight == FALSE

connectInFlight == attempts # {}

\* The setter behind `isConnected = false`.
NotConnected ==
    IF state = "user_disconnected" THEN state ELSE "disconnected"

Init ==
    /\ mode \in Modes
    /\ state = "disconnected"
    /\ transport = NoTransport
    /\ phase = [t \in Transport |-> "idle"]
    /\ syncWatch = FALSE
    /\ attempts = {} /\ handlers = [h \in Handler |-> NoHandler]
    /\ notices = 0 /\ stopping = FALSE /\ completing = "none"
    /\ capturing = FALSE /\ complete = FALSE
    /\ known = FALSE /\ wasDown = FALSE /\ owed = FALSE
    /\ callback = FALSE /\ fallback = FALSE /\ postReset = FALSE
    /\ suppressNext = FALSE /\ inFlight = FALSE /\ watchdogs = 0
    /\ resyncSend = FALSE
    /\ calls = 0

-------------------------------------------------------------------------------
\* Building blocks.

\* Mutants: the old transport stays alive; any failed handshake is taken for
\* the current transport's; the watchdog is not cancelled; the recovery latch
\* is not set; the end of a capture is not told to the transport.
keepPrevTransport == phase
anyIdentity(at) == TRUE
leaveWatchdog == watchdogs
noLatch == suppressNext
untoldComplete == /\ capturing' = FALSE /\ complete' = TRUE
                  /\ syncWatch' = syncWatch

\* this.transport?.disconnect()
HungUp == [t \in Transport |-> IF t = transport THEN "idle" ELSE phase[t]]

\* setTransportConfigSyncActive
Watching(active) == active /\ transport # NoTransport

startConfigCapture ==
    capturing' = TRUE /\ complete' = FALSE /\ syncWatch' = Watching(TRUE)

completeConfigCapture ==
    capturing' = FALSE /\ complete' = TRUE /\ syncWatch' = Watching(FALSE)

clearConfigCapture ==
    capturing' = FALSE /\ complete' = FALSE /\ syncWatch' = Watching(FALSE)

teardownExistingTransport == HungUp

\* clearTimeout of the armed watchdog.
cancelWatchdog == 0

clearManualResyncInFlight == inFlight' = FALSE /\ watchdogs' = cancelWatchdog

\* onConfigCaptureComplete, once it was set, ends a manual resync.
runOnConfigCaptureComplete(alsoClear) ==
    IF callback \/ alsoClear THEN clearManualResyncInFlight
    ELSE UNCHANGED <<inFlight, watchdogs>>

\* connect(): join the attempt in flight, or start one.
startConnecting ==
    IF connectInFlight THEN attempts
    ELSE attempts \cup {[pc |-> "config", on |-> NoTransport]}

\* The attempts whose `await transport.connect` a result of t settles.
settles(t) == {a \in attempts : a.pc = "dialing" /\ a.on = t}

\* handleDisconnected up to its first await, once #state is s and the fallback
\* timer is as armed says.  A stop by the user needs no notification; otherwise
\* the timer is cancelled only when the notification is through.
handleDisconnected(s, armed) ==
    /\ state' = s
    /\ wasDown' = (mode # "plain")
    /\ known' = known
    /\ IF mode = "passive" THEN UNCHANGED captureVars ELSE clearConfigCapture
    /\ fallback' = (armed /\ s # "user_disconnected")
    /\ IF s = "user_disconnected" THEN notices' = notices
       ELSE notices < MaxNotices /\ notices' = notices + 1

-------------------------------------------------------------------------------
\* The connect flow (doConnectInternal).

\* getConfig is done: CONNECT_REQUESTED, tear the previous transport down.
RequestConnect(a) ==
    /\ a.pc = "config"
    /\ state' = IF postReset THEN "probing" ELSE "connecting"
    /\ phase' = teardownExistingTransport
    /\ transport' = NoTransport /\ syncWatch' = FALSE
    /\ owed' = FALSE
    /\ attempts' = (attempts \ {a}) \cup {[a EXCEPT !.pc = "init"]}
    /\ UNCHANGED <<mode, capturing, complete, known, wasDown, timerVars,
                   resyncVars, handlers, notices, stopping, completing>>

\* A transport object nothing refers to.
FreshTransport(t) ==
    /\ phase[t] = "idle" /\ t # transport
    /\ \A h \in Handler : t \notin {handlers[h].at, handlers[h].via}
    /\ \A a \in attempts : a.on # t

\* The protobuf service is up: a new transport, dialled at once unless a
\* post-reset probe comes first.
CreateTransport(a) ==
    /\ a.pc = "init"
    /\ \E t \in Transport :
         /\ FreshTransport(t)
         /\ transport' = t
         /\ phase' = [phase EXCEPT ![t] = IF state = "probing" THEN "idle" ELSE "seeking"]
         /\ attempts' = (attempts \ {a}) \cup
              {IF state = "probing" THEN [a EXCEPT !.pc = "probing"]
               ELSE [pc |-> "dialing", on |-> t]}
    /\ syncWatch' = FALSE
    /\ UNCHANGED <<mode, state, capturing, complete, nodeVars, timerVars,
                   resyncVars, handlers, notices, stopping, completing>>

\* Cooldown and probe are over: PROBE_DONE, dial whatever this.transport is.
ProbeDone(a) ==
    /\ a.pc = "probing"
    /\ postReset' = FALSE
    /\ IF transport = NoTransport
       THEN /\ state' = "disconnected"
            /\ attempts' = attempts \ {a}
            /\ phase' = phase
       ELSE /\ state' = "connecting"
            /\ attempts' = (attempts \ {a}) \cup
                             {[pc |-> "dialing", on |-> transport]}
            /\ phase' = [phase EXCEPT ![transport] = "seeking"]
    /\ UNCHANGED <<mode, transport, captureVars, nodeVars, callback, fallback,
                   resyncVars, handlers, notices, stopping, completing>>

\* getConfig or the protobuf service fails.
AttemptThrows(a) ==
    /\ a.pc \in {"config", "init"}
    /\ state' = NotConnected
    /\ attempts' = attempts \ {a}
    /\ UNCHANGED <<mode, linkVars, captureVars, nodeVars, timerVars, resyncVars,
                   handlers, notices, stopping, completing>>

\* The first dial fails; the transport goes on trying.
DialFails(t) ==
    /\ phase[t] = "seeking" /\ settles(t) # {}
    /\ attempts' = attempts \ settles(t)
    /\ state' = NotConnected
    /\ UNCHANGED <<mode, linkVars, captureVars, nodeVars, timerVars, resyncVars,
                   handlers, notices, stopping, completing>>

-------------------------------------------------------------------------------
\* Transport events.

\* A passive source with a recent snapshot may skip the sync.
MayBeFresh == known /\ wasDown

FreeHandler(h) ==
    handlers[h] = NoHandler /\ \A g \in 1..(h - 1) : handlers[g] # NoHandler

\* handleConnected up to the notification.
Connects(t) ==
    /\ phase[t] = "seeking" /\ transport # NoTransport
    /\ phase' = [phase EXCEPT ![t] = "up"]
    /\ attempts' = attempts \ settles(t)
    /\ owed' = FALSE
    /\ \E h \in Handler, fresh \in {FALSE, MayBeFresh} :
         /\ FreeHandler(h)
         /\ LET skip == fresh \/ suppressNext
            IN /\ state' = IF skip THEN "connected" ELSE "config_sync"
               /\ known' = (known /\ skip)
               /\ handlers' = [handlers EXCEPT ![h] =
                    [pc |-> "notifying", at |-> transport, via |-> NoTransport,
                     reason |-> IF suppressNext THEN "recovery"
                                ELSE IF fresh THEN "cached" ELSE "full"]]
    /\ suppressNext' = FALSE
    /\ UNCHANGED <<mode, transport, captureVars, wasDown, timerVars, inFlight,
                   watchdogs, resyncSend, notices, stopping, completing>>

\* The link goes down.  A send that was waiting for the socket to drain never
\* settles; one that fails does so before this event.
Loses(t) ==
    /\ phase[t] = "up"
    /\ phase' = [phase EXCEPT ![t] = "seeking"]
    /\ handleDisconnected(NotConnected, fallback)
    /\ owed' = FALSE
    /\ handlers' = [h \in Handler |-> IF handlers[h].via = t THEN NoHandler
                                      ELSE handlers[h]]
    /\ resyncSend' = FALSE
    /\ UNCHANGED <<mode, transport, callback, postReset, suppressNext, inFlight,
                   watchdogs, attempts, stopping, completing>>

\* handleDisconnected resumes: the fallback timer goes, whosever it is.
NoticeSent ==
    /\ notices > 0
    /\ notices' = notices - 1
    /\ fallback' = FALSE
    /\ UNCHANGED <<mode, state, linkVars, captureVars, nodeVars, callback,
                   postReset, resyncVars, attempts, handlers, stopping, completing>>

-------------------------------------------------------------------------------
\* The handshake (handleConnected after the notification).

\* Skip the sync: as if a config had just completed.
SkipSync(h) ==
    /\ handlers[h].pc = "notifying" /\ handlers[h].reason # "full"
    /\ completeConfigCapture
    /\ runOnConfigCaptureComplete(handlers[h].reason = "recovery")
    /\ handlers' = [handlers EXCEPT ![h] = NoHandler]
    /\ UNCHANGED <<mode, state, linkVars, nodeVars, timerVars, suppressNext,
                   resyncSend, attempts, notices, stopping, completing>>

BeginSync(h) ==
    /\ handlers[h].pc = "notifying" /\ handlers[h].reason = "full"
    /\ startConfigCapture
    /\ handlers' = [handlers EXCEPT ![h].pc = "snapshot"]
    /\ UNCHANGED <<mode, state, linkVars, nodeVars, timerVars, resyncVars,
                   attempts, notices, stopping, completing>>

LinkIsUp == transport # NoTransport /\ phase[transport] = "up"

transportIdentityMatches(at) == transport = at

\* HANDSHAKE_SEND_FAILED: bail out if the transport was replaced meanwhile
\* (#3247), else reset the source.
HandshakeFails(h) ==
    /\ \/ handlers[h].pc = "sending"
       \/ handlers[h].pc = "snapshot" /\ ~LinkIsUp
    /\ handlers' = [handlers EXCEPT ![h] = NoHandler]
    /\ IF transportIdentityMatches(handlers[h].at)
       THEN /\ phase' = HungUp
            /\ postReset' = TRUE
            /\ owed' = FALSE
            /\ handleDisconnected("disconnected", FALSE)
       ELSE UNCHANGED <<state, phase, captureVars, nodeVars, fallback, postReset,
                        notices>>
    /\ UNCHANGED <<mode, transport, callback, resyncVars, attempts, stopping,
                   completing>>

\* The channel snapshot is taken: want_config_id goes out on this.transport.
SendWantConfig(h) ==
    /\ handlers[h].pc = "snapshot" /\ LinkIsUp
    /\ handlers' = [handlers EXCEPT ![h].pc = "sending", ![h].via = transport]
    /\ owed' = TRUE
    /\ UNCHANGED <<mode, state, linkVars, captureVars, known, wasDown, timerVars,
                   resyncVars, attempts, notices, stopping, completing>>

WantConfigSent(h) ==
    /\ handlers[h].pc = "sending" /\ phase[handlers[h].via] = "up"
    /\ handlers' = [handlers EXCEPT ![h] = NoHandler]
    /\ callback' = TRUE
    /\ fallback' = TRUE
    /\ UNCHANGED <<mode, state, linkVars, captureVars, nodeVars, postReset,
                   resyncVars, attempts, notices, stopping, completing>>

-------------------------------------------------------------------------------
\* What the node sends, and the fallback.

\* MyNodeInfo and the device config of the stream.
ReceiveConfig ==
    /\ LinkIsUp /\ owed /\ mode # "plain"
    /\ known' = TRUE
    /\ UNCHANGED <<mode, state, linkVars, captureVars, wasDown, owed, timerVars,
                   resyncVars, workVars>>

\* configComplete: the local node's lastHeard is written first.
ReceiveConfigComplete ==
    /\ LinkIsUp /\ owed /\ completing = "none"
    /\ owed' = FALSE
    /\ completing' = "refreshing"
    /\ UNCHANGED <<mode, state, linkVars, captureVars, known, wasDown, timerVars,
                   resyncVars, attempts, handlers, notices, stopping>>

\* CONFIG_COMPLETE, if a capture is running by now; then channel migration.
CompleteSync ==
    /\ completing = "refreshing"
    /\ IF capturing /\ ~complete
       THEN /\ state' = "connected"
            /\ completeConfigCapture
            /\ completing' = "migrating"
       ELSE /\ completing' = "none"
            /\ UNCHANGED <<state, captureVars>>
    /\ UNCHANGED <<mode, linkVars, nodeVars, timerVars, resyncVars, attempts,
                   handlers, notices, stopping>>

FinishSync ==
    /\ completing = "migrating"
    /\ completing' = "none"
    /\ clearManualResyncInFlight
    /\ fallback' = FALSE
    /\ UNCHANGED <<mode, state, linkVars, captureVars, nodeVars, callback,
                   postReset, suppressNext, resyncSend, attempts, handlers,
                   notices, stopping>>

FallbackFires ==
    /\ fallback /\ fallback' = FALSE
    /\ IF ~complete /\ isConnected
       THEN /\ state' = "connected"
            /\ completeConfigCapture
            /\ runOnConfigCaptureComplete(FALSE)
       ELSE UNCHANGED <<state, captureVars, inFlight, watchdogs>>
    /\ UNCHANGED <<mode, linkVars, nodeVars, callback, postReset, suppressNext,
                   resyncSend, workVars>>

-------------------------------------------------------------------------------
\* Calls from outside.

\* start(), and refreshNodeDatabase() when not connected.
connect ==
    /\ ~isConnected /\ ~connectInFlight
    /\ attempts' = startConnecting
    /\ UNCHANGED <<mode, state, linkVars, captureVars, nodeVars, timerVars,
                   resyncVars, handlers, notices, stopping, completing>>

\* refreshNodeDatabase() when connected asks for the config again.
refreshNodeDatabase ==
    /\ isConnected /\ LinkIsUp /\ owed' = TRUE
    /\ UNCHANGED <<mode, state, linkVars, captureVars, known, wasDown, timerVars,
                   resyncVars, workVars>>

\* disconnect(), called by stop() and by a change of the node's address.
disconnect ==
    /\ state' = NotConnected
    /\ fallback' = FALSE
    /\ phase' = HungUp /\ transport' = NoTransport /\ syncWatch' = FALSE
    /\ owed' = FALSE
    /\ UNCHANGED <<mode, capturing, complete, known, wasDown, callback, postReset,
                   resyncVars, handlers, notices, stopping, completing>>

stop == disconnect /\ attempts' = attempts

setNodeIpOverride == disconnect /\ attempts' = startConnecting

\* USER_DISCONNECT; the notification is awaited before the transport goes.
userDisconnect ==
    /\ ~stopping /\ stopping' = TRUE
    /\ state' = "user_disconnected"
    /\ UNCHANGED <<mode, linkVars, captureVars, nodeVars, timerVars, resyncVars,
                   attempts, handlers, notices, completing>>

finishUserDisconnect ==
    /\ stopping /\ stopping' = FALSE
    /\ phase' = HungUp
    /\ owed' = FALSE
    /\ fallback' = FALSE
    /\ UNCHANGED <<mode, state, transport, captureVars, known, wasDown, callback,
                   postReset, resyncVars, attempts, handlers, notices, completing>>

userReconnect ==
    /\ state' = "connecting"
    /\ attempts' = startConnecting
    /\ UNCHANGED <<mode, linkVars, captureVars, nodeVars, timerVars, resyncVars,
                   handlers, notices, stopping, completing>>

latchSuppressNext == TRUE

\* The cooldown is a matter of time; everything else is checked here.
requestManualResync ==
    /\ ~inFlight /\ isConnected /\ ~resyncSend
    /\ state' = "config_sync"
    /\ startConfigCapture
    /\ IF LinkIsUp
       THEN /\ inFlight' = TRUE
            /\ watchdogs' = cancelWatchdog + 1
            /\ suppressNext' = latchSuppressNext
            /\ resyncSend' = TRUE
            /\ owed' = TRUE
       ELSE /\ clearManualResyncInFlight
            /\ suppressNext' = FALSE
            /\ UNCHANGED <<resyncSend, owed>>
    /\ UNCHANGED <<mode, linkVars, known, wasDown, timerVars, workVars>>

ResyncSent ==
    /\ resyncSend /\ resyncSend' = FALSE
    /\ LinkIsUp
    /\ UNCHANGED <<mode, state, linkVars, captureVars, nodeVars, timerVars,
                   suppressNext, inFlight, watchdogs, workVars>>

ResyncSendFails ==
    /\ resyncSend /\ resyncSend' = FALSE
    /\ clearManualResyncInFlight
    /\ suppressNext' = FALSE
    /\ UNCHANGED <<mode, state, linkVars, captureVars, nodeVars, timerVars, workVars>>

WatchdogFires ==
    /\ watchdogs > 0 /\ watchdogs' = watchdogs - 1
    /\ inFlight' = FALSE
    /\ UNCHANGED <<mode, state, linkVars, captureVars, nodeVars, timerVars,
                   suppressNext, resyncSend, workVars>>

AttemptStep ==
    \E a \in attempts : \/ RequestConnect(a) \/ CreateTransport(a)
                        \/ ProbeDone(a) \/ AttemptThrows(a)

TransportStep(t) == Connects(t) \/ DialFails(t) \/ Loses(t)

HandlerStep(h) ==
    \/ SkipSync(h) \/ BeginSync(h) \/ SendWantConfig(h)
    \/ WantConfigSent(h) \/ HandshakeFails(h)

NodeStep == ReceiveConfig \/ ReceiveConfigComplete

ResumeStep ==
    \/ NoticeSent \/ CompleteSync \/ FinishSync \/ finishUserDisconnect
    \/ ResyncSent \/ ResyncSendFails

TimerStep == FallbackFires \/ WatchdogFires

OwnerStep ==
    \/ connect \/ refreshNodeDatabase \/ stop \/ setNodeIpOverride
    \/ userDisconnect \/ userReconnect \/ requestManualResync

Next ==
    \/ calls < MaxCalls /\ calls' = calls + 1 /\ OwnerStep
    \/ /\ calls' = calls
       /\ \/ AttemptStep \/ NodeStep \/ ResumeStep \/ TimerStep
          \/ \E t \in Transport : TransportStep(t)
          \/ \E h \in Handler : HandlerStep(h)

Spec == Init /\ [][Next]_vars

-------------------------------------------------------------------------------
\* Properties.

ModeTypes == mode \in Modes /\ state \in States

LinkTypes ==
    /\ transport \in Transport \cup {NoTransport}
    /\ phase \in [Transport -> {"idle", "seeking", "up"}]

AttemptTypes ==
    attempts \subseteq [pc : AttemptSteps, on : Transport \cup {NoTransport}]

OneAttempt == \A a, b \in attempts : a = b

HandlerTypes ==
    handlers \in [Handler -> [pc : HandlerSteps,
                              at : Transport \cup {NoTransport},
                              via : Transport \cup {NoTransport},
                              reason : Reasons]]

FlagTypes ==
    {syncWatch, stopping, capturing, complete, known, wasDown, owed, callback,
     fallback, postReset, suppressNext, inFlight, resyncSend} \subseteq BOOLEAN

CountTypes ==
    /\ notices \in 0..MaxNotices /\ completing \in Completions
    /\ watchdogs \in 0..1 /\ calls \in 0..MaxCalls

\* Every variable has its type; one connect attempt runs at a time, and one
\* watchdog.
TypeOK ==
    /\ ModeTypes /\ LinkTypes /\ AttemptTypes /\ OneAttempt
    /\ HandlerTypes /\ FlagTypes /\ CountTypes

\* The node never sees an orphan: a transport that is up or seeking is the one
\* the manager holds, so the next teardown reaches it (#3270).
NoOrphan == \A t \in Transport : phase[t] # "idle" => t = transport

OwnerHangsUp ==
    \/ stop \/ setNodeIpOverride \/ finishUserDisconnect
    \/ \E a \in attempts : RequestConnect(a)

\* A link that is up is taken down by us only for the operator, for a new
\* connect, or because the handshake that began on that very transport failed;
\* a handshake left over from a replaced transport spares its successor (#3247).
LateFailureSpares ==
    [][\A t \in Transport : phase[t] = "up" /\ phase'[t] = "idle" =>
         \/ OwnerHangsUp
         \/ \E h \in Handler : handlers[h].at = t /\ handlers'[h] = NoHandler]_vars

\* A resync in flight has its own watchdog, and none is left over from an
\* earlier one to flip the latch of a later one.
WatchdogIsOwn == watchdogs = IF inFlight THEN 1 ELSE 0

\* While a forced resync is in flight the next connection will not sync again,
\* or the one that skipped the sync is about to end it (#3122).
RecoveryCovered ==
    inFlight => \/ suppressNext
                \/ \E h \in Handler : handlers[h].pc = "notifying"
                                        /\ handlers[h].reason = "recovery"

\* A forced resync keeps what belongs to it until it ends: its own watchdog, and
\* the latch that spares the node a second sync when the link drops under it.
ResyncCovered == WatchdogIsOwn /\ RecoveryCovered

\* The transport's stall detector never watches a link that syncs nothing, and it
\* watches every sync of an established link, once no handler of a newer connection
\* awaits its notification (#5122).
StallWatchTruthful ==
    transport # NoTransport =>
        /\ syncWatch => capturing
        /\ (LinkIsUp /\ capturing /\ \A h \in Handler : handlers[h].pc # "notifying")
               => syncWatch

\* The operator's stop lasts: only an operator's reconnect or a requested
\* connect leaves the state user_disconnected.
UserStopSticks ==
    [][state = "user_disconnected" /\ state' # state =>
         userReconnect \/ \E a \in attempts : RequestConnect(a)]_vars

\* After a loss that the operator did not ask for the transport reconnects.
LossIsRetried ==
    (state = "disconnected" /\ transport # NoTransport /\ attempts = {})
        => phase[transport] # "idle"
===============================================================================
