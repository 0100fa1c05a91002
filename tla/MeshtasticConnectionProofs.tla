---------------------- MODULE MeshtasticConnectionProofs ----------------------
(***************************************************************************)
(* The invariants of MeshtasticConnection for any number of transports,    *)
(* overlapping handlers and calls, and the action property that a late     *)
(* handshake failure spares the transport that replaced its own.           *)
(*                                                                         *)
(* The inductive invariant is the conjunction of parts that are proved one *)
(* after the other; each part may use the ones before it.                  *)
(***************************************************************************)
EXTENDS MeshtasticConnection, TLAPS

-------------------------------------------------------------------------------
\* The inductive invariant.

\* Only the attempt in flight installs a transport, so the previous one is
\* still gone when it does.
NoneBeforeCreate == \A a \in attempts : a.pc = "init" => transport = NoTransport

LinkInv == LinkTypes /\ AttemptTypes /\ OneAttempt /\ NoOrphan /\ NoneBeforeCreate

\* A handler that awaits its notification has sent nothing, so the loss of a
\* link does not end it.
NothingSent ==
    \A h \in Handler : handlers[h].pc = "notifying" => handlers[h].via = NoTransport

HandlerInv == HandlerTypes /\ NothingSent

CountInv == CountTypes /\ WatchdogIsOwn

IInv ==
    /\ ModeTypes /\ LinkInv /\ HandlerInv /\ FlagTypes /\ CountInv
    /\ RecoveryCovered /\ StallWatchTruthful

\* A source that was just created satisfies the invariant.
THEOREM InitInv == Init => IInv
<1>. SUFFICES ASSUME Init PROVE IInv
  OBVIOUS
<1>1. ModeTypes /\ LinkInv
  BY DEF Init, ModeTypes, States, LinkInv, LinkTypes, AttemptTypes, OneAttempt,
         NoOrphan, NoneBeforeCreate
<1>2. HandlerInv
  BY DEF Init, HandlerInv, HandlerTypes, NothingSent, NoHandler, HandlerSteps, Reasons
<1>3. FlagTypes
  BY DEF Init, FlagTypes
<1>4. CountInv
  BY BoundAssumption DEF Init, CountInv, CountTypes, WatchdogIsOwn, Completions,
     BoundAssumption
<1>5. RecoveryCovered /\ StallWatchTruthful
  BY DEF Init, RecoveryCovered, StallWatchTruthful
<1>. QED  BY <1>1, <1>2, <1>3, <1>4, <1>5 DEF IInv

-------------------------------------------------------------------------------
\* Transports and attempts.

\* A hang-up leaves no transport that is up or seeking.
LEMMA HungUpAll ==
    ASSUME LinkTypes, NoOrphan
    PROVE  HungUp = [t \in Transport |-> "idle"]
  BY DEF LinkTypes, NoOrphan, HungUp

\* The steps that touch neither a transport nor an attempt.
LinkUnchanged == UNCHANGED <<transport, phase, attempts>>

\* Who leaves transports and attempts alone.
LEMMA LinkBystanders ==
    ASSUME \/ NodeStep \/ NoticeSent \/ CompleteSync \/ FinishSync
           \/ ResyncSent \/ ResyncSendFails \/ TimerStep
           \/ refreshNodeDatabase \/ userDisconnect \/ requestManualResync
           \/ \E h \in Handler : \/ SkipSync(h) \/ BeginSync(h)
                                 \/ SendWantConfig(h) \/ WantConfigSent(h)
    PROVE  LinkUnchanged
  BY DEF LinkUnchanged, NodeStep, TimerStep, NoticeSent, CompleteSync, FinishSync,
     ResyncSent, ResyncSendFails, refreshNodeDatabase, userDisconnect,
     requestManualResync, SkipSync, BeginSync, SendWantConfig, WantConfigSent,
     ReceiveConfig, ReceiveConfigComplete, FallbackFires, WatchdogFires,
     linkVars, workVars

\* Joining the attempt in flight or starting the only one.
LEMMA StartConnecting ==
    ASSUME LinkInv, attempts' = startConnecting,
           transport' \in {transport, NoTransport}
    PROVE  AttemptTypes' /\ OneAttempt' /\ NoneBeforeCreate'
  BY DEF LinkInv, LinkTypes, AttemptTypes, OneAttempt, NoneBeforeCreate,
     startConnecting, connectInFlight, AttemptSteps

\* No step makes an orphan or a second attempt.
LEMMA LinkStep == LinkInv /\ [Next]_vars => LinkInv'
<1>. SUFFICES ASSUME LinkInv, [Next]_vars PROVE LinkInv'
  OBVIOUS
<1>. USE DEF LinkInv
<1>1. ASSUME NEW a \in attempts, RequestConnect(a) PROVE LinkInv'
  <2>1. /\ transport' = NoTransport /\ phase' = [t \in Transport |-> "idle"]
        /\ attempts' = (attempts \ {a}) \cup {[a EXCEPT !.pc = "init"]}
    BY <1>1, HungUpAll DEF RequestConnect, teardownExistingTransport
  <2>. QED
    BY <2>1 DEF LinkTypes, AttemptTypes, OneAttempt, NoOrphan, NoneBeforeCreate,
       AttemptSteps
<1>2. ASSUME NEW a \in attempts, CreateTransport(a) PROVE LinkInv'
  <2>1. PICK t \in Transport :
          /\ transport' = t
          /\ phase' = [phase EXCEPT ![t] = IF state = "probing" THEN "idle"
                                           ELSE "seeking"]
          /\ attempts' = (attempts \ {a}) \cup
               {IF state = "probing" THEN [a EXCEPT !.pc = "probing"]
                ELSE [pc |-> "dialing", on |-> t]}
    BY <1>2 DEF CreateTransport
  <2>2. transport = NoTransport /\ \A u \in Transport : phase[u] = "idle"
    BY <1>2, TransportAssumption
       DEF CreateTransport, NoneBeforeCreate, NoOrphan, LinkTypes, TransportAssumption
  <2>. QED
    BY <2>1, <2>2 DEF LinkTypes, AttemptTypes, OneAttempt, NoOrphan,
       NoneBeforeCreate, AttemptSteps
<1>3. ASSUME NEW a \in attempts, ProbeDone(a) PROVE LinkInv'
  <2>1. transport' = transport
    BY <1>3 DEF ProbeDone
  <2>2. CASE transport = NoTransport
    <3>1. attempts' = attempts \ {a} /\ phase' = phase
      BY <1>3, <2>2 DEF ProbeDone
    <3>. QED
      BY <2>1, <3>1 DEF LinkTypes, AttemptTypes, OneAttempt, NoOrphan,
         NoneBeforeCreate
  <2>3. CASE transport # NoTransport
    <3>1. /\ attempts' = (attempts \ {a}) \cup {[pc |-> "dialing", on |-> transport]}
          /\ phase' = [phase EXCEPT ![transport] = "seeking"]
      BY <1>3, <2>3 DEF ProbeDone
    <3>. QED
      BY <2>1, <2>3, <3>1 DEF LinkTypes, AttemptTypes, OneAttempt, NoOrphan,
         NoneBeforeCreate, AttemptSteps
  <2>. QED  BY <2>2, <2>3
<1>4. ASSUME NEW a \in attempts, AttemptThrows(a) PROVE LinkInv'
  <2>1. attempts' = attempts \ {a} /\ phase' = phase /\ transport' = transport
    BY <1>4 DEF AttemptThrows, linkVars
  <2>. QED
    BY <2>1 DEF LinkTypes, AttemptTypes, OneAttempt, NoOrphan, NoneBeforeCreate
<1>5. ASSUME NEW t \in Transport, TransportStep(t) PROVE LinkInv'
  <2>1. /\ transport' = transport /\ attempts' \subseteq attempts
        /\ \/ phase' = phase
           \/ phase[t] # "idle" /\ phase' = [phase EXCEPT ![t] = "up"]
           \/ phase[t] # "idle" /\ phase' = [phase EXCEPT ![t] = "seeking"]
    BY <1>5 DEF TransportStep, Connects, DialFails, Loses, linkVars
  <2>. QED
    BY <2>1 DEF LinkTypes, AttemptTypes, OneAttempt, NoOrphan, NoneBeforeCreate
<1>6. ASSUME NEW h \in Handler, HandshakeFails(h) PROVE LinkInv'
  <2>1. /\ transport' = transport /\ attempts' = attempts
        /\ phase' \in {phase, [t \in Transport |-> "idle"]}
    BY <1>6, HungUpAll DEF HandshakeFails
  <2>. QED
    BY <2>1 DEF LinkTypes, AttemptTypes, OneAttempt, NoOrphan, NoneBeforeCreate
<1>7. CASE disconnect /\ attempts' \in {attempts, startConnecting}
  <2>1. transport' = NoTransport /\ phase' = [t \in Transport |-> "idle"]
    BY <1>7, HungUpAll DEF disconnect
  <2>2. AttemptTypes' /\ OneAttempt' /\ NoneBeforeCreate'
    BY <1>7, <2>1, StartConnecting
       DEF AttemptTypes, OneAttempt, NoneBeforeCreate
  <2>. QED  BY <2>1, <2>2 DEF LinkTypes, NoOrphan
<1>8. CASE connect \/ userReconnect
  <2>1. /\ transport' = transport /\ phase' = phase /\ attempts' = startConnecting
    BY <1>8 DEF connect, userReconnect, linkVars
  <2>2. AttemptTypes' /\ OneAttempt' /\ NoneBeforeCreate'
    BY <2>1, StartConnecting
  <2>. QED  BY <2>1, <2>2 DEF LinkTypes, NoOrphan
<1>9. CASE finishUserDisconnect
  <2>1. /\ transport' = transport /\ attempts' = attempts
        /\ phase' = [t \in Transport |-> "idle"]
    BY <1>9, HungUpAll DEF finishUserDisconnect
  <2>. QED
    BY <2>1 DEF LinkTypes, AttemptTypes, OneAttempt, NoOrphan, NoneBeforeCreate
<1>10. CASE LinkUnchanged
  BY <1>10 DEF LinkUnchanged, LinkTypes, AttemptTypes, OneAttempt, NoOrphan,
     NoneBeforeCreate
<1>11. CASE UNCHANGED vars
  BY <1>10, <1>11 DEF vars, linkVars, workVars, LinkUnchanged
<1>. QED
  BY <1>1, <1>2, <1>3, <1>4, <1>5, <1>6, <1>7, <1>8, <1>9, <1>10, <1>11,
     LinkBystanders
     DEF Next, AttemptStep, HandlerStep, OwnerStep, ResumeStep, stop,
         setNodeIpOverride
-------------------------------------------------------------------------------
\* Handlers.

\* The steps of anyone but a handler or a transport leave the handlers alone.
HandlersUnchanged == handlers' = handlers

\* Who leaves the handlers alone.
LEMMA HandlerBystanders ==
    ASSUME \/ AttemptStep \/ NodeStep \/ ResumeStep \/ TimerStep \/ OwnerStep
           \/ \E t \in Transport : DialFails(t)
    PROVE  HandlersUnchanged
<1>1. ASSUME NEW a \in attempts,
             RequestConnect(a) \/ CreateTransport(a) \/ ProbeDone(a) \/ AttemptThrows(a)
      PROVE  HandlersUnchanged
  BY <1>1 DEF RequestConnect, CreateTransport, ProbeDone, AttemptThrows, HandlersUnchanged
<1>2. CASE NodeStep \/ TimerStep
  BY <1>2 DEF NodeStep, TimerStep, ReceiveConfig, ReceiveConfigComplete, FallbackFires,
     WatchdogFires, workVars, HandlersUnchanged
<1>3. CASE ResumeStep
  BY <1>3 DEF ResumeStep, NoticeSent, CompleteSync, FinishSync, finishUserDisconnect,
     ResyncSent, ResyncSendFails, workVars, HandlersUnchanged
<1>4. CASE OwnerStep
  BY <1>4 DEF OwnerStep, connect, refreshNodeDatabase, stop, setNodeIpOverride,
     disconnect, userDisconnect, userReconnect, requestManualResync, workVars,
     HandlersUnchanged
<1>5. CASE \E t \in Transport : DialFails(t)
  BY <1>5 DEF DialFails, HandlersUnchanged
<1>. QED  BY <1>1, <1>2, <1>3, <1>4, <1>5 DEF AttemptStep

\* What happens to one handler: it starts, moves on or ends.
LEMMA HandlerEffect ==
    ASSUME NEW h \in Handler, HandlerStep(h)
    PROVE  \/ handlers' = [handlers EXCEPT ![h] = NoHandler]
           \/ /\ handlers[h].pc = "notifying"
              /\ handlers' = [handlers EXCEPT ![h].pc = "snapshot"]
           \/ /\ handlers[h].pc = "snapshot" /\ LinkIsUp
              /\ handlers' = [handlers EXCEPT ![h].pc = "sending", ![h].via = transport]
  BY DEF HandlerStep, SkipSync, BeginSync, SendWantConfig, WantConfigSent, HandshakeFails

\* Every handler keeps a transport it began on.
LEMMA HandlerInvStep == LinkInv /\ HandlerInv /\ [Next]_vars => HandlerInv'
<1>. SUFFICES ASSUME LinkInv, HandlerInv, [Next]_vars PROVE HandlerInv'
  OBVIOUS
<1>. USE DEF HandlerInv
<1>0. NoHandler \in [pc : HandlerSteps, at : Transport \cup {NoTransport},
                     via : Transport \cup {NoTransport}, reason : Reasons]
  BY DEF NoHandler, HandlerSteps, Reasons
<1>1. ASSUME NEW h \in Handler, HandlerStep(h) PROVE HandlerInv'
  <2>1. CASE handlers' = [handlers EXCEPT ![h] = NoHandler]
    BY <2>1, <1>0 DEF HandlerTypes, NothingSent, NoHandler
  <2>2. CASE handlers' = [handlers EXCEPT ![h].pc = "snapshot"]
    BY <2>2 DEF HandlerTypes, NothingSent, HandlerSteps
  <2>3. CASE LinkIsUp /\ handlers' = [handlers EXCEPT ![h].pc = "sending",
                                                      ![h].via = transport]
    BY <2>3 DEF HandlerTypes, NothingSent, HandlerSteps, LinkInv, LinkTypes
  <2>. QED  BY <1>1, <2>1, <2>2, <2>3, HandlerEffect
<1>2. ASSUME NEW t \in Transport, Connects(t) PROVE HandlerInv'
  <2>1. PICK h \in Handler, r \in Reasons :
          handlers' = [handlers EXCEPT ![h] =
            [pc |-> "notifying", at |-> transport, via |-> NoTransport, reason |-> r]]
    BY <1>2 DEF Connects, Reasons
  <2>. QED
    BY <2>1 DEF HandlerTypes, NothingSent, HandlerSteps, LinkInv, LinkTypes
<1>3. ASSUME NEW t \in Transport, Loses(t) PROVE HandlerInv'
  <2>1. handlers' = [h \in Handler |-> IF handlers[h].via = t THEN NoHandler
                                       ELSE handlers[h]]
    BY <1>3 DEF Loses
  <2>. QED  BY <2>1, <1>0 DEF HandlerTypes, NothingSent, NoHandler
<1>4. CASE HandlersUnchanged
  BY <1>4 DEF HandlersUnchanged, HandlerTypes, NothingSent
<1>5. CASE UNCHANGED vars
  BY <1>4, <1>5 DEF vars, workVars, HandlersUnchanged
<1>. QED
  BY <1>1, <1>2, <1>3, <1>4, <1>5, HandlerBystanders DEF Next, TransportStep

-------------------------------------------------------------------------------
\* The resync latch and its watchdog.

\* The steps that leave the latch and the watchdog alone, and those that end a
\* resync with its watchdog.
ResyncKept == inFlight' = inFlight /\ watchdogs' = watchdogs

\* Who leaves the resync and its watchdog alone.
LEMMA ResyncBystanders ==
    ASSUME \/ AttemptStep \/ NodeStep
           \/ NoticeSent \/ CompleteSync \/ finishUserDisconnect \/ ResyncSent
           \/ connect \/ refreshNodeDatabase \/ disconnect \/ userDisconnect
           \/ userReconnect
           \/ \E t \in Transport : TransportStep(t)
           \/ \E h \in Handler : \/ BeginSync(h) \/ SendWantConfig(h)
                                 \/ WantConfigSent(h) \/ HandshakeFails(h)
    PROVE  ResyncKept
<1>1. CASE AttemptStep
  BY <1>1 DEF AttemptStep, RequestConnect, CreateTransport, ProbeDone, AttemptThrows,
     resyncVars, ResyncKept
<1>2. ASSUME NEW t \in Transport, TransportStep(t) PROVE ResyncKept
  BY <1>2 DEF TransportStep, Connects, DialFails, Loses, resyncVars, ResyncKept
<1>3. ASSUME NEW h \in Handler,
             BeginSync(h) \/ SendWantConfig(h) \/ WantConfigSent(h) \/ HandshakeFails(h)
      PROVE  ResyncKept
  BY <1>3 DEF BeginSync, SendWantConfig, WantConfigSent, HandshakeFails, resyncVars,
     ResyncKept
<1>4. CASE NodeStep \/ NoticeSent \/ CompleteSync \/ finishUserDisconnect \/ ResyncSent
  BY <1>4 DEF NodeStep, ReceiveConfig, ReceiveConfigComplete, NoticeSent, CompleteSync,
     finishUserDisconnect, ResyncSent, resyncVars, ResyncKept
<1>5. CASE \/ connect \/ refreshNodeDatabase \/ disconnect \/ userDisconnect
           \/ userReconnect
  BY <1>5 DEF connect, refreshNodeDatabase, disconnect, userDisconnect, userReconnect,
     resyncVars, ResyncKept
<1>. QED  BY <1>1, <1>2, <1>3, <1>4, <1>5

ResyncEnds == inFlight' = FALSE /\ watchdogs' = 0

\* A resync begins with its watchdog and ends without one.
LEMMA ResyncEffect ==
    ASSUME [Next]_vars, CountInv
    PROVE  \/ ResyncKept
           \/ ResyncEnds
           \/ requestManualResync /\ inFlight' = TRUE /\ watchdogs' = 1
<1>. USE DEF ResyncEnds, clearManualResyncInFlight, cancelWatchdog
<1>1. ASSUME NEW h \in Handler, SkipSync(h) PROVE ResyncKept \/ ResyncEnds
  BY <1>1 DEF SkipSync, runOnConfigCaptureComplete, ResyncKept
<1>2. CASE FinishSync \/ ResyncSendFails
  BY <1>2 DEF FinishSync, ResyncSendFails
<1>3. CASE FallbackFires
  BY <1>3 DEF FallbackFires, runOnConfigCaptureComplete, ResyncKept
<1>4. CASE WatchdogFires
  BY <1>4 DEF WatchdogFires, CountInv, CountTypes
<1>5. CASE requestManualResync
  BY <1>5 DEF requestManualResync
<1>6. CASE UNCHANGED vars
  BY <1>6 DEF vars, resyncVars, ResyncKept
<1>. QED
  BY <1>1, <1>2, <1>3, <1>4, <1>5, <1>6, ResyncBystanders
     DEF Next, HandlerStep, ResumeStep, TimerStep, OwnerStep, stop, setNodeIpOverride

\* The steps that change how many notifications are awaited or where the
\* handling of configComplete stands.
LEMMA NoticeEffect ==
    ASSUME [Next]_vars, CountTypes
    PROVE  notices' \in 0..MaxNotices /\ completing' \in Completions
<1>. DEFINE Goal == notices' \in 0..MaxNotices /\ completing' \in Completions
            Kept == notices' = notices /\ completing' = completing
<1>0. Kept => Goal
  BY DEF CountTypes
<1>1. CASE AttemptStep
  BY <1>0, <1>1 DEF AttemptStep, RequestConnect, CreateTransport, ProbeDone, AttemptThrows
<1>2. ASSUME NEW t \in Transport, Connects(t) \/ DialFails(t) PROVE Goal
  BY <1>0, <1>2 DEF Connects, DialFails
<1>3. ASSUME NEW t \in Transport, Loses(t) PROVE Goal
  <2>1. /\ completing' = completing
        /\ notices' = notices \/ (notices < MaxNotices /\ notices' = notices + 1)
    BY <1>3 DEF Loses, handleDisconnected
  <2>. QED  BY <2>1, BoundAssumption DEF CountTypes, BoundAssumption
<1>4. ASSUME NEW h \in Handler, HandshakeFails(h) PROVE Goal
  <2>1. /\ completing' = completing
        /\ notices' = notices \/ (notices < MaxNotices /\ notices' = notices + 1)
    BY <1>4 DEF HandshakeFails, handleDisconnected
  <2>. QED  BY <2>1, BoundAssumption DEF CountTypes, BoundAssumption
<1>5. ASSUME NEW h \in Handler,
             SkipSync(h) \/ BeginSync(h) \/ SendWantConfig(h) \/ WantConfigSent(h)
      PROVE  Goal
  BY <1>0, <1>5 DEF SkipSync, BeginSync, SendWantConfig, WantConfigSent
<1>6. CASE ReceiveConfig \/ TimerStep
  BY <1>0, <1>6 DEF ReceiveConfig, TimerStep, FallbackFires, WatchdogFires, workVars
<1>7. CASE ReceiveConfigComplete \/ CompleteSync \/ FinishSync
  BY <1>7 DEF ReceiveConfigComplete, CompleteSync, FinishSync, CountTypes, Completions
<1>8. CASE NoticeSent
  BY <1>8, BoundAssumption DEF NoticeSent, CountTypes, BoundAssumption
<1>9. CASE finishUserDisconnect \/ ResyncSent \/ ResyncSendFails
  BY <1>0, <1>9 DEF finishUserDisconnect, ResyncSent, ResyncSendFails, workVars
<1>10. CASE OwnerStep
  BY <1>0, <1>10 DEF OwnerStep, connect, refreshNodeDatabase, stop, setNodeIpOverride,
     disconnect, userDisconnect, userReconnect, requestManualResync, workVars
<1>11. CASE UNCHANGED vars
  BY <1>0, <1>11 DEF vars, workVars
<1>. QED
  BY <1>1, <1>2, <1>3, <1>4, <1>5, <1>6, <1>7, <1>8, <1>9, <1>10, <1>11
     DEF Next, NodeStep, ResumeStep, TransportStep, HandlerStep

\* The watchdog stays the resync's own.
LEMMA CountStep == CountInv /\ [Next]_vars => CountInv'
<1>. SUFFICES ASSUME CountInv, [Next]_vars PROVE CountInv'
  OBVIOUS
<1>. USE DEF CountInv
<1>1. calls' \in 0..MaxCalls
  <2>1. calls' = calls \/ (calls < MaxCalls /\ calls' = calls + 1)
    BY DEF Next, vars
  <2>. QED  BY <2>1, BoundAssumption DEF CountTypes, BoundAssumption
<1>2. watchdogs' \in 0..1 /\ WatchdogIsOwn'
  <2>1. CASE ResyncKept
    BY <2>1 DEF ResyncKept, CountTypes, WatchdogIsOwn
  <2>2. CASE ResyncEnds
    BY <2>2 DEF ResyncEnds, WatchdogIsOwn
  <2>3. CASE inFlight' = TRUE /\ watchdogs' = 1
    BY <2>3 DEF WatchdogIsOwn
  <2>. QED  BY <2>1, <2>2, <2>3, ResyncEffect
<1>. QED  BY <1>1, <1>2, NoticeEffect DEF CountTypes

-------------------------------------------------------------------------------
\* Modes, states and flags.

\* Every transition ends in a state of the reducer.
LEMMA StateStep == ModeTypes /\ [Next]_vars => ModeTypes'
<1>. DEFINE Goal == mode' = mode /\ state' \in States
            Kept == mode' = mode /\ state' = state
<1>. SUFFICES ASSUME ModeTypes, [Next]_vars PROVE Goal
  BY DEF ModeTypes
<1>0. Kept => Goal
  BY DEF ModeTypes
<1>00. NotConnected \in States
  BY DEF NotConnected, ModeTypes, States
<1>1. ASSUME NEW a \in attempts, RequestConnect(a) PROVE Goal
  BY <1>1 DEF RequestConnect, States
<1>2. ASSUME NEW a \in attempts, ProbeDone(a) PROVE Goal
  BY <1>2 DEF ProbeDone, States
<1>3. ASSUME NEW a \in attempts, CreateTransport(a) \/ AttemptThrows(a) PROVE Goal
  BY <1>0, <1>00, <1>3 DEF CreateTransport, AttemptThrows
<1>4. ASSUME NEW t \in Transport, Connects(t) PROVE Goal
  BY <1>4 DEF Connects, States
<1>5. ASSUME NEW t \in Transport, DialFails(t) \/ Loses(t) PROVE Goal
  BY <1>00, <1>5 DEF DialFails, Loses, handleDisconnected
<1>6. ASSUME NEW h \in Handler, HandshakeFails(h) PROVE Goal
  BY <1>0, <1>6 DEF HandshakeFails, handleDisconnected, States
<1>7. ASSUME NEW h \in Handler,
             SkipSync(h) \/ BeginSync(h) \/ SendWantConfig(h) \/ WantConfigSent(h)
      PROVE  Goal
  BY <1>0, <1>7 DEF SkipSync, BeginSync, SendWantConfig, WantConfigSent
<1>8. CASE NodeStep \/ TimerStep
  BY <1>0, <1>8 DEF NodeStep, TimerStep, ReceiveConfig, ReceiveConfigComplete,
     FallbackFires, WatchdogFires, States
<1>9. CASE ResumeStep
  BY <1>0, <1>9 DEF ResumeStep, NoticeSent, CompleteSync, FinishSync,
     finishUserDisconnect, ResyncSent, ResyncSendFails, States
<1>10. CASE OwnerStep
  BY <1>0, <1>00, <1>10 DEF OwnerStep, connect, refreshNodeDatabase, stop,
     setNodeIpOverride, disconnect, userDisconnect, userReconnect,
     requestManualResync, States
<1>11. CASE UNCHANGED vars
  BY <1>0, <1>11 DEF vars
<1>. QED
  BY <1>1, <1>2, <1>3, <1>4, <1>5, <1>6, <1>7, <1>8, <1>9, <1>10, <1>11
     DEF Next, AttemptStep, TransportStep, HandlerStep

\* A capture that starts, completes or is dropped leaves Boolean flags.
CaptureTypes == {capturing, complete, syncWatch} \subseteq BOOLEAN

\* The capture helpers leave Boolean flags.
LEMMA CaptureFlags ==
    ASSUME FlagTypes,
           \/ startConfigCapture \/ completeConfigCapture \/ clearConfigCapture
           \/ UNCHANGED captureVars
    PROVE  CaptureTypes'
  BY DEF FlagTypes, startConfigCapture, completeConfigCapture, clearConfigCapture,
     Watching, captureVars, CaptureTypes

NodeTypes == {known, wasDown, owed, callback, fallback, postReset} \subseteq BOOLEAN

ResyncTypes == {suppressNext, inFlight, resyncSend, stopping} \subseteq BOOLEAN

\* The flags by subject.
LEMMA FlagParts == FlagTypes <=> CaptureTypes /\ NodeTypes /\ ResyncTypes
  BY DEF FlagTypes, CaptureTypes, NodeTypes, ResyncTypes

\* The capture flags stay Boolean.
LEMMA CaptureStep == FlagTypes /\ [Next]_vars => CaptureTypes'
<1>. SUFFICES ASSUME FlagTypes, [Next]_vars PROVE CaptureTypes'
  OBVIOUS
<1>0. ASSUME UNCHANGED <<capturing, complete>>, syncWatch' \in {syncWatch, FALSE}
      PROVE  CaptureTypes'
  BY <1>0 DEF FlagTypes, CaptureTypes
<1>1. CASE AttemptStep
  BY <1>0, <1>1 DEF AttemptStep, RequestConnect, CreateTransport, ProbeDone,
     AttemptThrows, captureVars
<1>2. ASSUME NEW t \in Transport, TransportStep(t) PROVE CaptureTypes'
  BY <1>2, CaptureFlags DEF TransportStep, Connects, DialFails, Loses, handleDisconnected
<1>3. ASSUME NEW h \in Handler, HandlerStep(h) PROVE CaptureTypes'
  <2>1. CASE HandshakeFails(h)
    <3>1. handleDisconnected("disconnected", FALSE) \/ UNCHANGED captureVars
      BY <2>1 DEF HandshakeFails
    <3>. QED  BY <3>1, CaptureFlags DEF handleDisconnected
  <2>2. CASE ~HandshakeFails(h)
    BY <1>3, <2>2, CaptureFlags DEF HandlerStep, SkipSync, BeginSync, SendWantConfig,
       WantConfigSent
  <2>. QED  BY <2>1, <2>2
<1>4. CASE NodeStep \/ ResumeStep \/ TimerStep
  BY <1>4, CaptureFlags DEF NodeStep, ResumeStep, TimerStep, ReceiveConfig,
     ReceiveConfigComplete, NoticeSent, CompleteSync, FinishSync, finishUserDisconnect,
     ResyncSent, ResyncSendFails, FallbackFires, WatchdogFires
<1>5. CASE disconnect
  BY <1>0, <1>5 DEF disconnect
<1>6. CASE OwnerStep /\ ~disconnect
  BY <1>6, CaptureFlags DEF OwnerStep, connect, refreshNodeDatabase, stop,
     setNodeIpOverride, userDisconnect, userReconnect, requestManualResync
<1>7. CASE UNCHANGED vars
  BY <1>7, CaptureFlags DEF vars
<1>. QED  BY <1>1, <1>2, <1>3, <1>4, <1>5, <1>6, <1>7 DEF Next

\* What the node and the link report stays Boolean.
LEMMA NodeFlagsStep == FlagTypes /\ [Next]_vars => NodeTypes'
<1>. SUFFICES ASSUME FlagTypes, [Next]_vars PROVE NodeTypes'
  OBVIOUS
<1>0. NodeTypes
  BY FlagParts
<1>. USE DEF NodeTypes, nodeVars, timerVars
<1>1. CASE AttemptStep
  BY <1>0, <1>1 DEF AttemptStep, RequestConnect, CreateTransport, ProbeDone, AttemptThrows
<1>2. ASSUME NEW t \in Transport, TransportStep(t) PROVE NodeTypes'
  BY <1>0, <1>2 DEF TransportStep, Connects, DialFails, Loses, handleDisconnected
<1>3. ASSUME NEW h \in Handler, HandlerStep(h) PROVE NodeTypes'
  BY <1>0, <1>3 DEF HandlerStep, SkipSync, BeginSync, SendWantConfig, WantConfigSent,
     HandshakeFails, handleDisconnected
<1>4. CASE NodeStep \/ ResumeStep \/ TimerStep
  BY <1>0, <1>4 DEF NodeStep, ResumeStep, TimerStep, ReceiveConfig,
     ReceiveConfigComplete, NoticeSent, CompleteSync, FinishSync, finishUserDisconnect,
     ResyncSent, ResyncSendFails, FallbackFires, WatchdogFires
<1>5. CASE OwnerStep
  BY <1>0, <1>5 DEF OwnerStep, connect, refreshNodeDatabase, stop, setNodeIpOverride,
     disconnect, userDisconnect, userReconnect, requestManualResync
<1>6. CASE UNCHANGED vars
  BY <1>0, <1>6 DEF vars
<1>. QED  BY <1>1, <1>2, <1>3, <1>4, <1>5, <1>6 DEF Next

\* The resync's flags stay Boolean.
LEMMA ResyncFlagsStep == FlagTypes /\ CountInv /\ [Next]_vars => ResyncTypes'
<1>. SUFFICES ASSUME FlagTypes, CountInv, [Next]_vars PROVE ResyncTypes'
  OBVIOUS
<1>0. ResyncTypes
  BY FlagParts
<1>1. inFlight' \in BOOLEAN
  BY <1>0, ResyncEffect DEF ResyncKept, ResyncEnds, ResyncTypes
<1>2. {suppressNext', resyncSend', stopping'} \subseteq BOOLEAN
  <2>. USE DEF ResyncTypes, resyncVars, workVars
  <2>1. CASE AttemptStep
    BY <1>0, <2>1 DEF AttemptStep, RequestConnect, CreateTransport, ProbeDone,
       AttemptThrows
  <2>2. ASSUME NEW t \in Transport, TransportStep(t)
        PROVE  {suppressNext', resyncSend', stopping'} \subseteq BOOLEAN
    BY <1>0, <2>2 DEF TransportStep, Connects, DialFails, Loses
  <2>3. ASSUME NEW h \in Handler, HandlerStep(h)
        PROVE  {suppressNext', resyncSend', stopping'} \subseteq BOOLEAN
    BY <1>0, <2>3 DEF HandlerStep, SkipSync, BeginSync, SendWantConfig, WantConfigSent,
       HandshakeFails
  <2>4. CASE NodeStep \/ ResumeStep \/ TimerStep
    BY <1>0, <2>4 DEF NodeStep, ResumeStep, TimerStep, ReceiveConfig,
       ReceiveConfigComplete, NoticeSent, CompleteSync, FinishSync,
       finishUserDisconnect, ResyncSent, ResyncSendFails, FallbackFires, WatchdogFires
  <2>5. CASE OwnerStep
    BY <1>0, <2>5 DEF OwnerStep, connect, refreshNodeDatabase, stop, setNodeIpOverride,
       disconnect, userDisconnect, userReconnect, requestManualResync, latchSuppressNext
  <2>6. CASE UNCHANGED vars
    BY <1>0, <2>6 DEF vars
  <2>. QED  BY <2>1, <2>2, <2>3, <2>4, <2>5, <2>6 DEF Next
<1>. QED  BY <1>1, <1>2 DEF ResyncTypes

-------------------------------------------------------------------------------
\* A forced resync spares the next connection another one.

\* The handler that will end the resync without another sync.
Recovering == \E h \in Handler :
                  handlers[h].pc = "notifying" /\ handlers[h].reason = "recovery"

\* While the latch stays set, or the handler stays, so does the cover.
LEMMA CoverKept ==
    ASSUME RecoveryCovered, inFlight' => inFlight,
           suppressNext => suppressNext' \/ Recovering',
           Recovering => Recovering' \/ ~inFlight'
    PROVE  RecoveryCovered'
  BY DEF RecoveryCovered, Recovering

\* Who leaves the resync and what covers it alone.
LEMMA CoverBystanders ==
    ASSUME \/ AttemptStep \/ NodeStep
           \/ NoticeSent \/ CompleteSync \/ FinishSync \/ finishUserDisconnect
           \/ ResyncSent \/ TimerStep
           \/ connect \/ refreshNodeDatabase \/ disconnect \/ userDisconnect
           \/ userReconnect
           \/ \E t \in Transport : DialFails(t) \/ Loses(t)
           \/ \E h \in Handler : HandlerStep(h)
    PROVE  suppressNext' = suppressNext
  BY DEF AttemptStep, RequestConnect, CreateTransport, ProbeDone, AttemptThrows, NodeStep,
     ReceiveConfig, ReceiveConfigComplete, NoticeSent, CompleteSync, FinishSync,
     finishUserDisconnect, ResyncSent, TimerStep, FallbackFires, WatchdogFires, connect,
     refreshNodeDatabase, disconnect, userDisconnect, userReconnect, DialFails, Loses,
     HandlerStep, SkipSync, BeginSync, SendWantConfig, WantConfigSent, HandshakeFails,
     resyncVars

\* No step leaves a resync uncovered.
LEMMA CoverStep ==
    LinkInv /\ HandlerInv /\ CountInv /\ RecoveryCovered /\ [Next]_vars => RecoveryCovered'
<1>. SUFFICES ASSUME LinkInv, HandlerInv, CountInv, RecoveryCovered, [Next]_vars
              PROVE  RecoveryCovered'
  OBVIOUS
<1>1. ASSUME NEW h \in Handler, HandlerStep(h) PROVE RecoveryCovered'
  <2>1. suppressNext' = suppressNext
    BY <1>1, CoverBystanders
  <2>2. CASE SkipSync(h)
    <3>1. handlers' = [handlers EXCEPT ![h] = NoHandler]
      BY <2>2 DEF SkipSync
    <3>2. handlers[h].reason = "recovery" => inFlight' = FALSE
      BY <2>2 DEF SkipSync, runOnConfigCaptureComplete, clearManualResyncInFlight
    <3>3. Recovering => Recovering' \/ ~inFlight'
      BY <3>1, <3>2 DEF HandlerInv, HandlerTypes, Recovering
    <3>4. inFlight' => inFlight
      BY <2>2 DEF SkipSync, runOnConfigCaptureComplete, clearManualResyncInFlight
    <3>. QED  BY <2>1, <3>3, <3>4, CoverKept
  <2>3. CASE ~SkipSync(h)
    <3>1. inFlight' = inFlight
      BY <1>1, <2>3, ResyncBystanders DEF HandlerStep, ResyncKept
    <3>2. handlers[h].pc = "notifying" => handlers[h].reason = "full"
      BY <1>1, <2>3 DEF HandlerStep, BeginSync, SendWantConfig, WantConfigSent,
         HandshakeFails
    <3>3. \A g \in Handler : g # h => handlers'[g] = handlers[g]
      BY <1>1, HandlerEffect DEF HandlerInv, HandlerTypes
    <3>4. Recovering => Recovering'
      BY <3>2, <3>3 DEF Recovering
    <3>. QED  BY <2>1, <3>1, <3>4, CoverKept
  <2>. QED  BY <2>2, <2>3
<1>2. ASSUME NEW t \in Transport, Connects(t) PROVE RecoveryCovered'
  <2>1. inFlight' = inFlight
    BY <1>2 DEF Connects
  <2>2. PICK h \in Handler, fresh \in {FALSE, MayBeFresh} :
          /\ FreeHandler(h)
          /\ handlers' = [handlers EXCEPT ![h] =
               [pc |-> "notifying", at |-> transport, via |-> NoTransport,
                reason |-> IF suppressNext THEN "recovery"
                           ELSE IF fresh THEN "cached" ELSE "full"]]
    BY <1>2 DEF Connects
  <2>3. suppressNext => Recovering'
    BY <2>2 DEF Recovering, HandlerInv, HandlerTypes
  <2>4. Recovering => Recovering'
    BY <2>2 DEF Recovering, FreeHandler, NoHandler, HandlerInv, HandlerTypes
  <2>. QED  BY <2>1, <2>3, <2>4, CoverKept
<1>3. ASSUME NEW t \in Transport, Loses(t) PROVE RecoveryCovered'
  <2>1. inFlight' = inFlight /\ suppressNext' = suppressNext
    BY <1>3 DEF Loses
  <2>2. handlers' = [h \in Handler |-> IF handlers[h].via = t THEN NoHandler
                                       ELSE handlers[h]]
    BY <1>3 DEF Loses
  <2>3. \A h \in Handler : handlers[h].pc = "notifying" => handlers'[h] = handlers[h]
    BY <2>2, TransportAssumption DEF HandlerInv, NothingSent, TransportAssumption
  <2>4. Recovering => Recovering'
    BY <2>3 DEF Recovering
  <2>. QED  BY <2>1, <2>4, CoverKept
<1>4. CASE ResyncSendFails
  BY <1>4 DEF ResyncSendFails, clearManualResyncInFlight, RecoveryCovered
<1>5. CASE requestManualResync
  BY <1>5 DEF requestManualResync, latchSuppressNext, clearManualResyncInFlight,
     RecoveryCovered
<1>6. CASE HandlersUnchanged /\ suppressNext' = suppressNext /\ ~requestManualResync
  <2>1. inFlight' => inFlight
    BY <1>6, ResyncEffect DEF ResyncKept, ResyncEnds
  <2>2. Recovering => Recovering'
    BY <1>6 DEF Recovering, HandlersUnchanged
  <2>. QED  BY <1>6, <2>1, <2>2, CoverKept
<1>7. CASE UNCHANGED vars
  <2>1. /\ suppressNext' = suppressNext /\ inFlight' = inFlight
        /\ handlers' = handlers
    BY <1>7 DEF vars, resyncVars, workVars
  <2>. QED  BY <2>1 DEF RecoveryCovered
<1>. QED
  BY <1>1, <1>2, <1>3, <1>4, <1>5, <1>6, <1>7, HandlerBystanders, CoverBystanders
     DEF Next, TransportStep, ResumeStep, OwnerStep, stop, setNodeIpOverride

-------------------------------------------------------------------------------
\* The stall detector is told the truth.

NoneNotifying == \A h \in Handler : handlers[h].pc # "notifying"

\* A step of the capture tells the transport.
LEMMA StallTold ==
    ASSUME transport' = transport,
           startConfigCapture \/ completeConfigCapture \/ clearConfigCapture
    PROVE  StallWatchTruthful'
  BY DEF startConfigCapture, completeConfigCapture, clearConfigCapture, Watching,
     StallWatchTruthful

\* A step that neither brings the link up nor lets a handler go on.
LEMMA StallKept ==
    ASSUME StallWatchTruthful, transport' = transport, UNCHANGED captureVars,
           LinkIsUp' => LinkIsUp, NoneNotifying' => NoneNotifying
    PROVE  StallWatchTruthful'
  BY DEF StallWatchTruthful, captureVars, NoneNotifying

\* No step lets the stall detector watch the wrong thing.
LEMMA StallStep ==
    LinkInv /\ HandlerInv /\ StallWatchTruthful /\ [Next]_vars => StallWatchTruthful'
<1>. SUFFICES ASSUME LinkInv, HandlerInv, StallWatchTruthful, [Next]_vars
              PROVE  StallWatchTruthful'
  OBVIOUS
<1>0. ASSUME transport' = NoTransport PROVE StallWatchTruthful'
  BY <1>0 DEF StallWatchTruthful
<1>1. ASSUME NEW a \in attempts, RequestConnect(a) PROVE StallWatchTruthful'
  BY <1>0, <1>1 DEF RequestConnect
<1>2. ASSUME NEW a \in attempts, CreateTransport(a) PROVE StallWatchTruthful'
  <2>1. PICK t \in Transport :
          /\ transport' = t
          /\ phase' = [phase EXCEPT ![t] = IF state = "probing" THEN "idle"
                                           ELSE "seeking"]
    BY <1>2 DEF CreateTransport
  <2>2. syncWatch' = FALSE
    BY <1>2 DEF CreateTransport
  <2>3. ~LinkIsUp'
    BY <2>1 DEF LinkInv, LinkTypes, LinkIsUp
  <2>. QED  BY <2>2, <2>3 DEF StallWatchTruthful
<1>3. ASSUME NEW a \in attempts, ProbeDone(a) PROVE StallWatchTruthful'
  <2>1. /\ transport' = transport /\ UNCHANGED captureVars /\ handlers' = handlers
        /\ \/ phase' = phase
           \/ phase' = [phase EXCEPT ![transport] = "seeking"]
    BY <1>3 DEF ProbeDone
  <2>2. LinkIsUp' => LinkIsUp
    BY <2>1, TransportAssumption DEF LinkInv, LinkTypes, LinkIsUp, TransportAssumption
  <2>3. NoneNotifying' => NoneNotifying
    BY <2>1 DEF NoneNotifying
  <2>. QED  BY <2>1, <2>2, <2>3, StallKept
<1>4. ASSUME NEW t \in Transport, Connects(t) PROVE StallWatchTruthful'
  <2>1. PICK h \in Handler, r \in Reasons :
          handlers' = [handlers EXCEPT ![h] =
            [pc |-> "notifying", at |-> transport, via |-> NoTransport, reason |-> r]]
    BY <1>4 DEF Connects, Reasons
  <2>2. ~NoneNotifying'
    BY <2>1 DEF HandlerInv, HandlerTypes, NoneNotifying
  <2>3. transport' = transport /\ syncWatch' = syncWatch /\ capturing' = capturing
    BY <1>4 DEF Connects, captureVars
  <2>. QED  BY <2>2, <2>3 DEF NoneNotifying, StallWatchTruthful
<1>5. ASSUME NEW t \in Transport, Loses(t) PROVE StallWatchTruthful'
  <2>1. CASE clearConfigCapture
    BY <1>5, <2>1, StallTold DEF Loses
  <2>2. CASE ~clearConfigCapture
    <3>1. UNCHANGED captureVars /\ transport' = transport
      BY <1>5, <2>2 DEF Loses, handleDisconnected
    <3>2. LinkIsUp' => LinkIsUp
      BY <1>5, <3>1 DEF Loses, LinkInv, LinkTypes, LinkIsUp
    <3>3. handlers' = [h \in Handler |-> IF handlers[h].via = t THEN NoHandler
                                         ELSE handlers[h]]
      BY <1>5 DEF Loses
    <3>4. NoneNotifying' => NoneNotifying
      BY <3>3, TransportAssumption DEF NoneNotifying, HandlerInv, NothingSent,
         TransportAssumption
    <3>. QED  BY <3>1, <3>2, <3>4, StallKept
  <2>. QED  BY <2>1, <2>2
<1>6. ASSUME NEW h \in Handler, HandlerStep(h) PROVE StallWatchTruthful'
  <2>1. transport' = transport
    BY <1>6 DEF HandlerStep, SkipSync, BeginSync, SendWantConfig, WantConfigSent,
       HandshakeFails, linkVars
  <2>2. CASE startConfigCapture \/ completeConfigCapture \/ clearConfigCapture
    BY <2>1, <2>2, StallTold
  <2>3. CASE ~(startConfigCapture \/ completeConfigCapture \/ clearConfigCapture)
    <3>1. /\ UNCHANGED captureVars
          /\ phase' = phase \/ phase' = HungUp
          /\ handlers[h].pc # "notifying"
      BY <1>6, <2>3 DEF HandlerStep, SkipSync, BeginSync, SendWantConfig,
         WantConfigSent, HandshakeFails, handleDisconnected, linkVars
    <3>2. LinkIsUp' => LinkIsUp
      BY <2>1, <3>1, HungUpAll DEF LinkInv, LinkTypes, LinkIsUp
    <3>3. NoneNotifying' => NoneNotifying
      BY <1>6, <3>1, HandlerEffect DEF NoneNotifying, HandlerInv, HandlerTypes
    <3>. QED  BY <2>1, <3>1, <3>2, <3>3, StallKept
  <2>. QED  BY <2>2, <2>3
<1>7. CASE CompleteSync \/ FallbackFires \/ requestManualResync
  <2>1. /\ transport' = transport /\ phase' = phase /\ handlers' = handlers
        /\ startConfigCapture \/ completeConfigCapture \/ UNCHANGED captureVars
    BY <1>7 DEF CompleteSync, FallbackFires, requestManualResync, linkVars, workVars
  <2>. QED  BY <2>1, StallTold, StallKept DEF LinkIsUp, NoneNotifying
<1>8. CASE disconnect
  BY <1>0, <1>8 DEF disconnect
<1>9. CASE finishUserDisconnect
  <2>1. /\ transport' = transport /\ UNCHANGED captureVars /\ handlers' = handlers
        /\ phase' = [t \in Transport |-> "idle"]
    BY <1>9, HungUpAll DEF finishUserDisconnect, LinkInv
  <2>2. ~LinkIsUp'
    BY <2>1 DEF LinkIsUp, LinkInv, LinkTypes
  <2>. QED  BY <2>1, <2>2, StallKept DEF NoneNotifying
<1>10. CASE UNCHANGED <<transport, phase, captureVars, handlers>>
  BY <1>10, StallKept DEF LinkIsUp, NoneNotifying
<1>11. ASSUME NEW a \in attempts, AttemptThrows(a)
       PROVE  UNCHANGED <<transport, phase, captureVars, handlers>>
  BY <1>11 DEF AttemptThrows, linkVars
<1>12. ASSUME NEW t \in Transport, DialFails(t)
       PROVE  UNCHANGED <<transport, phase, captureVars, handlers>>
  BY <1>12 DEF DialFails, linkVars
<1>13. ASSUME \/ NodeStep \/ NoticeSent \/ FinishSync \/ ResyncSent \/ ResyncSendFails
              \/ WatchdogFires \/ connect \/ refreshNodeDatabase \/ userDisconnect
              \/ userReconnect \/ UNCHANGED vars
       PROVE  UNCHANGED <<transport, phase, captureVars, handlers>>
  BY <1>13 DEF NodeStep, ReceiveConfig, ReceiveConfigComplete, NoticeSent, FinishSync,
     ResyncSent, ResyncSendFails, WatchdogFires, connect, refreshNodeDatabase,
     userDisconnect, userReconnect, linkVars, workVars, vars
<1>. QED
  BY <1>1, <1>2, <1>3, <1>4, <1>5, <1>6, <1>7, <1>8, <1>9, <1>10, <1>11, <1>12, <1>13
     DEF Next, AttemptStep, TransportStep, ResumeStep, TimerStep, OwnerStep, stop,
         setNodeIpOverride

-------------------------------------------------------------------------------
\* The theorems.

\* The invariant holds in every reachable state.
THEOREM Invariance == Spec => []IInv
<1>1. IInv /\ [Next]_vars => IInv'
  BY LinkStep, HandlerInvStep, CountStep, StateStep, CaptureStep, NodeFlagsStep,
     ResyncFlagsStep, FlagParts, CoverStep, StallStep DEF IInv, FlagTypes, CaptureTypes,
     NodeTypes, ResyncTypes
<1>. QED  BY InitInv, <1>1, PTL DEF Spec

\* Every variable has its type; in particular two connect attempts never
\* overlap (connectInFlight).
THEOREM TypeCorrect == Spec => []TypeOK
<1>1. IInv => TypeOK
  BY DEF IInv, LinkInv, HandlerInv, CountInv, TypeOK
<1>. QED  BY Invariance, <1>1, PTL

\* However many handlers, notifications and calls overlap, every transport
\* that is alive is the one the manager holds (#3270).
THEOREM NoOrphans == Spec => []NoOrphan
<1>1. IInv => NoOrphan
  BY DEF IInv, LinkInv
<1>. QED  BY Invariance, <1>1, PTL

\* A resync in flight has exactly its own watchdog, and its latch or its
\* handler keeps the next connection from syncing again (#3122).
THEOREM ResyncGuarded == Spec => []ResyncCovered
<1>1. IInv => ResyncCovered
  BY DEF IInv, CountInv, ResyncCovered
<1>. QED  BY Invariance, <1>1, PTL

\* The stall detector of the transport watches nothing but a sync, and every
\* sync of an established link once no newer handler awaits its notification
\* (#5122).
THEOREM StallWatch == Spec => []StallWatchTruthful
<1>1. IInv => StallWatchTruthful
  BY DEF IInv
<1>. QED  BY Invariance, <1>1, PTL

\* An established link is hung up on only by the operator, a new connect or
\* the failure of the handshake that began on it (#3247).
THEOREM SuccessorSpared == Spec => LateFailureSpares
<1>. DEFINE Spares(t) == phase[t] = "up" /\ phase'[t] = "idle" =>
              \/ OwnerHangsUp
              \/ \E h \in Handler : handlers[h].at = t /\ handlers'[h] = NoHandler
<1>1. IInv /\ [Next]_vars => [\A t \in Transport : Spares(t)]_vars
  <2>. SUFFICES ASSUME IInv, [Next]_vars, NEW t \in Transport,
                       phase[t] = "up", phase'[t] = "idle", ~OwnerHangsUp
                PROVE  \E h \in Handler : handlers[h].at = t /\ handlers'[h] = NoHandler
    OBVIOUS
  <2>. USE DEF IInv, LinkInv
  <2>1. ASSUME NEW a \in attempts, CreateTransport(a) PROVE FALSE
    BY <2>1 DEF CreateTransport, FreshTransport, LinkTypes
  <2>2. ASSUME NEW a \in attempts, ProbeDone(a) PROVE FALSE
    BY <2>2 DEF ProbeDone, LinkTypes
  <2>3. ASSUME NEW a \in attempts, AttemptThrows(a) PROVE FALSE
    BY <2>3 DEF AttemptThrows, linkVars
  <2>4. ASSUME NEW u \in Transport, TransportStep(u) PROVE FALSE
    BY <2>4 DEF TransportStep, Connects, DialFails, Loses, LinkTypes, linkVars
  <2>5. ASSUME NEW h \in Handler, HandshakeFails(h)
        PROVE  handlers[h].at = t /\ handlers'[h] = NoHandler
    <3>1. transport = t
      BY DEF NoOrphan
    <3>2. handlers[h].at = transport
      BY <2>5 DEF HandshakeFails, transportIdentityMatches
    <3>3. handlers'[h] = NoHandler
      BY <2>5 DEF HandshakeFails, HandlerInv, HandlerTypes
    <3>. QED  BY <3>1, <3>2, <3>3
  <2>6. ASSUME connect \/ userReconnect \/ LinkUnchanged \/ UNCHANGED vars PROVE FALSE
    BY <2>6 DEF connect, userReconnect, LinkUnchanged, vars, linkVars
  <2>. QED
    BY <2>1, <2>2, <2>3, <2>4, <2>5, <2>6, LinkBystanders
       DEF Next, AttemptStep, HandlerStep, OwnerStep, ResumeStep, OwnerHangsUp
<1>. QED  BY Invariance, <1>1, PTL DEF Spec, LateFailureSpares
===============================================================================
