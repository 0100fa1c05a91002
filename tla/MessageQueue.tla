---------------------------- MODULE MessageQueue ----------------------------
(***************************************************************************)
(* The outgoing message queue of one Meshtastic source                     *)
(* (src/src/server/messageQueueService.ts) and the callbacks by which      *)
(* meshtasticManager.ts reports ACKs, NAKs and sends made outside it.      *)
(*                                                                         *)
(* The service is single-threaded JavaScript: an action is the code that   *)
(* runs from one await or timer to the next.  A loop is one chain of       *)
(* setTimeout callbacks around processQueue; the service means to have at  *)
(* most one.  Time is counted in ticks and kept as ages and countdowns     *)
(* that stop at the largest value a comparison of the code looks at.       *)
(***************************************************************************)
EXTENDS Integers, Sequences, FiniteSets

CONSTANTS
    Msg,            \* messages (QueuedMessage objects, named by their id)
    Loop,           \* names for concurrent chains of processQueue timers
    NoMsg,          \* "no message"
    ZeroHop,        \* messages enqueued with hopLimitOverride = 0
    Channel,        \* messages enqueued with a channel index
    Override,       \* maxAttemptsOverride of each message, 0 when undefined
    AutoAckMaxAttempts, \* the autoAckMaxAttempts setting, as an integer
    SEND_INTERVAL,  \* ticks between sends
    RETRY_INTERVAL, \* ticks before an unacknowledged send is repeated
    PENDING_ACK_TIMEOUT, \* ticks after which a pending ACK is given up
    MaxExternal     \* bound: sends recorded from outside the queue

ASSUME MessagesAssumption ==
    /\ NoMsg \notin Msg
    /\ ZeroHop \subseteq Msg
    /\ Channel \subseteq Msg
    /\ Override \in [Msg -> Nat]
    /\ AutoAckMaxAttempts \in Int
    /\ Loop # {}

\* 30 s, 90 s and 5 min in the source.
ASSUME IntervalsAssumption ==
    /\ SEND_INTERVAL \in Nat \ {0}
    /\ RETRY_INTERVAL \in Nat
    /\ RETRY_INTERVAL >= SEND_INTERVAL
    /\ PENDING_ACK_TIMEOUT \in Nat
    /\ MaxExternal \in Nat

VARIABLES
    queue,            \* messages not handed to the radio yet, in order
    pendingAcks,      \* request ids waiting for an ACK
    processing,       \* the service believes a loop is running
    cleanup,          \* the 60 s cleanup interval is installed
    callbackSet,      \* setSendCallback has been called
    sinceSend,        \* age of lastSendTime; SEND_INTERVAL also stands for 0
    attempts,         \* sends started for each message
    requestId,        \* attempt whose request id is current, 0 before any
    priorRequestIds,  \* earlier attempts that also had a request id
    sinceAttempt,     \* age of lastAttemptAt
    pendingAge,       \* age of pendingAckSince
    pc,               \* where each loop stands
    wait,             \* ticks left of a loop's setTimeout
    cur,              \* message a loop is sending
    sweeping,         \* message the orphan sweep is about to time out
    externals,        \* number of recordExternalSend calls so far
    outcome,          \* history: onSuccess / onFailure calls of each message
    raced             \* history: messages resolved while a send or sweep of
                      \* theirs was suspended at an await

loopVars == <<pc, wait, cur>>
histVars == <<outcome, raced>>
msgVars  == <<attempts, requestId, priorRequestIds, sinceAttempt, pendingAge>>
vars == <<queue, pendingAcks, processing, cleanup, callbackSet, sinceSend,
          msgVars, loopVars, sweeping, externals, histVars>>

-----------------------------------------------------------------------------
(* Messages and request ids.  sendTextMessage draws a fresh packet id for   *)
(* every send, so a request id is named by its message and attempt number.  *)

\* The setting is clamped to 1..3 when the message is enqueued.
resolveDmMaxAttempts ==
    IF AutoAckMaxAttempts < 1 THEN 1
    ELSE IF AutoAckMaxAttempts > 3 THEN 3 ELSE AutoAckMaxAttempts

maxAttempts(m) ==
    IF m \in ZeroHop THEN 1
    ELSE IF Override[m] # 0 THEN Override[m]
    ELSE IF m \in Channel THEN 1 ELSE resolveDmMaxAttempts

RequestIds == Msg \X (Nat \ {0})

\* Mutant: an ACK clears only the id of the current attempt.
CurrentIdOf(m) == {m} \X {n \in {requestId[m]} : n # 0}

\* Every request id the message has used.
IdsOf(m) ==
    {m} \X ({n \in {requestId[m]} : n # 0} \cup priorRequestIds[m])

\* Mutant: resolving one message empties the whole map.
deleteEveryRequestId(m) == {}

deleteAllRequestIds(m) == pendingAcks \ IdsOf(m)

\* Mutant: a new attempt takes the place of the earlier ones in the map.
trackOnlyPending(m, n) == deleteAllRequestIds(m) \cup {<<m, n>>}

trackPending(m, n) == pendingAcks \cup {<<m, n>>}

IsPending(m) == \E id \in pendingAcks : id[1] = m

Elements(q) == {q[i] : i \in DOMAIN q}

Enqueued(m) == attempts[m] > 0 \/ outcome[m] # <<>> \/ m \in Elements(queue)

InFlight(m) == \E c \in Loop : pc[c] \in {"sending", "recording"} /\ cur[c] = m

\* Mutant: a sent message stays at the head of the queue.
keepInQueue(q, m) == q

\* removeFromQueue: findIndex and splice, nothing when the message is gone.
removeFromQueue(q, m) ==
    IF m \notin Elements(q) THEN q
    ELSE LET i == CHOOSE k \in DOMAIN q : q[k] = m /\ \A j \in 1 .. (k - 1) : q[j] # m
         IN  [j \in 1 .. (Len(q) - 1) |-> IF j < i THEN q[j] ELSE q[j + 1]]

-----------------------------------------------------------------------------
(* What every resolution of a message does: one callback, with the result.  *)

\* What onSuccess or the reason given to onFailure can be.
Results == {"success", "noCallback", "sendError", "routingError", "timeout"}

Report(m, result) == outcome' = [outcome EXCEPT ![m] = Append(@, result)]

\* A resolution by a handler catches a send or a sweep of m at an await;
\* one by the loop itself catches only the sweep, one by the sweep a send.
MarkRaced(m, catches) ==
    raced' = IF catches THEN raced \cup {m} ELSE raced

-----------------------------------------------------------------------------
(* processQueue up to its first await, on queue q.                          *)

\* Mutant: the attempt budget is not looked at.
findAnyForRetry == {m \in Msg : IsPending(m) /\ sinceAttempt[m] >= RETRY_INTERVAL}

\* Map order decides which of several due messages is retried; any may be.
findMessageForRetry ==
    {m \in Msg : /\ IsPending(m)
                 /\ attempts[m] < maxAttempts(m)
                 /\ sinceAttempt[m] >= RETRY_INTERVAL}

\* Mutant: the rate limit is not looked at before a send.
neverTooSoon == FALSE

tooSoon == sinceSend < SEND_INTERVAL

\* Mutant: the subtraction is the wrong way round.
waitTimeReversed == sinceSend - SEND_INTERVAL

waitTime == SEND_INTERVAL - sinceSend

\* Mutant: the service stops with ACKs outstanding.
nothingQueued(q) == q = <<>>

nothingToDo(q) == q = <<>> /\ pendingAcks = {}

\* Mutant: every enqueue starts processing.
alwaysStart == TRUE

mustStart == ~processing

ArmTimer(c, ticks) ==
    /\ pc' = [pc EXCEPT ![c] = "timer"]
    /\ wait' = [wait EXCEPT ![c] = ticks]
    /\ cur' = [cur EXCEPT ![c] = NoMsg]

\* sendMessage: the attempt is counted before the callback is awaited.
BeginSend(c, m, q) ==
    IF callbackSet
    THEN /\ attempts' = [attempts EXCEPT ![m] = @ + 1]
         /\ sinceAttempt' = [sinceAttempt EXCEPT ![m] = 0]
         /\ pc' = [pc EXCEPT ![c] = "sending"]
         /\ cur' = [cur EXCEPT ![c] = m]
         /\ queue' = q
         /\ UNCHANGED <<pendingAcks, requestId, priorRequestIds, pendingAge, wait,
                        histVars>>
    ELSE /\ queue' = removeFromQueue(q, m)
         /\ pendingAcks' = deleteAllRequestIds(m)
         /\ Report(m, "noCallback")
         /\ MarkRaced(m, sweeping = m)
         /\ ArmTimer(c, SEND_INTERVAL)
         /\ UNCHANGED msgVars

KeepsRunning == processing' = TRUE /\ cleanup' = TRUE

processQueue(c, q) ==
    \/ /\ tooSoon
       /\ ArmTimer(c, waitTime)
       /\ KeepsRunning
       /\ queue' = q
       /\ UNCHANGED <<pendingAcks, msgVars, histVars>>
    \/ /\ ~tooSoon
       /\ \E m \in findMessageForRetry : BeginSend(c, m, q)
       /\ KeepsRunning
    \/ /\ ~tooSoon
       /\ findMessageForRetry = {}
       /\ q # <<>>
       /\ BeginSend(c, Head(q), q)
       /\ KeepsRunning
    \/ /\ ~tooSoon
       /\ findMessageForRetry = {}
       /\ q = <<>>
       /\ IF nothingToDo(q)
          THEN /\ pc' = [pc EXCEPT ![c] = "idle"]
               /\ processing' = FALSE
               /\ cleanup' = FALSE
               /\ UNCHANGED <<wait, cur>>
          ELSE ArmTimer(c, SEND_INTERVAL) /\ KeepsRunning
       /\ queue' = q
       /\ UNCHANGED <<pendingAcks, msgVars, histVars>>

-----------------------------------------------------------------------------
Init ==
    /\ queue = <<>>
    /\ pendingAcks = {}
    /\ processing = FALSE
    /\ cleanup = FALSE
    /\ callbackSet = FALSE
    /\ sinceSend = SEND_INTERVAL
    /\ attempts = [m \in Msg |-> 0]
    /\ requestId = [m \in Msg |-> 0]
    /\ priorRequestIds = [m \in Msg |-> {}]
    /\ sinceAttempt = [m \in Msg |-> RETRY_INTERVAL]
    /\ pendingAge = [m \in Msg |-> 0]
    /\ pc = [c \in Loop |-> "idle"]
    /\ wait = [c \in Loop |-> 0]
    /\ cur = [c \in Loop |-> NoMsg]
    /\ sweeping = NoMsg
    /\ externals = 0
    /\ outcome = [m \in Msg |-> <<>>]
    /\ raced = {}

setSendCallback ==
    /\ ~callbackSet
    /\ callbackSet' = TRUE
    /\ UNCHANGED <<queue, pendingAcks, processing, cleanup, sinceSend, msgVars,
                   loopVars, sweeping, externals, histVars>>

FreeLoop == CHOOSE c \in Loop : pc[c] = "idle"

\* enqueue starts a loop of its own unless the service believes one runs.
enqueue(m) ==
    /\ ~Enqueued(m)
    /\ LET q == Append(queue, m) IN
       \/ /\ ~mustStart
          /\ queue' = q
          /\ UNCHANGED <<pendingAcks, processing, cleanup, msgVars, loopVars, histVars>>
       \/ /\ mustStart
          /\ \E c \in Loop : pc[c] = "idle"
          /\ processQueue(FreeLoop, q)
    /\ UNCHANGED <<callbackSet, sinceSend, sweeping, externals>>

recordExternalSend ==
    /\ externals < MaxExternal
    /\ externals' = externals + 1
    /\ sinceSend' = 0
    /\ UNCHANGED <<queue, pendingAcks, processing, cleanup, callbackSet, msgVars,
                   loopVars, sweeping, histVars>>

\* The setTimeout callbacks of processQueue look at processing and nothing else.
TimerFires(c) ==
    /\ pc[c] = "timer"
    /\ wait[c] = 0
    /\ \/ processing /\ processQueue(c, queue)
       \/ /\ ~processing
          /\ pc' = [pc EXCEPT ![c] = "idle"]
          /\ UNCHANGED <<queue, pendingAcks, processing, cleanup, msgVars, wait, cur,
                         histVars>>
    /\ UNCHANGED <<callbackSet, sinceSend, sweeping, externals>>

\* The rest of sendMessage once the request id n is recorded.
FinishSend(c, m, n) ==
    /\ queue' = removeFromQueue(queue, m)
    /\ ArmTimer(c, SEND_INTERVAL)
    /\ IF m \in ZeroHop
       THEN /\ Report(m, "success")
            /\ MarkRaced(m, sweeping = m)
            /\ UNCHANGED <<pendingAcks, pendingAge>>
       ELSE /\ pendingAcks' = trackPending(m, n)
            /\ pendingAge' = [pendingAge EXCEPT ![m] = 0]
            /\ UNCHANGED histVars

\* sendCallback resolves with the packet id of attempt n.  A repeated send
\* awaits the 'retry' event write before the id is entered in pendingAcks.
SendResolves(c) ==
    /\ pc[c] = "sending"
    /\ LET m == cur[c]
           n == attempts[m]
       IN  /\ priorRequestIds' =
                 IF requestId[m] \notin {0, n}
                 THEN [priorRequestIds EXCEPT ![m] = @ \cup {requestId[m]}]
                 ELSE priorRequestIds
           /\ requestId' = [requestId EXCEPT ![m] = n]
           /\ \/ /\ n > 1
                 /\ pc' = [pc EXCEPT ![c] = "recording"]
                 /\ UNCHANGED <<queue, pendingAcks, pendingAge, wait, cur, histVars>>
              \/ n <= 1 /\ FinishSend(c, m, n)
    /\ sinceSend' = 0
    /\ UNCHANGED <<processing, cleanup, callbackSet, attempts, sinceAttempt,
                   sweeping, externals>>

RetryRecorded(c) ==
    /\ pc[c] = "recording"
    /\ FinishSend(c, cur[c], requestId[cur[c]])
    /\ UNCHANGED <<processing, cleanup, callbackSet, sinceSend, attempts, requestId,
                   priorRequestIds, sinceAttempt, sweeping, externals>>

\* sendCallback rejects, or resolves with an id that is not positive.
SendFails(c) ==
    /\ pc[c] = "sending"
    /\ LET m == cur[c] IN
       \/ /\ attempts[m] >= maxAttempts(m)
          /\ queue' = removeFromQueue(queue, m)
          /\ pendingAcks' = deleteAllRequestIds(m)
          /\ Report(m, "sendError")
          /\ MarkRaced(m, sweeping = m)
          /\ UNCHANGED pendingAge
       \/ /\ attempts[m] < maxAttempts(m)
          /\ IF requestId[m] # 0
             THEN /\ pendingAcks' = trackPending(m, requestId[m])
                  /\ pendingAge' = [pendingAge EXCEPT ![m] = 0]
             ELSE UNCHANGED <<pendingAcks, pendingAge>>
          /\ UNCHANGED <<queue, histVars>>
    /\ ArmTimer(c, SEND_INTERVAL)
    /\ UNCHANGED <<processing, cleanup, callbackSet, sinceSend, attempts, requestId,
                   priorRequestIds, sinceAttempt, sweeping, externals>>

\* meshtasticManager hands over only ACKs of direct messages, sent by their
\* destination; a zero-hop send asks for none.  An id that is not pending
\* (not entered yet, or removed) is ignored: handleAck then changes nothing.
handleAck(m, n) ==
    /\ m \notin Channel \cup ZeroHop
    /\ <<m, n>> \in pendingAcks
    /\ pendingAcks' = deleteAllRequestIds(m)
    /\ Report(m, "success")
    /\ MarkRaced(m, InFlight(m) \/ sweeping = m)
    /\ UNCHANGED <<queue, processing, cleanup, callbackSet, sinceSend, msgVars,
                   loopVars, sweeping, externals>>

handleFailure(m, n) ==
    /\ <<m, n>> \in pendingAcks
    /\ queue' = removeFromQueue(queue, m)
    /\ pendingAcks' = deleteAllRequestIds(m)
    /\ Report(m, "routingError")
    /\ MarkRaced(m, InFlight(m) \/ sweeping = m)
    /\ UNCHANGED <<processing, cleanup, callbackSet, sinceSend, msgVars, loopVars,
                   sweeping, externals>>

\* cleanupOrphanedAcks finds an expired message and awaits the 'timeout'
\* event write; one sweep runs at a time (the writes end within a minute).
SweepExpired(m) ==
    /\ cleanup
    /\ sweeping = NoMsg
    /\ IsPending(m)
    /\ pendingAge[m] > PENDING_ACK_TIMEOUT
    /\ sweeping' = m
    /\ UNCHANGED <<queue, pendingAcks, processing, cleanup, callbackSet, sinceSend,
                   msgVars, loopVars, externals, histVars>>

\* The sweep resumes and gives the message up without looking at it again.
SweepGivesUp ==
    /\ sweeping # NoMsg
    /\ pendingAcks' = deleteAllRequestIds(sweeping)
    /\ Report(sweeping, "timeout")
    /\ MarkRaced(sweeping, InFlight(sweeping))
    /\ sweeping' = NoMsg
    /\ UNCHANGED <<queue, processing, cleanup, callbackSet, sinceSend, msgVars,
                   loopVars, externals>>

Older(age, limit) == IF age < limit THEN age + 1 ELSE age

Tick ==
    /\ sinceSend' = Older(sinceSend, SEND_INTERVAL)
    /\ sinceAttempt' = [m \in Msg |-> Older(sinceAttempt[m], RETRY_INTERVAL)]
    /\ pendingAge' = [m \in Msg |-> IF IsPending(m)
                                    THEN Older(pendingAge[m], PENDING_ACK_TIMEOUT + 1)
                                    ELSE pendingAge[m]]
    /\ wait' = [c \in Loop |-> IF wait[c] > 0 THEN wait[c] - 1 ELSE 0]
    /\ UNCHANGED <<queue, pendingAcks, processing, cleanup, callbackSet, attempts,
                   requestId, priorRequestIds, pc, cur, sweeping, externals, histVars>>

-----------------------------------------------------------------------------
Next ==
    \/ setSendCallback
    \/ recordExternalSend
    \/ SweepGivesUp
    \/ Tick
    \/ \E m \in Msg : enqueue(m) \/ SweepExpired(m)
    \/ \E m \in Msg : \E n \in 1 .. attempts[m] : handleAck(m, n) \/ handleFailure(m, n)
    \/ \E c \in Loop : TimerFires(c) \/ SendResolves(c) \/ SendFails(c) \/ RetryRecorded(c)

Spec == Init /\ [][Next]_vars

\* Time passes, timers that are due fire, and an event write and a sweep that
\* began come to an end.  Nothing is assumed of the radio, from which no ACK and
\* no routing error need ever arrive, nor of the transport: the send a loop
\* awaits may stay unsettled for ever, as TcpTransport.send() does when its
\* socket dies between the write callback and 'drain'.
Fairness ==
    /\ WF_vars(Tick)
    /\ WF_vars(SweepGivesUp)
    /\ \A m \in Msg : WF_vars(SweepExpired(m))
    /\ \A c \in Loop : /\ WF_vars(TimerFires(c))
                       /\ WF_vars(RetryRecorded(c))

FairSpec == Spec /\ Fairness

-----------------------------------------------------------------------------
(* Properties.                                                              *)

QueueTypes ==
    /\ queue \in Seq(Msg)
    /\ pendingAcks \subseteq RequestIds
    /\ processing \in BOOLEAN /\ cleanup \in BOOLEAN /\ callbackSet \in BOOLEAN
    /\ sinceSend \in 0 .. SEND_INTERVAL
    /\ sweeping \in Msg \cup {NoMsg}
    /\ externals \in 0 .. MaxExternal

MsgTypes ==
    /\ attempts \in [Msg -> Nat]
    /\ requestId \in [Msg -> Nat]
    /\ priorRequestIds \in [Msg -> SUBSET (Nat \ {0})]
    /\ sinceAttempt \in [Msg -> 0 .. RETRY_INTERVAL]
    /\ pendingAge \in [Msg -> 0 .. (PENDING_ACK_TIMEOUT + 1)]

LoopTypes ==
    /\ pc \in [Loop -> {"idle", "timer", "sending", "recording"}]
    /\ wait \in [Loop -> 0 .. SEND_INTERVAL]
    /\ cur \in [Loop -> Msg \cup {NoMsg}]
    /\ \A c \in Loop : (pc[c] \in {"sending", "recording"}) <=> (cur[c] # NoMsg)

HistTypes ==
    /\ outcome \in [Msg -> Seq(Results)]
    /\ raced \subseteq Msg

\* Every variable keeps its type, the ages stay in the range the code compares,
\* and a loop holds a message exactly while it awaits something for it.
TypeOK == QueueTypes /\ MsgTypes /\ LoopTypes /\ HistTypes

\* processing and the cleanup interval are on exactly while a loop is alive,
\* and that loop is the only one, so no two sends of the service overlap.
OneLoop ==
    /\ processing <=> \E c \in Loop : pc[c] # "idle"
    /\ \A c, d \in Loop : pc[c] # "idle" /\ pc[d] # "idle" => c = d
    /\ cleanup = processing

\* No work without a loop to do it: a stopped service has an empty queue and
\* waits for no ACK (stopProcessing against enqueue and the end of a send).
WorkKeepsLoop == queue # <<>> \/ pendingAcks # {} => processing

\* There is one chain of processQueue, no more and, while anything is queued or
\* pending, no less, however enqueue, the end of a send and the stop of an idle
\* service fall.
LoopFollowsWork == OneLoop /\ WorkKeepsLoop

\* A message is queued at most once and never both queued and pending: the
\* queue and the retry search never compete for the same message.
QueuedOrPending ==
    /\ \A i, j \in DOMAIN queue : queue[i] = queue[j] => i = j
    /\ \A i \in DOMAIN queue : ~IsPending(queue[i])

\* The attempts of a message never exceed the budget fixed at enqueue time,
\* and while a message can still be sent from the queue one is left.
AttemptBudget ==
    /\ \A m \in Msg : attempts[m] <= maxAttempts(m)
    /\ \A i \in DOMAIN queue : attempts[queue[i]] < maxAttempts(queue[i]) \/ InFlight(queue[i])

\* A message that was enqueued and has no outcome yet is somewhere the
\* service will look again: in the queue or in pendingAcks.
NothingLost ==
    \A m \in Msg : Enqueued(m) /\ outcome[m] = <<>> =>
        m \in Elements(queue) \/ IsPending(m)

\* "Keep the prior attempt's requestId mapped in pendingAcks so a late ACK on
\* it still resolves the message": until a message has an outcome, the ids of
\* all its answered attempts are pending, save the one a loop is recording.
LateAckCounts ==
    \A m \in Msg : outcome[m] = <<>> =>
        \A id \in IdsOf(m) :
            id \in pendingAcks \/ \E c \in Loop : /\ pc[c] = "recording"
                                                  /\ id = <<cur[c], requestId[cur[c]]>>

\* Every message is accounted for: until it has an outcome it is in exactly one
\* of the two tables, within its budget, and all its answered attempts count,
\* whatever retries, failed sends, sweeps and late ACKs moved it about.
MessageAccounted == QueuedOrPending /\ AttemptBudget /\ NothingLost /\ LateAckCounts

\* A message gets one outcome, unless the first came while one of its sends
\* or the sweep giving it up was suspended at an await.
OneOutcomeUnlessRaced == \A m \in Msg \ raced : Len(outcome[m]) <= 1

\* "max 1 message per 30 seconds": whatever the mix of first sends, retries
\* and failed sends, two sends start at least SEND_INTERVAL apart, and none
\* starts within SEND_INTERVAL of a send recorded from outside the queue.
RateLimit ==
    [][\A m \in Msg : attempts'[m] # attempts[m] =>
          /\ sinceSend = SEND_INTERVAL
          /\ \A k \in Msg : attempts[k] > 0 => sinceAttempt[k] >= SEND_INTERVAL]_vars

\* What the transport owes the queue: no send of a loop stays unsettled.
SendsSettle == \A c \in Loop : []<>(pc[c] # "sending")

\* Whoever asked for a send has been told how it went.
AllReported == \A m \in Msg : Enqueued(m) => outcome[m] # <<>>

\* Every message that waits for an ACK is reported to its sender in the end,
\* even when the loop hangs in a send that never settles: the orphan sweep has a
\* timer of its own.  When sends settle, every message is reported, the queued
\* ones too: outcomes stay, so that nothing is owed infinitely often says that
\* none is owed for ever.  No ACK or routing error need come for either.
EveryMessageReported ==
    /\ \A m \in Msg : IsPending(m) ~> outcome[m] # <<>>
    /\ SendsSettle => []<>AllReported

-----------------------------------------------------------------------------
(* What comments of the source claim and the code does not keep.                *)

\* "Retry logic (up to 3 attempts until ACK received)": a message reported as
\* acknowledged is not sent again.
AckStopsRetries ==
    [][\A m \in Msg : (\E i \in DOMAIN outcome[m] : outcome[m][i] = "success")
                         => attempts'[m] = attempts[m]]_vars

\* A send that can get no ACK is not parked in pendingAcks until the orphan
\* sweep times it out as a failure (stated for zero-hop sends; a channel
\* message "doesn't support ACKs" either).
NoAckNoTimeout ==
    \A m \in Channel \cup ZeroHop : \A i \in DOMAIN outcome[m] : outcome[m][i] # "timeout"

=============================================================================
