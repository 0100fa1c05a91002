------------------------- MODULE MessageQueueProofs -------------------------
(* Theorems about MessageQueue for every set of messages and every interval. *)
EXTENDS MessageQueue, TLAPS

(***************************************************************************)
(* Types.  TypeOK is not inductive by itself: entering a request id in     *)
(* pendingAcks needs that a suspended send has counted its attempt, and a  *)
(* suspended event write its request id.                                   *)
(***************************************************************************)
SendCounted ==
    \A c \in Loop : /\ pc[c] = "sending" => attempts[cur[c]] > 0
                    /\ pc[c] = "recording" => requestId[cur[c]] > 0

TypeInv == TypeOK /\ SendCounted

\* Removing a message from the queue leaves a queue of messages.
LEMMA RemoveType ==
    ASSUME NEW q \in Seq(Msg), NEW m \in Msg
    PROVE  removeFromQueue(q, m) \in Seq(Msg)
<1> DEFINE i == CHOOSE k \in DOMAIN q : q[k] = m /\ \A j \in 1 .. (k - 1) : q[j] # m
           r == [j \in 1 .. (Len(q) - 1) |-> IF j < i THEN q[j] ELSE q[j + 1]]
<1>1. CASE m \notin Elements(q)
  BY <1>1 DEF removeFromQueue
<1>2. CASE m \in Elements(q)
  <2>1. Len(q) >= 1 /\ Len(q) \in Nat
    BY <1>2 DEF Elements
  <2>2. \A j \in 1 .. (Len(q) - 1) : (IF j < i THEN q[j] ELSE q[j + 1]) \in Msg
    BY <2>1
  <2>3. r \in Seq(Msg)
    BY <2>1, <2>2
  <2> QED
    BY <1>2, <2>3 DEF removeFromQueue
<1> QED
  BY <1>1, <1>2

\* A report appends one result to the history of its message.
LEMMA ReportType ==
    ASSUME HistTypes, NEW m \in Msg, NEW s \in Results, Report(m, s),
           NEW b \in BOOLEAN, MarkRaced(m, b)
    PROVE  HistTypes'
<1>1. outcome \in [Msg -> Seq(Results)] /\ raced \subseteq Msg
  BY DEF HistTypes
<1>2. Append(outcome[m], s) \in Seq(Results)
  BY <1>1
<1>3. outcome' = [outcome EXCEPT ![m] = Append(outcome[m], s)]
  BY DEF Report
<1>4. outcome' \in [Msg -> Seq(Results)]
  BY <1>1, <1>2, <1>3
<1>5. raced' \subseteq Msg
  BY <1>1 DEF MarkRaced
<1> QED
  BY <1>4, <1>5 DEF HistTypes

\* Arming the timer of a loop clears the message it was sending.
LEMMA ArmTimerType ==
    ASSUME LoopTypes, NEW c \in Loop, NEW t \in 0 .. SEND_INTERVAL, ArmTimer(c, t)
    PROVE  LoopTypes'
<1>1. /\ pc' = [pc EXCEPT ![c] = "timer"]
      /\ wait' = [wait EXCEPT ![c] = t]
      /\ cur' = [cur EXCEPT ![c] = NoMsg]
  BY DEF ArmTimer
<1> QED
  BY <1>1, MessagesAssumption DEF LoopTypes

\* ... and so keeps what is said of suspended sends.
LEMMA ArmTimerCounted ==
    ASSUME TypeInv, NEW c \in Loop, NEW t, ArmTimer(c, t),
           \A m \in Msg : attempts'[m] >= attempts[m] /\ requestId'[m] >= requestId[m],
           MsgTypes'
    PROVE  SendCounted'
<1>1. /\ pc' = [pc EXCEPT ![c] = "timer"]
      /\ cur' = [cur EXCEPT ![c] = NoMsg]
  BY DEF ArmTimer
<1>2. ASSUME NEW d \in Loop, pc'[d] \in {"sending", "recording"}
      PROVE  pc'[d] = pc[d] /\ cur'[d] = cur[d] /\ cur[d] \in Msg
  BY <1>1, <1>2, MessagesAssumption DEF TypeInv, TypeOK, LoopTypes
<1>3. \A m \in Msg : /\ attempts[m] \in Nat /\ attempts'[m] \in Nat
                     /\ requestId[m] \in Nat /\ requestId'[m] \in Nat
  BY DEF TypeInv, TypeOK, MsgTypes
<1>4. ASSUME NEW d \in Loop, pc'[d] = "sending" PROVE attempts'[cur'[d]] > 0
  <2>1. attempts[cur[d]] > 0
    BY <1>2, <1>4 DEF TypeInv, SendCounted
  <2> QED
    BY <1>2, <1>3, <1>4, <2>1
<1>5. ASSUME NEW d \in Loop, pc'[d] = "recording" PROVE requestId'[cur'[d]] > 0
  <2>1. requestId[cur[d]] > 0
    BY <1>2, <1>5 DEF TypeInv, SendCounted
  <2> QED
    BY <1>2, <1>3, <1>5, <2>1
<1> QED
  BY <1>4, <1>5 DEF SendCounted

\* Both branches of BeginSend keep the types.
LEMMA BeginSendType ==
    ASSUME TypeInv, NEW c \in Loop, NEW q \in Seq(Msg), NEW m \in Msg,
           BeginSend(c, m, q), KeepsRunning,
           UNCHANGED <<callbackSet, sinceSend, sweeping, externals>>
    PROVE  TypeInv'
<1> USE IntervalsAssumption, MessagesAssumption
<1>1. CASE callbackSet
  <2>1. /\ attempts' = [attempts EXCEPT ![m] = @ + 1]
        /\ sinceAttempt' = [sinceAttempt EXCEPT ![m] = 0]
        /\ pc' = [pc EXCEPT ![c] = "sending"]
        /\ cur' = [cur EXCEPT ![c] = m]
        /\ queue' = q
        /\ UNCHANGED <<pendingAcks, requestId, priorRequestIds, pendingAge, wait, histVars>>
    BY <1>1 DEF BeginSend
  <2>2. QueueTypes'
    BY <2>1 DEF KeepsRunning, TypeInv, TypeOK, QueueTypes
  <2>3. MsgTypes'
    BY <2>1 DEF TypeInv, TypeOK, MsgTypes
  <2>4. LoopTypes'
    BY <2>1 DEF TypeInv, TypeOK, LoopTypes
  <2>5. HistTypes'
    BY <2>1 DEF TypeInv, TypeOK, HistTypes, histVars
  <2>6. SendCounted'
    BY <2>1 DEF TypeInv, TypeOK, LoopTypes, MsgTypes, SendCounted
  <2> QED
    BY <2>2, <2>3, <2>4, <2>5, <2>6 DEF TypeInv, TypeOK
<1>2. CASE ~callbackSet
  <2>1. /\ queue' = removeFromQueue(q, m)
        /\ pendingAcks' = pendingAcks \ IdsOf(m)
        /\ Report(m, "noCallback")
        /\ MarkRaced(m, sweeping = m)
        /\ ArmTimer(c, SEND_INTERVAL)
        /\ UNCHANGED msgVars
    BY <1>2 DEF BeginSend, deleteAllRequestIds
  <2>2. QueueTypes'
    BY <2>1, RemoveType DEF KeepsRunning, TypeInv, TypeOK, QueueTypes
  <2>3. MsgTypes' /\ attempts' = attempts /\ requestId' = requestId
    BY <2>1 DEF TypeInv, TypeOK, MsgTypes, msgVars
  <2>4. LoopTypes'
    BY <2>1, ArmTimerType DEF TypeInv, TypeOK
  <2>5. HistTypes'
    <3>1. "noCallback" \in Results
      BY DEF Results
    <3> QED
      BY <2>1, <3>1, ReportType DEF TypeInv, TypeOK
  <2>6. \A x \in Msg : attempts'[x] >= attempts[x] /\ requestId'[x] >= requestId[x]
    BY <2>3 DEF TypeInv, TypeOK, MsgTypes
  <2>7. SendCounted'
    BY <2>1, <2>3, <2>6, ArmTimerCounted
  <2> QED
    BY <2>2, <2>3, <2>4, <2>5, <2>7 DEF TypeInv, TypeOK
<1> QED
  BY <1>1, <1>2

\* processQueue keeps the types, whichever way it is entered.
LEMMA ProcessQueueType ==
    ASSUME TypeInv, NEW c \in Loop, NEW q \in Seq(Msg), processQueue(c, q),
           UNCHANGED <<callbackSet, sinceSend, sweeping, externals>>,
           pc[c] \in {"idle", "timer"}
    PROVE  TypeInv'
<1> USE IntervalsAssumption, MessagesAssumption
<1>1. cur[c] = NoMsg
  BY DEF TypeInv, TypeOK, LoopTypes
<1>2. ASSUME NEW m \in Msg, BeginSend(c, m, q), KeepsRunning PROVE TypeInv'
  BY <1>2, BeginSendType
<1>3. ASSUME NEW t \in 0 .. SEND_INTERVAL, ArmTimer(c, t), KeepsRunning, queue' = q,
             UNCHANGED <<pendingAcks, msgVars, histVars>>
      PROVE  TypeInv'
  <2>1. QueueTypes'
    BY <1>3 DEF KeepsRunning, TypeInv, TypeOK, QueueTypes
  <2>2. MsgTypes' /\ HistTypes' /\ attempts' = attempts /\ requestId' = requestId
    BY <1>3 DEF TypeInv, TypeOK, MsgTypes, HistTypes, msgVars, histVars
  <2>3. LoopTypes'
    BY <1>3, ArmTimerType DEF TypeInv, TypeOK
  <2>4. \A x \in Msg : attempts'[x] >= attempts[x] /\ requestId'[x] >= requestId[x]
    BY <2>2 DEF TypeInv, TypeOK, MsgTypes
  <2>5. SendCounted'
    BY <1>3, <2>2, <2>4, ArmTimerCounted
  <2> QED
    BY <2>1, <2>2, <2>3, <2>5 DEF TypeInv, TypeOK
<1>4. ASSUME pc' = [pc EXCEPT ![c] = "idle"], processing' = FALSE, cleanup' = FALSE,
             UNCHANGED <<wait, cur>>, queue' = q,
             UNCHANGED <<pendingAcks, msgVars, histVars>>
      PROVE  TypeInv'
  <2>1. QueueTypes'
    BY <1>4 DEF TypeInv, TypeOK, QueueTypes
  <2>2. MsgTypes' /\ HistTypes'
    BY <1>4 DEF TypeInv, TypeOK, MsgTypes, HistTypes, msgVars, histVars
  <2>3. LoopTypes' /\ SendCounted'
    BY <1>1, <1>4 DEF TypeInv, TypeOK, LoopTypes, SendCounted, msgVars
  <2> QED
    BY <2>1, <2>2, <2>3 DEF TypeInv, TypeOK
<1>5. tooSoon => waitTime \in 0 .. SEND_INTERVAL
  BY DEF tooSoon, waitTime, TypeInv, TypeOK, QueueTypes
<1>6. ASSUME q # <<>> PROVE Head(q) \in Msg
  BY <1>6
<1>7. CASE tooSoon /\ ArmTimer(c, waitTime) /\ KeepsRunning /\ queue' = q
           /\ UNCHANGED <<pendingAcks, msgVars, histVars>>
  BY <1>3, <1>5, <1>7
<1>8. CASE (\E m \in findMessageForRetry : BeginSend(c, m, q)) /\ KeepsRunning
  BY <1>2, <1>8 DEF findMessageForRetry
<1>9. CASE q # <<>> /\ BeginSend(c, Head(q), q) /\ KeepsRunning
  BY <1>2, <1>6, <1>9
<1>10. CASE /\ IF nothingToDo(q)
               THEN /\ pc' = [pc EXCEPT ![c] = "idle"]
                    /\ processing' = FALSE
                    /\ cleanup' = FALSE
                    /\ UNCHANGED <<wait, cur>>
               ELSE ArmTimer(c, SEND_INTERVAL) /\ KeepsRunning
            /\ queue' = q
            /\ UNCHANGED <<pendingAcks, msgVars, histVars>>
  <2>1. SEND_INTERVAL \in 0 .. SEND_INTERVAL
    OBVIOUS
  <2> QED
    BY <1>3, <1>4, <1>10, <2>1
<1> QED
  BY <1>7, <1>8, <1>9, <1>10 DEF processQueue

\* The end of a send keeps the types of all it touches.
LEMMA FinishSendType ==
    ASSUME TypeInv, NEW c \in Loop, NEW n \in Nat \ {0}, FinishSend(c, cur[c], n),
           cur[c] \in Msg
    PROVE  /\ queue' \in Seq(Msg)
           /\ pendingAcks' \subseteq RequestIds
           /\ pendingAge' \in [Msg -> 0 .. (PENDING_ACK_TIMEOUT + 1)]
           /\ LoopTypes'
           /\ HistTypes'
<1> USE IntervalsAssumption, MessagesAssumption
<1> DEFINE m == cur[c]
<1>1. queue' = removeFromQueue(queue, m) /\ ArmTimer(c, SEND_INTERVAL)
  BY DEF FinishSend
<1>2. queue' \in Seq(Msg)
  BY <1>1, RemoveType DEF TypeInv, TypeOK, QueueTypes
<1>3. LoopTypes'
  <2>1. SEND_INTERVAL \in 0 .. SEND_INTERVAL
    OBVIOUS
  <2> QED
    BY <1>1, <2>1, ArmTimerType DEF TypeInv, TypeOK
<1>4. CASE m \in ZeroHop
  <2>1. /\ Report(m, "success")
        /\ MarkRaced(m, sweeping = m)
        /\ UNCHANGED <<pendingAcks, pendingAge>>
    BY <1>4 DEF FinishSend
  <2>2. "success" \in Results
    BY DEF Results
  <2>3. HistTypes'
    BY <2>1, <2>2, ReportType DEF TypeInv, TypeOK
  <2> QED
    BY <1>2, <1>3, <2>1, <2>3 DEF TypeInv, TypeOK, QueueTypes, MsgTypes
<1>5. CASE m \notin ZeroHop
  <2>1. /\ pendingAcks' = pendingAcks \cup {<<m, n>>}
        /\ pendingAge' = [pendingAge EXCEPT ![m] = 0]
        /\ UNCHANGED histVars
    BY <1>5 DEF FinishSend, trackPending
  <2>2. <<m, n>> \in RequestIds
    BY DEF RequestIds
  <2>3. HistTypes'
    BY <2>1 DEF TypeInv, TypeOK, HistTypes, histVars
  <2>4. pendingAge' \in [Msg -> 0 .. (PENDING_ACK_TIMEOUT + 1)]
    BY <2>1 DEF TypeInv, TypeOK, MsgTypes
  <2> QED
    BY <1>2, <1>3, <2>1, <2>2, <2>3, <2>4 DEF TypeInv, TypeOK, QueueTypes
<1> QED
  BY <1>4, <1>5

\* A send that resolves keeps the types: its request id is fresh.
LEMMA SendResolvesType ==
    ASSUME TypeInv, NEW c \in Loop, SendResolves(c)
    PROVE  TypeInv'
<1> USE IntervalsAssumption, MessagesAssumption
<1> DEFINE m == cur[c]
           n == attempts[m]
<1>1. m \in Msg /\ n \in Nat \ {0}
  BY DEF SendResolves, TypeInv, TypeOK, LoopTypes, MsgTypes, SendCounted
<1>2. /\ requestId' = [requestId EXCEPT ![m] = n]
      /\ sinceSend' = 0
      /\ UNCHANGED <<processing, cleanup, callbackSet, attempts, sinceAttempt,
                     sweeping, externals>>
  BY DEF SendResolves
<1>3. priorRequestIds' \in [Msg -> SUBSET (Nat \ {0})]
  <2>1. priorRequestIds' = IF requestId[m] \notin {0, n}
                           THEN [priorRequestIds EXCEPT ![m] = @ \cup {requestId[m]}]
                           ELSE priorRequestIds
    BY DEF SendResolves
  <2> QED
    BY <1>1, <2>1 DEF TypeInv, TypeOK, MsgTypes
<1>4. requestId' \in [Msg -> Nat]
  BY <1>1, <1>2 DEF TypeInv, TypeOK, MsgTypes
<1>5. CASE /\ pc' = [pc EXCEPT ![c] = "recording"]
           /\ UNCHANGED <<queue, pendingAcks, pendingAge, wait, cur, histVars>>
  <2>1. QueueTypes'
    BY <1>2, <1>5 DEF TypeInv, TypeOK, QueueTypes
  <2>2. MsgTypes'
    BY <1>2, <1>3, <1>4, <1>5 DEF TypeInv, TypeOK, MsgTypes
  <2>3. LoopTypes'
    BY <1>1, <1>5 DEF TypeInv, TypeOK, LoopTypes
  <2>4. HistTypes'
    BY <1>5 DEF TypeInv, TypeOK, HistTypes, histVars
  <2>5. SendCounted'
    BY <1>1, <1>2, <1>5 DEF TypeInv, TypeOK, LoopTypes, MsgTypes, SendCounted
  <2> QED
    BY <2>1, <2>2, <2>3, <2>4, <2>5 DEF TypeInv, TypeOK
<1>6. CASE FinishSend(c, m, n)
  <2>1. /\ queue' \in Seq(Msg)
        /\ pendingAcks' \subseteq RequestIds
        /\ pendingAge' \in [Msg -> 0 .. (PENDING_ACK_TIMEOUT + 1)]
        /\ LoopTypes'
        /\ HistTypes'
    BY <1>1, <1>6, FinishSendType
  <2>2. QueueTypes'
    BY <1>2, <2>1 DEF TypeInv, TypeOK, QueueTypes
  <2>3. MsgTypes'
    BY <1>2, <1>3, <1>4, <2>1 DEF TypeInv, TypeOK, MsgTypes
  <2>4. ArmTimer(c, SEND_INTERVAL)
    BY <1>6 DEF FinishSend
  <2>5. \A d \in Loop : d # c => pc'[d] = pc[d] /\ cur'[d] = cur[d]
    BY <2>4 DEF ArmTimer, TypeInv, TypeOK, LoopTypes
  <2>6. pc'[c] = "timer"
    BY <2>4 DEF ArmTimer, TypeInv, TypeOK, LoopTypes
  <2>7. SendCounted'
    BY <1>1, <1>2, <2>5, <2>6 DEF TypeInv, TypeOK, LoopTypes, MsgTypes, SendCounted
  <2> QED
    BY <2>1, <2>2, <2>3, <2>7 DEF TypeInv, TypeOK
<1> QED
  BY <1>5, <1>6 DEF SendResolves

\* A retry that records its request id keeps the types.
LEMMA RetryRecordedType ==
    ASSUME TypeInv, NEW c \in Loop, RetryRecorded(c)
    PROVE  TypeInv'
<1>1. cur[c] \in Msg /\ requestId[cur[c]] \in Nat \ {0}
  BY DEF RetryRecorded, TypeInv, TypeOK, LoopTypes, MsgTypes, SendCounted
<1>2. /\ FinishSend(c, cur[c], requestId[cur[c]])
      /\ UNCHANGED <<processing, cleanup, callbackSet, sinceSend, attempts, requestId,
                     priorRequestIds, sinceAttempt, sweeping, externals>>
  BY DEF RetryRecorded
<1>3. /\ queue' \in Seq(Msg)
      /\ pendingAcks' \subseteq RequestIds
      /\ pendingAge' \in [Msg -> 0 .. (PENDING_ACK_TIMEOUT + 1)]
      /\ LoopTypes'
      /\ HistTypes'
  BY <1>1, <1>2, FinishSendType
<1>4. QueueTypes' /\ MsgTypes'
  BY <1>2, <1>3 DEF TypeInv, TypeOK, QueueTypes, MsgTypes
<1>5. \A x \in Msg : attempts'[x] >= attempts[x] /\ requestId'[x] >= requestId[x]
  BY <1>2 DEF TypeInv, TypeOK, MsgTypes
<1>6. SendCounted'
  BY <1>2, <1>4, <1>5, ArmTimerCounted DEF FinishSend
<1> QED
  BY <1>3, <1>4, <1>6 DEF TypeInv, TypeOK

\* A send that fails, with a retry or for good, keeps the types.
LEMMA SendFailsType ==
    ASSUME TypeInv, NEW c \in Loop, SendFails(c)
    PROVE  TypeInv'
<1> USE IntervalsAssumption, MessagesAssumption
<1> DEFINE m == cur[c]
<1>1. m \in Msg
  BY DEF SendFails, TypeInv, TypeOK, LoopTypes
<1>2. /\ ArmTimer(c, SEND_INTERVAL)
      /\ UNCHANGED <<processing, cleanup, callbackSet, sinceSend, attempts, requestId,
                     priorRequestIds, sinceAttempt, sweeping, externals>>
  BY DEF SendFails
<1>3. ASSUME queue' = removeFromQueue(queue, m),
             pendingAcks' = deleteAllRequestIds(m),
             Report(m, "sendError"),
             MarkRaced(m, sweeping = m),
             UNCHANGED pendingAge
      PROVE  QueueTypes' /\ MsgTypes' /\ HistTypes'
  <2>1. QueueTypes'
    BY <1>1, <1>2, <1>3, RemoveType DEF deleteAllRequestIds, TypeInv, TypeOK, QueueTypes
  <2>2. MsgTypes'
    BY <1>2, <1>3 DEF TypeInv, TypeOK, MsgTypes
  <2>3. "sendError" \in Results
    BY DEF Results
  <2>4. HistTypes'
    BY <1>1, <1>3, <2>3, ReportType DEF TypeInv, TypeOK
  <2> QED
    BY <2>1, <2>2, <2>4
<1>4. ASSUME IF requestId[m] # 0
             THEN /\ pendingAcks' = trackPending(m, requestId[m])
                  /\ pendingAge' = [pendingAge EXCEPT ![m] = 0]
             ELSE UNCHANGED <<pendingAcks, pendingAge>>,
             UNCHANGED <<queue, histVars>>
      PROVE  QueueTypes' /\ MsgTypes' /\ HistTypes'
  <2>1. requestId[m] # 0 => <<m, requestId[m]>> \in RequestIds
    BY <1>1 DEF TypeInv, TypeOK, MsgTypes, RequestIds
  <2>2. QueueTypes'
    BY <1>2, <1>4, <2>1 DEF trackPending, TypeInv, TypeOK, QueueTypes
  <2>3. pendingAge' = pendingAge \/ pendingAge' = [pendingAge EXCEPT ![m] = 0]
    BY <1>4
  <2>4. MsgTypes'
    BY <1>2, <2>3 DEF TypeInv, TypeOK, MsgTypes
  <2>5. HistTypes'
    BY <1>4 DEF TypeInv, TypeOK, HistTypes, histVars
  <2> QED
    BY <2>2, <2>4, <2>5
<1>5. QueueTypes' /\ MsgTypes' /\ HistTypes'
  BY <1>3, <1>4 DEF SendFails
<1>6. LoopTypes'
  <2>1. SEND_INTERVAL \in 0 .. SEND_INTERVAL
    OBVIOUS
  <2> QED
    BY <1>2, <2>1, ArmTimerType DEF TypeInv, TypeOK
<1>7. \A x \in Msg : attempts'[x] >= attempts[x] /\ requestId'[x] >= requestId[x]
  BY <1>2 DEF TypeInv, TypeOK, MsgTypes
<1>8. SendCounted'
  BY <1>2, <1>5, <1>7, ArmTimerCounted
<1> QED
  BY <1>5, <1>6, <1>8 DEF TypeInv, TypeOK

\* A handler or the sweep resolves a message: only the queue, the map and the
\* history change, besides the sweep's own variable.
LEMMA ResolveType ==
    ASSUME TypeInv, NEW m \in Msg, NEW s \in Results, NEW b \in BOOLEAN,
           queue' = queue \/ queue' = removeFromQueue(queue, m),
           pendingAcks' = deleteAllRequestIds(m),
           Report(m, s), MarkRaced(m, b), sweeping' \in {sweeping, NoMsg},
           UNCHANGED <<processing, cleanup, callbackSet, sinceSend, msgVars, loopVars,
                       externals>>
    PROVE  TypeInv'
<1>1. QueueTypes'
  BY RemoveType DEF deleteAllRequestIds, TypeInv, TypeOK, QueueTypes
<1>2. MsgTypes' /\ LoopTypes' /\ SendCounted'
  BY DEF TypeInv, TypeOK, MsgTypes, LoopTypes, SendCounted, msgVars, loopVars
<1>3. HistTypes'
  BY ReportType DEF TypeInv, TypeOK
<1> QED
  BY <1>1, <1>2, <1>3 DEF TypeInv, TypeOK

\* The clock keeps the types: its stamps saturate.
LEMMA TickType ==
    ASSUME TypeInv, Tick
    PROVE  TypeInv'
<1> USE IntervalsAssumption, MessagesAssumption
<1>1. QueueTypes'
  BY DEF Tick, Older, TypeInv, TypeOK, QueueTypes
<1>2. MsgTypes'
  BY DEF Tick, Older, TypeInv, TypeOK, MsgTypes
<1>3. LoopTypes'
  BY DEF Tick, TypeInv, TypeOK, LoopTypes
<1>4. HistTypes' /\ SendCounted'
  BY DEF Tick, TypeInv, TypeOK, HistTypes, SendCounted, histVars
<1> QED
  BY <1>1, <1>2, <1>3, <1>4 DEF TypeInv, TypeOK

\* The constructor's state has the types.
LEMMA TypeInit == Init => TypeInv
<1> SUFFICES ASSUME Init PROVE TypeInv
  OBVIOUS
<1> USE IntervalsAssumption, MessagesAssumption DEF Init
<1>0. QueueTypes
  <2>1. /\ queue = <<>> /\ pendingAcks = {}
        /\ ~processing /\ ~cleanup /\ ~callbackSet
        /\ processing \in BOOLEAN /\ cleanup \in BOOLEAN /\ callbackSet \in BOOLEAN
        /\ sinceSend = SEND_INTERVAL /\ sweeping = NoMsg /\ externals = 0
    OBVIOUS
  <2> HIDE DEF Init
  <2> QED
    BY <2>1 DEF QueueTypes
<1>1. MsgTypes
  BY DEF MsgTypes
<1>2. LoopTypes /\ SendCounted
  BY DEF LoopTypes, SendCounted
<1>3. HistTypes
  BY DEF HistTypes
<1> QED
  BY <1>0, <1>1, <1>2, <1>3 DEF TypeInv, TypeOK

\* Every step keeps the types.
LEMMA TypeNext == TypeInv /\ [Next]_vars => TypeInv'
<1> SUFFICES ASSUME TypeInv, [Next]_vars PROVE TypeInv'
  OBVIOUS
<1> USE IntervalsAssumption, MessagesAssumption
        DEF TypeInv, TypeOK, QueueTypes, MsgTypes, LoopTypes, HistTypes, SendCounted
<1>1. CASE setSendCallback
  BY <1>1 DEF setSendCallback, msgVars, loopVars, histVars
<1>2. CASE recordExternalSend
  BY <1>2 DEF recordExternalSend, msgVars, loopVars, histVars
<1>3. ASSUME NEW m \in Msg, SweepExpired(m) PROVE TypeInv'
  BY <1>3 DEF SweepExpired, msgVars, loopVars, histVars
<1>4. CASE UNCHANGED vars
  BY <1>4 DEF vars, msgVars, loopVars, histVars
<1> USE DEF Results
<1>5. ASSUME NEW m \in Msg, enqueue(m) PROVE TypeInv'
  <2> DEFINE q == Append(queue, m)
  <2>1. q \in Seq(Msg)
    OBVIOUS
  <2>2. CASE /\ ~mustStart
             /\ queue' = q
             /\ UNCHANGED <<pendingAcks, processing, cleanup, msgVars, loopVars, histVars>>
    BY <1>5, <2>1, <2>2 DEF enqueue, msgVars, loopVars, histVars
  <2>3. CASE (\E c \in Loop : pc[c] = "idle") /\ processQueue(FreeLoop, q)
    <3>1. FreeLoop \in Loop /\ pc[FreeLoop] = "idle"
      BY <2>3 DEF FreeLoop
    <3>2. UNCHANGED <<callbackSet, sinceSend, sweeping, externals>>
      BY <1>5 DEF enqueue
    <3> QED
      BY <2>1, <2>3, <3>1, <3>2, ProcessQueueType
  <2> QED
    BY <1>5, <2>2, <2>3 DEF enqueue
<1>6. ASSUME NEW c \in Loop, TimerFires(c) PROVE TypeInv'
  <2>1. CASE processQueue(c, queue)
    <3>1. /\ pc[c] \in {"idle", "timer"}
          /\ UNCHANGED <<callbackSet, sinceSend, sweeping, externals>>
      BY <1>6 DEF TimerFires
    <3> QED
      BY <2>1, <3>1, ProcessQueueType
  <2>2. CASE /\ pc' = [pc EXCEPT ![c] = "idle"]
             /\ UNCHANGED <<queue, pendingAcks, processing, cleanup, msgVars, wait, cur,
                            histVars>>
    BY <1>6, <2>2 DEF TimerFires, msgVars, histVars
  <2> QED
    BY <1>6, <2>1, <2>2 DEF TimerFires
<1>7. ASSUME NEW m \in Msg, NEW n \in 1 .. attempts[m], handleAck(m, n) PROVE TypeInv'
  BY <1>7, ResolveType DEF handleAck
<1>8. ASSUME NEW m \in Msg, NEW n \in 1 .. attempts[m], handleFailure(m, n) PROVE TypeInv'
  BY <1>8, ResolveType DEF handleFailure
<1>9. CASE SweepGivesUp
  <2>1. /\ sweeping \in Msg
        /\ InFlight(sweeping) \in BOOLEAN
        /\ "timeout" \in Results
    BY <1>9 DEF SweepGivesUp, InFlight
  <2>2. /\ queue' = queue
        /\ pendingAcks' = deleteAllRequestIds(sweeping)
        /\ Report(sweeping, "timeout")
        /\ MarkRaced(sweeping, InFlight(sweeping))
        /\ sweeping' \in {sweeping, NoMsg}
        /\ UNCHANGED <<processing, cleanup, callbackSet, sinceSend, msgVars, loopVars,
                       externals>>
    BY <1>9 DEF SweepGivesUp
  <2> HIDE DEF TypeInv, Results
  <2> QED
    BY <2>1, <2>2, ResolveType
<1> QED
  BY <1>1, <1>2, <1>3, <1>4, <1>5, <1>6, <1>7, <1>8, <1>9, SendResolvesType,
     RetryRecordedType, SendFailsType, TickType DEF Next

\* The variables of the queue keep their types, whatever the radio, the
\* database and the clock do.
THEOREM TypeCorrect == Spec => []TypeOK
<1>1. Spec => []TypeInv
  BY TypeInit, TypeNext, PTL DEF Spec
<1>2. TypeInv => TypeOK
  BY DEF TypeInv
<1> QED
  BY <1>1, <1>2, PTL

(***************************************************************************)
(* One loop.  The processing flag stands for the one loop that is alive,   *)
(* and the loop only ends when there is no work: neither half is inductive *)
(* without the other, for a timer that fires looks at the flag alone.      *)
(***************************************************************************)
LoopInv == TypeInv /\ OneLoop /\ WorkKeepsLoop

\* What processQueue does to the loops when no other loop is alive.
LEMMA ProcessQueueLoop ==
    ASSUME TypeInv, NEW c \in Loop, NEW q, processQueue(c, q),
           \A d \in Loop : d # c => pc[d] = "idle"
    PROVE  OneLoop' /\ WorkKeepsLoop'
<1>1. pc \in [Loop -> {"idle", "timer", "sending", "recording"}]
  BY DEF TypeInv, TypeOK, LoopTypes
<1>2. ASSUME NEW p \in {"timer", "sending"}, pc' = [pc EXCEPT ![c] = p], KeepsRunning
      PROVE  OneLoop' /\ WorkKeepsLoop'
  BY <1>1, <1>2 DEF KeepsRunning, OneLoop, WorkKeepsLoop
<1>3. ASSUME NEW m, BeginSend(c, m, q), KeepsRunning PROVE OneLoop' /\ WorkKeepsLoop'
  <2>1. pc' = [pc EXCEPT ![c] = "timer"] \/ pc' = [pc EXCEPT ![c] = "sending"]
    BY <1>3 DEF BeginSend, ArmTimer
  <2> QED
    BY <1>2, <1>3, <2>1
<1>4. ASSUME NEW t, ArmTimer(c, t), KeepsRunning PROVE OneLoop' /\ WorkKeepsLoop'
  BY <1>2, <1>4 DEF ArmTimer
<1>5. ASSUME q = <<>>, nothingToDo(q), queue' = q, UNCHANGED pendingAcks,
             pc' = [pc EXCEPT ![c] = "idle"], processing' = FALSE, cleanup' = FALSE
      PROVE  OneLoop' /\ WorkKeepsLoop'
  BY <1>1, <1>5 DEF nothingToDo, OneLoop, WorkKeepsLoop
<1> QED
  BY <1>3, <1>4, <1>5 DEF processQueue

\* The loop that awaited a send keeps running.
LEMMA LoopGoesOn ==
    ASSUME LoopInv, NEW c \in Loop, pc[c] \in {"timer", "sending", "recording"},
           NEW p \in {"timer", "recording"}, pc' = [pc EXCEPT ![c] = p],
           UNCHANGED <<processing, cleanup>>
    PROVE  OneLoop' /\ WorkKeepsLoop'
<1>1. pc \in [Loop -> {"idle", "timer", "sending", "recording"}]
  BY DEF LoopInv, TypeInv, TypeOK, LoopTypes
<1>2. processing
  BY DEF LoopInv, OneLoop
<1>3. \A d \in Loop : d # c => pc'[d] = "idle"
  BY <1>1 DEF LoopInv, OneLoop
<1> QED
  BY <1>1, <1>2, <1>3 DEF LoopInv, OneLoop, WorkKeepsLoop

\* An action that leaves the loops and the flags alone and adds no work.
LEMMA LoopUntouched ==
    ASSUME LoopInv, UNCHANGED <<pc, processing, cleanup>>,
           processing \/ (queue' = queue /\ pendingAcks' \subseteq pendingAcks)
    PROVE  OneLoop' /\ WorkKeepsLoop'
  BY DEF LoopInv, OneLoop, WorkKeepsLoop

\* At first no loop runs and none is needed.
LEMMA LoopInit == Init => LoopInv
<1> SUFFICES ASSUME Init PROVE OneLoop /\ WorkKeepsLoop
  BY TypeInit DEF LoopInv
<1>1. /\ ~processing /\ cleanup = processing
      /\ queue = <<>> /\ pendingAcks = {}
      /\ \A c \in Loop : pc[c] = "idle"
  BY DEF Init
<1> QED
  BY <1>1 DEF OneLoop, WorkKeepsLoop

\* No step starts a second processQueue or leaves work without one.
LEMMA LoopNext == LoopInv /\ [Next]_vars => LoopInv'
<1> SUFFICES ASSUME LoopInv, [Next]_vars PROVE OneLoop' /\ WorkKeepsLoop'
  BY TypeNext DEF LoopInv
<1>0. TypeInv
  BY DEF LoopInv
<1>1. CASE setSendCallback
  BY <1>1, LoopUntouched DEF setSendCallback, loopVars
<1>2. CASE recordExternalSend
  BY <1>2, LoopUntouched DEF recordExternalSend, loopVars
<1>3. ASSUME NEW m \in Msg, enqueue(m) PROVE OneLoop' /\ WorkKeepsLoop'
  <2> DEFINE q == Append(queue, m)
  <2>1. CASE ~mustStart /\ UNCHANGED <<processing, cleanup, loopVars>>
    BY <2>1, LoopUntouched DEF mustStart, loopVars
  <2>2. CASE mustStart /\ (\E c \in Loop : pc[c] = "idle") /\ processQueue(FreeLoop, q)
    <3>1. FreeLoop \in Loop
      BY <2>2 DEF FreeLoop
    <3>2. \A d \in Loop : d # FreeLoop => pc[d] = "idle"
      BY <2>2 DEF mustStart, LoopInv, OneLoop
    <3> QED
      BY <1>0, <2>2, <3>1, <3>2, ProcessQueueLoop
  <2> QED
    BY <1>3, <2>1, <2>2 DEF enqueue
<1>4. ASSUME NEW c \in Loop, TimerFires(c) PROVE OneLoop' /\ WorkKeepsLoop'
  <2>1. processing /\ \A d \in Loop : d # c => pc[d] = "idle"
    BY <1>4 DEF TimerFires, LoopInv, OneLoop
  <2>2. processQueue(c, queue)
    BY <1>4, <2>1 DEF TimerFires
  <2> QED
    BY <1>0, <2>1, <2>2, ProcessQueueLoop
<1>5. ASSUME NEW c \in Loop, SendResolves(c) PROVE OneLoop' /\ WorkKeepsLoop'
  <2>1. /\ pc[c] = "sending"
        /\ \/ pc' = [pc EXCEPT ![c] = "recording"]
           \/ pc' = [pc EXCEPT ![c] = "timer"]
        /\ UNCHANGED <<processing, cleanup>>
    BY <1>5 DEF SendResolves, FinishSend, ArmTimer
  <2> QED
    BY <2>1, LoopGoesOn
<1>6. ASSUME NEW c \in Loop, RetryRecorded(c) PROVE OneLoop' /\ WorkKeepsLoop'
  <2>1. /\ pc[c] = "recording"
        /\ pc' = [pc EXCEPT ![c] = "timer"]
        /\ UNCHANGED <<processing, cleanup>>
    BY <1>6 DEF RetryRecorded, FinishSend, ArmTimer
  <2> QED
    BY <2>1, LoopGoesOn
<1>7. ASSUME NEW c \in Loop, SendFails(c) PROVE OneLoop' /\ WorkKeepsLoop'
  <2>1. /\ pc[c] = "sending"
        /\ pc' = [pc EXCEPT ![c] = "timer"]
        /\ UNCHANGED <<processing, cleanup>>
    BY <1>7 DEF SendFails, ArmTimer
  <2> QED
    BY <2>1, LoopGoesOn
<1>8. ASSUME NEW m \in Msg, NEW n, handleAck(m, n) PROVE OneLoop' /\ WorkKeepsLoop'
  BY <1>8, LoopUntouched DEF handleAck, deleteAllRequestIds, loopVars
<1>9. ASSUME NEW m \in Msg, NEW n, handleFailure(m, n) PROVE OneLoop' /\ WorkKeepsLoop'
  <2>1. processing
    BY <1>9 DEF handleFailure, LoopInv, WorkKeepsLoop
  <2> QED
    BY <1>9, <2>1, LoopUntouched DEF handleFailure, loopVars
<1>10. ASSUME NEW m \in Msg, SweepExpired(m) PROVE OneLoop' /\ WorkKeepsLoop'
  BY <1>10, LoopUntouched DEF SweepExpired, loopVars
<1>11. CASE SweepGivesUp
  BY <1>11, LoopUntouched DEF SweepGivesUp, deleteAllRequestIds, loopVars
<1>12. CASE Tick
  BY <1>12, LoopUntouched DEF Tick
<1>13. CASE UNCHANGED vars
  BY <1>13, LoopUntouched DEF vars, loopVars
<1> QED
  BY <1>1, <1>2, <1>3, <1>4, <1>5, <1>6, <1>7, <1>8, <1>9, <1>10, <1>11, <1>12, <1>13
     DEF Next

\* At most one processQueue chain is ever alive, and exactly when the
\* processing flag and the cleanup interval say so.
THEOREM LoopIsUnique == Spec => []OneLoop
<1>1. Spec => []LoopInv
  BY LoopInit, LoopNext, PTL DEF Spec
<1>2. LoopInv => OneLoop
  BY DEF LoopInv
<1> QED
  BY <1>1, <1>2, PTL

\* The loop ends only with the work: a queued message or an ACK waited for
\* always has a loop that will come back to it.
THEOREM LoopOutlivesWork == Spec => []WorkKeepsLoop
<1>1. Spec => []LoopInv
  BY LoopInit, LoopNext, PTL DEF Spec
<1>2. LoopInv => WorkKeepsLoop
  BY DEF LoopInv
<1> QED
  BY <1>1, <1>2, PTL

\* Exactly one chain of processQueue while there is work, never two.
THEOREM LoopCovered == Spec => []LoopFollowsWork
<1>1. OneLoop /\ WorkKeepsLoop => LoopFollowsWork
  BY DEF LoopFollowsWork
<1> QED
  BY <1>1, LoopIsUnique, LoopOutlivesWork, PTL

(***************************************************************************)
(* The rate limit.  lastSendTime is only set by a send that succeeded, so  *)
(* the limit for failed sends rests on the timers: a timer that is armed   *)
(* has at least as long to run as the last send has to reach the interval, *)
(* and when no loop is alive the last send is an interval old.             *)
(***************************************************************************)
Spaced ==
    \A k \in Msg : attempts[k] > 0 =>
        /\ \A c \in Loop : pc[c] = "timer" => sinceAttempt[k] + wait[c] >= SEND_INTERVAL
        /\ (\A c \in Loop : pc[c] = "idle") => sinceAttempt[k] >= SEND_INTERVAL

RateInv == LoopInv /\ Spaced

\* Entered when a send may start, processQueue keeps the sends apart.
LEMMA ProcessQueueSpaced ==
    ASSUME TypeInv, NEW c \in Loop, NEW q \in Seq(Msg), processQueue(c, q),
           \A d \in Loop : d # c => pc[d] = "idle",
           \A k \in Msg : attempts[k] > 0 => sinceAttempt[k] >= SEND_INTERVAL
    PROVE  /\ Spaced'
           /\ \A m \in Msg : attempts'[m] # attempts[m] => sinceSend = SEND_INTERVAL
<1> USE IntervalsAssumption, MessagesAssumption
<1>1. /\ pc \in [Loop -> {"idle", "timer", "sending", "recording"}]
      /\ wait \in [Loop -> 0 .. SEND_INTERVAL]
      /\ attempts \in [Msg -> Nat]
      /\ sinceAttempt \in [Msg -> 0 .. RETRY_INTERVAL]
      /\ sinceSend \in 0 .. SEND_INTERVAL
  BY DEF TypeInv, TypeOK, QueueTypes, MsgTypes, LoopTypes
<1>2. ASSUME NEW t \in 0 .. SEND_INTERVAL, ArmTimer(c, t), UNCHANGED msgVars PROVE Spaced'
  <2>1. /\ pc' = [pc EXCEPT ![c] = "timer"]
        /\ wait' = [wait EXCEPT ![c] = t]
        /\ attempts' = attempts /\ sinceAttempt' = sinceAttempt
    BY <1>2 DEF ArmTimer, msgVars
  <2> QED
    BY <1>1, <2>1 DEF Spaced
<1>3. ASSUME pc' = [pc EXCEPT ![c] = "idle"], UNCHANGED msgVars PROVE Spaced'
  <2>1. attempts' = attempts /\ sinceAttempt' = sinceAttempt
    BY <1>3 DEF msgVars
  <2> QED
    BY <1>1, <1>3, <2>1 DEF Spaced
<1>4. ASSUME NEW m \in Msg, BeginSend(c, m, q) PROVE Spaced'
  <2>1. CASE callbackSet
    <3>1. pc' = [pc EXCEPT ![c] = "sending"]
      BY <1>4, <2>1 DEF BeginSend
    <3> QED
      BY <1>1, <3>1 DEF Spaced
  <2>2. CASE ~callbackSet
    <3>1. ArmTimer(c, SEND_INTERVAL) /\ UNCHANGED msgVars
      BY <1>4, <2>2 DEF BeginSend
    <3> QED
      BY <1>2, <3>1
  <2> QED
    BY <2>1, <2>2
<1>5. CASE tooSoon /\ ArmTimer(c, waitTime) /\ UNCHANGED <<pendingAcks, msgVars, histVars>>
  <2>1. waitTime \in 0 .. SEND_INTERVAL
    BY <1>1 DEF waitTime
  <2>2. attempts' = attempts
    BY <1>5 DEF msgVars
  <2> QED
    BY <1>2, <1>5, <2>1, <2>2
<1>6. ~tooSoon => sinceSend = SEND_INTERVAL
  BY <1>1 DEF tooSoon
<1>7. CASE ~tooSoon /\ \E m \in findMessageForRetry : BeginSend(c, m, q)
  BY <1>4, <1>6, <1>7 DEF findMessageForRetry
<1>8. CASE ~tooSoon /\ q # <<>> /\ BeginSend(c, Head(q), q)
  <2>1. Head(q) \in Msg
    BY <1>8
  <2> QED
    BY <1>4, <1>6, <1>8, <2>1
<1>9. CASE /\ ~tooSoon
           /\ IF nothingToDo(q)
              THEN /\ pc' = [pc EXCEPT ![c] = "idle"]
                   /\ processing' = FALSE
                   /\ cleanup' = FALSE
                   /\ UNCHANGED <<wait, cur>>
              ELSE ArmTimer(c, SEND_INTERVAL) /\ KeepsRunning
           /\ UNCHANGED <<pendingAcks, msgVars, histVars>>
  BY <1>2, <1>3, <1>6, <1>9
<1> QED
  BY <1>5, <1>7, <1>8, <1>9 DEF processQueue

\* A send that ends arms the full interval.
LEMMA SendEndSpaced ==
    ASSUME TypeInv, Spaced, NEW c \in Loop, UNCHANGED <<attempts, sinceAttempt>>,
           pc[c] # "idle",
           \/ pc' = [pc EXCEPT ![c] = "recording"] /\ UNCHANGED wait
           \/ ArmTimer(c, SEND_INTERVAL)
    PROVE  Spaced'
<1> USE IntervalsAssumption
<1>1. /\ pc \in [Loop -> {"idle", "timer", "sending", "recording"}]
      /\ wait \in [Loop -> 0 .. SEND_INTERVAL]
      /\ attempts \in [Msg -> Nat]
      /\ sinceAttempt \in [Msg -> 0 .. RETRY_INTERVAL]
  BY DEF TypeInv, TypeOK, QueueTypes, MsgTypes, LoopTypes
<1>2. CASE pc' = [pc EXCEPT ![c] = "recording"] /\ UNCHANGED wait
  BY <1>1, <1>2 DEF Spaced
<1>3. CASE ArmTimer(c, SEND_INTERVAL)
  <2>1. pc' = [pc EXCEPT ![c] = "timer"] /\ wait' = [wait EXCEPT ![c] = SEND_INTERVAL]
    BY <1>3 DEF ArmTimer
  <2> QED
    BY <1>1, <2>1 DEF Spaced
<1> QED
  BY <1>2, <1>3

\* An action that leaves the loops and the attempts alone.
LEMMA SpacedUntouched ==
    ASSUME Spaced, UNCHANGED <<attempts, sinceAttempt, pc, wait>>
    PROVE  Spaced'
  BY DEF Spaced

\* The clock moves every attempt and the spacing forward alike.
LEMMA TickSpaced ==
    ASSUME TypeInv, Spaced, Tick
    PROVE  Spaced' /\ attempts' = attempts
<1> USE IntervalsAssumption
<1>1. /\ wait \in [Loop -> 0 .. SEND_INTERVAL]
      /\ attempts \in [Msg -> Nat]
      /\ sinceAttempt \in [Msg -> 0 .. RETRY_INTERVAL]
  BY DEF TypeInv, TypeOK, MsgTypes, LoopTypes
<1>2. /\ \A k \in Msg : sinceAttempt'[k] = Older(sinceAttempt[k], RETRY_INTERVAL)
      /\ \A c \in Loop : wait'[c] = IF wait[c] > 0 THEN wait[c] - 1 ELSE 0
      /\ attempts' = attempts /\ pc' = pc
  BY DEF Tick
<1>3. ASSUME NEW k \in Msg, attempts[k] > 0
      PROVE  /\ \A c \in Loop : pc[c] = "timer" => sinceAttempt'[k] + wait'[c] >= SEND_INTERVAL
             /\ (\A c \in Loop : pc[c] = "idle") => sinceAttempt'[k] >= SEND_INTERVAL
  <2>1. \/ sinceAttempt'[k] = sinceAttempt[k] + 1
        \/ sinceAttempt'[k] = RETRY_INTERVAL /\ sinceAttempt[k] = RETRY_INTERVAL
    BY <1>1, <1>2 DEF Older
  <2>2. ASSUME NEW c \in Loop, pc[c] = "timer"
        PROVE  sinceAttempt'[k] + wait'[c] >= SEND_INTERVAL
    <3>1. sinceAttempt[k] + wait[c] >= SEND_INTERVAL
      BY <1>3, <2>2 DEF Spaced
    <3>2. wait[c] \in Nat /\ wait'[c] = IF wait[c] > 0 THEN wait[c] - 1 ELSE 0
      BY <1>1, <1>2
    <3>3. sinceAttempt[k] \in Nat
      BY <1>1
    <3> QED
      BY <2>1, <3>1, <3>2, <3>3
  <2>3. ASSUME \A c \in Loop : pc[c] = "idle" PROVE sinceAttempt'[k] >= SEND_INTERVAL
    <3>1. sinceAttempt[k] >= SEND_INTERVAL /\ sinceAttempt[k] \in Nat
      BY <1>1, <1>3, <2>3 DEF Spaced
    <3> QED
      BY <2>1, <3>1
  <2> QED
    BY <2>2, <2>3
<1> QED
  BY <1>2, <1>3 DEF Spaced

\* The step of the rate limit: what Next may do to the attempt counters.
RateStep ==
    \A m \in Msg : attempts'[m] # attempts[m] =>
        /\ sinceSend = SEND_INTERVAL
        /\ \A k \in Msg : attempts[k] > 0 => sinceAttempt[k] >= SEND_INTERVAL

\* No step transmits before SEND_INTERVAL has passed since the last attempt.
LEMMA RateNext == RateInv /\ [Next]_vars => Spaced' /\ RateStep
<1> SUFFICES ASSUME RateInv, [Next]_vars PROVE Spaced' /\ RateStep
  OBVIOUS
<1>0. TypeInv /\ LoopInv /\ Spaced
  BY DEF RateInv, LoopInv
<1>1. CASE setSendCallback
  BY <1>0, <1>1, SpacedUntouched DEF setSendCallback, msgVars, loopVars, RateStep
<1>2. CASE recordExternalSend
  BY <1>0, <1>2, SpacedUntouched DEF recordExternalSend, msgVars, loopVars, RateStep
<1>3. ASSUME NEW m \in Msg, enqueue(m) PROVE Spaced' /\ RateStep
  <2> DEFINE q == Append(queue, m)
  <2>1. CASE UNCHANGED <<msgVars, loopVars>>
    BY <1>0, <2>1, SpacedUntouched DEF msgVars, loopVars, RateStep
  <2>2. CASE mustStart /\ (\E c \in Loop : pc[c] = "idle") /\ processQueue(FreeLoop, q)
    <3>1. FreeLoop \in Loop
      BY <2>2 DEF FreeLoop
    <3>2. \A d \in Loop : pc[d] = "idle"
      BY <1>0, <2>2 DEF mustStart, LoopInv, OneLoop
    <3>3. \A k \in Msg : attempts[k] > 0 => sinceAttempt[k] >= SEND_INTERVAL
      BY <1>0, <3>2 DEF Spaced
    <3>4. q \in Seq(Msg)
      BY <1>0 DEF TypeInv, TypeOK, QueueTypes
    <3> QED
      BY <1>0, <2>2, <3>1, <3>2, <3>3, <3>4, ProcessQueueSpaced DEF RateStep
  <2> QED
    BY <1>3, <2>1, <2>2 DEF enqueue
<1>4. ASSUME NEW c \in Loop, TimerFires(c) PROVE Spaced' /\ RateStep
  <2>1. /\ processing /\ pc[c] = "timer" /\ wait[c] = 0
        /\ \A d \in Loop : d # c => pc[d] = "idle"
    BY <1>0, <1>4 DEF TimerFires, LoopInv, OneLoop
  <2>2. processQueue(c, queue) /\ queue \in Seq(Msg)
    BY <1>0, <1>4, <2>1 DEF TimerFires, TypeInv, TypeOK, QueueTypes
  <2>3. ASSUME NEW k \in Msg, attempts[k] > 0 PROVE sinceAttempt[k] >= SEND_INTERVAL
    <3>1. sinceAttempt[k] + wait[c] >= SEND_INTERVAL
      BY <1>0, <2>1, <2>3 DEF Spaced
    <3>2. sinceAttempt[k] \in Nat
      BY <1>0, IntervalsAssumption DEF TypeInv, TypeOK, MsgTypes
    <3> QED
      BY <2>1, <3>1, <3>2
  <2> QED
    BY <1>0, <2>1, <2>2, <2>3, ProcessQueueSpaced DEF RateStep
<1>5. ASSUME NEW c \in Loop, SendResolves(c) PROVE Spaced' /\ RateStep
  <2>1. /\ pc[c] # "idle"
        /\ UNCHANGED <<attempts, sinceAttempt>>
        /\ \/ pc' = [pc EXCEPT ![c] = "recording"] /\ UNCHANGED wait
           \/ ArmTimer(c, SEND_INTERVAL)
    BY <1>5 DEF SendResolves, FinishSend
  <2> QED
    BY <1>0, <2>1, SendEndSpaced DEF RateStep
<1>6. ASSUME NEW c \in Loop, RetryRecorded(c) PROVE Spaced' /\ RateStep
  BY <1>0, <1>6, SendEndSpaced DEF RetryRecorded, FinishSend, RateStep
<1>7. ASSUME NEW c \in Loop, SendFails(c) PROVE Spaced' /\ RateStep
  BY <1>0, <1>7, SendEndSpaced DEF SendFails, RateStep
<1>8. ASSUME NEW m \in Msg, NEW n, handleAck(m, n) PROVE Spaced' /\ RateStep
  BY <1>0, <1>8, SpacedUntouched DEF handleAck, msgVars, loopVars, RateStep
<1>9. ASSUME NEW m \in Msg, NEW n, handleFailure(m, n) PROVE Spaced' /\ RateStep
  BY <1>0, <1>9, SpacedUntouched DEF handleFailure, msgVars, loopVars, RateStep
<1>10. ASSUME NEW m \in Msg, SweepExpired(m) PROVE Spaced' /\ RateStep
  BY <1>0, <1>10, SpacedUntouched DEF SweepExpired, msgVars, loopVars, RateStep
<1>11. CASE SweepGivesUp
  BY <1>0, <1>11, SpacedUntouched DEF SweepGivesUp, msgVars, loopVars, RateStep
<1>12. CASE Tick
  BY <1>0, <1>12, TickSpaced DEF RateStep
<1>13. CASE UNCHANGED vars
  BY <1>0, <1>13, SpacedUntouched DEF vars, msgVars, loopVars, RateStep
<1> QED
  BY <1>1, <1>2, <1>3, <1>4, <1>5, <1>6, <1>7, <1>8, <1>9, <1>10, <1>11, <1>12, <1>13
     DEF Next

\* Two sends of the queue start at least SEND_INTERVAL apart, and none starts
\* within SEND_INTERVAL of a send recorded from outside the queue.
THEOREM SendsAreSpaced == Spec => RateLimit
<1>1. Init => RateInv
  <2>1. Init => Spaced
    BY DEF Init, Spaced
  <2> QED
    BY <2>1, LoopInit DEF RateInv
<1>2. RateInv /\ [Next]_vars => RateInv'
  BY RateNext, LoopNext DEF RateInv
<1>3. RateInv /\ [Next]_vars => [RateStep]_vars
  BY RateNext
<1>4. RateLimit <=> [][RateStep]_vars
  BY PTL DEF RateLimit, RateStep
<1> QED
  BY <1>1, <1>2, <1>3, <1>4, PTL DEF Spec

(***************************************************************************)
(* Accounts.  Each message is described by its place in the queue, the     *)
(* request ids of its that are waiting, its counters, its outcome and what *)
(* is suspended for it; Account(m, q) relates them when the queue is q.    *)
(* The four groups need each other: that a queued message has no answered  *)
(* attempt keeps a failed send from making it pending beside the queue,    *)
(* that every waiting id is one the message knows makes resolving it clear *)
(* them all, and that an unraced outcome leaves nothing behind keeps the   *)
(* message from a second one.                                              *)
(***************************************************************************)
Waiting(m) == {n \in Nat \ {0} : <<m, n>> \in pendingAcks}

Recording(m) == \E c \in Loop : pc[c] = "recording" /\ cur[c] = m

Distinct(q) == \A i, j \in DOMAIN q : q[i] = q[j] => i = j

Known(m) ==
    /\ Waiting(m) \subseteq {requestId[m]} \cup priorRequestIds[m]
    /\ requestId[m] # 0 \/ priorRequestIds[m] # {} => attempts[m] > 0
    /\ sweeping = m => attempts[m] > 0
    /\ attempts[m] <= maxAttempts(m)
    /\ m \in ZeroHop => Waiting(m) = {}

Queued(m, q) ==
    m \in Elements(q) => /\ Waiting(m) = {}
                         /\ sweeping # m
                         /\ requestId[m] = 0 \/ Recording(m)
                         /\ attempts[m] < maxAttempts(m) \/ InFlight(m)

Open(m, q) ==
    outcome[m] = <<>> =>
        /\ attempts[m] > 0 => m \in Elements(q) \/ Waiting(m) # {}
        /\ \A n \in {requestId[m]} \cup priorRequestIds[m] :
              n = 0 \/ n \in Waiting(m) \/ (Recording(m) /\ n = requestId[m])

Closed(m, q) ==
    outcome[m] # <<>> /\ m \notin raced =>
        /\ Len(outcome[m]) = 1
        /\ m \notin Elements(q)
        /\ Waiting(m) = {}
        /\ ~InFlight(m)
        /\ sweeping # m

Account(m, q) == Known(m) /\ Queued(m, q) /\ Open(m, q) /\ Closed(m, q)

AccountInv == LoopInv /\ Distinct(queue) /\ \A m \in Msg : Account(m, queue)

\* The budget of a message is at least one attempt.
LEMMA BudgetType == \A m \in Msg : maxAttempts(m) \in Nat \ {0}
  BY MessagesAssumption DEF maxAttempts, resolveDmMaxAttempts

\* Taking a message out of the queue takes out that message and no other.
LEMMA RemoveElements ==
    ASSUME NEW q \in Seq(Msg), Distinct(q), NEW m \in Msg
    PROVE  /\ Distinct(removeFromQueue(q, m))
           /\ \A x \in Msg : x \in Elements(removeFromQueue(q, m)) <=> x \in Elements(q) /\ x # m
<1> DEFINE i == CHOOSE k \in DOMAIN q : q[k] = m /\ \A j \in 1 .. (k - 1) : q[j] # m
           r == [j \in 1 .. (Len(q) - 1) |-> IF j < i THEN q[j] ELSE q[j + 1]]
<1>1. CASE m \notin Elements(q)
  BY <1>1 DEF removeFromQueue
<1>2. CASE m \in Elements(q)
  <2>1. PICK k \in DOMAIN q : q[k] = m
    BY <1>2 DEF Elements
  <2>2. DOMAIN q = 1 .. Len(q) /\ Len(q) \in Nat
    OBVIOUS
  <2>3. \A j \in 1 .. (k - 1) : q[j] # m
    BY <2>1, <2>2 DEF Distinct
  <2>4. i \in 1 .. Len(q) /\ q[i] = m
    BY <2>1, <2>2, <2>3
  <2>5. removeFromQueue(q, m) = r
    BY <1>2 DEF removeFromQueue
  <2> HIDE DEF i
  <2>6. DOMAIN r = 1 .. (Len(q) - 1)
    OBVIOUS
  <2>7. \A j \in DOMAIN r : r[j] = IF j < i THEN q[j] ELSE q[j + 1]
    OBVIOUS
  <2> HIDE DEF r
  <2>8. Distinct(r)
    BY <2>2, <2>4, <2>6, <2>7 DEF Distinct
  <2>9. ASSUME NEW x \in Msg PROVE x \in Elements(r) <=> x \in Elements(q) /\ x # m
    <3>1. ASSUME x \in Elements(r) PROVE x \in Elements(q) /\ x # m
      <4>1. PICK j \in DOMAIN r : r[j] = x
        BY <3>1 DEF Elements
      <4>2. \E l \in DOMAIN q : l # i /\ q[l] = x
        BY <2>2, <2>4, <2>6, <2>7, <4>1
      <4> QED
        BY <2>2, <2>4, <4>2 DEF Distinct, Elements
    <3>2. ASSUME x \in Elements(q), x # m PROVE x \in Elements(r)
      <4>1. PICK l \in DOMAIN q : q[l] = x
        BY <3>2 DEF Elements
      <4>2. CASE l < i
        BY <2>2, <2>4, <2>6, <2>7, <4>1, <4>2 DEF Elements
      <4>3. CASE l > i
        <5>1. l - 1 \in DOMAIN r /\ r[l - 1] = q[l]
          BY <2>2, <2>4, <2>6, <2>7, <4>1, <4>3
        <5> QED
          BY <4>1, <5>1 DEF Elements
      <4>4. l # i
        BY <2>4, <3>2, <4>1
      <4> QED
        BY <2>2, <2>4, <4>2, <4>3, <4>4
    <3> QED
      BY <3>1, <3>2
  <2> QED
    BY <2>5, <2>8, <2>9
<1> QED
  BY <1>1, <1>2

\* A new message goes to the end of the queue, beside the others.
LEMMA AppendElements ==
    ASSUME NEW q \in Seq(Msg), Distinct(q), NEW m \in Msg, m \notin Elements(q)
    PROVE  /\ Distinct(Append(q, m))
           /\ \A x \in Msg : x \in Elements(Append(q, m)) <=> x \in Elements(q) \/ x = m
<1>1. /\ DOMAIN Append(q, m) = 1 .. (Len(q) + 1) /\ DOMAIN q = 1 .. Len(q) /\ Len(q) \in Nat
      /\ \A j \in 1 .. Len(q) : Append(q, m)[j] = q[j]
      /\ Append(q, m)[Len(q) + 1] = m
  OBVIOUS
<1>2. \A j \in DOMAIN q : q[j] # m
  BY DEF Elements
<1>3. Distinct(Append(q, m))
  BY <1>1, <1>2 DEF Distinct
<1>4. \A x \in Msg : x \in Elements(Append(q, m)) <=> x \in Elements(q) \/ x = m
  BY <1>1 DEF Elements
<1> QED
  BY <1>3, <1>4

\* Being pending is having an id that waits.
LEMMA PendingWaits ==
    ASSUME TypeInv
    PROVE  \A m \in Msg : IsPending(m) <=> Waiting(m) # {}
<1>1. pendingAcks \subseteq Msg \X (Nat \ {0})
  BY DEF TypeInv, TypeOK, QueueTypes, RequestIds
<1> SUFFICES ASSUME NEW m \in Msg PROVE IsPending(m) <=> Waiting(m) # {}
  OBVIOUS
<1>2. ASSUME IsPending(m) PROVE Waiting(m) # {}
  <2>1. PICK id \in pendingAcks : id[1] = m
    BY <1>2 DEF IsPending
  <2>2. id = <<m, id[2]>> /\ id[2] \in Nat \ {0}
    BY <1>1, <2>1
  <2> QED
    BY <2>1, <2>2 DEF Waiting
<1>3. ASSUME Waiting(m) # {} PROVE IsPending(m)
  <2>1. PICK n \in Nat : <<m, n>> \in pendingAcks
    BY <1>3 DEF Waiting
  <2> QED
    BY <2>1 DEF IsPending
<1> QED
  BY <1>2, <1>3

\* deleteAllRequestIds clears the ids of its message and of no other.
LEMMA ClearWaiting ==
    ASSUME TypeInv, NEW m \in Msg, Known(m), pendingAcks' = deleteAllRequestIds(m)
    PROVE  /\ Waiting(m)' = {}
           /\ \A x \in Msg : x # m => Waiting(x)' = Waiting(x)
<1>1. pendingAcks' = pendingAcks \ IdsOf(m)
  BY DEF deleteAllRequestIds
<1>2. ASSUME NEW n \in Nat \ {0}, <<m, n>> \in pendingAcks PROVE <<m, n>> \in IdsOf(m)
  <2>1. n \in {requestId[m]} \cup priorRequestIds[m]
    BY <1>2 DEF Known, Waiting
  <2> QED
    BY <1>2, <2>1 DEF IdsOf
<1>3. Waiting(m)' = {}
  BY <1>1, <1>2 DEF Waiting
<1>4. ASSUME NEW x \in Msg, x # m PROVE Waiting(x)' = Waiting(x)
  <2>1. \A n : <<x, n>> \notin IdsOf(m)
    BY <1>4 DEF IdsOf
  <2> QED
    BY <1>1, <2>1 DEF Waiting
<1> QED
  BY <1>3, <1>4

\* trackPending enters one id of its message.
LEMMA TrackWaiting ==
    ASSUME NEW m \in Msg, NEW n \in Nat \ {0}, pendingAcks' = trackPending(m, n)
    PROVE  /\ Waiting(m)' = Waiting(m) \cup {n}
           /\ \A x \in Msg : x # m => Waiting(x)' = Waiting(x)
<1>1. \A x, k : <<x, k>> \in pendingAcks' <=> <<x, k>> \in pendingAcks \/ (x = m /\ k = n)
  BY DEF trackPending
<1> QED
  BY <1>1 DEF Waiting

\* With no other loop alive, what is in flight is what loop c says.
LEMMA OnlyLoop ==
    ASSUME NEW c \in Loop,
           \A d \in Loop : d # c => pc[d] = "idle" /\ pc'[d] = "idle"
    PROVE  \A x \in Msg :
              /\ InFlight(x) <=> pc[c] \in {"sending", "recording"} /\ cur[c] = x
              /\ Recording(x) <=> pc[c] = "recording" /\ cur[c] = x
              /\ InFlight(x)' <=> pc'[c] \in {"sending", "recording"} /\ cur'[c] = x
              /\ Recording(x)' <=> pc'[c] = "recording" /\ cur'[c] = x
<1> USE DEF InFlight, Recording
<1>1. \A x \in Msg : InFlight(x) <=> pc[c] \in {"sending", "recording"} /\ cur[c] = x
  OBVIOUS
<1>2. \A x \in Msg : Recording(x) <=> pc[c] = "recording" /\ cur[c] = x
  OBVIOUS
<1>3. \A x \in Msg : InFlight(x)' <=> pc'[c] \in {"sending", "recording"} /\ cur'[c] = x
  OBVIOUS
<1>4. \A x \in Msg : Recording(x)' <=> pc'[c] = "recording" /\ cur'[c] = x
  OBVIOUS
<1> HIDE DEF InFlight, Recording
<1> QED
  BY <1>1, <1>2, <1>3, <1>4

\* A message the step does not touch keeps its account.
LEMMA Bystander ==
    ASSUME NEW x \in Msg, NEW q, Account(x, q),
           attempts'[x] = attempts[x],
           requestId'[x] = requestId[x],
           priorRequestIds'[x] = priorRequestIds[x],
           outcome'[x] = outcome[x],
           x \in raced' <=> x \in raced,
           sweeping' = x <=> sweeping = x,
           x \in Elements(queue') <=> x \in Elements(q),
           Waiting(x)' = Waiting(x),
           InFlight(x)' <=> InFlight(x),
           Recording(x)' <=> Recording(x)
    PROVE  Account(x, queue)'
<1>1. Known(x)'
  BY DEF Account, Known
<1>2. Queued(x, queue)'
  BY DEF Account, Queued
<1>3. Open(x, queue)'
  BY DEF Account, Open
<1>4. Closed(x, queue)'
  BY DEF Account, Closed
<1> QED
  BY <1>1, <1>2, <1>3, <1>4 DEF Account

\* A message the step resolves: its only debts are those of a race.
LEMMA Resolved ==
    ASSUME TypeInv, NEW m \in Msg, NEW q, Account(m, q), NEW s \in Results,
           outcome' = [outcome EXCEPT ![m] = Append(@, s)],
           m \notin Elements(queue'),
           Waiting(m)' = {},
           sweeping' = m => sweeping = m,
           attempts'[m] = attempts[m],
           requestId'[m] # 0 \/ priorRequestIds'[m] # {} => attempts[m] > 0,
           m \notin raced' => /\ m \notin raced
                              /\ outcome[m] = <<>>
                              /\ ~InFlight(m)'
                              /\ sweeping' # m
    PROVE  Account(m, queue)'
<1>1. outcome'[m] = Append(outcome[m], s) /\ outcome[m] \in Seq(Results)
  BY DEF TypeInv, TypeOK, HistTypes
<1>2. outcome'[m] # <<>> /\ (outcome[m] = <<>> => Len(outcome'[m]) = 1)
  BY <1>1
<1>3. Known(m)'
  BY DEF Account, Known
<1>4. Queued(m, queue)' /\ Open(m, queue)'
  BY <1>2 DEF Queued, Open
<1>5. Closed(m, queue)'
  BY <1>2 DEF Closed
<1> QED
  BY <1>3, <1>4, <1>5 DEF Account

\* sendMessage up to its await: the attempt is counted, or the message is
\* given up for want of a callback.
LEMMA BeginSendAccount ==
    ASSUME TypeInv, NEW c \in Loop, NEW q \in Seq(Msg), NEW m \in Msg,
           Distinct(q), \A x \in Msg : Account(x, q),
           \A d \in Loop : d # c => pc[d] = "idle",
           pc[c] \in {"idle", "timer"},
           m \in Elements(q) \/ Waiting(m) # {},
           attempts[m] < maxAttempts(m),
           BeginSend(c, m, q), sweeping' = sweeping
    PROVE  Distinct(queue') /\ \A x \in Msg : Account(x, queue)'
<1> USE MessagesAssumption
<1>0. /\ pc \in [Loop -> {"idle", "timer", "sending", "recording"}]
      /\ cur \in [Loop -> Msg \cup {NoMsg}]
      /\ attempts \in [Msg -> Nat]
      /\ outcome \in [Msg -> Seq(Results)]
      /\ maxAttempts(m) \in Nat
  BY BudgetType DEF TypeInv, TypeOK, LoopTypes, MsgTypes, HistTypes
<1>1. outcome[m] # <<>> => m \in raced
  BY DEF Account, Closed
<1>2. CASE callbackSet
  <2>1. /\ attempts' = [attempts EXCEPT ![m] = @ + 1]
        /\ pc' = [pc EXCEPT ![c] = "sending"]
        /\ cur' = [cur EXCEPT ![c] = m]
        /\ queue' = q
        /\ UNCHANGED <<pendingAcks, requestId, priorRequestIds, outcome, raced>>
    BY <1>2 DEF BeginSend, histVars
  <2>2. \A d \in Loop : d # c => pc[d] = "idle" /\ pc'[d] = "idle"
    BY <1>0, <2>1
  <2>3. pc'[c] = "sending" /\ cur'[c] = m
    BY <1>0, <2>1
  <2>4. \A x \in Msg : /\ ~InFlight(x) /\ ~Recording(x) /\ ~Recording(x)'
                       /\ InFlight(x)' <=> m = x
    BY <2>2, <2>3, OnlyLoop
  <2>5. \A x \in Msg : Waiting(x)' = Waiting(x)
    BY <2>1 DEF Waiting
  <2>6. ASSUME NEW x \in Msg, x # m PROVE Account(x, queue)'
    <3>1. attempts'[x] = attempts[x]
      BY <1>0, <2>1, <2>6
    <3>2. InFlight(x)' <=> InFlight(x)
      BY <2>4, <2>6
    <3>3. Recording(x)' <=> Recording(x)
      BY <2>4
    <3>4. x \in Elements(queue') <=> x \in Elements(q)
      BY <2>1
    <3>5. /\ requestId'[x] = requestId[x] /\ priorRequestIds'[x] = priorRequestIds[x]
          /\ outcome'[x] = outcome[x]
          /\ x \in raced' <=> x \in raced
          /\ sweeping' = x <=> sweeping = x
      BY <2>1
    <3> QED
      BY <2>5, <3>1, <3>2, <3>3, <3>4, <3>5, Bystander
  <2>7. attempts'[m] = attempts[m] + 1 /\ attempts[m] \in Nat
    BY <1>0, <2>1
  <2>8. Known(m)'
    BY <1>0, <2>1, <2>5, <2>7 DEF Account, Known
  <2>9. Queued(m, queue)'
    BY <2>1, <2>4, <2>5 DEF Account, Queued
  <2>10. Open(m, queue)'
    BY <2>1, <2>4, <2>5 DEF Account, Open
  <2>11. Closed(m, queue)'
    BY <1>1, <2>1 DEF Closed
  <2> QED
    BY <2>1, <2>6, <2>8, <2>9, <2>10, <2>11 DEF Account
<1>3. CASE ~callbackSet
  <2>1. /\ queue' = removeFromQueue(q, m)
        /\ pendingAcks' = deleteAllRequestIds(m)
        /\ outcome' = [outcome EXCEPT ![m] = Append(@, "noCallback")]
        /\ raced' = IF sweeping = m THEN raced \cup {m} ELSE raced
        /\ pc' = [pc EXCEPT ![c] = "timer"]
        /\ UNCHANGED <<attempts, requestId, priorRequestIds>>
    BY <1>3 DEF BeginSend, Report, MarkRaced, ArmTimer, msgVars
  <2>2. \A d \in Loop : d # c => pc[d] = "idle" /\ pc'[d] = "idle"
    BY <1>0, <2>1
  <2>3. pc'[c] = "timer"
    BY <1>0, <2>1
  <2>4. \A x \in Msg : ~InFlight(x) /\ ~Recording(x) /\ ~Recording(x)' /\ ~InFlight(x)'
    BY <2>2, <2>3, OnlyLoop
  <2>5. /\ Waiting(m)' = {}
        /\ \A x \in Msg : x # m => Waiting(x)' = Waiting(x)
    BY <2>1, ClearWaiting DEF Account
  <2>6. /\ Distinct(queue')
        /\ \A x \in Msg : x \in Elements(queue') <=> x \in Elements(q) /\ x # m
    BY <2>1, RemoveElements
  <2>7. ASSUME NEW x \in Msg, x # m PROVE Account(x, queue)'
    <3>1. /\ attempts'[x] = attempts[x]
          /\ requestId'[x] = requestId[x] /\ priorRequestIds'[x] = priorRequestIds[x]
          /\ outcome'[x] = outcome[x]
          /\ x \in raced' <=> x \in raced
          /\ sweeping' = x <=> sweeping = x
      BY <1>0, <2>1, <2>7
    <3>2. /\ InFlight(x)' <=> InFlight(x)
          /\ Recording(x)' <=> Recording(x)
      BY <2>4
    <3> QED
      BY <2>5, <2>6, <2>7, <3>1, <3>2, Bystander
  <2>8. Account(m, queue)'
    <3>1. "noCallback" \in Results
      BY DEF Results
    <3>2. m \notin Elements(queue')
      BY <2>6
    <3>3. m \notin raced' => m \notin raced /\ outcome[m] = <<>> /\ ~InFlight(m)' /\ sweeping' # m
      BY <1>1, <2>1, <2>4
    <3>4. /\ attempts'[m] = attempts[m]
          /\ requestId'[m] # 0 \/ priorRequestIds'[m] # {} => attempts[m] > 0
      BY <2>1 DEF Account, Known
    <3> QED
      BY <2>1, <2>5, <3>1, <3>2, <3>3, <3>4, Resolved
  <2> QED
    BY <2>6, <2>7, <2>8
<1> QED
  BY <1>2, <1>3

\* processQueue keeps every account, whichever message it picks.
LEMMA ProcessQueueAccount ==
    ASSUME TypeInv, NEW c \in Loop, NEW q \in Seq(Msg), processQueue(c, q),
           Distinct(q), \A x \in Msg : Account(x, q),
           \A d \in Loop : d # c => pc[d] = "idle",
           pc[c] \in {"idle", "timer"},
           sweeping' = sweeping
    PROVE  Distinct(queue') /\ \A x \in Msg : Account(x, queue)'
<1>0. pc \in [Loop -> {"idle", "timer", "sending", "recording"}]
  BY DEF TypeInv, TypeOK, LoopTypes
<1>1. ASSUME NEW p \in {"idle", "timer"}, pc' = [pc EXCEPT ![c] = p], queue' = q,
             UNCHANGED <<pendingAcks, msgVars, histVars>>
      PROVE  Distinct(queue') /\ \A x \in Msg : Account(x, queue)'
  <2>1. \A d \in Loop : d # c => pc[d] = "idle" /\ pc'[d] = "idle"
    BY <1>0, <1>1
  <2>2. pc'[c] = p
    BY <1>0, <1>1
  <2>3. \A x \in Msg : ~InFlight(x) /\ ~Recording(x) /\ ~Recording(x)' /\ ~InFlight(x)'
    BY <2>1, <2>2, OnlyLoop
  <2>4. \A x \in Msg : Waiting(x)' = Waiting(x)
    BY <1>1 DEF Waiting
  <2>5. UNCHANGED <<attempts, requestId, priorRequestIds, outcome, raced>>
    BY <1>1 DEF msgVars, histVars
  <2>6. ASSUME NEW x \in Msg PROVE Account(x, queue)'
    <3>1. /\ attempts'[x] = attempts[x]
          /\ requestId'[x] = requestId[x] /\ priorRequestIds'[x] = priorRequestIds[x]
          /\ outcome'[x] = outcome[x]
          /\ x \in raced' <=> x \in raced
          /\ sweeping' = x <=> sweeping = x
          /\ x \in Elements(queue') <=> x \in Elements(q)
      BY <1>1, <2>5
    <3>2. /\ InFlight(x)' <=> InFlight(x)
          /\ Recording(x)' <=> Recording(x)
      BY <2>3
    <3> QED
      BY <2>4, <3>1, <3>2, Bystander
  <2> QED
    BY <1>1, <2>6
<1>2. CASE ArmTimer(c, waitTime) /\ queue' = q /\ UNCHANGED <<pendingAcks, msgVars, histVars>>
  BY <1>1, <1>2 DEF ArmTimer
<1>3. CASE \E m \in findMessageForRetry : BeginSend(c, m, q)
  <2>1. PICK m \in findMessageForRetry : BeginSend(c, m, q)
    BY <1>3
  <2>2. m \in Msg /\ IsPending(m) /\ attempts[m] < maxAttempts(m)
    BY <2>1 DEF findMessageForRetry
  <2>3. Waiting(m) # {}
    BY <2>2, PendingWaits
  <2> QED
    BY <2>1, <2>2, <2>3, BeginSendAccount
<1>4. CASE q # <<>> /\ BeginSend(c, Head(q), q)
  <2> DEFINE m == Head(q)
  <2>1. m \in Msg /\ m = q[1] /\ 1 \in DOMAIN q
    BY <1>4
  <2>2. m \in Elements(q)
    BY <2>1 DEF Elements
  <2>3. ~InFlight(m)
    BY DEF InFlight
  <2>4. attempts[m] < maxAttempts(m)
    BY <2>1, <2>2, <2>3 DEF Account, Queued
  <2> HIDE DEF m
  <2> QED
    BY <1>4, <2>1, <2>2, <2>4, BeginSendAccount DEF m
<1>5. CASE /\ IF nothingToDo(q)
              THEN /\ pc' = [pc EXCEPT ![c] = "idle"]
                   /\ processing' = FALSE
                   /\ cleanup' = FALSE
                   /\ UNCHANGED <<wait, cur>>
              ELSE ArmTimer(c, SEND_INTERVAL) /\ KeepsRunning
           /\ queue' = q
           /\ UNCHANGED <<pendingAcks, msgVars, histVars>>
  BY <1>1, <1>5 DEF ArmTimer
<1> QED
  BY <1>2, <1>3, <1>4, <1>5 DEF processQueue

\* A message that is enqueued has never been seen: its account is blank.
LEMMA EnqueueAccount ==
    ASSUME AccountInv, NEW m \in Msg, ~Enqueued(m)
    PROVE  /\ Distinct(Append(queue, m))
           /\ \A x \in Msg : Account(x, Append(queue, m))
<1>1. /\ queue \in Seq(Msg) /\ attempts[m] \in Nat
      /\ m \notin Elements(queue) /\ ~(attempts[m] > 0) /\ outcome[m] = <<>>
      /\ Distinct(queue) /\ Account(m, queue)
  BY DEF AccountInv, LoopInv, TypeInv, TypeOK, QueueTypes, MsgTypes, Enqueued
<1>2. /\ Distinct(Append(queue, m))
      /\ \A x \in Msg : x \in Elements(Append(queue, m)) <=> x \in Elements(queue) \/ x = m
  BY <1>1, AppendElements
<1>3. ASSUME NEW x \in Msg, x # m PROVE Account(x, Append(queue, m))
  BY <1>2, <1>3 DEF AccountInv, Account, Queued, Open, Closed
<1>4. Account(m, Append(queue, m))
  <2>1. requestId[m] = 0 /\ priorRequestIds[m] = {} /\ sweeping # m
    BY <1>1 DEF Account, Known
  <2>2. Waiting(m) = {}
    BY <1>1, <2>1 DEF Account, Known, Waiting
  <2>3. attempts[m] < maxAttempts(m)
    BY <1>1, BudgetType
  <2>4. Known(m)
    BY <1>1 DEF Account
  <2> QED
    BY <1>1, <2>1, <2>2, <2>3, <2>4 DEF Account, Queued, Open, Closed
<1> QED
  BY <1>2, <1>3, <1>4

\* The end of a send.  n is the id the message now goes by; the ids it had
\* before are all among its prior ones or n itself.
LEMMA FinishSendAccount ==
    ASSUME AccountInv, NEW c \in Loop, NEW m \in Msg, NEW n \in Nat \ {0},
           pc[c] \in {"sending", "recording"}, cur[c] = m,
           FinishSend(c, m, n),
           UNCHANGED <<attempts, sweeping>>,
           attempts[m] > 0,
           pc[c] = "recording" => requestId[m] = n,
           requestId' = [requestId EXCEPT ![m] = n],
           \A x \in Msg : x # m => priorRequestIds'[x] = priorRequestIds[x],
           priorRequestIds[m] \subseteq priorRequestIds'[m],
           priorRequestIds'[m] \subseteq priorRequestIds[m] \cup {requestId[m]},
           requestId[m] \in {0, n} \cup priorRequestIds'[m]
    PROVE  Distinct(queue') /\ \A x \in Msg : Account(x, queue)'
<1>0. /\ TypeInv /\ Distinct(queue) /\ queue \in Seq(Msg)
      /\ pc \in [Loop -> {"idle", "timer", "sending", "recording"}]
      /\ requestId \in [Msg -> Nat]
      /\ outcome \in [Msg -> Seq(Results)]
      /\ \A x \in Msg : Account(x, queue)
  BY DEF AccountInv, LoopInv, TypeInv, TypeOK, QueueTypes, MsgTypes, LoopTypes, HistTypes
<1>1. queue' = removeFromQueue(queue, m) /\ pc' = [pc EXCEPT ![c] = "timer"]
  BY DEF FinishSend, ArmTimer
<1>2. \A d \in Loop : d # c => pc[d] = "idle" /\ pc'[d] = "idle"
  <2>1. \A d \in Loop : d # c => pc[d] = "idle"
    BY DEF AccountInv, LoopInv, OneLoop
  <2> QED
    BY <1>0, <1>1, <2>1
<1>3. pc'[c] = "timer"
  BY <1>0, <1>1
<1>4. \A x \in Msg : /\ InFlight(x) <=> x = m
                     /\ Recording(x) <=> pc[c] = "recording" /\ x = m
                     /\ ~InFlight(x)' /\ ~Recording(x)'
  BY <1>2, <1>3, OnlyLoop
<1>5. /\ Distinct(queue')
      /\ \A x \in Msg : x \in Elements(queue') <=> x \in Elements(queue) /\ x # m
  BY <1>0, <1>1, RemoveElements
<1>6. /\ \A x \in Msg : x # m => outcome'[x] = outcome[x] /\ Waiting(x)' = Waiting(x)
      /\ \A x \in Msg : x # m => (x \in raced' <=> x \in raced)
  <2>1. CASE m \in ZeroHop
    <3>1. /\ outcome' = [outcome EXCEPT ![m] = Append(@, "success")]
          /\ raced' = IF sweeping = m THEN raced \cup {m} ELSE raced
          /\ pendingAcks' = pendingAcks
      BY <2>1 DEF FinishSend, Report, MarkRaced
    <3> QED
      BY <1>0, <3>1 DEF Waiting
  <2>2. CASE m \notin ZeroHop
    <3>1. outcome' = outcome /\ raced' = raced /\ pendingAcks' = trackPending(m, n)
      BY <2>2 DEF FinishSend, histVars
    <3> QED
      BY <3>1, TrackWaiting
  <2> QED
    BY <2>1, <2>2
<1>7. ASSUME NEW x \in Msg, x # m PROVE Account(x, queue)'
  <2>1. /\ attempts'[x] = attempts[x]
        /\ requestId'[x] = requestId[x]
        /\ priorRequestIds'[x] = priorRequestIds[x]
        /\ sweeping' = x <=> sweeping = x
        /\ InFlight(x)' <=> InFlight(x)
        /\ Recording(x)' <=> Recording(x)
        /\ x \in Elements(queue') <=> x \in Elements(queue)
    BY <1>0, <1>4, <1>5, <1>7
  <2> QED
    BY <1>0, <1>6, <1>7, <2>1, Bystander
<1>8. outcome[m] # <<>> => m \in raced
  BY <1>0, <1>4 DEF Account, Closed
<1>9. requestId'[m] = n /\ attempts'[m] = attempts[m] /\ m \notin Elements(queue')
  BY <1>0, <1>5
<1>10. CASE m \in ZeroHop
  <2>1. /\ outcome' = [outcome EXCEPT ![m] = Append(@, "success")]
        /\ raced' = IF sweeping = m THEN raced \cup {m} ELSE raced
        /\ pendingAcks' = pendingAcks
    BY <1>10 DEF FinishSend, Report, MarkRaced
  <2>2. Waiting(m)' = {}
    <3>1. Waiting(m)' = Waiting(m)
      BY <2>1 DEF Waiting
    <3> QED
      BY <1>0, <1>10, <3>1 DEF Account, Known
  <2>3. "success" \in Results
    BY DEF Results
  <2>4. m \notin raced' => m \notin raced /\ outcome[m] = <<>> /\ ~InFlight(m)' /\ sweeping' # m
    BY <1>4, <1>8, <2>1
  <2>5. sweeping' = m => sweeping = m
    OBVIOUS
  <2>6. Account(m, queue)'
    BY <1>0, <1>9, <2>1, <2>2, <2>3, <2>4, <2>5, Resolved
  <2> QED
    BY <1>5, <1>7, <2>6
<1>11. CASE m \notin ZeroHop
  <2>1. outcome' = outcome /\ raced' = raced /\ pendingAcks' = trackPending(m, n)
    BY <1>11 DEF FinishSend, histVars
  <2>2. Waiting(m)' = Waiting(m) \cup {n}
    BY <2>1, TrackWaiting
  <2>3. 0 \notin Waiting(m)
    BY DEF Waiting
  <2>4. Known(m)'
    <3>1. Known(m)
      BY <1>0 DEF Account
    <3>2. Waiting(m)' \subseteq {requestId'[m]} \cup priorRequestIds'[m]
      BY <1>9, <2>2, <2>3, <3>1 DEF Known
    <3> QED
      BY <1>9, <1>11, <3>1, <3>2 DEF Known
  <2>5. Queued(m, queue)'
    BY <1>9 DEF Queued
  <2>6. Open(m, queue)'
    <3>1. ASSUME outcome[m] = <<>>, NEW k \in {requestId'[m]} \cup priorRequestIds'[m]
          PROVE  k = 0 \/ k \in Waiting(m)'
      <4>1. CASE k = n
        BY <2>2, <4>1
      <4>2. CASE k # n
        <5>1. k \in {requestId[m]} \cup priorRequestIds[m]
          BY <1>9, <3>1, <4>2
        <5>2. ~(Recording(m) /\ k = requestId[m])
          BY <1>4, <4>2
        <5> QED
          BY <1>0, <2>2, <3>1, <5>1, <5>2 DEF Account, Open
      <4> QED
        BY <4>1, <4>2
    <3> QED
      BY <2>1, <2>2, <3>1 DEF Open
  <2>7. Closed(m, queue)'
    BY <1>8, <2>1 DEF Closed
  <2> QED
    BY <1>5, <1>7, <2>4, <2>5, <2>6, <2>7 DEF Account
<1> QED
  BY <1>10, <1>11

\* A send that resolves: the earlier id joins the prior ones.
LEMMA SendResolvesAccount ==
    ASSUME AccountInv, NEW c \in Loop, SendResolves(c)
    PROVE  Distinct(queue') /\ \A x \in Msg : Account(x, queue)'
<1>0. /\ TypeInv /\ Distinct(queue)
      /\ pc \in [Loop -> {"idle", "timer", "sending", "recording"}]
      /\ requestId \in [Msg -> Nat]
      /\ priorRequestIds \in [Msg -> SUBSET (Nat \ {0})]
      /\ \A x \in Msg : Account(x, queue)
  BY DEF AccountInv, LoopInv, TypeInv, TypeOK, QueueTypes, MsgTypes, LoopTypes
<1>m. PICK m \in Msg, n \in Nat \ {0} : m = cur[c] /\ n = attempts[m]
  BY <1>0 DEF SendResolves, TypeInv, TypeOK, LoopTypes, MsgTypes, SendCounted
<1>1. pc[c] = "sending"
  BY DEF SendResolves
<1>2. /\ requestId' = [requestId EXCEPT ![m] = n]
      /\ UNCHANGED <<attempts, sweeping>>
      /\ priorRequestIds' = IF requestId[m] \notin {0, n}
                            THEN [priorRequestIds EXCEPT ![m] = @ \cup {requestId[m]}]
                            ELSE priorRequestIds
      /\ \/ /\ pc' = [pc EXCEPT ![c] = "recording"]
            /\ UNCHANGED <<queue, pendingAcks, cur, histVars>>
         \/ FinishSend(c, m, n)
  BY <1>m DEF SendResolves
<1>3. /\ \A x \in Msg : x # m => priorRequestIds'[x] = priorRequestIds[x]
      /\ priorRequestIds[m] \subseteq priorRequestIds'[m]
      /\ priorRequestIds'[m] \subseteq priorRequestIds[m] \cup {requestId[m]}
      /\ requestId[m] \in {0, n} \cup priorRequestIds'[m]
  BY <1>0, <1>m, <1>1, <1>2
<1>4. CASE FinishSend(c, m, n)
  <2>1. /\ pc[c] \in {"sending", "recording"} /\ cur[c] = m /\ attempts[m] > 0
        /\ pc[c] = "recording" => requestId[m] = n
    BY <1>m, <1>1
  <2> QED
    BY <1>2, <1>3, <1>4, <2>1, FinishSendAccount
<1>5. CASE /\ pc' = [pc EXCEPT ![c] = "recording"]
           /\ UNCHANGED <<queue, pendingAcks, cur, histVars>>
  <2>1. \A d \in Loop : d # c => pc[d] = "idle" /\ pc'[d] = "idle"
    <3>1. \A d \in Loop : d # c => pc[d] = "idle"
      BY <1>m, <1>1 DEF AccountInv, LoopInv, OneLoop
    <3> QED
      BY <1>0, <1>5, <3>1
  <2>2. pc'[c] = "recording" /\ cur'[c] = m
    BY <1>0, <1>m, <1>5
  <2>3. \A x \in Msg : /\ InFlight(x) <=> x = m
                       /\ ~Recording(x)
                       /\ InFlight(x)' <=> x = m
                       /\ Recording(x)' <=> x = m
    BY <1>m, <1>1, <2>1, <2>2, OnlyLoop
  <2>4. \A x \in Msg : Waiting(x)' = Waiting(x)
    BY <1>5 DEF Waiting
  <2>5. outcome' = outcome /\ raced' = raced /\ queue' = queue
    BY <1>5 DEF histVars
  <2>6. ASSUME NEW x \in Msg, x # m PROVE Account(x, queue)'
    <3>1. /\ attempts'[x] = attempts[x]
          /\ requestId'[x] = requestId[x]
          /\ priorRequestIds'[x] = priorRequestIds[x]
          /\ outcome'[x] = outcome[x]
          /\ x \in raced' <=> x \in raced
          /\ sweeping' = x <=> sweeping = x
          /\ InFlight(x)' <=> InFlight(x)
          /\ Recording(x)' <=> Recording(x)
          /\ x \in Elements(queue') <=> x \in Elements(queue)
      BY <1>0, <1>2, <1>3, <2>3, <2>5, <2>6
    <3> QED
      BY <1>0, <2>4, <3>1, Bystander
  <2>7. requestId'[m] = n /\ attempts'[m] = attempts[m] /\ sweeping' = sweeping
    BY <1>0, <1>m, <1>1, <1>2
  <2>8. 0 \notin Waiting(m)
    BY DEF Waiting
  <2>9. Known(m)'
    <3>1. Known(m)
      BY <1>0, <1>m, <1>1 DEF Account
    <3>2. Waiting(m)' \subseteq {requestId'[m]} \cup priorRequestIds'[m]
      BY <1>m, <1>1, <1>3, <2>4, <2>7, <2>8, <3>1 DEF Known
    <3> QED
      BY <1>m, <1>1, <2>4, <2>7, <3>1, <3>2 DEF Known
  <2>10. Queued(m, queue)'
    BY <1>0, <1>m, <1>1, <2>3, <2>4, <2>5, <2>7 DEF Account, Queued
  <2>11. Open(m, queue)'
    <3>1. ASSUME outcome[m] = <<>>, NEW k \in {requestId'[m]} \cup priorRequestIds'[m]
          PROVE  k = 0 \/ k \in Waiting(m)' \/ (Recording(m)' /\ k = requestId'[m])
      <4>1. CASE k = n
        BY <1>m, <1>1, <2>3, <2>7, <4>1
      <4>2. CASE k # n
        <5>1. k \in {requestId[m]} \cup priorRequestIds[m]
          BY <1>m, <1>1, <1>3, <2>7, <3>1, <4>2
        <5>2. ~Recording(m)
          BY <1>m, <1>1, <2>3
        <5> QED
          BY <1>0, <1>m, <1>1, <2>4, <3>1, <5>1, <5>2 DEF Account, Open
      <4> QED
        BY <4>1, <4>2
    <3>2. outcome[m] = <<>> /\ attempts[m] > 0 => m \in Elements(queue) \/ Waiting(m) # {}
      BY <1>0, <1>m, <1>1 DEF Account, Open
    <3>3. Waiting(m)' = Waiting(m)
      BY <1>m, <1>1, <2>4
    <3> QED
      BY <2>5, <2>7, <3>1, <3>2, <3>3 DEF Open
  <2>12. Closed(m, queue)'
    BY <1>0, <1>m, <1>1, <2>3, <2>5 DEF Account, Closed
  <2> QED
    BY <1>0, <2>5, <2>6, <2>9, <2>10, <2>11, <2>12 DEF Account
<1> QED
  BY <1>2, <1>4, <1>5

\* A retry whose event is written enters its id like a first send.
LEMMA RetryRecordedAccount ==
    ASSUME AccountInv, NEW c \in Loop, RetryRecorded(c)
    PROVE  Distinct(queue') /\ \A x \in Msg : Account(x, queue)'
<1>0. /\ requestId \in [Msg -> Nat]
      /\ attempts \in [Msg -> Nat]
      /\ \A x \in Msg : Account(x, queue)
  BY DEF AccountInv, LoopInv, TypeInv, TypeOK, MsgTypes
<1>1. PICK m \in Msg, n \in Nat \ {0} : m = cur[c] /\ n = requestId[m]
  BY DEF RetryRecorded, AccountInv, LoopInv, TypeInv, TypeOK, LoopTypes, MsgTypes, SendCounted
<1>2. FinishSend(c, m, n) /\ UNCHANGED <<attempts, sweeping, requestId, priorRequestIds>>
  BY <1>1 DEF RetryRecorded
<1>3. attempts[m] > 0
  BY <1>0, <1>1 DEF Account, Known
<1>4. requestId' = [requestId EXCEPT ![m] = n]
  BY <1>0, <1>1, <1>2
<1>5. pc[c] = "recording"
  BY DEF RetryRecorded
<1> QED
  BY <1>0, <1>1, <1>2, <1>3, <1>4, <1>5, FinishSendAccount

\* A send that fails gives the message up, or leaves it where it was: one
\* that never had an id stays queued, one that had is pending again.
LEMMA SendFailsAccount ==
    ASSUME AccountInv, NEW c \in Loop, SendFails(c)
    PROVE  Distinct(queue') /\ \A x \in Msg : Account(x, queue)'
<1>0. /\ TypeInv /\ Distinct(queue) /\ queue \in Seq(Msg)
      /\ pc \in [Loop -> {"idle", "timer", "sending", "recording"}]
      /\ requestId \in [Msg -> Nat]
      /\ attempts \in [Msg -> Nat]
      /\ outcome \in [Msg -> Seq(Results)]
      /\ \A x \in Msg : Account(x, queue)
  BY DEF AccountInv, LoopInv, TypeInv, TypeOK, QueueTypes, MsgTypes, LoopTypes, HistTypes
<1>m. PICK m \in Msg : m = cur[c]
  BY <1>0 DEF SendFails, TypeInv, TypeOK, LoopTypes
<1>1. pc[c] = "sending" /\ attempts[m] > 0
  BY <1>0, <1>m DEF SendFails, TypeInv, TypeOK, LoopTypes, SendCounted
<1>2. /\ pc' = [pc EXCEPT ![c] = "timer"]
      /\ UNCHANGED <<attempts, requestId, priorRequestIds, sweeping>>
      /\ \/ /\ queue' = removeFromQueue(queue, m)
            /\ pendingAcks' = deleteAllRequestIds(m)
            /\ outcome' = [outcome EXCEPT ![m] = Append(@, "sendError")]
            /\ raced' = IF sweeping = m THEN raced \cup {m} ELSE raced
         \/ /\ attempts[m] < maxAttempts(m)
            /\ requestId[m] # 0 => pendingAcks' = trackPending(m, requestId[m])
            /\ requestId[m] = 0 => pendingAcks' = pendingAcks
            /\ queue' = queue /\ outcome' = outcome /\ raced' = raced
  BY <1>m DEF SendFails, ArmTimer, Report, MarkRaced, histVars
<1>3. \A d \in Loop : d # c => pc[d] = "idle" /\ pc'[d] = "idle"
  <2>1. \A d \in Loop : d # c => pc[d] = "idle"
    BY <1>1 DEF AccountInv, LoopInv, OneLoop
  <2> QED
    BY <1>0, <1>2, <2>1
<1>4. pc'[c] = "timer"
  BY <1>0, <1>2
<1>5. \A x \in Msg : /\ InFlight(x) <=> x = m
                     /\ ~Recording(x) /\ ~InFlight(x)' /\ ~Recording(x)'
  BY <1>m, <1>1, <1>3, <1>4, OnlyLoop
<1>6. outcome[m] # <<>> => m \in raced
  BY <1>0, <1>1, <1>5 DEF Account, Closed
<1>7. CASE /\ queue' = removeFromQueue(queue, m)
           /\ pendingAcks' = deleteAllRequestIds(m)
           /\ outcome' = [outcome EXCEPT ![m] = Append(@, "sendError")]
           /\ raced' = IF sweeping = m THEN raced \cup {m} ELSE raced
  <2>1. /\ Waiting(m)' = {}
        /\ \A x \in Msg : x # m => Waiting(x)' = Waiting(x)
    BY <1>0, <1>1, <1>7, ClearWaiting DEF Account
  <2>2. /\ Distinct(queue')
        /\ \A x \in Msg : x \in Elements(queue') <=> x \in Elements(queue) /\ x # m
    BY <1>0, <1>1, <1>7, RemoveElements
  <2>3. ASSUME NEW x \in Msg, x # m PROVE Account(x, queue)'
    <3>1. /\ attempts'[x] = attempts[x]
          /\ requestId'[x] = requestId[x]
          /\ priorRequestIds'[x] = priorRequestIds[x]
          /\ outcome'[x] = outcome[x]
          /\ x \in raced' <=> x \in raced
          /\ sweeping' = x <=> sweeping = x
          /\ InFlight(x)' <=> InFlight(x)
          /\ Recording(x)' <=> Recording(x)
          /\ x \in Elements(queue') <=> x \in Elements(queue)
      BY <1>0, <1>1, <1>2, <1>5, <1>7, <2>2, <2>3
    <3> QED
      BY <1>0, <2>1, <2>3, <3>1, Bystander
  <2>4. "sendError" \in Results
    BY DEF Results
  <2>5. /\ m \notin raced' => m \notin raced /\ outcome[m] = <<>> /\ ~InFlight(m)' /\ sweeping' # m
        /\ sweeping' = m => sweeping = m
        /\ attempts'[m] = attempts[m]
        /\ requestId'[m] # 0 \/ priorRequestIds'[m] # {} => attempts[m] > 0
        /\ m \notin Elements(queue')
    BY <1>1, <1>2, <1>5, <1>6, <1>7, <2>2
  <2>6. Account(m, queue)'
    BY <1>0, <1>1, <1>7, <2>1, <2>4, <2>5, Resolved
  <2> QED
    BY <2>2, <2>3, <2>6
<1>8. CASE /\ attempts[m] < maxAttempts(m)
           /\ requestId[m] # 0 => pendingAcks' = trackPending(m, requestId[m])
           /\ requestId[m] = 0 => pendingAcks' = pendingAcks
           /\ queue' = queue /\ outcome' = outcome /\ raced' = raced
  <2>1. /\ Waiting(m)' = Waiting(m) \cup ({requestId[m]} \ {0})
        /\ \A x \in Msg : x # m => Waiting(x)' = Waiting(x)
    <3>1. CASE requestId[m] = 0
      BY <1>8, <3>1 DEF Waiting
    <3>2. CASE requestId[m] # 0
      <4>1. requestId[m] \in Nat \ {0}
        BY <1>0, <1>1, <3>2
      <4>2. pendingAcks' = trackPending(m, requestId[m])
        BY <1>8, <3>2
      <4>3. /\ Waiting(m)' = Waiting(m) \cup {requestId[m]}
            /\ \A x \in Msg : x # m => Waiting(x)' = Waiting(x)
        BY <1>1, <4>1, <4>2, TrackWaiting
      <4> QED
        BY <3>2, <4>3
    <3> QED
      BY <3>1, <3>2
  <2>2. ASSUME NEW x \in Msg, x # m PROVE Account(x, queue)'
    <3>1. /\ attempts'[x] = attempts[x]
          /\ requestId'[x] = requestId[x]
          /\ priorRequestIds'[x] = priorRequestIds[x]
          /\ outcome'[x] = outcome[x]
          /\ x \in raced' <=> x \in raced
          /\ sweeping' = x <=> sweeping = x
          /\ InFlight(x)' <=> InFlight(x)
          /\ Recording(x)' <=> Recording(x)
          /\ x \in Elements(queue') <=> x \in Elements(queue)
      BY <1>2, <1>5, <1>8, <2>2
    <3> QED
      BY <1>0, <2>1, <2>2, <3>1, Bystander
  <2>3. m \notin ZeroHop
    <3>1. m \in ZeroHop => maxAttempts(m) = 1
      BY DEF maxAttempts
    <3> QED
      BY <1>0, <1>1, <1>8, <3>1
  <2>4. Known(m)'
    BY <1>0, <1>1, <1>2, <2>1, <2>3 DEF Account, Known
  <2>5. Queued(m, queue)'
    <3>1. m \in Elements(queue) => Waiting(m) = {} /\ sweeping # m /\ requestId[m] = 0
      BY <1>0, <1>1, <1>5 DEF Account, Queued
    <3> QED
      BY <1>2, <1>8, <2>1, <3>1 DEF Queued
  <2>6. Open(m, queue)'
    <3>1. Open(m, queue) /\ ~Recording(m)
      BY <1>0, <1>1, <1>5 DEF Account
    <3> QED
      BY <1>2, <1>8, <2>1, <3>1 DEF Open
  <2>7. Closed(m, queue)'
    BY <1>6, <1>8 DEF Closed
  <2> QED
    BY <1>0, <1>8, <2>2, <2>4, <2>5, <2>6, <2>7 DEF Account
<1> QED
  BY <1>2, <1>7, <1>8

\* A handler or the sweep resolves a message that is not queued by then.
LEMMA ResolveAccount ==
    ASSUME AccountInv, NEW m \in Msg, NEW s \in Results, NEW b \in BOOLEAN,
           queue' = queue \/ queue' = removeFromQueue(queue, m),
           m \notin Elements(queue),
           pendingAcks' = deleteAllRequestIds(m),
           Report(m, s), MarkRaced(m, b),
           Waiting(m) # {} \/ sweeping = m,
           InFlight(m) \/ sweeping' = m => b,
           sweeping' = sweeping \/ (sweeping = m /\ sweeping' = NoMsg),
           UNCHANGED <<msgVars, loopVars>>
    PROVE  Distinct(queue') /\ \A x \in Msg : Account(x, queue)'
<1>0. /\ TypeInv /\ Distinct(queue) /\ queue \in Seq(Msg)
      /\ outcome \in [Msg -> Seq(Results)]
      /\ \A x \in Msg : Account(x, queue)
  BY DEF AccountInv, LoopInv, TypeInv, TypeOK, QueueTypes, HistTypes
<1>1. /\ outcome' = [outcome EXCEPT ![m] = Append(@, s)]
      /\ raced' = IF b THEN raced \cup {m} ELSE raced
      /\ UNCHANGED <<attempts, requestId, priorRequestIds, pc, cur>>
  BY DEF Report, MarkRaced, msgVars, loopVars
<1>2. queue' = queue
  BY DEF removeFromQueue
<1>3. /\ Waiting(m)' = {}
      /\ \A x \in Msg : x # m => Waiting(x)' = Waiting(x)
  BY <1>0, ClearWaiting DEF Account
<1>4. \A x \in Msg : /\ InFlight(x)' <=> InFlight(x)
                     /\ Recording(x)' <=> Recording(x)
  BY <1>1 DEF InFlight, Recording
<1>5. NoMsg \notin Msg
  BY MessagesAssumption
<1>6. ASSUME NEW x \in Msg, x # m PROVE Account(x, queue)'
  <2>1. /\ attempts'[x] = attempts[x]
        /\ requestId'[x] = requestId[x]
        /\ priorRequestIds'[x] = priorRequestIds[x]
        /\ outcome'[x] = outcome[x]
        /\ x \in raced' <=> x \in raced
        /\ sweeping' = x <=> sweeping = x
        /\ x \in Elements(queue') <=> x \in Elements(queue)
    BY <1>0, <1>1, <1>2, <1>5, <1>6
  <2> QED
    BY <1>0, <1>3, <1>4, <1>6, <2>1, Bystander
<1>7. outcome[m] # <<>> => m \in raced
  BY <1>0 DEF Account, Closed
<1>8. /\ m \notin raced' => m \notin raced /\ outcome[m] = <<>> /\ ~InFlight(m)' /\ sweeping' # m
      /\ sweeping' = m => sweeping = m
      /\ attempts'[m] = attempts[m]
      /\ requestId'[m] # 0 \/ priorRequestIds'[m] # {} => attempts[m] > 0
      /\ m \notin Elements(queue')
  <2>1. requestId[m] # 0 \/ priorRequestIds[m] # {} => attempts[m] > 0
    BY <1>0 DEF Account, Known
  <2> QED
    BY <1>1, <1>2, <1>4, <1>5, <1>7, <2>1
<1>9. Account(m, queue)'
  BY <1>0, <1>1, <1>3, <1>8, Resolved
<1> QED
  BY <1>0, <1>2, <1>6, <1>9

\* An action that leaves the queue, the map and the messages alone.
LEMMA AccountUntouched ==
    ASSUME AccountInv,
           UNCHANGED <<queue, pendingAcks, attempts, requestId, priorRequestIds, pc, cur,
                       outcome, raced, sweeping>>
    PROVE  Distinct(queue') /\ \A x \in Msg : Account(x, queue)'
<1>1. \A x \in Msg : /\ Waiting(x)' = Waiting(x)
                     /\ InFlight(x)' <=> InFlight(x)
                     /\ Recording(x)' <=> Recording(x)
  BY DEF Waiting, InFlight, Recording
<1>2. ASSUME NEW x \in Msg PROVE Account(x, queue)'
  BY <1>1, Bystander DEF AccountInv
<1> QED
  BY <1>2 DEF AccountInv

\* The accounts hold of the constructor's state.
LEMMA AccountInit == Init => AccountInv
<1> SUFFICES ASSUME Init PROVE AccountInv
  OBVIOUS
<1>1. LoopInv
  BY LoopInit
<1>2. /\ queue = <<>> /\ pendingAcks = {} /\ sweeping = NoMsg /\ raced = {}
      /\ \A m \in Msg : /\ attempts[m] = 0 /\ requestId[m] = 0 /\ priorRequestIds[m] = {}
                        /\ outcome[m] = <<>>
      /\ NoMsg \notin Msg
  BY MessagesAssumption DEF Init
<1>3. ASSUME NEW m \in Msg PROVE Account(m, queue)
  <2>1. Waiting(m) = {} /\ m \notin Elements(queue)
    BY <1>2 DEF Waiting, Elements
  <2>2. Known(m)
    BY <1>2, <2>1, BudgetType DEF Known
  <2> QED
    BY <1>2, <2>1, <2>2 DEF Account, Queued, Open, Closed
<1>4. Distinct(queue)
  BY <1>2 DEF Distinct
<1> QED
  BY <1>1, <1>3, <1>4 DEF AccountInv

\* Every step keeps the accounts.
LEMMA AccountNext == AccountInv /\ [Next]_vars => AccountInv'
<1> SUFFICES ASSUME AccountInv, [Next]_vars PROVE AccountInv'
  OBVIOUS
<1> DEFINE Kept == Distinct(queue') /\ \A x \in Msg : Account(x, queue)'
<1>0. /\ LoopInv /\ TypeInv /\ queue \in Seq(Msg) /\ Distinct(queue)
      /\ \A x \in Msg : Account(x, queue)
      /\ NoMsg \notin Msg
  BY MessagesAssumption DEF AccountInv, LoopInv, TypeInv, TypeOK, QueueTypes
<1>i. LoopInv'
  BY <1>0, LoopNext
<1>1. ASSUME setSendCallback PROVE Kept
  BY <1>1, AccountUntouched DEF setSendCallback, msgVars, loopVars, histVars
<1>2. ASSUME recordExternalSend PROVE Kept
  BY <1>2, AccountUntouched DEF recordExternalSend, msgVars, loopVars, histVars
<1>3. ASSUME NEW m \in Msg, enqueue(m) PROVE Kept
  <2> DEFINE q == Append(queue, m)
  <2>1. ~Enqueued(m) /\ sweeping' = sweeping
    BY <1>3 DEF enqueue
  <2>2. Distinct(q) /\ \A x \in Msg : Account(x, q)
    BY <2>1, EnqueueAccount
  <2>3. q \in Seq(Msg)
    BY <1>0
  <2>4. CASE queue' = q /\ UNCHANGED <<pendingAcks, msgVars, loopVars, histVars>>
    <3>1. \A x \in Msg : /\ Waiting(x)' = Waiting(x)
                         /\ InFlight(x)' <=> InFlight(x)
                         /\ Recording(x)' <=> Recording(x)
      BY <2>4 DEF Waiting, InFlight, Recording, loopVars
    <3>2. ASSUME NEW x \in Msg PROVE Account(x, queue)'
      <4>1. /\ attempts'[x] = attempts[x]
            /\ requestId'[x] = requestId[x]
            /\ priorRequestIds'[x] = priorRequestIds[x]
            /\ outcome'[x] = outcome[x]
            /\ x \in raced' <=> x \in raced
            /\ sweeping' = x <=> sweeping = x
            /\ x \in Elements(queue') <=> x \in Elements(q)
        BY <2>1, <2>4 DEF msgVars, histVars
      <4> QED
        BY <2>2, <3>1, <4>1, Bystander
    <3> QED
      BY <2>2, <2>4, <3>2
  <2>5. CASE mustStart /\ (\E c \in Loop : pc[c] = "idle") /\ processQueue(FreeLoop, q)
    <3>1. FreeLoop \in Loop
      BY <2>5 DEF FreeLoop
    <3>2. \A d \in Loop : pc[d] = "idle"
      BY <1>0, <2>5 DEF mustStart, LoopInv, OneLoop
    <3> HIDE DEF q
    <3> QED
      BY <1>0, <2>1, <2>2, <2>3, <2>5, <3>1, <3>2, ProcessQueueAccount
  <2> QED
    BY <1>3, <2>4, <2>5 DEF enqueue
<1>4. ASSUME NEW c \in Loop, TimerFires(c) PROVE Kept
  <2>1. /\ processing /\ pc[c] = "timer" /\ sweeping' = sweeping
        /\ \A d \in Loop : d # c => pc[d] = "idle"
    BY <1>0, <1>4 DEF TimerFires, LoopInv, OneLoop
  <2>2. processQueue(c, queue)
    BY <1>4, <2>1 DEF TimerFires
  <2> QED
    BY <1>0, <2>1, <2>2, ProcessQueueAccount
<1>5. ASSUME NEW c \in Loop, SendResolves(c) PROVE Kept
  BY <1>5, SendResolvesAccount
<1>6. ASSUME NEW c \in Loop, RetryRecorded(c) PROVE Kept
  BY <1>6, RetryRecordedAccount
<1>7. ASSUME NEW c \in Loop, SendFails(c) PROVE Kept
  BY <1>7, SendFailsAccount
<1>8. ASSUME NEW m \in Msg, Waiting(m) # {} PROVE m \notin Elements(queue)
  BY <1>0, <1>8 DEF Account, Queued
<1>9. ASSUME NEW m \in Msg, NEW n, <<m, n>> \in pendingAcks PROVE Waiting(m) # {}
  <2>1. IsPending(m)
    BY <1>9 DEF IsPending
  <2> QED
    BY <1>0, <2>1, PendingWaits
<1>10. ASSUME NEW m \in Msg, NEW n, handleAck(m, n) PROVE Kept
  <2>1. /\ <<m, n>> \in pendingAcks
        /\ pendingAcks' = deleteAllRequestIds(m)
        /\ Report(m, "success")
        /\ MarkRaced(m, InFlight(m) \/ sweeping = m)
        /\ queue' = queue /\ sweeping' = sweeping /\ UNCHANGED <<msgVars, loopVars>>
    BY <1>10 DEF handleAck
  <2>2. Waiting(m) # {} /\ m \notin Elements(queue)
    BY <1>8, <1>9, <2>1
  <2>3. "success" \in Results /\ (InFlight(m) \/ sweeping = m) \in BOOLEAN
    BY DEF Results, InFlight
  <2> QED
    BY <2>1, <2>2, <2>3, ResolveAccount
<1>11. ASSUME NEW m \in Msg, NEW n, handleFailure(m, n) PROVE Kept
  <2>1. /\ <<m, n>> \in pendingAcks
        /\ pendingAcks' = deleteAllRequestIds(m)
        /\ Report(m, "routingError")
        /\ MarkRaced(m, InFlight(m) \/ sweeping = m)
        /\ queue' = removeFromQueue(queue, m)
        /\ sweeping' = sweeping /\ UNCHANGED <<msgVars, loopVars>>
    BY <1>11 DEF handleFailure
  <2>2. Waiting(m) # {} /\ m \notin Elements(queue)
    BY <1>8, <1>9, <2>1
  <2>3. "routingError" \in Results /\ (InFlight(m) \/ sweeping = m) \in BOOLEAN
    BY DEF Results, InFlight
  <2> QED
    BY <2>1, <2>2, <2>3, ResolveAccount
<1>12. ASSUME NEW m \in Msg, SweepExpired(m) PROVE Kept
  <2>1. /\ IsPending(m) /\ sweeping = NoMsg /\ sweeping' = m
        /\ UNCHANGED <<queue, pendingAcks, attempts, requestId, priorRequestIds, pc, cur,
                       outcome, raced>>
    BY <1>12 DEF SweepExpired, msgVars, loopVars, histVars
  <2>2. \A x \in Msg : /\ Waiting(x)' = Waiting(x)
                       /\ InFlight(x)' <=> InFlight(x)
                       /\ Recording(x)' <=> Recording(x)
    BY <2>1 DEF Waiting, InFlight, Recording
  <2>3. Waiting(m) # {} /\ m \notin Elements(queue)
    BY <1>0, <1>8, <2>1, PendingWaits
  <2>4. ASSUME NEW x \in Msg, x # m PROVE Account(x, queue)'
    <3>1. /\ attempts'[x] = attempts[x]
          /\ requestId'[x] = requestId[x]
          /\ priorRequestIds'[x] = priorRequestIds[x]
          /\ outcome'[x] = outcome[x]
          /\ x \in raced' <=> x \in raced
          /\ sweeping' = x <=> sweeping = x
          /\ x \in Elements(queue') <=> x \in Elements(queue)
      BY <1>0, <2>1, <2>4
    <3> QED
      BY <1>0, <2>2, <3>1, Bystander
  <2>5. Known(m) /\ Queued(m, queue) /\ Open(m, queue) /\ Closed(m, queue)
    BY <1>0 DEF Account
  <2>6. Known(m)'
    <3>1. requestId[m] # 0 \/ priorRequestIds[m] # {}
      <4>1. PICK n \in Waiting(m) : n # 0
        BY <2>3 DEF Waiting
      <4> QED
        BY <2>5, <4>1 DEF Known
    <3> QED
      BY <2>1, <2>2, <2>5, <3>1 DEF Known
  <2>7. Queued(m, queue)'
    BY <2>1, <2>3 DEF Queued
  <2>8. Open(m, queue)'
    BY <2>1, <2>2, <2>5 DEF Open
  <2>9. Closed(m, queue)'
    BY <2>1, <2>3, <2>5 DEF Closed
  <2> QED
    BY <1>0, <2>1, <2>4, <2>6, <2>7, <2>8, <2>9 DEF Account
<1>13. ASSUME SweepGivesUp PROVE Kept
  <2>1. PICK m \in Msg : m = sweeping
    BY <1>0, <1>13 DEF SweepGivesUp, TypeInv, TypeOK, QueueTypes
  <2>2. /\ pendingAcks' = deleteAllRequestIds(m)
        /\ Report(m, "timeout")
        /\ MarkRaced(m, InFlight(m))
        /\ sweeping' = NoMsg /\ queue' = queue /\ UNCHANGED <<msgVars, loopVars>>
    BY <1>13, <2>1 DEF SweepGivesUp
  <2>3. m \notin Elements(queue)
    BY <1>0, <2>1 DEF Account, Queued
  <2>4. "timeout" \in Results /\ InFlight(m) \in BOOLEAN /\ sweeping' # m
    BY <1>0, <2>2 DEF Results, InFlight
  <2> QED
    BY <2>1, <2>2, <2>3, <2>4, ResolveAccount
<1>14. ASSUME Tick PROVE Kept
  BY <1>14, AccountUntouched DEF Tick, histVars
<1>15. ASSUME UNCHANGED vars PROVE Kept
  BY <1>15, AccountUntouched DEF vars, msgVars, loopVars, histVars
<1>16. Kept
  BY <1>1, <1>2, <1>3, <1>4, <1>5, <1>6, <1>7, <1>10, <1>11, <1>12, <1>13, <1>14, <1>15
     DEF Next
<1> QED
  BY <1>i, <1>16 DEF AccountInv

\* The accounts say what MessageAccounted does.
LEMMA AccountSays == AccountInv => MessageAccounted /\ OneOutcomeUnlessRaced
<1> SUFFICES ASSUME AccountInv PROVE MessageAccounted /\ OneOutcomeUnlessRaced
  OBVIOUS
<1>0. /\ TypeInv /\ queue \in Seq(Msg) /\ outcome \in [Msg -> Seq(Results)]
      /\ \A x \in Msg : Known(x) /\ Queued(x, queue) /\ Open(x, queue) /\ Closed(x, queue)
      /\ requestId \in [Msg -> Nat] /\ priorRequestIds \in [Msg -> SUBSET (Nat \ {0})]
  BY DEF AccountInv, Account, LoopInv, TypeInv, TypeOK, QueueTypes, HistTypes, MsgTypes
<1>1. \A i \in DOMAIN queue : queue[i] \in Msg /\ queue[i] \in Elements(queue)
  BY <1>0 DEF Elements
<1>2. QueuedOrPending
  <2>1. \A i \in DOMAIN queue : ~IsPending(queue[i])
    BY <1>0, <1>1, PendingWaits DEF Queued
  <2> QED
    BY <2>1 DEF AccountInv, Distinct, QueuedOrPending
<1>3. AttemptBudget
  BY <1>0, <1>1 DEF Known, Queued, AttemptBudget
<1>4. NothingLost
  <2> SUFFICES ASSUME NEW m \in Msg, Enqueued(m), outcome[m] = <<>>
               PROVE  m \in Elements(queue) \/ IsPending(m)
    BY DEF NothingLost
  <2>1. attempts[m] > 0 \/ m \in Elements(queue)
    BY DEF Enqueued
  <2>2. attempts[m] > 0 => m \in Elements(queue) \/ Waiting(m) # {}
    BY <1>0 DEF Open
  <2> QED
    BY <1>0, <2>1, <2>2, PendingWaits
<1>5. LateAckCounts
  <2> SUFFICES ASSUME NEW m \in Msg, outcome[m] = <<>>, NEW id \in IdsOf(m)
               PROVE  id \in pendingAcks \/ \E c \in Loop : /\ pc[c] = "recording"
                                                            /\ id = <<cur[c], requestId[cur[c]]>>
    BY DEF LateAckCounts
  <2>1. PICK n \in {requestId[m]} \cup priorRequestIds[m] : id = <<m, n>> /\ n # 0
    BY <1>0 DEF IdsOf
  <2>2. n \in Waiting(m) \/ (Recording(m) /\ n = requestId[m])
    BY <1>0, <2>1 DEF Open
  <2>3. CASE n \in Waiting(m)
    BY <2>1, <2>3 DEF Waiting
  <2>4. CASE Recording(m) /\ n = requestId[m]
    BY <2>1, <2>4 DEF Recording
  <2> QED
    BY <2>2, <2>3, <2>4
<1>6. OneOutcomeUnlessRaced
  <2> SUFFICES ASSUME NEW m \in Msg, m \notin raced PROVE Len(outcome[m]) <= 1
    BY DEF OneOutcomeUnlessRaced
  <2>1. CASE outcome[m] = <<>>
    BY <2>1
  <2>2. CASE outcome[m] # <<>>
    <3>1. Closed(m, queue)
      BY <1>0
    <3>2. Len(outcome[m]) = 1
      BY <2>2, <3>1 DEF Closed
    <3> QED
      BY <3>2
  <2> QED
    BY <2>1, <2>2
<1> QED
  BY <1>2, <1>3, <1>4, <1>5, <1>6 DEF MessageAccounted

\* Until it has an outcome a message is in exactly one of the queue and
\* pendingAcks, within its budget, and every attempt that got an id counts.
THEOREM EveryMessageAccounted == Spec => []MessageAccounted
<1>1. Spec => []AccountInv
  BY AccountInit, AccountNext, PTL DEF Spec
<1> QED
  BY <1>1, AccountSays, PTL

\* A message is reported once, unless its first outcome came while a send or
\* a sweep of it was suspended at an await.
THEOREM OutcomeIsFinal == Spec => []OneOutcomeUnlessRaced
<1>1. Spec => []AccountInv
  BY AccountInit, AccountNext, PTL DEF Spec
<1> QED
  BY <1>1, AccountSays, PTL

=============================================================================
