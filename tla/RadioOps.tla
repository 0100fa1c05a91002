------------------------------- MODULE RadioOps -------------------------------
(***************************************************************************)
(* The command locks of one MeshCore companion connection:                 *)
(* runExclusiveRadioOp, getStatusSerialized and the commands they guard in *)
(* src/src/server/meshcoreNativeBackend.ts.                                *)
(*                                                                         *)
(* The companion answers each command with Ok, Sent or Err, none of which  *)
(* says whose it is; the answer of the remote node follows later, over the *)
(* radio, or never.  Every listener on an event hears every such event, so *)
(* a command may take another one's answer for its own.                    *)
(***************************************************************************)
EXTENDS Naturals, FiniteSets, Sequences, SequencesExt

CONSTANTS
    Op,       \* commands
    Contact,  \* nodes whose status is asked
    None      \* no command

ASSUME NoneAssumption == None \notin Op

VARIABLES
    kind,    \* what each command is
    op,      \* the commands: see Idle
    lane,    \* radioOpChain and statusOpChain: the head of each is running
    link,    \* commands written to the companion and not yet answered
    air      \* commands whose remote answer may still come

Kind == {"path", "time", "ask", "telemetry", "trace", "status", "message"}

of(kinds) == {o \in Op : kind[o] \in kinds}

PathOp == of({"path"})            \* discover_path: resolves on Sent
TimeOp == of({"time"})            \* set_device_time, discover_nodes: on Ok
AskOp == of({"ask"})              \* request_regions, request_owner: Sent, then a BinaryResponse
TelemetryOp == of({"telemetry"})  \* request_telemetry: the same, by tag, in the library
TraceOp == of({"trace"})          \* trace_path: TraceData with its own tag
StatusOp == of({"status"})        \* get_status: Sent, then a StatusResponse, in the library
MessageOp == of({"message"})      \* send_message: no lock; whose answer it takes is not followed
RadioOp == Op \ (StatusOp \cup MessageOp)

vars == <<kind, op, lane, link, air>>

Event == {"Ok", "Sent", "Err", "Binary", "Trace", "Status"}

\* hears: events it listens for; sent: the command whose Sent it took for its
\* own; own: observes that its own answer settled it.
Idle == [st |-> "unasked", hears |-> {}, sent |-> None, outcome |-> "none",
         own |-> TRUE, about |-> None]

Init ==
    /\ kind \in [Op -> Kind]
    /\ op = [o \in Op |-> Idle]
    /\ lane = [l \in {"radio", "status"} |-> <<>>]
    /\ link = <<>> /\ air = {}

-------------------------------------------------------------------------------
\* What a command listens for when it is written, and how it takes an event.

listeners(o) ==
    CASE o \in PathOp -> {"Sent", "Err"}
      [] o \in TimeOp -> {"Ok", "Err"}
      [] o \in AskOp \cup TelemetryOp -> {"Sent", "Err", "Binary"}
      [] o \in TraceOp -> {"Trace", "Err"}
      [] o \in StatusOp -> {"Sent", "Err", "Status"}
      [] o \in MessageOp -> {}

\* The companion has accepted o, as far as o can tell; trace_path does not listen
\* for its Sent, and cannot.
acknowledged(o) == op[o].sent # None \/ o \in TraceOp \cap air

\* o settles; nobody hears what comes after its listeners are gone.
settle(o, how, mine) ==
    IF op[o].st = "done" THEN [op[o] EXCEPT !.hears = {}]
    ELSE [op[o] EXCEPT !.st = "done", !.hears = {}, !.sent = None, !.own = mine,
                       !.outcome = IF how = "rejected" /\ acknowledged(o)
                                   THEN "overruled" ELSE how]

\* Does the event ev, in answer to command p, resolve o?
resolves(o, ev, p) ==
    \/ o \in PathOp /\ ev = "Sent"
    \/ o \in TimeOp /\ ev = "Ok"
    \/ o \in AskOp /\ ev = "Binary" /\ op[o].sent # None
    \/ o \in TelemetryOp /\ ev = "Binary" /\ op[o].sent = p
    \/ o \in TraceOp /\ ev = "Trace" /\ o = p
    \/ o \in StatusOp /\ ev = "Status" /\ op[p].about = op[o].about

\* Mutant: an Err fails a request whose Sent has arrived.
errAlways(o, ev, p) ==
    IF ev \notin op[o].hears THEN op[o]
    ELSE IF resolves(o, ev, p) THEN settle(o, "ok", o = p)
    ELSE IF ev = "Err" THEN settle(o, "rejected", o = p)
    ELSE IF ev = "Sent" THEN [op[o] EXCEPT !.sent = p, !.hears = @ \ {"Sent"}]
    ELSE op[o]

\* o after the event.  The Sent of a request ends its interest in Err, but
\* trace_path hears every Err until its TraceData or its timer; the status
\* listener of the library is gone after any StatusResponse.
react(o, ev, p) ==
    IF ev \notin op[o].hears THEN op[o]
    ELSE IF resolves(o, ev, p) THEN settle(o, "ok", o = p)
    ELSE IF ev = "Err" THEN settle(o, "rejected", o = p)
    ELSE IF ev = "Sent" THEN [op[o] EXCEPT !.sent = p, !.hears = @ \ {"Sent", "Err"}]
    ELSE IF ev = "Status" THEN [op[o] EXCEPT !.hears = @ \ {"Status"}]
    ELSE op[o]

heard(ev, p) == [o \in Op |-> react(o, ev, p)]

leads(p, o) == op[p].st \in {"queued", "running"} /\ op[p].about = op[o].about

\* Callers that share an in-flight status request get its outcome.
shared(ops) ==
    [o \in Op |->
        IF ops[o].st = "joined" /\ \E p \in StatusOp : leads(p, o) /\ ops[p].st = "done"
        THEN LET p == CHOOSE p \in StatusOp : leads(p, o)
             IN  [ops[o] EXCEPT !.st = "done", !.outcome = ops[p].outcome]
        ELSE ops[o]]

\* Mutant: commands do not wait for each other.
unlocked(ops, lanes) == {o \in Op : ops[o].st = "queued"}

\* The commands that begin now: at the head of their lane.
beginning(ops, lanes) ==
    {o \in Op : ops[o].st = "queued"
                    /\ \E l \in DOMAIN lanes : lanes[l] # <<>> /\ Head(lanes[l]) = o}

\* What is left of a lane when its head has settled.
advanced(ops, commands) ==
    IF commands # <<>> /\ ops[Head(commands)].st = "done" THEN Tail(commands) ELSE commands

\* A lane advances when its head settles, and the next command is written.
Proceed(given, lanes, written) ==
    \E ops \in {shared(given)} :
    \E left \in {[l \in DOMAIN lanes |-> advanced(ops, lanes[l])]} :
    \E begin \in {beginning(ops, left)} :
        /\ lane' = left
        /\ op' = [o \in Op |-> IF o \in begin
                               THEN [ops[o] EXCEPT !.st = "running", !.hears = listeners(o)]
                               ELSE ops[o]]
        /\ link' = written \o SetToSeq(begin)
        /\ UNCHANGED kind

-------------------------------------------------------------------------------
\* Commands.

runExclusiveRadioOp(o) ==
    /\ o \in RadioOp /\ op[o].st = "unasked"
    /\ Proceed([op EXCEPT ![o].st = "queued"], [lane EXCEPT !["radio"] = Append(@, o)], link)
    /\ UNCHANGED air

\* Mutant: a second request for a contact is not recognised.
inFlightNever(c) == FALSE

inFlightStatus(c) ==
    \E p \in StatusOp : op[p].st \in {"queued", "running"} /\ op[p].about = c

\* Joined by a request in flight for the same contact, or behind the others.
getStatusSerialized(o, c) ==
    /\ o \in StatusOp /\ op[o].st = "unasked"
    /\ IF inFlightStatus(c)
       THEN /\ op' = [op EXCEPT ![o].st = "joined", ![o].about = c]
            /\ UNCHANGED <<kind, lane, link>>
       ELSE Proceed([op EXCEPT ![o].st = "queued", ![o].about = c],
                    [lane EXCEPT !["status"] = Append(@, o)], link)
    /\ UNCHANGED air

sendMessage(o) ==
    /\ o \in MessageOp /\ op[o].st = "unasked"
    /\ op' = [op EXCEPT ![o].st = "done"]
    /\ link' = Append(link, o)
    /\ UNCHANGED <<kind, lane, air>>

\* request_regions and trace_path have a timer of their own.
OwnTimer(o) ==
    /\ o \in AskOp \cup TraceOp /\ op[o].st = "running"
    /\ Proceed([op EXCEPT ![o] = settle(o, "timeout", FALSE)], lane, link)
    /\ UNCHANGED air

\* The library's timer starts with the Sent.
LibraryTimer(o) ==
    /\ o \in TelemetryOp \cup StatusOp /\ op[o].sent # None
    /\ Proceed([op EXCEPT ![o] = settle(o, "timeout", FALSE)], lane, link)
    /\ UNCHANGED air

\* Mutant: only a command that the companion has acknowledged is bounded.
BackstopOnceSent(o) ==
    /\ o \in TelemetryOp /\ op[o].st = "running" /\ op[o].sent # None
    /\ Proceed([op EXCEPT ![o].st = "done", ![o].outcome = "timeout",
                           ![o].own = FALSE, ![o].sent = None], lane, link)
    /\ UNCHANGED air

\* RADIO_OP_BACKSTOP_MS: the chain moves on, the listeners stay.
Backstop(o) ==
    /\ o \in RadioOp \ (AskOp \cup TraceOp) /\ op[o].st = "running"
    /\ Proceed([op EXCEPT ![o].st = "done", ![o].outcome = "timeout",
                           ![o].own = FALSE, ![o].sent = None], lane, link)
    /\ UNCHANGED air

-------------------------------------------------------------------------------
\* The companion and the mesh.

\* send_message is acknowledged with Sent, or with Ok when it is to a channel.
ack(o) ==
    CASE o \in TimeOp -> {"Ok"}
      [] o \in MessageOp -> {"Ok", "Sent"}
      [] OTHER -> {"Sent"}

answer(o) ==
    CASE o \in AskOp \cup TelemetryOp -> "Binary"
      [] o \in TraceOp -> "Trace"
      [] OTHER -> "Status"

Accepted ==
    /\ link # <<>>
    /\ LET o == Head(link)
       IN  /\ \E ev \in ack(o) : Proceed(heard(ev, o), lane, Tail(link))
           /\ air' = IF o \in AskOp \cup TelemetryOp \cup TraceOp \cup StatusOp
                     THEN air \cup {o} ELSE air

Refused ==
    /\ link # <<>>
    /\ Proceed(heard("Err", Head(link)), lane, Tail(link))
    /\ UNCHANGED air

\* The companion never answers.
Ignored ==
    /\ link # <<>>
    /\ link' = Tail(link)
    /\ UNCHANGED <<kind, op, lane, air>>

\* Or the answer never comes.
Answered(o) ==
    /\ o \in air
    /\ air' = air \ {o}
    /\ Proceed(heard(answer(o), o), lane, link)

Next ==
    \/ \E o \in Op :
        \/ runExclusiveRadioOp(o) \/ sendMessage(o)
        \/ \E c \in Contact : getStatusSerialized(o, c)
        \/ OwnTimer(o) \/ LibraryTimer(o) \/ Backstop(o)
        \/ Answered(o)
    \/ Accepted \/ Refused \/ Ignored

SafetySpec == Init /\ [][Next]_vars

\* The timers of the running commands fire.
Spec == SafetySpec /\ WF_vars(\E o \in Op : OwnTimer(o) \/ Backstop(o))

-------------------------------------------------------------------------------
\* Properties.

\* Every variable has its type; the head of each lane runs and the rest wait.
TypeOK ==
    /\ kind \in [Op -> Kind]
    /\ \A o \in Op :
        /\ op[o].st \in {"unasked", "queued", "joined", "running", "done"}
        /\ op[o].hears \subseteq listeners(o)
        /\ op[o].outcome \in {"none", "ok", "rejected", "overruled", "timeout"}
        /\ op[o].sent \in Op \cup {None} /\ op[o].own \in BOOLEAN
        /\ op[o].about \in Contact \cup {None}
    /\ \A l \in DOMAIN lane : \A i \in DOMAIN lane[l] :
        op[lane[l][i]].st = IF i = 1 THEN "running" ELSE "queued"
    /\ IsInjective(link) /\ ToSet(link) \subseteq Op /\ air \subseteq Op

\* A command is settled by another one's answer only where the lock cannot help:
\* there are commands outside it, or one was given up while the companion still
\* had to answer it.  Even then no refusal reaches a request that has taken an
\* acknowledgement for its own, save trace_path, which hears every Err it waits.
StraysOnly ==
    /\ \A o \in Op \ TraceOp : op[o].outcome # "overruled"
    /\ (\E o \in RadioOp : op[o].outcome \in {"ok", "rejected"} /\ ~op[o].own) =>
        \/ \E p \in MessageOp \cup StatusOp : op[p].st # "unasked"
        \/ \E p \in RadioOp : op[p].outcome = "timeout"

\* No two status requests ask the same contact, and one misses its answer only
\* when that of a request given up came late.
StatusHeard ==
    \A o \in StatusOp :
        /\ \A p \in StatusOp \ {o} :
            {op[o].st, op[p].st} \subseteq {"queued", "running"} => op[p].about # op[o].about
        /\ op[o].st = "running" /\ "Status" \notin op[o].hears =>
            \E p \in StatusOp \ {o} : op[p].st = "done" /\ ~op[p].own

\* request_regions and request_owner return the answer to their own request.
ReplyIsOwn == \A o \in AskOp : op[o].outcome = "ok" => op[o].own

\* A trace that the companion has accepted is not refused: it does not hold, an Err
\* meant for a command outside the lock, or for one given up, rejects it.
TraceNotOverruled == \A o \in TraceOp : op[o].outcome # "overruled"

\* Every command that waits for the lock gets it and settles, whatever the
\* companion does not answer.
Settles ==
    \A o \in Op : op[o].st = "queued" /\ o \in RadioOp ~> op[o].st = "done"
===============================================================================
