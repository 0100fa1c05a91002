---------------------------- MODULE ChannelReorder ----------------------------
(***************************************************************************)
(* The on-device channel reorder of a MeshCore companion: the planner of   *)
(* src/src/server/meshcoreChannelReorder.ts, the job that runs its writes  *)
(* over the serial link, rolls them back and remaps the database           *)
(* (src/src/server/meshcoreManager.ts), and the channel messages that are  *)
(* received and sent meanwhile.                                            *)
(*                                                                         *)
(* A channel is its name and secret.  Slot 0 (Public) never takes part.    *)
(* The link delivers commands in order, so a read is answered after every  *)
(* write before it; a write whose caller gave up may still land.           *)
(***************************************************************************)
EXTENDS Integers, FiniteSets, FiniteSetsExt, Sequences, SequencesExt, Functions

CONSTANTS
    LastSlot,        \* slots 1..LastSlot of the device, MAX_GROUP_CHANNELS - 1
    Channel,      \* channels the device may hold
    Deleted,      \* a channel of the past whose messages are still stored
    Empty,        \* null: an unused slot
    Unknown,      \* UNKNOWN_SLOT
    Sender,       \* channel sends
    MaxReorders   \* bound: calls of reorderChannels

ASSUME SlotAssumption == LastSlot \in Nat \ {0}
ASSUME BoundAssumption == MaxReorders \in Nat
ASSUME ValueAssumption ==
    {Deleted, Empty, Unknown} \cap Channel = {} /\ Empty # Unknown /\ Deleted # Empty

Slot == 1 .. LastSlot
Value == Channel \cup {Empty}

VARIABLES
    device,    \* what the companion holds
    wire,      \* writes on the link, in order, not yet carried out
    job,       \* channelReorder and the local variables of runChannelReorder
    result,    \* status of the last reorder
    history,   \* stored messages: which channel's, under which slot
    mirror,    \* the channels table, which callers pick a slot from
    send,      \* channel sends
    runs,      \* reorders so far
    misSent,   \* observes sends on another channel: whether each was raced
    clean      \* observes that no hazard known to misfile messages has occurred

vars == <<device, wire, job, result, history, mirror, send, runs, misSent, clean>>

Idle == [pc |-> "idle"]
Phases == {"reading", "writing", "confirming", "remapping", "committed",
           "undoing", "checking"}
Results == {"none", "unchanged", "unsafe", "applied", "rolled_back", "inconsistent"}
NoSend == [at |-> "none"]
running == job.pc # "idle"

-------------------------------------------------------------------------------
\* The planner.  `now` is what the slots hold as far as the plan has come, goal
\* what the slots it touches shall hold.

pending(p) == {s \in DOMAIN p.goal : p.now[s] # p.goal[s]}
copies(p, v) == Cardinality({s \in Slot : p.now[s] = v})
wanted(p, v) == \E s \in DOMAIN p.goal : p.goal[s] = v

\* Mutant: a value with a copy elsewhere is not looked for.
overwriteUnwanted(p, s) == TRUE

safeToOverwrite(p, s) ==
    \/ p.now[s] \in {Unknown, Empty}
    \/ copies(p, p.now[s]) > 1
    \/ ~wanted(p, p.now[s])

\* The next write of a plan: a channel first, then a clear, then a copy into the
\* highest free slot of a value that blocks the rest.
NextWrite(p) ==
    LET safe == {s \in pending(p) : safeToOverwrite(p, s)}
        place == {s \in safe : p.goal[s] # Empty}
        stuck == {s \in pending(p) : p.goal[s] # Empty}
        blocked == IF stuck # {} THEN Min(stuck) ELSE Min(pending(p))
        free == {s \in Slot \ DOMAIN p.goal : p.now[s] = Empty}
    IN  CASE pending(p) = {} -> [kind |-> "done"]
          [] place # {} -> [kind |-> "place", slot |-> Min(place), value |-> p.goal[Min(place)]]
          [] place = {} /\ safe # {} -> [kind |-> "clear", slot |-> Min(safe), value |-> Empty]
          [] safe = {} /\ pending(p) # {} /\ free # {} ->
                [kind |-> "scratch", slot |-> Max(free), value |-> p.now[blocked]]
          [] OTHER -> [kind |-> "NO_FREE_SLOT"]

\* A scratch slot is to be emptied again.
borrow(goal, slot) ==
    [s \in DOMAIN goal \cup {slot} |-> IF s = slot THEN Empty ELSE goal[s]]

\* The plan after the write w.
Advance(p, w) ==
    [p EXCEPT !.now[w.slot] = w.value,
              !.goal = IF w.kind = "scratch" THEN borrow(@, w.slot) ELSE @]

\* verifyPlan: a write left every channel of the start that the target wants.
keeps(start, target, now) ==
    \A s \in Slot : start[s] \in Channel /\ start[s] \in Range(target)
                        => start[s] \in Range(now)

\* planReorderWrites begins with the slots as they are.
begun(now, goal) ==
    [now |-> now, goal |-> goal, writes |-> <<>>, safe |-> TRUE,
     end |-> "PLAN_DID_NOT_CONVERGE"]

\* One turn of its loop; verifyPlan judges the write by the start and the target.
turn(now, goal, c) ==
    LET w == NextWrite(c)
    IN  IF c.end # "PLAN_DID_NOT_CONVERGE" THEN c
        ELSE IF w.kind \in {"done", "NO_FREE_SLOT"} THEN [c EXCEPT !.end = w.kind]
        ELSE [Advance(c, w) EXCEPT
                !.writes = Append(@, [slot |-> w.slot, value |-> w.value]),
                !.safe = @ /\ keeps(now, goal, Advance(c, w).now)]

\* planReorderWrites: the writes that lead from `now` to `goal`, how the planning
\* ends, and whether verifyPlan accepts it.  (Each element of course is the one
\* state of the planner after i turns.)
Plan(now, goal) ==
    LET limit == (Cardinality(DOMAIN goal) + 1) * 4 + 8
        course[i \in 0 .. limit] ==
            IF i = 0 THEN {begun(now, goal)}
            ELSE {turn(now, goal, c) : c \in course[i - 1]}
    IN  CHOOSE c \in course[limit] : TRUE

\* buildReorderTarget: the layout an order asks for, packed into the first slots.
Layout(table, order) ==
    [s \in Slot |-> IF s <= Len(order) THEN table[order[s]] ELSE Empty]

Goal(table, layout) == [s \in {x \in Slot : table[x] # layout[x]} |-> layout[s]]

\* Mutant: the two ends of every move are swapped.
movesBack(order) ==
    LET vacated == ToSet(order) \ DOMAIN order
        filled == DOMAIN order \ ToSet(order)
        rank(S, s) == Cardinality({x \in S : x < s})
    IN  [s \in Slot |->
            IF s \in DOMAIN order THEN order[s]
            ELSE IF s \in vacated
            THEN CHOOSE f \in filled : rank(filled, f) = rank(vacated, s)
            ELSE s]

\* completeChannelMoves: where the rows of a slot go; those of a slot that gets
\* a channel and had none go to one that loses its channel.
Moves(order) ==
    LET vacated == ToSet(order) \ DOMAIN order
        filled == DOMAIN order \ ToSet(order)
        rank(S, s) == Cardinality({x \in S : x < s})
    IN  [s \in Slot |->
            IF s \in ToSet(order) THEN CHOOSE k \in DOMAIN order : order[k] = s
            ELSE IF s \in filled
            THEN CHOOSE v \in vacated : rank(vacated, v) = rank(filled, s)
            ELSE s]

-------------------------------------------------------------------------------
\* The job.

Init ==
    /\ device \in [Slot -> Value]
    /\ wire = <<>> /\ job = Idle /\ result = "none" /\ runs = 0
    /\ history = {<<device[s], s>> : s \in {x \in Slot : device[x] # Empty
                                        /\ \A y \in 1 .. x - 1 : device[y] # device[x]}}
                 \cup {<<Deleted, s>> : s \in {x \in Slot : device[x] = Empty}}
    /\ mirror = device
    /\ send = [k \in Sender |-> NoSend]
    /\ misSent = {} /\ clean = TRUE

\* Sends that are past channelIdxAfterReorder, or that the reorder cannot lead.
overtaken(x) == IF x.at = "queued" THEN [x EXCEPT !.raced = TRUE] ELSE x

reorderChannels ==
    /\ ~running /\ runs < MaxReorders
    /\ job' = [pc |-> "reading"] /\ runs' = runs + 1
    /\ send' = [k \in Sender |-> overtaken(send[k])]
    /\ UNCHANGED <<device, wire, result, history, misSent, clean, mirror>>

\* Mutant: a send keeps the slot it was given.
settledInPlace(x, r, moves) ==
    IF x.at = "waiting" THEN [x EXCEPT !.at = "queued", !.raced = @ \/ r = "inconsistent"] ELSE x

\* How the job leaves its waiting sends, and the resends that are armed.
settled(x, r, moves) ==
    IF x.at \in {"waiting", "armed"}
    THEN [x EXCEPT !.at = IF @ = "waiting" THEN "queued" ELSE @,
                   !.slot = moves[@], !.raced = @ \/ r = "inconsistent"]
    ELSE x

stay == [s \in Slot |-> s]

finish(r, moves) ==
    /\ job' = Idle /\ result' = r
    /\ send' = [k \in Sender |-> settled(send[k], r, moves)]

\* executeChannelWrites issues the next write and assumes that it lands.
issue(j) ==
    /\ job' = [j EXCEPT !.believed[Head(j.todo).slot] = Head(j.todo).value]
    /\ wire' = Append(wire, Head(j.todo))

\* Write the layout `original` back, as far as b differs from it on `slots`.
undo(b, slots) ==
    \E p \in {Plan(b, [s \in slots |-> job.original[s]])} :
        LET j == [job EXCEPT !.pc = "undoing", !.believed = b, !.todo = p.writes, !.tries = 0]
        IN  IF p.writes = <<>> \/ p.end # "done"
            THEN /\ job' = [j EXCEPT !.pc = "checking", !.failed = p.end # "done"]
                 /\ UNCHANGED wire
            ELSE issue(j)

\* Mutant: the rollback does not write to a slot it could not confirm.
trustUnknown(b) == undo(b, {s \in Slot : b[s] \notin {Unknown, job.original[s]}})

rollbackChannelReorder(b) == undo(b, {s \in Slot : b[s] # job.original[s]})

\* Both reads of the table agree, the order names what they show.
ReadTables ==
    /\ job.pc = "reading" /\ wire = <<>>
    /\ \E order \in SetToSeqs({s \in Slot : device[s] # Empty}) :
        \E p \in {Plan(device, Goal(device, Layout(device, order)))} :
            /\ order # <<>>
            /\ IF p.writes = <<>> \/ p.end = "NO_FREE_SLOT"
               THEN finish("unchanged", stay) /\ UNCHANGED wire
               ELSE IF p.end # "done" \/ ~p.safe
               THEN finish("unsafe", stay) /\ UNCHANGED wire
               ELSE /\ issue([pc |-> "writing", order |-> order, original |-> device,
                              believed |-> device, todo |-> p.writes, tries |-> 0,
                              failed |-> FALSE])
                    /\ UNCHANGED <<result, send>>
    /\ UNCHANGED <<device, history, runs, misSent, clean, mirror>>

\* A read fails, the two disagree, or the order does not fit what they show.
ReadTablesFails ==
    /\ job.pc = "reading"
    /\ finish("unchanged", stay)
    /\ UNCHANGED <<device, wire, history, mirror, runs, misSent, clean>>

writing == job.pc \in {"writing", "undoing"}
current == Head(job.todo)
jobOnly == <<device, result, history, send, runs, misSent, clean, mirror>>

\* set_channel_verified reads the slot back as written.
WriteVerified ==
    /\ writing /\ wire = <<>> /\ device[current.slot] = current.value
    /\ LET j == [job EXCEPT !.todo = Tail(@), !.tries = 0]
       IN  IF j.todo = <<>>
           THEN /\ job' = [j EXCEPT !.pc = IF @ = "writing" THEN "confirming" ELSE "checking"]
                /\ UNCHANGED wire
           ELSE issue(j)
    /\ UNCHANGED jobOnly

\* Mutant: the attempts of a write are not counted.
retryForever(v) == issue(job)

\* Mutant: one attempt too many.
oneMoreAttempt(v) ==
    IF job.tries <= 1 THEN issue([job EXCEPT !.tries = @ + 1])
    ELSE job' = [job EXCEPT !.pc = "checking", !.failed = TRUE] /\ UNCHANGED wire

\* The write failed and its slot holds v as far as we know: once more, or stop.
attemptFails(v) ==
    LET b == [job.believed EXCEPT ![current.slot] = v]
    IN  IF job.tries = 0 THEN issue([job EXCEPT !.tries = 1])
        ELSE IF job.pc = "writing" THEN rollbackChannelReorder(b)
        ELSE /\ job' = [job EXCEPT !.pc = "checking", !.believed = b, !.failed = TRUE]
             /\ UNCHANGED wire

WriteRefuted ==
    /\ writing /\ wire = <<>> /\ device[current.slot] # current.value
    /\ attemptFails(device[current.slot])
    /\ UNCHANGED jobOnly

\* A timeout, a lost connection, or a read-back of some other slot.
WriteUnanswered ==
    /\ writing
    /\ attemptFails(Unknown)
    /\ UNCHANGED jobOnly

Confirm ==
    /\ job.pc = "confirming" /\ wire = <<>>
    /\ IF device = Layout(job.original, job.order)
       THEN job' = [job EXCEPT !.pc = "remapping"] /\ UNCHANGED wire
       ELSE rollbackChannelReorder(device)
    /\ UNCHANGED jobOnly

ConfirmFails ==
    /\ job.pc = "confirming"
    /\ rollbackChannelReorder(job.believed)
    /\ UNCHANGED jobOnly

\* The rows of a table, each at the slot its own slot is mapped to.
moved(table, moves) == [t \in Slot |-> table[CHOOSE s \in Slot : moves[s] = t]]

\* remapChannelSlots, one transaction: the mirror moves with the messages, while
\* the job still runs.
RemapCommits ==
    /\ job.pc = "remapping"
    /\ job' = [job EXCEPT !.pc = "committed"]
    /\ history' = {<<m[1], Moves(job.order)[m[2]]>> : m \in history}
    /\ mirror' = moved(mirror, Moves(job.order))
    /\ UNCHANGED <<device, wire, result, send, runs, misSent, clean>>

RemapFails ==
    /\ job.pc = "remapping"
    /\ rollbackChannelReorder(job.believed)
    /\ UNCHANGED jobOnly

\* refreshCachedSettingsAsync rejects after the transaction: for the caller the
\* remap has failed.
RefreshFails ==
    /\ job.pc = "committed"
    /\ rollbackChannelReorder(job.believed)
    /\ clean' = FALSE
    /\ UNCHANGED <<device, result, history, send, runs, misSent, mirror>>

ReorderApplied ==
    /\ job.pc = "committed"
    /\ finish("applied", Moves(job.order))
    /\ UNCHANGED <<device, wire, history, mirror, runs, misSent, clean>>

\* The last read of a rollback is the only ground truth.
CheckRollback ==
    /\ job.pc = "checking" /\ wire = <<>>
    /\ IF ~job.failed /\ device = job.original
       THEN finish("rolled_back", stay) /\ UNCHANGED clean
       ELSE finish("inconsistent", stay) /\ clean' = FALSE
    /\ UNCHANGED <<device, wire, history, mirror, runs, misSent>>

CheckFails ==
    /\ job.pc = "checking"
    /\ finish("inconsistent", stay) /\ clean' = FALSE
    /\ UNCHANGED <<device, wire, history, mirror, runs, misSent>>

\* The server stops, starts again and connects: nothing of the job is persisted.
Restart ==
    /\ running
    /\ job' = Idle /\ result' = "none"
    /\ send' = [k \in Sender |-> NoSend]
    /\ clean' = (clean /\ job.pc \in {"reading", "committed"})
    /\ UNCHANGED <<device, wire, history, mirror, runs, misSent>>

\* syncChannelsFromDevice, on connecting and after a reorder or a write to a slot;
\* it does nothing while a reorder runs, and may fail.
syncChannelsFromDevice ==
    /\ ~running /\ wire = <<>> /\ mirror # device
    /\ mirror' = device
    /\ UNCHANGED <<device, wire, job, result, history, send, runs, misSent, clean>>

-------------------------------------------------------------------------------
\* The companion carries out the writes it gets, or refuses or never gets one.

WriteLands ==
    /\ wire # <<>>
    /\ device' = [device EXCEPT ![Head(wire).slot] = Head(wire).value]
    /\ wire' = Tail(wire)
    /\ UNCHANGED <<job, result, history, send, runs, misSent, clean, mirror>>

WriteLost ==
    /\ wire # <<>>
    /\ wire' = Tail(wire)
    /\ UNCHANGED <<device, job, result, history, send, runs, misSent, clean, mirror>>

-------------------------------------------------------------------------------
\* Channel messages received and sent.

first(table, v) == Min({s \in Slot : table[s] = v})

planned == running /\ job.pc # "reading"

\* Mutant: messages are filed where the firmware has the channel now.
reportedIdx(s) == s

\* The slot under which a message reported for slot s is stored.
reorderSafeChannelIdx(s) ==
    IF planned /\ job.believed[s] \in Range(job.original) \cap Channel
    THEN first(job.original, job.believed[s]) ELSE s

\* A message of channel c: the firmware names the lowest slot that holds c.  It
\* is misfiled if we are wrong about that slot, or once the rows have moved.
Receive(c) ==
    /\ c \in Range(device)
    /\ LET s == first(device, c)
       IN  /\ history' = history \cup {<<c, reorderSafeChannelIdx(s)>>}
           /\ clean' = (clean /\ (planned => job.pc # "committed" /\ job.believed[s] = c))
    /\ UNCHANGED <<device, wire, job, result, send, runs, misSent, mirror>>

\* The layout that the moves of a reorder start from.
before == IF planned THEN job.original ELSE device

\* sendMessageWithResult up to the send lock.  The caller picks a slot from the
\* mirror; a write of an earlier job may still change what is there, and a
\* mirror that has moved already, or is not synced, misleads the send.
Ask(k) ==
    /\ send[k] = NoSend
    /\ \E s \in {x \in Slot : mirror[x] # Empty} :
        send' = [send EXCEPT ![k] =
                    [at |-> IF running THEN "waiting" ELSE "queued", slot |-> s,
                     want |-> mirror[s], again |-> FALSE,
                     raced |-> mirror # before \/ (wire # <<>> /\ ~planned)]]
    /\ UNCHANGED <<device, wire, job, result, history, runs, misSent, clean, mirror>>

\* performScopedSend: the frame follows the writes before it on the link.  A
\* first send is stored and may be sent once more when nobody is heard.
Transmit(k) ==
    /\ send[k].at = "queued" /\ wire = <<>>
    /\ LET x == send[k]
           right == device[x.slot] = x.want
       IN  /\ misSent' = IF right THEN misSent ELSE misSent \cup {x.raced}
           /\ send' = [send EXCEPT ![k].at = IF x.again THEN "done" ELSE "armed"]
           /\ history' = IF x.again THEN history ELSE history \cup {<<x.want, x.slot>>}
           /\ clean' = (clean /\ (x.again \/ (right /\ ~running)))
    /\ UNCHANGED <<device, wire, job, result, runs, mirror>>

\* handleChannelRetryTimeout: it waits for no reorder.
ResendFires(k) ==
    /\ send[k].at = "armed"
    /\ send' = [send EXCEPT ![k].at = "queued", ![k].again = TRUE,
                            ![k].raced = @ \/ running]
    /\ UNCHANGED <<device, wire, job, result, history, runs, misSent, clean, mirror>>

-------------------------------------------------------------------------------
Next ==
    \/ reorderChannels \/ ReadTables \/ ReadTablesFails
    \/ WriteVerified \/ WriteRefuted \/ WriteUnanswered
    \/ Confirm \/ ConfirmFails \/ RemapCommits \/ RemapFails
    \/ RefreshFails \/ ReorderApplied \/ CheckRollback \/ CheckFails
    \/ Restart \/ syncChannelsFromDevice \/ WriteLands \/ WriteLost
    \/ \E c \in Channel : Receive(c)
    \/ \E k \in Sender : Ask(k) \/ Transmit(k) \/ ResendFires(k)

\* Calls to the device and the database answer or time out; writes on the link
\* do not stay there.
Progress ==
    \/ ReadTablesFails \/ ReadTables \/ WriteVerified \/ WriteUnanswered \/ WriteRefuted
    \/ ConfirmFails \/ Confirm \/ RemapCommits \/ RemapFails
    \/ RefreshFails \/ ReorderApplied \/ CheckFails \/ CheckRollback

SafetySpec == Init /\ [][Next]_vars

Spec == SafetySpec /\ WF_vars(Progress) /\ WF_vars(WriteLands \/ WriteLost)

-------------------------------------------------------------------------------
\* Properties.

\* Every variable has its type.
TypeOK ==
    /\ device \in [Slot -> Value]
    /\ \A i \in DOMAIN wire : wire[i] \in [slot : Slot, value : Value]
    /\ job = Idle \/ job.pc \in Phases
    /\ planned => /\ job.original \in [Slot -> Value]
                  /\ job.believed \in [Slot -> Value \cup {Unknown}]
                  /\ Range(job.todo) \subseteq [slot : Slot, value : Value]
                  /\ job.tries \in {0, 1} /\ job.failed \in BOOLEAN
    /\ mirror \in [Slot -> Value] /\ result \in Results
    /\ history \subseteq (Channel \cup {Deleted}) \X Slot
    /\ \A k \in Sender : send[k].at \in {"none", "waiting", "queued", "armed", "done"}
    /\ misSent \subseteq BOOLEAN /\ clean \in BOOLEAN /\ runs \in 0 .. MaxReorders

\* No channel ever leaves the device: not between two writes of a plan, not when
\* writes fail, land late or are lost, not in a rollback from a layout that is
\* only partly known, not when the server stops midway and reorders again.
NoChannelLost == [][Range(device) \cap Channel \subseteq Range(device')]_vars

\* What a reorder reports is true of the device when it reports it and stays
\* true: no write is left on the link.  A plan is never refused as unsafe.
OutcomeIsTrue ==
    [][job' # job /\ job' = Idle =>
        /\ result' = "applied" => device = Layout(job.original, job.order) /\ wire = <<>>
        /\ result' = "rolled_back" => device = job.original /\ wire = <<>>
        /\ result' # "unsafe"]_vars

\* After a reorder that reports either outcome the stored messages of a channel
\* are under a slot that holds it, and those of a deleted channel have not been
\* merged into another one's, whatever arrived while the slots moved.
follows(m) == device[m[2]] = (IF m[1] = Deleted THEN Empty ELSE m[1])
HistoryFollows == clean /\ ~running => \A m \in history : follows(m)

\* The same without the hazards that are set aside above: a database failure
\* leaves rows and device in agreement.
DbFollowsDevice ==
    result \in {"applied", "rolled_back"} => \A m \in history : follows(m)

\* A send that waited for a reorder, and a resend armed before it, go out on the
\* channel they were meant for: whatever the writes and the database do, the
\* reorder leads them where it leads the channels.  (Of the sends whose caller
\* picked the slot from the layout that the reorder began with; one that was
\* asked for between the commit of the remap and the end of the reorder names
\* the new slot, and is led astray.)
SendsFollow == FALSE \notin misSent

\* Every channel send does.
SentOnItsChannel == misSent = {}

\* A reorder ends, however often the device refuses or does not answer.
ReorderEnds == running ~> ~running
===============================================================================
