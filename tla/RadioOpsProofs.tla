---------------------------- MODULE RadioOpsProofs ----------------------------
(***************************************************************************)
(* The safety of RadioOps for any commands and contacts.  The invariant is *)
(* stated for a value of every variable, so that it also describes the     *)
(* moment between an event and the advance of the lanes: an action first   *)
(* leads to Mid, and Proceed leads from Mid back to the invariant.         *)
(***************************************************************************)
EXTENDS RadioOps, FiniteSetTheorems, TLAPS

-------------------------------------------------------------------------------
\* The inductive invariant.

Lanes == {"radio", "status"}
Steps == {"unasked", "queued", "joined", "running", "done"}
Outcomes == {"none", "ok", "rejected", "overruled", "timeout"}
Command == [st : Steps, hears : SUBSET Event, sent : Op \cup {None},
            outcome : Outcomes, own : BOOLEAN, about : Contact \cup {None}]

\* What a command is like: it hears what its kind listens for, nothing before it
\* is written, and no refusal once it has taken a Sent for its own.
Sound(o, x) ==
    /\ x \in Command
    /\ x.hears \subseteq listeners(o)
    /\ x.st \in {"unasked", "queued", "joined"} => x.hears = {} /\ x.sent = None
    /\ x.st # "done" => x.own /\ x.outcome = "none"
    /\ x.st = "joined" => o \in StatusOp
    /\ x.sent # None => "Err" \notin x.hears
    /\ x.outcome = "overruled" => o \in TraceOp

Commands(ops) ==
    /\ DOMAIN ops = Op
    /\ \A o \in Op : Sound(o, ops[o])

\* Which commands go to a lane.
Fits(l, o) == IF l = "status" THEN o \in StatusOp ELSE o \in RadioOp

\* The lanes, but for the step their head has reached.
Queues(ops, lanes) ==
    /\ lanes \in [Lanes -> Seq(Op)]
    /\ \A l \in Lanes :
        /\ \A i, j \in DOMAIN lanes[l] : lanes[l][i] = lanes[l][j] => i = j
        /\ \A i \in DOMAIN lanes[l] :
            /\ Fits(l, lanes[l][i])
            /\ i # 1 => ops[lanes[l][i]].st = "queued"
        /\ \A o \in Op : Fits(l, o) /\ ops[o].st = "running" =>
                            lanes[l] # <<>> /\ lanes[l][1] = o
    /\ \A o \in MessageOp : ops[o].st \in {"unasked", "done"}

\* The head of each lane runs; before the lanes have advanced it may have settled,
\* or wait to begin.
HeadRuns(ops, lanes) ==
    \A l \in Lanes : lanes[l] # <<>> => ops[lanes[l][1]].st = "running"
HeadStands(ops, lanes) ==
    \A l \in Lanes : lanes[l] # <<>> => ops[lanes[l][1]].st \in {"queued", "running", "done"}

\* A command is on the link or in the air at most once, after it was written and
\* until its own answer has settled it.
Traffic(ops, written, flying) ==
    /\ written \in Seq(Op)
    /\ \A i, j \in DOMAIN written : written[i] = written[j] => i = j
    /\ flying \subseteq AskOp \cup TelemetryOp \cup TraceOp \cup StatusOp
    /\ \A o \in Op : o \in ToSet(written) \cup flying =>
        /\ ops[o].st \in {"running", "done"}
        /\ ~(o \in ToSet(written) /\ o \in flying)
        /\ ops[o].st = "done" /\ ops[o].own => o \in MessageOp

\* The lock cannot help: see StraysOnly.
Excused(ops) ==
    \/ \E p \in MessageOp \cup StatusOp : ops[p].st # "unasked"
    \/ \E p \in RadioOp : ops[p].outcome = "timeout"

\* Otherwise every command is settled by its own answer and then hears nothing.
Orderly(ops) ==
    ~Excused(ops) => \A o \in RadioOp : ops[o].own /\ (ops[o].st = "done" => ops[o].hears = {})

\* StatusHeard, for any value of the commands.
Apart(ops) ==
    \A o \in StatusOp : \A p \in StatusOp \ {o} :
        ops[o].st \in {"queued", "running"} /\ ops[p].st \in {"queued", "running"} =>
            ops[p].about # ops[o].about
Deaf(ops) ==
    \A o \in StatusOp : ops[o].st = "running" /\ "Status" \notin ops[o].hears =>
        \E p \in StatusOp \ {o} : ops[p].st = "done" /\ ~ops[p].own

Mid(ops, lanes, written, flying) ==
    /\ Commands(ops)
    /\ Queues(ops, lanes) /\ HeadStands(ops, lanes)
    /\ Traffic(ops, written, flying)
    /\ Orderly(ops) /\ Apart(ops) /\ Deaf(ops)

IInv ==
    /\ kind \in [Op -> Kind]
    /\ Commands(op)
    /\ Queues(op, lane) /\ HeadRuns(op, lane)
    /\ Traffic(op, link, air)
    /\ Orderly(op) /\ Apart(op) /\ Deaf(op)

-------------------------------------------------------------------------------
\* Kinds, events and reactions.

\* A command has one kind, and with it one lane or none.
LEMMA Kinds ==
    ASSUME kind \in [Op -> Kind]
    PROVE  /\ Op = PathOp \cup TimeOp \cup AskOp \cup TelemetryOp \cup TraceOp
                   \cup StatusOp \cup MessageOp
           /\ PathOp \subseteq Op /\ TimeOp \subseteq Op /\ AskOp \subseteq Op
           /\ TelemetryOp \subseteq Op /\ TraceOp \subseteq Op
           /\ StatusOp \subseteq Op /\ MessageOp \subseteq Op /\ RadioOp \subseteq Op
           /\ StatusOp \cap MessageOp = {} /\ RadioOp \cap (StatusOp \cup MessageOp) = {}
           /\ (PathOp \cup TimeOp) \cap (AskOp \cup TelemetryOp \cup TraceOp \cup StatusOp) = {}
           /\ Op = RadioOp \cup StatusOp \cup MessageOp
           /\ AskOp \cup TelemetryOp \cup TraceOp \cup PathOp \cup TimeOp = RadioOp
  BY DEF Kind, of, PathOp, TimeOp, AskOp, TelemetryOp, TraceOp, StatusOp, MessageOp, RadioOp

\* What each kind listens for.
LEMMA Listeners ==
    ASSUME kind \in [Op -> Kind], NEW o \in Op
    PROVE  /\ listeners(o) \subseteq Event
           /\ o \in StatusOp => "Status" \in listeners(o)
           /\ o \in MessageOp => listeners(o) = {}
  BY DEF Kind, of, PathOp, TimeOp, AskOp, TelemetryOp, TraceOp, StatusOp, MessageOp,
         listeners, Event

\* A change of o that keeps the invariant: it settles a running command, and by its
\* own answer only if that is its last, or leaves its step as it is.
Reacts(o, y, written, flying) ==
    /\ Sound(o, y)
    /\ y.about = op[o].about /\ y.hears \subseteq op[o].hears
    /\ \/ y.st = op[o].st /\ y.own = op[o].own /\ y.outcome = op[o].outcome
       \/ /\ op[o].st = "running" /\ y.st = "done"
          /\ y.own => o \notin ToSet(written) \cup flying
          /\ o \in RadioOp => \/ y.own /\ y.hears = {}
                              \/ y.outcome = "timeout" \/ Excused(op)
    /\ o \in StatusOp /\ y.st = "running" /\ "Status" \in op[o].hears \ y.hears =>
            \E p \in StatusOp \ {o} : op[p].st = "done" /\ ~op[p].own

\* A reaction to an event in answer to p: what it may do to o.
LEMMA ReactSound ==
    ASSUME IInv, NEW o \in Op, NEW p \in Op, NEW ev \in Event
    PROVE  /\ Sound(o, react(o, ev, p))
           /\ react(o, ev, p).about = op[o].about
           /\ react(o, ev, p).hears \subseteq op[o].hears
           /\ \/ /\ react(o, ev, p).st = op[o].st
                 /\ react(o, ev, p).own = op[o].own
                 /\ react(o, ev, p).outcome = op[o].outcome
              \/ /\ op[o].st = "running"
                 /\ react(o, ev, p).st = "done" /\ react(o, ev, p).own = (o = p)
                 /\ react(o, ev, p).hears = {}
                 /\ ev \in {"Sent", "Ok"} => o \in PathOp \cup TimeOp
           /\ "Status" \in op[o].hears \ react(o, ev, p).hears /\ react(o, ev, p).st = "running" =>
                ev = "Status" /\ ~resolves(o, ev, p)
<1> DEFINE x == op[o]
           y == react(o, ev, p)
<1>1. Sound(o, x)
  BY DEF IInv, Commands
<1>2. x \in Command /\ x.hears \subseteq listeners(o) /\ (x.sent # None => "Err" \notin x.hears)
      /\ (x.hears # {} => x.st \in {"running", "done"}) /\ (x.st = "joined" => o \in StatusOp)
      /\ (x.outcome = "overruled" => o \in TraceOp)
  BY <1>1 DEF Sound, Command, Steps
<1>3. CASE ev \notin x.hears
  <2>1. y = x
    BY <1>3 DEF react
  <2> QED
    BY <1>1, <2>1
<1>4. CASE ev \in x.hears /\ resolves(o, ev, p)
  <2>1. y = settle(o, "ok", o = p)
    BY <1>4 DEF react
  <2>2. ev \in {"Sent", "Ok"} => o \in PathOp \cup TimeOp
    BY <1>4 DEF resolves
  <2>3. CASE x.st = "done"
    <3>1. y = [x EXCEPT !.hears = {}]
      BY <2>1, <2>3 DEF settle
    <3> QED
      BY <1>2, <2>3, <3>1 DEF Sound, Command
  <2>4. CASE x.st # "done"
    <3>1. y = [x EXCEPT !.st = "done", !.hears = {}, !.sent = None, !.own = (o = p),
                        !.outcome = "ok"]
      BY <2>1, <2>4 DEF settle
    <3>2. x.st = "running"
      BY <1>2, <1>4, <2>4
    <3> QED
      BY <1>2, <2>2, <3>1, <3>2 DEF Sound, Command, Steps, Outcomes
  <2> QED
    BY <2>3, <2>4
<1>5. CASE ev \in x.hears /\ ~resolves(o, ev, p) /\ ev = "Err"
  <2>1. y = settle(o, "rejected", o = p)
    BY <1>5 DEF react
  <2>2. x.sent = None
    BY <1>2, <1>5
  <2>3. CASE x.st = "done"
    <3>1. y = [x EXCEPT !.hears = {}]
      BY <2>1, <2>3 DEF settle
    <3> QED
      BY <1>2, <2>3, <3>1 DEF Sound, Command
  <2>4. CASE x.st # "done"
    <3>0. PICK how \in {"rejected", "overruled"} :
            /\ y = [x EXCEPT !.st = "done", !.hears = {}, !.sent = None, !.own = (o = p),
                             !.outcome = how]
            /\ how = "overruled" => o \in TraceOp
      BY <2>1, <2>2, <2>4 DEF settle, acknowledged
    <3>1. y = [x EXCEPT !.st = "done", !.hears = {}, !.sent = None, !.own = (o = p),
                        !.outcome = how]
      BY <3>0
    <3>2. x.st = "running"
      BY <1>2, <1>5, <2>4
    <3> QED
      BY <1>2, <1>5, <3>0, <3>1, <3>2 DEF Sound, Command, Steps, Outcomes
  <2> QED
    BY <2>3, <2>4
<1>6. CASE ev \in x.hears /\ ~resolves(o, ev, p) /\ ev = "Sent"
  <2>1. y = [x EXCEPT !.sent = p, !.hears = x.hears \ {"Sent", "Err"}]
    BY <1>6 DEF react
  <2>2. /\ y.st = x.st /\ y.own = x.own /\ y.outcome = x.outcome /\ y.about = x.about
        /\ y.hears = x.hears \ {"Sent", "Err"} /\ y \in Command
    <3>1. x \in Command /\ p \in Op \cup {None} /\ x.hears \ {"Sent", "Err"} \in SUBSET Event
      BY <1>2 DEF Command
    <3>2. y \in Command
      BY <2>1, <3>1 DEF Command
    <3>3. y.st = x.st /\ y.outcome = x.outcome /\ y.about = x.about
      BY <2>1, <3>1 DEF Command
    <3>4. y.own = x.own
      BY <2>1, <3>1 DEF Command
    <3>5. y.hears = x.hears \ {"Sent", "Err"}
      BY <2>1, <3>1 DEF Command
    <3> QED
      BY <3>2, <3>3, <3>4, <3>5
  <2>3. x.st \in {"running", "done"}
    BY <1>2, <1>6
  <2>4. Sound(o, y)
    <3> HIDE DEF x, y
    <3> QED
      BY <1>1, <1>2, <2>2, <2>3 DEF Sound
  <2> QED
    BY <1>2, <2>2, <2>4
<1>7. CASE ev \in x.hears /\ ~resolves(o, ev, p) /\ ev = "Status"
  <2>1. y = [x EXCEPT !.hears = x.hears \ {"Status"}]
    BY <1>7 DEF react
  <2>2. /\ y.st = x.st /\ y.own = x.own /\ y.outcome = x.outcome /\ y.about = x.about
        /\ y.sent = x.sent /\ y.hears = x.hears \ {"Status"} /\ y \in Command
    BY <1>2, <2>1 DEF Command
  <2>3. x.st \in {"running", "done"}
    BY <1>2, <1>7
  <2>4. Sound(o, y)
    BY <1>1, <1>2, <2>2, <2>3 DEF Sound
  <2> QED
    BY <1>2, <1>7, <2>2, <2>4
<1>8. CASE ev \in x.hears /\ ~resolves(o, ev, p) /\ ev \notin {"Err", "Sent", "Status"}
  <2>1. y = x
    BY <1>8 DEF react
  <2> QED
    BY <1>1, <2>1
<1> QED
  BY <1>3, <1>4, <1>5, <1>6, <1>7, <1>8

\* Two commands of one lane do not run at once.
LEMMA OneRuns ==
    ASSUME IInv, NEW o \in Op, NEW p \in Op, NEW l \in Lanes, Fits(l, o), Fits(l, p),
           op[o].st = "running", op[p].st = "running"
    PROVE  o = p
  BY DEF IInv, Queues

\* A command whose answer may still come has not been settled by it.
LEMMA Unanswered ==
    ASSUME IInv, NEW p \in Op \ MessageOp, p \in ToSet(link) \cup air
    PROVE  op[p].st = "running" \/ (op[p].st = "done" /\ ~op[p].own)
  BY DEF IInv, Traffic

\* Without an excuse only the command that runs can be answered.
LEMMA StrayExcused ==
    ASSUME IInv, NEW o \in RadioOp, NEW p \in Op, p \in ToSet(link) \cup air,
           op[o].st = "running", o # p
    PROVE  Excused(op)
<1> SUFFICES ASSUME ~Excused(op) PROVE FALSE
  OBVIOUS
<1>1. kind \in [Op -> Kind]
  BY DEF IInv
<1>2. op[p].st \in {"running", "done"}
  BY DEF IInv, Traffic
<1>3. p \in RadioOp /\ o \in Op
  BY <1>1, <1>2, Kinds DEF Excused
<1>4. op[p].own
  BY <1>3 DEF IInv, Orderly
<1>5. p \notin MessageOp
  BY <1>1, <1>3, Kinds
<1>6. op[p].st = "running"
  BY <1>4, <1>5, Unanswered
<1>7. Fits("radio", o) /\ Fits("radio", p) /\ "radio" \in Lanes
  BY <1>3 DEF Fits, Lanes
<1> QED
  BY <1>3, <1>6, <1>7, OneRuns

-------------------------------------------------------------------------------
\* From an action to Mid.

\* Commands that react as above leave the invariant as Mid.
LEMMA Reaction ==
    ASSUME IInv, NEW g, DOMAIN g = Op, NEW written, NEW flying,
           \A o \in Op : Reacts(o, g[o], written, flying),
           written \in Seq(Op), \A i, j \in DOMAIN written : written[i] = written[j] => i = j,
           flying \subseteq AskOp \cup TelemetryOp \cup TraceOp \cup StatusOp,
           ToSet(written) \cap flying = {},
           ToSet(written) \cup flying \subseteq ToSet(link) \cup air
    PROVE  Mid(g, lane, written, flying)
<1>1. kind \in [Op -> Kind]
  BY DEF IInv
<1>2. Commands(g)
  BY DEF Commands, Reacts
<1>3. \A o \in Op : \/ g[o].st = op[o].st /\ g[o].own = op[o].own /\ g[o].outcome = op[o].outcome
                    \/ op[o].st = "running" /\ g[o].st = "done"
  BY DEF Reacts
<1>4. Queues(g, lane)
  <2>1. ASSUME NEW l \in Lanes, NEW i \in DOMAIN lane[l], i # 1
        PROVE  g[lane[l][i]].st = "queued"
    <3>1. lane[l][i] \in Op /\ op[lane[l][i]].st = "queued"
      BY <2>1 DEF IInv, Queues
    <3> QED
      BY <1>3, <3>1
  <2>2. \A o \in Op : g[o].st = "running" => op[o].st = "running"
    BY <1>3
  <2>3. \A o \in MessageOp : g[o].st \in {"unasked", "done"}
    <3>1. \A o \in MessageOp : o \in Op /\ op[o].st \in {"unasked", "done"}
      BY <1>1, Kinds DEF IInv, Queues
    <3> QED
      BY <1>3, <3>1
  <2> QED
    BY <2>1, <2>2, <2>3 DEF IInv, Queues
<1>5. HeadStands(g, lane)
  <2> SUFFICES ASSUME NEW l \in Lanes, lane[l] # <<>>
               PROVE  g[lane[l][1]].st \in {"queued", "running", "done"}
    BY DEF HeadStands
  <2>1. op[lane[l][1]].st = "running"
    BY DEF IInv, HeadRuns
  <2>2. lane[l] \in Seq(Op)
    BY DEF IInv, Queues
  <2>3. lane[l][1] \in Op
    BY <2>2
  <2> QED
    BY <1>3, <2>1, <2>3
<1>6. Traffic(g, written, flying)
  <2> SUFFICES ASSUME NEW o \in Op, o \in ToSet(written) \cup flying
               PROVE  g[o].st \in {"running", "done"}
                      /\ (g[o].st = "done" /\ g[o].own => o \in MessageOp)
    BY DEF Traffic
  <2>1. op[o].st \in {"running", "done"} /\ (op[o].st = "done" /\ op[o].own => o \in MessageOp)
    BY DEF IInv, Traffic
  <2> QED
    BY <2>1 DEF Reacts
<1>7. Excused(op) => Excused(g)
  <2>1. \A o \in MessageOp \cup StatusOp : op[o].st # "unasked" => g[o].st # "unasked"
    BY <1>1, <1>3, Kinds
  <2>2. \A o \in RadioOp : op[o].outcome = "timeout" => g[o].outcome = "timeout"
    <3> SUFFICES ASSUME NEW o \in RadioOp, op[o].outcome = "timeout"
                 PROVE  g[o].outcome = "timeout"
      OBVIOUS
    <3>1. o \in Op
      BY <1>1, Kinds
    <3>2. op[o].st = "done"
      BY <3>1 DEF IInv, Commands, Sound
    <3> QED
      BY <1>3, <3>1, <3>2
  <2> QED
    BY <2>1, <2>2 DEF Excused
<1>8. Orderly(g)
  <2> SUFFICES ASSUME ~Excused(g), NEW o \in RadioOp
               PROVE  g[o].own /\ (g[o].st = "done" => g[o].hears = {})
    BY DEF Orderly
  <2>1. o \in Op /\ ~Excused(op)
    BY <1>1, <1>7, Kinds
  <2>2. op[o].own /\ (op[o].st = "done" => op[o].hears = {})
    BY <2>1 DEF IInv, Orderly
  <2>3. Reacts(o, g[o], written, flying)
    BY <2>1
  <2>4. g[o].outcome # "timeout"
    BY DEF Excused
  <2> QED
    BY <2>1, <2>2, <2>3, <2>4 DEF Reacts
<1>9. Apart(g)
  <2> SUFFICES ASSUME NEW o \in StatusOp, NEW p \in StatusOp \ {o},
                      g[o].st \in {"queued", "running"}, g[p].st \in {"queued", "running"}
               PROVE  g[p].about # g[o].about
    BY DEF Apart
  <2>1. o \in Op /\ p \in Op
    BY <1>1, Kinds
  <2>2. g[o].about = op[o].about /\ g[p].about = op[p].about
    BY <2>1 DEF Reacts
  <2>3. op[o].st \in {"queued", "running"} /\ op[p].st \in {"queued", "running"}
    BY <1>3, <2>1
  <2> QED
    BY <2>2, <2>3 DEF IInv, Apart
<1>10. Deaf(g)
  <2> SUFFICES ASSUME NEW o \in StatusOp, g[o].st = "running", "Status" \notin g[o].hears
               PROVE  \E p \in StatusOp \ {o} : g[p].st = "done" /\ ~g[p].own
    BY DEF Deaf
  <2>1. o \in Op /\ op[o].st = "running"
    BY <1>1, <1>3, Kinds
  <2>2. PICK p \in StatusOp \ {o} : op[p].st = "done" /\ ~op[p].own
    <3>1. CASE "Status" \in op[o].hears
      BY <2>1, <3>1 DEF Reacts
    <3>2. CASE "Status" \notin op[o].hears
      BY <2>1, <3>2 DEF IInv, Deaf
    <3> QED
      BY <3>1, <3>2
  <2>3. p \in Op
    BY <1>1, Kinds
  <2> QED
    BY <1>3, <2>2, <2>3
<1> QED
  BY <1>2, <1>4, <1>5, <1>6, <1>8, <1>9, <1>10 DEF Mid

\* An event in answer to p, once p is off the link or out of the air, or flies on.
LEMMA Heard ==
    ASSUME IInv, NEW ev \in Event, NEW p \in Op, p \in ToSet(link) \cup air,
           NEW written, NEW flying,
           p \in ToSet(written) \cup flying =>
                ev \in {"Sent", "Ok"} /\ p \notin PathOp \cup TimeOp,
           ev = "Status" => p \in StatusOp
    PROVE  \A o \in Op : Reacts(o, heard(ev, p)[o], written, flying)
<1> SUFFICES ASSUME NEW o \in Op PROVE Reacts(o, heard(ev, p)[o], written, flying)
  OBVIOUS
<1> DEFINE y == react(o, ev, p)
<1>0. kind \in [Op -> Kind]
  BY DEF IInv
<1>1. heard(ev, p)[o] = y
  BY DEF heard
<1>2. /\ Sound(o, y) /\ y.about = op[o].about /\ y.hears \subseteq op[o].hears
      /\ \/ y.st = op[o].st /\ y.own = op[o].own /\ y.outcome = op[o].outcome
         \/ /\ op[o].st = "running" /\ y.st = "done" /\ y.own = (o = p) /\ y.hears = {}
            /\ ev \in {"Sent", "Ok"} => o \in PathOp \cup TimeOp
      /\ "Status" \in op[o].hears \ y.hears /\ y.st = "running" =>
            ev = "Status" /\ ~resolves(o, ev, p)
  BY ReactSound
<1>3. ASSUME op[o].st = "running", y.st = "done"
      PROVE  /\ y.own => o \notin ToSet(written) \cup flying
             /\ o \in RadioOp => (y.own /\ y.hears = {}) \/ Excused(op)
  <2>1. y.own = (o = p) /\ y.hears = {} /\ (ev \in {"Sent", "Ok"} => o \in PathOp \cup TimeOp)
    BY <1>2, <1>3
  <2>2. o \in RadioOp /\ o # p => Excused(op)
    BY <1>3, StrayExcused
  <2> QED
    BY <2>1, <2>2
<1>4. ASSUME o \in StatusOp, y.st = "running", "Status" \in op[o].hears \ y.hears
      PROVE  \E q \in StatusOp \ {o} : op[q].st = "done" /\ ~op[q].own
  <2>1. ev = "Status" /\ ~resolves(o, ev, p)
    BY <1>2, <1>4
  <2>2. p \in StatusOp /\ o # p
    BY <1>4, <2>1 DEF resolves
  <2>3. op[o].st = "running"
    BY <1>2, <1>4
  <2>4. Fits("status", o) /\ Fits("status", p) /\ "status" \in Lanes
    BY <1>4, <2>2 DEF Fits, Lanes
  <2>5. op[p].st # "running"
    BY <2>2, <2>3, <2>4, OneRuns
  <2>6. p \notin MessageOp
    BY <1>0, <2>2, Kinds
  <2>7. op[p].st = "done" /\ ~op[p].own
    BY <2>5, <2>6, Unanswered
  <2> QED
    BY <2>2, <2>7
<1> HIDE DEF y
<1> QED
  BY <1>1, <1>2, <1>3, <1>4 DEF Reacts

-------------------------------------------------------------------------------
\* From Mid to the invariant: Proceed.

\* A finite set has a sequence without repetition, and SetToSeq is one.
LEMMA SetToSeqLists ==
    ASSUME NEW S, IsFiniteSet(S)
    PROVE  /\ SetToSeq(S) \in Seq(S)
           /\ \A i, j \in DOMAIN SetToSeq(S) : SetToSeq(S)[i] = SetToSeq(S)[j] => i = j
<1> DEFINE n == Cardinality(S)
           f == SetToSeq(S)
<1>1. n \in Nat /\ ExistsBijection(1 .. n, S)
  BY FS_CardinalityType
<1>2. PICK g \in [1 .. n -> S] : IsInjective(g)
  BY <1>1 DEF ExistsBijection, Bijection, Injection
<1>3. f \in [1 .. n -> S] /\ IsInjective(f)
  BY <1>2 DEF SetToSeq
<1> HIDE DEF n, f
<1>4. f \in Seq(S)
  BY <1>1, <1>3
<1> QED
  BY <1>3, <1>4 DEF IsInjective, f

\* Callers that share a request settle with it; nothing else changes.
LEMMA SharedSettles ==
    ASSUME NEW g, Commands(g)
    PROVE  /\ DOMAIN shared(g) = Op
           /\ \A o \in Op :
                \/ shared(g)[o] = g[o]
                \/ /\ g[o].st = "joined" /\ shared(g)[o].st = "done"
                   /\ Sound(o, shared(g)[o])
                   /\ shared(g)[o].own = g[o].own /\ shared(g)[o].about = g[o].about
<1>1. DOMAIN shared(g) = Op
  BY DEF shared
<1> SUFFICES ASSUME NEW o \in Op, shared(g)[o] # g[o]
             PROVE  /\ g[o].st = "joined" /\ shared(g)[o].st = "done"
                    /\ Sound(o, shared(g)[o])
                    /\ shared(g)[o].own = g[o].own /\ shared(g)[o].about = g[o].about
  BY <1>1
<1> DEFINE q == CHOOSE p \in StatusOp : leads(p, o)
<1>2. g[o].st = "joined" /\ \E p \in StatusOp : leads(p, o)
  BY DEF shared
<1>3. q \in StatusOp
  BY <1>2
<1>4. q \in Op
  BY <1>3 DEF StatusOp, of
<1>4a. q \notin TraceOp
  BY <1>3 DEF StatusOp, TraceOp, of
<1>5. shared(g)[o] = [g[o] EXCEPT !.st = "done", !.outcome = g[q].outcome]
  BY DEF shared
<1> HIDE DEF q
<1>6. Sound(o, g[o]) /\ Sound(q, g[q])
  BY <1>4 DEF Commands
<1>7. g[o] \in Command /\ g[q].outcome \in Outcomes /\ g[q].outcome # "overruled"
  BY <1>4a, <1>6 DEF Sound, Command
<1> DEFINE x == g[o]
           y == shared(g)[o]
<1>8. y \in Command
  BY <1>5, <1>7 DEF Command, Steps
<1>9. y.st = "done" /\ y.outcome = g[q].outcome
  BY <1>5, <1>7 DEF Command
<1>10. y.own = x.own
  BY <1>5, <1>7 DEF Command
<1>11. y.about = x.about /\ y.hears = x.hears /\ y.sent = x.sent
  BY <1>5, <1>7 DEF Command
<1>12. Sound(o, y)
  <2> HIDE DEF x, y
  <2> QED
    BY <1>6, <1>7, <1>8, <1>9, <1>11 DEF Sound, x
<1> QED
  BY <1>2, <1>9, <1>10, <1>11, <1>12

\* Sharing an outcome leaves Mid true.
LEMMA SharedKeeps ==
    ASSUME kind \in [Op -> Kind], NEW g, NEW lanes, NEW written, NEW flying,
           Mid(g, lanes, written, flying)
    PROVE  Mid(shared(g), lanes, written, flying)
<1> DEFINE h == shared(g)
<1>1. /\ DOMAIN h = Op
      /\ \A o \in Op : \/ h[o] = g[o]
                       \/ /\ g[o].st = "joined" /\ h[o].st = "done" /\ Sound(o, h[o])
                          /\ h[o].own = g[o].own /\ h[o].about = g[o].about
  BY SharedSettles DEF Mid
<1> HIDE DEF h
<1>2. Commands(h)
  BY <1>1 DEF Mid, Commands
<1>3. \A o \in Op : g[o].st = "joined" => o \in StatusOp
  BY DEF Mid, Commands, Sound
<1>4. Queues(h, lanes)
  <2>1. ASSUME NEW l \in Lanes, NEW i \in DOMAIN lanes[l], i # 1
        PROVE  h[lanes[l][i]].st = "queued"
    <3>1. lanes[l][i] \in Op /\ g[lanes[l][i]].st = "queued"
      BY <2>1 DEF Mid, Queues
    <3> QED
      BY <1>1, <3>1
  <2>2. \A o \in Op : h[o].st = "running" => g[o].st = "running"
    BY <1>1
  <2>3. \A o \in MessageOp : h[o].st \in {"unasked", "done"}
    <3>1. \A o \in MessageOp : o \in Op /\ g[o].st \in {"unasked", "done"}
      BY Kinds DEF Mid, Queues
    <3> QED
      BY <1>1, <3>1
  <2> QED
    BY <2>1, <2>2, <2>3 DEF Mid, Queues
<1>5. HeadStands(h, lanes)
  <2> SUFFICES ASSUME NEW l \in Lanes, lanes[l] # <<>>
               PROVE  h[lanes[l][1]].st \in {"queued", "running", "done"}
    BY DEF HeadStands
  <2>1. g[lanes[l][1]].st \in {"queued", "running", "done"}
    BY DEF Mid, HeadStands
  <2>2. lanes[l] \in Seq(Op)
    BY DEF Mid, Queues
  <2>3. lanes[l][1] \in Op
    BY <2>2
  <2> QED
    BY <1>1, <2>1, <2>3
<1>6. Traffic(h, written, flying)
  BY <1>1 DEF Mid, Traffic
<1>7. Excused(g) => Excused(h)
  <2>1. \A o \in MessageOp \cup StatusOp : g[o].st # "unasked" => h[o].st # "unasked"
    BY <1>1, Kinds
  <2>2. \A o \in RadioOp : h[o] = g[o]
    BY <1>1, <1>3, Kinds
  <2> QED
    BY <2>1, <2>2 DEF Excused
<1>8. Orderly(h)
  <2>1. \A o \in RadioOp : h[o] = g[o]
    BY <1>1, <1>3, Kinds
  <2> QED
    BY <1>7, <2>1 DEF Mid, Orderly
<1>9. Apart(h)
  BY <1>1, Kinds DEF Mid, Apart
<1>10. Deaf(h)
  <2> SUFFICES ASSUME NEW o \in StatusOp, h[o].st = "running", "Status" \notin h[o].hears
               PROVE  \E p \in StatusOp \ {o} : h[p].st = "done" /\ ~h[p].own
    BY DEF Deaf
  <2>1. o \in Op /\ h[o] = g[o]
    BY <1>1, Kinds
  <2>2. PICK p \in StatusOp \ {o} : g[p].st = "done" /\ ~g[p].own
    BY <2>1 DEF Mid, Deaf
  <2>3. p \in Op
    BY Kinds
  <2>4. h[p] = g[p]
    BY <1>1, <2>2, <2>3
  <2> QED
    BY <2>2, <2>4
<1> QED
  BY <1>2, <1>4, <1>5, <1>6, <1>8, <1>9, <1>10 DEF Mid, h

\* A lane advances past a settled head only.
LEMMA LaneAdvances ==
    ASSUME NEW h, NEW s \in Seq(Op)
    PROVE  /\ advanced(h, s) \in Seq(Op)
           /\ \/ advanced(h, s) = s /\ (s # <<>> => h[s[1]].st # "done")
              \/ /\ s # <<>> /\ h[s[1]].st = "done"
                 /\ \A i \in DOMAIN advanced(h, s) :
                        i + 1 \in DOMAIN s /\ advanced(h, s)[i] = s[i + 1]
<1>1. CASE s # <<>> /\ h[Head(s)].st = "done"
  <2>1. advanced(h, s) = Tail(s) /\ Head(s) = s[1]
    BY <1>1 DEF advanced
  <2> QED
    BY <1>1, <2>1
<1>2. CASE ~(s # <<>> /\ h[Head(s)].st = "done")
  <2>1. advanced(h, s) = s
    BY <1>2 DEF advanced
  <2> QED
    BY <1>2, <2>1
<1> QED
  BY <1>1, <1>2

\* The commands that begin when the lanes have become left.
started(h, begin) ==
    [o \in Op |-> IF o \in begin THEN [h[o] EXCEPT !.st = "running", !.hears = listeners(o)]
                  ELSE h[o]]

\* Advancing the lanes and writing what begins restores the invariant.
LEMMA AdvanceSettles ==
    ASSUME kind \in [Op -> Kind], NEW h, NEW lanes, NEW written, NEW flying,
           Mid(h, lanes, written, flying),
           NEW left, left = [l \in DOMAIN lanes |-> advanced(h, lanes[l])],
           NEW begin, begin = beginning(h, left)
    PROVE  /\ Commands(started(h, begin))
           /\ Queues(started(h, begin), left) /\ HeadRuns(started(h, begin), left)
           /\ Traffic(started(h, begin), written \o SetToSeq(begin), flying)
           /\ Orderly(started(h, begin)) /\ Apart(started(h, begin)) /\ Deaf(started(h, begin))
<1> DEFINE g == started(h, begin)
<1>1. /\ lanes \in [Lanes -> Seq(Op)]
      /\ \A l \in Lanes :
            /\ \A i, j \in DOMAIN lanes[l] : lanes[l][i] = lanes[l][j] => i = j
            /\ \A i \in DOMAIN lanes[l] :
                /\ Fits(l, lanes[l][i])
                /\ i # 1 => h[lanes[l][i]].st = "queued"
            /\ \A o \in Op : Fits(l, o) /\ h[o].st = "running" =>
                                lanes[l] # <<>> /\ lanes[l][1] = o
  BY DEF Mid, Queues
<1>2. left \in [Lanes -> Seq(Op)] /\ \A l \in Lanes : left[l] = advanced(h, lanes[l])
  BY <1>1, LaneAdvances
<1>3. \A o \in Op : o \in begin <=>
            h[o].st = "queued" /\ \E l \in Lanes : left[l] # <<>> /\ left[l][1] = o
  BY <1>2 DEF beginning
<1>4. \A o \in Op : /\ o \notin begin => g[o] = h[o]
                    /\ o \in begin => g[o] = [h[o] EXCEPT !.st = "running", !.hears = listeners(o)]
  BY DEF started
<1>5. DOMAIN g = Op /\ begin \subseteq Op
  BY DEF started, beginning
<1> HIDE DEF g
<1>6. \A o \in Op : Sound(o, h[o])
  BY DEF Mid, Commands
<1>7. \A o \in Op : o \in begin =>
            /\ g[o] \in Command
            /\ g[o].st = "running" /\ g[o].hears = listeners(o) /\ h[o].st = "queued"
            /\ g[o].sent = None /\ g[o].own /\ g[o].outcome = h[o].outcome
            /\ g[o].about = h[o].about
  <2> SUFFICES ASSUME NEW o \in Op, o \in begin
               PROVE  /\ g[o] \in Command
                      /\ g[o].st = "running" /\ g[o].hears = listeners(o) /\ h[o].st = "queued"
                      /\ g[o].sent = None /\ g[o].own /\ g[o].outcome = h[o].outcome
                      /\ g[o].about = h[o].about
    OBVIOUS
  <2>1. g[o] = [h[o] EXCEPT !.st = "running", !.hears = listeners(o)] /\ h[o].st = "queued"
    BY <1>3, <1>4
  <2>2. h[o] \in Command /\ h[o].sent = None /\ h[o].own
    BY <1>6, <2>1 DEF Sound
  <2>3. listeners(o) \subseteq Event
    BY Listeners
  <2>4. g[o] \in Command
    BY <2>1, <2>2, <2>3 DEF Command, Steps
  <2>5. g[o].st = "running" /\ g[o].hears = listeners(o) /\ g[o].sent = None
        /\ g[o].outcome = h[o].outcome /\ g[o].about = h[o].about
    BY <2>1, <2>2, <2>3 DEF Command
  <2>6. g[o].own = h[o].own
    BY <2>1, <2>2, <2>3 DEF Command
  <2> QED
    BY <2>1, <2>2, <2>4, <2>5, <2>6
<1>8. Commands(g)
  <2>1. ASSUME NEW o \in Op, o \in begin PROVE Sound(o, g[o])
    <3>1. Sound(o, h[o]) /\ h[o].st = "queued"
      BY <1>6, <1>7, <2>1
    <3>2. h[o].outcome = "none"
      BY <3>1 DEF Sound
    <3> QED
      BY <1>7, <2>1, <3>2 DEF Sound
  <2>2. ASSUME NEW o \in Op, o \notin begin PROVE Sound(o, g[o])
    BY <1>4, <1>6, <2>2
  <2> QED
    BY <1>5, <2>1, <2>2 DEF Commands
<1>9. ASSUME NEW l \in Lanes, NEW m \in Lanes, NEW o \in Op, Fits(l, o), Fits(m, o) PROVE l = m
  BY <1>9, Kinds DEF Fits, Lanes
<1>10. ASSUME NEW l \in Lanes
       PROVE  /\ \A i, j \in DOMAIN left[l] : left[l][i] = left[l][j] => i = j
              /\ \A i \in DOMAIN left[l] :
                    /\ left[l][i] \in Op /\ Fits(l, left[l][i])
                    /\ i # 1 => h[left[l][i]].st = "queued"
              /\ left[l] # <<>> => h[left[l][1]].st \in {"queued", "running"}
              /\ \A o \in Op : Fits(l, o) /\ h[o].st = "running" =>
                                left[l] # <<>> /\ left[l][1] = o
  <2> DEFINE s == lanes[l]
             r == left[l]
  <2>1. s \in Seq(Op) /\ r = advanced(h, s) /\ r \in Seq(Op)
    BY <1>1, <1>2
  <2>2. /\ \A i, j \in DOMAIN s : s[i] = s[j] => i = j
        /\ \A i \in DOMAIN s : Fits(l, s[i]) /\ s[i] \in Op /\ (i # 1 => h[s[i]].st = "queued")
        /\ \A o \in Op : Fits(l, o) /\ h[o].st = "running" => s # <<>> /\ s[1] = o
        /\ s # <<>> => h[s[1]].st \in {"queued", "running", "done"}
    BY <1>1, <2>1 DEF Mid, HeadStands
  <2>3. \/ r = s /\ (s # <<>> => h[s[1]].st # "done")
        \/ /\ s # <<>> /\ h[s[1]].st = "done"
           /\ \A i \in DOMAIN r : i + 1 \in DOMAIN s /\ r[i] = s[i + 1]
    <3> HIDE DEF s, r
    <3>1. \/ advanced(h, s) = s /\ (s # <<>> => h[s[1]].st # "done")
          \/ /\ s # <<>> /\ h[s[1]].st = "done"
             /\ \A i \in DOMAIN advanced(h, s) :
                    i + 1 \in DOMAIN s /\ advanced(h, s)[i] = s[i + 1]
      BY <2>1, LaneAdvances
    <3> QED
      BY <2>1, <3>1
  <2>4. DOMAIN r = 1 .. Len(r) /\ Len(r) \in Nat /\ (r # <<>> => 1 \in DOMAIN r)
    BY <2>1
  <2> HIDE DEF s, r
  <2>5. CASE r = s /\ (s # <<>> => h[s[1]].st # "done")
    BY <2>2, <2>5 DEF s, r
  <2>6. CASE /\ s # <<>> /\ h[s[1]].st = "done"
             /\ \A i \in DOMAIN r : i + 1 \in DOMAIN s /\ r[i] = s[i + 1]
    <3>1. \A i \in DOMAIN r : i \in Nat /\ i >= 1 /\ i + 1 # 1
      BY <2>4
    <3>2. \A i, j \in DOMAIN r : r[i] = r[j] => i = j
      <4> SUFFICES ASSUME NEW i \in DOMAIN r, NEW j \in DOMAIN r, r[i] = r[j] PROVE i = j
        OBVIOUS
      <4>1. i + 1 = j + 1
        BY <2>2, <2>6
      <4> QED
        BY <3>1, <4>1
    <3>3. \A i \in DOMAIN r : Fits(l, r[i]) /\ r[i] \in Op /\ h[r[i]].st = "queued"
      BY <2>2, <2>6, <3>1
    <3>4. r # <<>> => h[r[1]].st = "queued"
      BY <2>4, <3>3
    <3>5. \A o \in Op : ~(Fits(l, o) /\ h[o].st = "running")
      BY <2>2, <2>6
    <3> QED
      BY <3>2, <3>3, <3>4, <3>5 DEF r
  <2> QED
    BY <2>3, <2>5, <2>6
<1>11. ASSUME NEW l \in Lanes, NEW i \in DOMAIN left[l], left[l][i] \in begin PROVE i = 1
  <2>1. left[l][i] \in Op /\ Fits(l, left[l][i])
    BY <1>10
  <2>2. PICK m \in Lanes : left[m] # <<>> /\ left[m][1] = left[l][i]
    BY <1>3, <1>11, <2>1
  <2>3. left[m] \in Seq(Op) /\ left[l] \in Seq(Op)
    BY <1>2
  <2>4. 1 \in DOMAIN left[m]
    BY <2>2, <2>3
  <2>5. Fits(m, left[m][1])
    BY <1>10, <2>4
  <2>6. m = l
    BY <1>9, <2>1, <2>2, <2>5
  <2> QED
    BY <1>10, <2>2, <2>4, <2>6
<1>12. HeadRuns(g, left)
  <2> SUFFICES ASSUME NEW l \in Lanes, left[l] # <<>> PROVE g[left[l][1]].st = "running"
    BY DEF HeadRuns
  <2> DEFINE o == left[l][1]
  <2>1. left[l] \in Seq(Op)
    BY <1>2
  <2>5. o \in Op
    BY <2>1
  <2>6. h[o].st \in {"queued", "running"}
    BY <1>10
  <2>3. CASE h[o].st = "queued"
    <3>1. o \in begin
      BY <1>3, <2>3, <2>5
    <3> QED
      BY <1>7, <2>5, <3>1
  <2>4. CASE h[o].st = "running"
    <3>1. o \notin begin
      BY <1>7, <2>4, <2>5
    <3> QED
      BY <1>4, <2>4, <2>5, <3>1
  <2> QED
    BY <2>3, <2>4, <2>6
<1>13. Queues(g, left)
  <2>1. ASSUME NEW l \in Lanes, NEW i \in DOMAIN left[l], i # 1
        PROVE  g[left[l][i]].st = "queued"
    <3>1. left[l][i] \in Op /\ h[left[l][i]].st = "queued"
      <4>1. \A k \in DOMAIN left[l] :
                left[l][k] \in Op /\ Fits(l, left[l][k])
                /\ (k # 1 => h[left[l][k]].st = "queued")
        BY <1>10, Zenon
      <4> QED
        BY <2>1, <4>1
    <3>2. left[l][i] \notin begin
      BY <1>11, <2>1
    <3> QED
      BY <1>4, <3>1, <3>2
  <2>2. ASSUME NEW l \in Lanes, NEW o \in Op, Fits(l, o), g[o].st = "running"
        PROVE  left[l] # <<>> /\ left[l][1] = o
    <3>1. CASE o \in begin
      <4>1. PICK m \in Lanes : left[m] # <<>> /\ left[m][1] = o
        BY <1>3, <3>1
      <4>2. left[m] \in Seq(Op)
        BY <1>2
      <4>3. 1 \in DOMAIN left[m]
        BY <4>1, <4>2
      <4>4. Fits(m, o)
        BY <1>10, <4>1, <4>3
      <4>5. m = l
        BY <1>9, <2>2, <4>4
      <4> QED
        BY <4>1, <4>5
    <3>2. CASE o \notin begin
      <4>1. h[o].st = "running"
        BY <1>4, <2>2, <3>2
      <4> QED
        BY <1>10, <2>2, <4>1
    <3> QED
      BY <3>1, <3>2
  <2>3. ASSUME NEW o \in MessageOp PROVE g[o].st \in {"unasked", "done"}
    <3>1. o \in Op /\ h[o].st \in {"unasked", "done"}
      BY Kinds DEF Mid, Queues
    <3>2. o \notin begin
      BY <1>7, <3>1
    <3> QED
      BY <1>4, <3>1, <3>2
  <2> QED
    BY <1>2, <1>10, <2>1, <2>2, <2>3 DEF Queues
<1>14. IsFiniteSet(begin)
  <2> DEFINE heads == {left["radio"][1]} \cup {left["status"][1]}
  <2>1. begin \subseteq heads
    BY <1>3, <1>5 DEF Lanes
  <2>2. IsFiniteSet({left["radio"][1]})
    BY FS_Singleton
  <2>3. IsFiniteSet(heads)
    BY <2>2, FS_AddElement
  <2> QED
    BY <2>1, <2>3, FS_Subset
<1>15. Traffic(g, written \o SetToSeq(begin), flying)
  <2> DEFINE t == SetToSeq(begin)
             w == written \o t
  <2>1. t \in Seq(begin) /\ \A i, j \in DOMAIN t : t[i] = t[j] => i = j
    BY <1>14, SetToSeqLists
  <2>2. t \in Seq(Op) /\ \A i \in DOMAIN t : t[i] \in begin
    BY <1>5, <2>1
  <2>3. /\ written \in Seq(Op)
        /\ \A i, j \in DOMAIN written : written[i] = written[j] => i = j
        /\ flying \subseteq AskOp \cup TelemetryOp \cup TraceOp \cup StatusOp
        /\ \A o \in Op : o \in ToSet(written) \cup flying =>
                /\ h[o].st \in {"running", "done"}
                /\ ~(o \in ToSet(written) /\ o \in flying)
                /\ h[o].st = "done" /\ h[o].own => o \in MessageOp
    BY DEF Mid, Traffic
  <2> HIDE DEF t
  <2>4. /\ w \in Seq(Op) /\ DOMAIN w = 1 .. (Len(written) + Len(t))
        /\ Len(written) \in Nat /\ Len(t) \in Nat
        /\ DOMAIN written = 1 .. Len(written) /\ DOMAIN t = 1 .. Len(t)
        /\ \A i \in 1 .. Len(written) : w[i] = written[i]
        /\ \A i \in (Len(written) + 1) .. (Len(written) + Len(t)) : w[i] = t[i - Len(written)]
    BY <2>2, <2>3
  <2> HIDE DEF w
  <2>5. \A i \in DOMAIN written : written[i] \in ToSet(written) /\ written[i] \in Op
    BY <2>3 DEF ToSet
  <2>6. \A o \in begin : o \notin ToSet(written) \cup flying
    BY <1>5, <1>7, <2>3
  <2>7. \A i, j \in DOMAIN w : w[i] = w[j] => i = j
    <3> SUFFICES ASSUME NEW i \in DOMAIN w, NEW j \in DOMAIN w, w[i] = w[j] PROVE i = j
      OBVIOUS
    <3>1. CASE i \in DOMAIN written /\ j \in DOMAIN written
      BY <2>3, <2>4, <3>1
    <3>2. CASE i \notin DOMAIN written /\ j \notin DOMAIN written
      <4>1. /\ i \in (Len(written) + 1) .. (Len(written) + Len(t))
            /\ j \in (Len(written) + 1) .. (Len(written) + Len(t))
        BY <2>4, <3>2
      <4>2. /\ i - Len(written) \in DOMAIN t /\ j - Len(written) \in DOMAIN t
            /\ t[i - Len(written)] = t[j - Len(written)]
        BY <2>4, <4>1
      <4>3. i - Len(written) = j - Len(written)
        BY <2>1, <4>2
      <4> QED
        BY <2>4, <4>3
    <3>3. ASSUME NEW a \in DOMAIN w, NEW b \in DOMAIN w,
                 a \in DOMAIN written, b \notin DOMAIN written
          PROVE  w[a] # w[b]
      <4>1. w[a] \in ToSet(written)
        BY <2>4, <2>5, <3>3
      <4>2. b \in (Len(written) + 1) .. (Len(written) + Len(t))
        BY <2>4, <3>3
      <4>3. w[b] = t[b - Len(written)] /\ b - Len(written) \in DOMAIN t
        BY <2>4, <4>2
      <4>4. w[b] \in begin
        BY <2>2, <4>3
      <4> QED
        BY <2>6, <4>1, <4>4
    <3> QED
      BY <3>1, <3>2, <3>3
  <2>8. \A o \in ToSet(w) : o \in ToSet(written) \/ o \in begin
    <3> SUFFICES ASSUME NEW i \in DOMAIN w PROVE w[i] \in ToSet(written) \/ w[i] \in begin
      BY DEF ToSet
    <3>1. CASE i \in DOMAIN written
      BY <2>4, <2>5, <3>1
    <3>2. CASE i \notin DOMAIN written
      <4>1. i \in (Len(written) + 1) .. (Len(written) + Len(t))
        BY <2>4, <3>2
      <4> QED
        BY <2>2, <2>4, <4>1
    <3> QED
      BY <3>1, <3>2
  <2>9. ASSUME NEW o \in Op, o \in ToSet(w) \cup flying
        PROVE  /\ g[o].st \in {"running", "done"}
               /\ ~(o \in ToSet(w) /\ o \in flying)
               /\ g[o].st = "done" /\ g[o].own => o \in MessageOp
    <3>1. CASE o \in begin
      <4>1. g[o].st = "running" /\ o \notin flying
        BY <1>7, <2>6, <3>1
      <4> QED
        BY <4>1
    <3>2. CASE o \notin begin
      <4>1. o \in ToSet(written) \cup flying /\ (o \in ToSet(w) => o \in ToSet(written))
        BY <2>8, <2>9, <3>2
      <4>2. g[o] = h[o]
        BY <1>4, <3>2
      <4> QED
        BY <2>3, <4>1, <4>2
    <3> QED
      BY <3>1, <3>2
  <2> QED
    BY <2>3, <2>4, <2>7, <2>9 DEF Traffic, w, t
<1>16. \A o \in Op : g[o].about = h[o].about /\ g[o].outcome = h[o].outcome
                     /\ (g[o].st = "unasked" <=> h[o].st = "unasked")
  BY <1>4, <1>7
<1>17. Excused(h) => Excused(g)
  BY <1>16, Kinds DEF Excused
<1>18. Orderly(g)
  <2> SUFFICES ASSUME ~Excused(g), NEW o \in RadioOp
               PROVE  g[o].own /\ (g[o].st = "done" => g[o].hears = {})
    BY DEF Orderly
  <2>1. o \in Op /\ h[o].own /\ (h[o].st = "done" => h[o].hears = {})
    BY <1>17, Kinds DEF Mid, Orderly
  <2>2. CASE o \in begin
    <3>1. g[o].own /\ g[o].st = "running"
      BY <1>7, <2>1, <2>2
    <3> QED
      BY <3>1
  <2>3. CASE o \notin begin
    <3>1. g[o] = h[o]
      BY <1>4, <2>1, <2>3
    <3> QED
      BY <2>1, <3>1
  <2> QED
    BY <2>2, <2>3
<1>19. Apart(g)
  <2>1. \A o \in Op : g[o].st \in {"queued", "running"} => h[o].st \in {"queued", "running"}
    BY <1>4, <1>7
  <2> QED
    BY <1>16, <2>1, Kinds DEF Mid, Apart
<1>20. Deaf(g)
  <2> SUFFICES ASSUME NEW o \in StatusOp, g[o].st = "running", "Status" \notin g[o].hears
               PROVE  \E p \in StatusOp \ {o} : g[p].st = "done" /\ ~g[p].own
    BY DEF Deaf
  <2>1. o \in Op
    BY Kinds
  <2>2. o \notin begin
    BY <1>7, <2>1, Listeners
  <2>3. PICK p \in StatusOp \ {o} : h[p].st = "done" /\ ~h[p].own
    BY <1>4, <2>1, <2>2 DEF Mid, Deaf
  <2>4. p \in Op
    BY Kinds
  <2>5. p \notin begin
    BY <1>7, <2>3, <2>4
  <2>6. g[p] = h[p]
    BY <1>4, <2>4, <2>5
  <2> QED
    BY <2>3, <2>6
<1> QED
  BY <1>8, <1>12, <1>13, <1>15, <1>18, <1>19, <1>20 DEF g

\* The invariant, said of the next values, is the invariant of the next state.
LEMMA Primed ==
    ASSUME IInv, kind' = kind,
           Commands(op'), Queues(op', lane'), HeadRuns(op', lane'),
           Traffic(op', link', air'), Orderly(op'), Apart(op'), Deaf(op')
    PROVE  IInv'
<1>1. /\ PathOp' = PathOp /\ TimeOp' = TimeOp /\ AskOp' = AskOp
      /\ TelemetryOp' = TelemetryOp /\ TraceOp' = TraceOp
      /\ StatusOp' = StatusOp /\ MessageOp' = MessageOp
  BY DEF of, PathOp, TimeOp, AskOp, TelemetryOp, TraceOp, StatusOp, MessageOp
<1>2. RadioOp' = RadioOp
  BY <1>1 DEF RadioOp
<1>3. \A o : listeners(o)' = listeners(o)
  BY <1>1 DEF listeners
<1>4. (Commands(op))'
  BY <1>1, <1>3 DEF Commands, Sound
<1>5. (Queues(op, lane))'
  BY <1>1, <1>2 DEF Queues, Fits
<1>6. (HeadRuns(op, lane))'
  BY DEF HeadRuns
<1>7. (Traffic(op, link, air))'
  BY <1>1 DEF Traffic
<1>8. (Orderly(op))'
  BY <1>1, <1>2 DEF Orderly, Excused
<1>9. (Apart(op))' /\ (Deaf(op))'
  BY <1>1 DEF Apart, Deaf
<1>10. (kind \in [Op -> Kind])'
  BY DEF IInv
<1> QED
  BY <1>4, <1>5, <1>6, <1>7, <1>8, <1>9, <1>10 DEF IInv

\* Whatever led to Mid, the lanes advance to the invariant.
LEMMA Proceeds ==
    ASSUME IInv, NEW g, NEW lanes, NEW written, Mid(g, lanes, written, air'),
           Proceed(g, lanes, written)
    PROVE  IInv'
<1>1. kind' = kind /\ kind \in [Op -> Kind]
  BY DEF Proceed, IInv
<1>2. PICK h \in {shared(g)} :
          \E left \in {[l \in DOMAIN lanes |-> advanced(h, lanes[l])]} :
          \E begin \in {beginning(h, left)} :
              /\ lane' = left /\ link' = written \o SetToSeq(begin)
              /\ op' = [o \in Op |-> IF o \in begin
                           THEN [h[o] EXCEPT !.st = "running", !.hears = listeners(o)]
                           ELSE h[o]]
  BY DEF Proceed
<1>3. PICK left \in {[l \in DOMAIN lanes |-> advanced(h, lanes[l])]} :
          \E begin \in {beginning(h, left)} :
              /\ lane' = left /\ link' = written \o SetToSeq(begin)
              /\ op' = [o \in Op |-> IF o \in begin
                           THEN [h[o] EXCEPT !.st = "running", !.hears = listeners(o)]
                           ELSE h[o]]
  BY <1>2
<1>4. PICK begin \in {beginning(h, left)} :
              /\ lane' = left /\ link' = written \o SetToSeq(begin)
              /\ op' = [o \in Op |-> IF o \in begin
                           THEN [h[o] EXCEPT !.st = "running", !.hears = listeners(o)]
                           ELSE h[o]]
  BY <1>3
<1>5. /\ h = shared(g) /\ left = [l \in DOMAIN lanes |-> advanced(h, lanes[l])]
      /\ begin = beginning(h, left) /\ op' = started(h, begin)
  BY <1>4 DEF started
<1>8. Mid(h, lanes, written, air')
  BY <1>1, <1>5, SharedKeeps
<1>6. /\ Commands(started(h, begin))
      /\ Queues(started(h, begin), left) /\ HeadRuns(started(h, begin), left)
      /\ Traffic(started(h, begin), written \o SetToSeq(begin), air')
      /\ Orderly(started(h, begin)) /\ Apart(started(h, begin)) /\ Deaf(started(h, begin))
  BY <1>1, <1>5, <1>8, AdvanceSettles
<1>7. /\ Commands(op') /\ Queues(op', lane') /\ HeadRuns(op', lane')
      /\ Traffic(op', link', air') /\ Orderly(op') /\ Apart(op') /\ Deaf(op')
  BY <1>4, <1>5, <1>6
<1> QED
  BY <1>1, <1>7, Primed

-------------------------------------------------------------------------------
\* The actions.

\* What a command becomes when it is asked for.
Asks(o, x) ==
    /\ op[o].st = "unasked" /\ Sound(o, x) /\ x.hears = {}
    /\ x.st \in {"queued", "joined", "done"}
    /\ x.st = "done" <=> o \in MessageOp
    /\ o \in StatusOp /\ x.st = "queued" => ~inFlightStatus(x.about)

\* What a change of that command alone leaves true.
Joins(o, x, g) ==
    /\ Commands(g) /\ Orderly(g) /\ Apart(g) /\ Deaf(g)
    /\ g[o] = x
    /\ \A p \in Op : p # o => g[p] = op[p]
    /\ o \notin ToSet(link) \cup air
    /\ \A l \in Lanes : \A i \in DOMAIN lane[l] :
            lane[l][i] # o /\ g[lane[l][i]] = op[lane[l][i]]

\* A command that is asked for leaves the others and the invariant as they are.
LEMMA Asked ==
    ASSUME IInv, NEW o \in Op, NEW x, Asks(o, x), NEW g, g = [op EXCEPT ![o] = x]
    PROVE  Joins(o, x, g)
<1> USE DEF Asks
<1>1. kind \in [Op -> Kind] /\ DOMAIN op = Op
  BY DEF IInv, Commands
<1>2. g[o] = x /\ DOMAIN g = Op /\ \A p \in Op : p # o => g[p] = op[p]
  BY <1>1
<1>3. Commands(g)
  BY <1>2 DEF IInv, Commands
<1>4. \A p \in Op : op[p].st # "unasked" => g[p] = op[p]
  BY <1>2
<1>5. Excused(op) => Excused(g)
  <2>1. \A p \in MessageOp \cup StatusOp : op[p].st # "unasked" => g[p].st # "unasked"
    BY <1>1, <1>4, Kinds
  <2>2. \A p \in RadioOp : op[p].outcome = "timeout" => g[p].outcome = "timeout"
    <3> SUFFICES ASSUME NEW p \in RadioOp, op[p].outcome = "timeout"
                 PROVE  g[p].outcome = "timeout"
      OBVIOUS
    <3>1. p \in Op
      BY <1>1, Kinds
    <3>2. op[p].st = "done"
      BY <3>1 DEF IInv, Commands, Sound
    <3> QED
      BY <1>4, <3>1, <3>2
  <2> QED
    BY <2>1, <2>2 DEF Excused
<1>6. Orderly(g)
  <2> SUFFICES ASSUME ~Excused(g), NEW p \in RadioOp
               PROVE  g[p].own /\ (g[p].st = "done" => g[p].hears = {})
    BY DEF Orderly
  <2>1. p \in Op /\ op[p].own /\ (op[p].st = "done" => op[p].hears = {})
    BY <1>1, <1>5, Kinds DEF IInv, Orderly
  <2>2. CASE p = o
    <3>1. g[p] = x /\ x.st # "done"
      BY <1>1, <1>2, <2>2, Kinds
    <3>2. x.own
      BY <2>2, <3>1 DEF Sound
    <3> QED
      BY <3>1, <3>2
  <2>3. CASE p # o
    <3>1. g[p] = op[p]
      BY <1>2, <2>1, <2>3
    <3> QED
      BY <2>1, <3>1
  <2> QED
    BY <2>2, <2>3
<1>7. Apart(g)
  <2> SUFFICES ASSUME NEW p \in StatusOp, NEW q \in StatusOp \ {p},
                      g[p].st \in {"queued", "running"}, g[q].st \in {"queued", "running"}
               PROVE  g[q].about # g[p].about
    BY DEF Apart
  <2>1. p \in Op /\ q \in Op
    BY <1>1, Kinds
  <2>2. CASE p # o /\ q # o
    <3>1. g[p] = op[p] /\ g[q] = op[q]
      BY <1>2, <2>1, <2>2
    <3> QED
      BY <3>1 DEF IInv, Apart
  <2>3. CASE p = o
    <3>1. g[p] = x /\ g[q] = op[q]
      BY <1>2, <2>1, <2>3
    <3> QED
      BY <2>3, <3>1 DEF inFlightStatus
  <2>4. CASE q = o
    <3>1. g[q] = x /\ g[p] = op[p]
      BY <1>2, <2>1, <2>4
    <3> QED
      BY <2>4, <3>1 DEF inFlightStatus
  <2> QED
    BY <2>2, <2>3, <2>4
<1>8. Deaf(g)
  <2> SUFFICES ASSUME NEW p \in StatusOp, g[p].st = "running", "Status" \notin g[p].hears
               PROVE  \E q \in StatusOp \ {p} : g[q].st = "done" /\ ~g[q].own
    BY DEF Deaf
  <2>1. p \in Op /\ g[p] = op[p]
    BY <1>1, <1>2, Kinds
  <2>2. PICK q \in StatusOp \ {p} : op[q].st = "done" /\ ~op[q].own
    BY <2>1 DEF IInv, Deaf
  <2>3. q \in Op /\ op[q].st # "unasked"
    BY <1>1, <2>2, Kinds
  <2>4. g[q] = op[q]
    BY <1>4, <2>3
  <2> QED
    BY <2>2, <2>4
<1>9. o \notin ToSet(link) \cup air
  BY DEF IInv, Traffic
<1>10. ASSUME NEW l \in Lanes, NEW i \in DOMAIN lane[l]
       PROVE  lane[l][i] # o /\ g[lane[l][i]] = op[lane[l][i]]
  <2>1. lane[l] \in Seq(Op)
    BY DEF IInv, Queues
  <2>2. lane[l][i] \in Op /\ lane[l] # <<>>
    BY <2>1
  <2>3. op[lane[l][i]].st \in {"queued", "running"}
    BY <2>2 DEF IInv, Queues, HeadRuns
  <2> QED
    BY <1>2, <2>2, <2>3
<1> QED
  BY <1>2, <1>3, <1>6, <1>7, <1>8, <1>9, <1>10 DEF Joins

\* A command goes to the end of its lane.
LEMMA Enqueued ==
    ASSUME IInv, NEW o \in Op, NEW x, Asks(o, x), x.st = "queued", NEW l \in Lanes, Fits(l, o),
           NEW g, g = [op EXCEPT ![o] = x],
           NEW lanes, lanes = [lane EXCEPT ![l] = Append(lane[l], o)]
    PROVE  Mid(g, lanes, link, air)
<1>1. kind \in [Op -> Kind]
  BY DEF IInv
<1>2. o \notin MessageOp
  BY <1>1, Kinds DEF Fits
<1>3. /\ Commands(g) /\ Orderly(g) /\ Apart(g) /\ Deaf(g)
      /\ g[o] = x /\ \A p \in Op : p # o => g[p] = op[p]
      /\ o \notin ToSet(link) \cup air
      /\ \A m \in Lanes : \A i \in DOMAIN lane[m] :
            lane[m][i] # o /\ g[lane[m][i]] = op[lane[m][i]]
  <2>1. Joins(o, x, g)
    BY Asked
  <2> QED
    BY <2>1 DEF Joins
<1>4. Traffic(g, link, air)
  <2>1. \A p \in Op : p \in ToSet(link) \cup air => g[p] = op[p]
    BY <1>3
  <2> QED
    BY <2>1 DEF IInv, Traffic
<1>5. /\ lane \in [Lanes -> Seq(Op)]
      /\ \A m \in Lanes :
            /\ \A i, j \in DOMAIN lane[m] : lane[m][i] = lane[m][j] => i = j
            /\ \A i \in DOMAIN lane[m] :
                /\ Fits(m, lane[m][i])
                /\ i # 1 => op[lane[m][i]].st = "queued"
            /\ \A p \in Op : Fits(m, p) /\ op[p].st = "running" =>
                                lane[m] # <<>> /\ lane[m][1] = p
            /\ lane[m] # <<>> => op[lane[m][1]].st = "running"
  BY DEF IInv, Queues, HeadRuns
<1>6. lanes \in [Lanes -> Seq(Op)] /\ \A m \in Lanes : m # l => lanes[m] = lane[m]
  BY <1>5
<1>7. \A p \in Op : g[p].st = "running" => op[p].st = "running"
  BY <1>3
<1>8. ASSUME NEW m \in Lanes
      PROVE  /\ \A i, j \in DOMAIN lanes[m] : lanes[m][i] = lanes[m][j] => i = j
             /\ \A i \in DOMAIN lanes[m] :
                 /\ Fits(m, lanes[m][i])
                 /\ i # 1 => g[lanes[m][i]].st = "queued"
             /\ \A p \in Op : Fits(m, p) /\ g[p].st = "running" =>
                                lanes[m] # <<>> /\ lanes[m][1] = p
             /\ lanes[m] # <<>> => g[lanes[m][1]].st \in {"queued", "running", "done"}
  <2> DEFINE s == lane[m]
             r == lanes[m]
  <2>1. s \in Seq(Op) /\ r \in Seq(Op)
    BY <1>5, <1>6
  <2>2. /\ \A i, j \in DOMAIN s : s[i] = s[j] => i = j
        /\ \A i \in DOMAIN s : /\ Fits(m, s[i]) /\ s[i] # o /\ g[s[i]] = op[s[i]]
                               /\ i # 1 => op[s[i]].st = "queued"
        /\ \A p \in Op : Fits(m, p) /\ op[p].st = "running" => s # <<>> /\ s[1] = p
        /\ s # <<>> => op[s[1]].st = "running"
    BY <1>3, <1>5
  <2>3. CASE m # l
    <3>1. r = s
      BY <1>6, <2>3
    <3>2. s # <<>> => 1 \in DOMAIN s
      BY <2>1
    <3> HIDE DEF r, s
    <3> QED
      BY <1>7, <2>2, <3>1, <3>2 DEF r
  <2>4. CASE m = l
    <3>1. r = Append(s, o)
      BY <1>5, <2>4
    <3> HIDE DEF r, s
    <3>2. /\ DOMAIN s = 1 .. Len(s) /\ Len(s) \in Nat /\ DOMAIN r = 1 .. (Len(s) + 1)
          /\ \A i \in 1 .. Len(s) : r[i] = s[i]
          /\ r[Len(s) + 1] = o /\ (s # <<>> <=> Len(s) # 0)
      BY <2>1, <3>1
    <3>3. \A i, j \in DOMAIN r : r[i] = r[j] => i = j
      BY <2>2, <3>2
    <3>4. ASSUME NEW i \in DOMAIN r PROVE Fits(m, r[i]) /\ (i # 1 => g[r[i]].st = "queued")
      <4>1. CASE i \in DOMAIN s
        BY <2>2, <3>2, <4>1
      <4>2. CASE i = Len(s) + 1
        BY <1>3, <2>4, <3>2, <4>2
      <4> QED
        BY <3>2, <4>1, <4>2
    <3>5. ASSUME NEW p \in Op, Fits(m, p), g[p].st = "running" PROVE r # <<>> /\ r[1] = p
      <4>1. s # <<>> /\ s[1] = p
        BY <1>7, <2>2, <3>5
      <4>2. 1 \in 1 .. Len(s)
        BY <3>2, <4>1
      <4>3. r[1] = p /\ 1 \in DOMAIN r
        BY <3>2, <4>1, <4>2
      <4> QED
        BY <4>3
    <3>6. g[r[1]].st \in {"queued", "running", "done"}
      <4>1. CASE s = <<>>
        BY <1>3, <3>2, <4>1
      <4>2. CASE s # <<>>
        <5>1. 1 \in 1 .. Len(s)
          BY <3>2, <4>2
        <5>2. r[1] = s[1] /\ g[s[1]] = op[s[1]]
          BY <2>2, <3>2, <5>1
        <5> QED
          BY <2>2, <4>2, <5>2
      <4> QED
        BY <4>1, <4>2
    <3> QED
      BY <3>3, <3>4, <3>5, <3>6 DEF r
  <2> QED
    BY <2>3, <2>4
<1>9. \A p \in MessageOp : g[p].st \in {"unasked", "done"}
  <2>1. \A p \in MessageOp : p \in Op /\ op[p].st \in {"unasked", "done"}
    BY <1>1, Kinds DEF IInv, Queues
  <2> SUFFICES ASSUME NEW p \in MessageOp PROVE g[p].st \in {"unasked", "done"}
    OBVIOUS
  <2>2. p # o
    BY <1>2
  <2>3. g[p] = op[p]
    BY <1>3, <2>1, <2>2
  <2> QED
    BY <2>1, <2>3
<1>10. Queues(g, lanes)
  BY <1>6, <1>8, <1>9 DEF Queues
<1>11. HeadStands(g, lanes)
  BY <1>8 DEF HeadStands
<1> QED
  BY <1>3, <1>4, <1>10, <1>11 DEF Mid

\* The fields of a command that has only been asked for.
LEMMA Unasked ==
    ASSUME IInv, NEW o \in Op, op[o].st = "unasked"
    PROVE  /\ op[o] \in Command /\ op[o].hears = {} /\ op[o].sent = None
           /\ op[o].own /\ op[o].outcome = "none"
  BY DEF IInv, Commands, Sound

\* runExclusiveRadioOp keeps the invariant.
LEMMA RadioAsked ==
    ASSUME IInv, NEW o \in Op, runExclusiveRadioOp(o)
    PROVE  IInv'
<1> DEFINE x == [op[o] EXCEPT !.st = "queued"]
<1>1. op[o].st = "unasked" /\ o \in RadioOp /\ kind \in [Op -> Kind] /\ air' = air
  BY DEF runExclusiveRadioOp, IInv
<1>2. /\ op[o] \in Command /\ op[o].hears = {} /\ op[o].sent = None
      /\ op[o].own /\ op[o].outcome = "none"
  BY <1>1, Unasked
<1>3. x \in Command /\ x.st = "queued" /\ x.hears = {} /\ x.sent = None /\ x.outcome = "none"
  BY <1>2 DEF Command, Steps
<1>4. x.own
  BY <1>2 DEF Command
<1>5. o \notin StatusOp /\ o \notin MessageOp
  BY <1>1, Kinds
<1>6. Asks(o, x) /\ Fits("radio", o) /\ "radio" \in Lanes
  <2> HIDE DEF x
  <2> QED
    BY <1>1, <1>3, <1>4, <1>5 DEF Asks, Sound, Fits, Lanes
<1> DEFINE g == [op EXCEPT ![o].st = "queued"]
           lanes == [lane EXCEPT !["radio"] = Append(@, o)]
<1>7. Proceed(g, lanes, link)
  BY DEF runExclusiveRadioOp
<1>8. g = [op EXCEPT ![o] = x] /\ lanes = [lane EXCEPT !["radio"] = Append(lane["radio"], o)]
  OBVIOUS
<1> HIDE DEF g, lanes, x
<1>9. Mid(g, lanes, link, air)
  BY <1>3, <1>6, <1>8, Enqueued
<1> QED
  BY <1>1, <1>7, <1>9, Proceeds

\* getStatusSerialized keeps the invariant, joined or queued.
LEMMA StatusAsked ==
    ASSUME IInv, NEW o \in Op, NEW c \in Contact, getStatusSerialized(o, c)
    PROVE  IInv'
<1>1. op[o].st = "unasked" /\ o \in StatusOp /\ kind \in [Op -> Kind] /\ air' = air
  BY DEF getStatusSerialized, IInv
<1>2. /\ op[o] \in Command /\ op[o].hears = {} /\ op[o].sent = None
      /\ op[o].own /\ op[o].outcome = "none"
  BY <1>1, Unasked
<1>3. o \notin MessageOp
  BY <1>1, Kinds
<1>4. CASE inFlightStatus(c)
  <2> DEFINE x == [op[o] EXCEPT !.st = "joined", !.about = c]
  <2>1. /\ x \in Command /\ x.st = "joined" /\ x.hears = {} /\ x.sent = None
        /\ x.outcome = "none" /\ x.about = c
    BY <1>2 DEF Command, Steps
  <2>2. x.own
    BY <1>2 DEF Command
  <2>3. op' = [op EXCEPT ![o] = x] /\ kind' = kind /\ lane' = lane /\ link' = link
    BY <1>4 DEF getStatusSerialized
  <2> HIDE DEF x
  <2>4. Asks(o, x)
    BY <1>1, <1>3, <2>1, <2>2 DEF Asks, Sound
  <2>5. /\ Commands(op') /\ Orderly(op') /\ Apart(op') /\ Deaf(op')
        /\ op'[o] = x /\ \A p \in Op : p # o => op'[p] = op[p]
        /\ o \notin ToSet(link) \cup air
        /\ \A l \in Lanes : \A i \in DOMAIN lane[l] :
              lane[l][i] # o /\ op'[lane[l][i]] = op[lane[l][i]]
    <3>1. Joins(o, x, op')
      BY <2>3, <2>4, Asked
    <3> QED
      BY <3>1 DEF Joins
  <2>6. Traffic(op', link, air)
    <3>1. \A p \in Op : p \in ToSet(link) \cup air => op'[p] = op[p]
      BY <2>5
    <3> QED
      BY <3>1 DEF IInv, Traffic
  <2>7. Queues(op', lane)
    <3>1. \A p \in MessageOp : p \in Op /\ op'[p] = op[p]
      BY <1>1, <1>3, <2>5, Kinds
    <3>2. \A p \in Op : op'[p].st = "running" => op[p].st = "running"
      BY <2>1, <2>5
    <3> QED
      BY <2>5, <3>1, <3>2 DEF IInv, Queues
  <2>8. HeadRuns(op', lane)
    <3> SUFFICES ASSUME NEW l \in Lanes, lane[l] # <<>> PROVE op'[lane[l][1]].st = "running"
      BY DEF HeadRuns
    <3>1. lane[l] \in Seq(Op)
      BY DEF IInv, Queues
    <3>2. 1 \in DOMAIN lane[l]
      BY <3>1
    <3> QED
      BY <2>5, <3>2 DEF IInv, HeadRuns
  <2> QED
    BY <1>1, <2>3, <2>5, <2>6, <2>7, <2>8, Primed
<1>5. CASE ~inFlightStatus(c)
  <2> DEFINE x == [op[o] EXCEPT !.st = "queued", !.about = c]
             g == [op EXCEPT ![o].st = "queued", ![o].about = c]
             lanes == [lane EXCEPT !["status"] = Append(@, o)]
  <2>1. /\ x \in Command /\ x.st = "queued" /\ x.hears = {} /\ x.sent = None
        /\ x.outcome = "none" /\ x.about = c
    BY <1>2 DEF Command, Steps
  <2>2. x.own
    BY <1>2 DEF Command
  <2>3. DOMAIN op = Op
    BY DEF IInv, Commands
  <2>4. Proceed(g, lanes, link)
    BY <1>5 DEF getStatusSerialized
  <2>5. g = [op EXCEPT ![o] = x] /\ lanes = [lane EXCEPT !["status"] = Append(lane["status"], o)]
    BY <2>3
  <2> HIDE DEF g, lanes, x
  <2>6. Asks(o, x) /\ Fits("status", o) /\ "status" \in Lanes
    BY <1>1, <1>3, <1>5, <2>1, <2>2 DEF Asks, Sound, Fits, Lanes
  <2>7. Mid(g, lanes, link, air)
    BY <2>1, <2>5, <2>6, Enqueued
  <2> QED
    BY <1>1, <2>4, <2>7, Proceeds
<1> QED
  BY <1>4, <1>5

\* sendMessage, which takes no lock, keeps the invariant.
LEMMA MessageSent ==
    ASSUME IInv, NEW o \in Op, sendMessage(o)
    PROVE  IInv'
<1> DEFINE x == [op[o] EXCEPT !.st = "done"]
<1>1. /\ op[o].st = "unasked" /\ o \in MessageOp /\ kind \in [Op -> Kind]
      /\ op' = [op EXCEPT ![o] = x] /\ link' = Append(link, o)
      /\ kind' = kind /\ lane' = lane /\ air' = air
  BY DEF sendMessage, IInv
<1>2. /\ op[o] \in Command /\ op[o].hears = {} /\ op[o].sent = None /\ op[o].outcome = "none"
  BY <1>1, Unasked
<1>3. x \in Command /\ x.st = "done" /\ x.hears = {} /\ x.sent = None /\ x.outcome = "none"
  BY <1>2 DEF Command, Steps
<1> HIDE DEF x
<1>4. Asks(o, x)
  BY <1>1, <1>3 DEF Asks, Sound
<1>5. Joins(o, x, op')
  BY <1>1, <1>4, Asked
<1>6. /\ Commands(op') /\ Orderly(op') /\ Apart(op') /\ Deaf(op')
      /\ op'[o] = x /\ \A p \in Op : p # o => op'[p] = op[p]
      /\ o \notin ToSet(link) \cup air
      /\ \A l \in Lanes : \A i \in DOMAIN lane[l] :
            lane[l][i] # o /\ op'[lane[l][i]] = op[lane[l][i]]
  BY <1>5 DEF Joins
<1>7. Traffic(op', Append(link, o), air)
  <2> DEFINE w == Append(link, o)
  <2>1. /\ link \in Seq(Op)
        /\ \A i, j \in DOMAIN link : link[i] = link[j] => i = j
    BY DEF IInv, Traffic
  <2>2. /\ w \in Seq(Op) /\ DOMAIN w = 1 .. (Len(link) + 1) /\ DOMAIN link = 1 .. Len(link)
        /\ Len(link) \in Nat /\ w[Len(link) + 1] = o
        /\ \A i \in 1 .. Len(link) : w[i] = link[i]
    BY <2>1
  <2> HIDE DEF w
  <2>3. \A i \in DOMAIN link : link[i] \in ToSet(link)
    BY DEF ToSet
  <2>4. \A i, j \in DOMAIN w : w[i] = w[j] => i = j
    BY <1>6, <2>1, <2>2, <2>3
  <2>5. \A p \in ToSet(w) : p = o \/ p \in ToSet(link)
    BY <2>2, <2>3 DEF ToSet
  <2>6. ASSUME NEW p \in Op, p \in ToSet(w) \cup air
        PROVE  /\ op'[p].st \in {"running", "done"}
               /\ ~(p \in ToSet(w) /\ p \in air)
               /\ op'[p].st = "done" /\ op'[p].own => p \in MessageOp
    <3>1. CASE p = o
      BY <1>1, <1>3, <1>6, <3>1
    <3>2. CASE p # o
      <4>1. op'[p] = op[p] /\ p \in ToSet(link) \cup air /\ (p \in ToSet(w) => p \in ToSet(link))
        BY <1>6, <2>5, <2>6, <3>2
      <4> QED
        BY <4>1 DEF IInv, Traffic
    <3> QED
      BY <3>1, <3>2
  <2> QED
    BY <2>2, <2>4, <2>6 DEF IInv, Traffic, w
<1>8. Queues(op', lane)
  <2>1. \A p \in MessageOp : p \in Op /\ op'[p].st \in {"unasked", "done"}
    <3> SUFFICES ASSUME NEW p \in MessageOp PROVE p \in Op /\ op'[p].st \in {"unasked", "done"}
      OBVIOUS
    <3>1. p \in Op /\ op[p].st \in {"unasked", "done"}
      BY <1>1, Kinds DEF IInv, Queues
    <3> QED
      BY <1>3, <1>6, <3>1
  <2>2. \A p \in Op : op'[p].st = "running" => op[p].st = "running"
    BY <1>3, <1>6
  <2> QED
    BY <1>6, <2>1, <2>2 DEF IInv, Queues
<1>9. HeadRuns(op', lane)
  <2> SUFFICES ASSUME NEW l \in Lanes, lane[l] # <<>> PROVE op'[lane[l][1]].st = "running"
    BY DEF HeadRuns
  <2>1. lane[l] \in Seq(Op)
    BY DEF IInv, Queues
  <2>2. 1 \in DOMAIN lane[l]
    BY <2>1
  <2> QED
    BY <1>6, <2>2 DEF IInv, HeadRuns
<1> QED
  BY <1>1, <1>6, <1>7, <1>8, <1>9, Primed

\* A command that is given up: the lanes advance past it.
LEMMA GivesUp ==
    ASSUME IInv, NEW o \in Op, NEW x, Reacts(o, x, link, air), air' = air,
           Proceed([op EXCEPT ![o] = x], lane, link)
    PROVE  IInv'
<1> DEFINE g == [op EXCEPT ![o] = x]
<1>1. DOMAIN g = Op /\ g[o] = x /\ \A p \in Op : p # o => g[p] = op[p]
  BY DEF IInv, Commands
<1> HIDE DEF g
<1>2. ASSUME NEW p \in Op PROVE Reacts(p, g[p], link, air)
  <2>1. CASE p = o
    BY <1>1, <2>1
  <2>2. CASE p # o
    <3>1. g[p] = op[p] /\ Sound(p, op[p])
      BY <1>1, <2>2 DEF IInv, Commands
    <3> QED
      BY <3>1 DEF Reacts
  <2> QED
    BY <2>1, <2>2
<1>3. /\ link \in Seq(Op) /\ \A i, j \in DOMAIN link : link[i] = link[j] => i = j
      /\ air \subseteq AskOp \cup TelemetryOp \cup TraceOp \cup StatusOp
  BY DEF IInv, Traffic
<1>4. ToSet(link) \cap air = {}
  <2>1. \A p \in ToSet(link) : p \in Op
    BY <1>3 DEF ToSet
  <2> QED
    BY <2>1 DEF IInv, Traffic
<1>5. Mid(g, lane, link, air)
  BY <1>1, <1>2, <1>3, <1>4, Reaction
<1> QED
  BY <1>5, Proceeds DEF g

\* A timer that settles a running command, or one whose lane has moved on.
LEMMA TimerSettles ==
    ASSUME IInv, NEW o \in Op, op[o].st \in {"running", "done"}
    PROVE  Reacts(o, settle(o, "timeout", FALSE), link, air)
<1> DEFINE x == op[o]
           y == settle(o, "timeout", FALSE)
<1>1. Sound(o, x) /\ x \in Command
  BY DEF IInv, Commands, Sound
<1>2. CASE x.st = "done"
  <2>1. y = [x EXCEPT !.hears = {}]
    BY <1>2 DEF settle
  <2>2. y \in Command /\ y.hears = {} /\ y.sent = x.sent
    BY <1>1, <2>1 DEF Command
  <2>3. y.st = x.st /\ y.outcome = x.outcome /\ y.about = x.about
    BY <1>1, <2>1 DEF Command
  <2>4. y.own = x.own
    BY <1>1, <2>1 DEF Command
  <2> HIDE DEF x, y
  <2>5. Sound(o, y)
    BY <1>1, <1>2, <2>2, <2>3 DEF Sound
  <2>6. Reacts(o, y, link, air)
    BY <1>2, <2>2, <2>3, <2>4, <2>5 DEF Reacts, x
  <2> QED
    BY <2>6 DEF y
<1>3. CASE x.st = "running"
  <2>1. y = [x EXCEPT !.st = "done", !.hears = {}, !.sent = None, !.own = FALSE,
                      !.outcome = "timeout"]
    BY <1>3 DEF settle
  <2>2. /\ y \in Command /\ y.hears = {} /\ y.sent = None /\ y.st = "done"
        /\ y.outcome = "timeout" /\ y.about = x.about
    BY <1>1, <2>1 DEF Command, Steps, Outcomes
  <2>3. ~y.own
    BY <1>1, <2>1 DEF Command
  <2> HIDE DEF x, y
  <2>4. Sound(o, y)
    BY <2>2 DEF Sound
  <2>5. Reacts(o, y, link, air)
    BY <1>3, <2>2, <2>3, <2>4 DEF Reacts, x
  <2> QED
    BY <2>5 DEF y
<1> QED
  BY <1>2, <1>3

\* The timers of the commands keep the invariant.
LEMMA OwnTimerKeeps ==
    ASSUME IInv, NEW o \in Op, OwnTimer(o)
    PROVE  IInv'
<1>1. op[o].st = "running" /\ air' = air
      /\ Proceed([op EXCEPT ![o] = settle(o, "timeout", FALSE)], lane, link)
  BY DEF OwnTimer
<1>2. Reacts(o, settle(o, "timeout", FALSE), link, air)
  BY <1>1, TimerSettles
<1> QED
  BY <1>1, <1>2, GivesUp

\* So does the timer of the library, which runs on when the lane has moved on.
LEMMA LibraryTimerKeeps ==
    ASSUME IInv, NEW o \in Op, LibraryTimer(o)
    PROVE  IInv'
<1>1. op[o].sent # None /\ air' = air
      /\ Proceed([op EXCEPT ![o] = settle(o, "timeout", FALSE)], lane, link)
  BY DEF LibraryTimer
<1>2. op[o].st \in {"running", "done"}
  BY <1>1 DEF IInv, Commands, Sound, Command, Steps
<1>3. Reacts(o, settle(o, "timeout", FALSE), link, air)
  BY <1>2, TimerSettles
<1> QED
  BY <1>1, <1>3, GivesUp

\* The backstop of the lock keeps the invariant although the listeners stay.
LEMMA BackstopKeeps ==
    ASSUME IInv, NEW o \in Op, Backstop(o)
    PROVE  IInv'
<1> DEFINE x == op[o]
           y == [x EXCEPT !.st = "done", !.outcome = "timeout", !.own = FALSE, !.sent = None]
           g == [op EXCEPT ![o].st = "done", ![o].outcome = "timeout",
                           ![o].own = FALSE, ![o].sent = None]
<1>1. x.st = "running" /\ air' = air /\ Proceed(g, lane, link)
  BY DEF Backstop
<1>2. Sound(o, x) /\ x \in Command /\ DOMAIN op = Op
  BY DEF IInv, Commands, Sound
<1>3. g = [op EXCEPT ![o] = y]
  BY <1>2
<1>4. /\ y \in Command /\ y.hears = x.hears /\ y.sent = None /\ y.st = "done"
      /\ y.outcome = "timeout" /\ y.about = x.about
  BY <1>2 DEF Command, Steps, Outcomes
<1>5. ~y.own
  BY <1>2 DEF Command
<1> HIDE DEF x, y, g
<1>6. Sound(o, y)
  BY <1>2, <1>4 DEF Sound
<1>7. Reacts(o, y, link, air)
  BY <1>1, <1>4, <1>5, <1>6 DEF Reacts, x
<1> QED
  BY <1>1, <1>3, <1>7, GivesUp

\* What the companion has answered is off the link for good.
LEMMA LinkAdvances ==
    ASSUME IInv, link # <<>>
    PROVE  /\ Head(link) \in Op /\ Head(link) \in ToSet(link)
           /\ Tail(link) \in Seq(Op)
           /\ \A i, j \in DOMAIN Tail(link) : Tail(link)[i] = Tail(link)[j] => i = j
           /\ \A p \in ToSet(Tail(link)) : p \in ToSet(link) /\ p # Head(link)
<1> DEFINE t == Tail(link)
<1>1. link \in Seq(Op) /\ \A i, j \in DOMAIN link : link[i] = link[j] => i = j
  BY DEF IInv, Traffic
<1>2. /\ t \in Seq(Op) /\ DOMAIN t = 1 .. (Len(link) - 1) /\ DOMAIN link = 1 .. Len(link)
      /\ Len(link) \in Nat \ {0} /\ Head(link) = link[1]
      /\ \A i \in 1 .. (Len(link) - 1) : t[i] = link[i + 1]
  BY <1>1
<1> HIDE DEF t
<1>3. 1 \in DOMAIN link /\ Head(link) \in Op
  BY <1>1, <1>2
<1>4. \A i \in DOMAIN t : i \in Nat /\ i + 1 \in DOMAIN link /\ i + 1 # 1 /\ t[i] = link[i + 1]
  BY <1>2
<1>5. \A i, j \in DOMAIN t : t[i] = t[j] => i = j
  <2> SUFFICES ASSUME NEW i \in DOMAIN t, NEW j \in DOMAIN t, t[i] = t[j] PROVE i = j
    OBVIOUS
  <2>1. i + 1 = j + 1
    BY <1>1, <1>4
  <2> QED
    BY <1>4, <2>1
<1>6. \A i \in DOMAIN t : t[i] \in ToSet(link) /\ t[i] # Head(link)
  <2> SUFFICES ASSUME NEW i \in DOMAIN t PROVE t[i] \in ToSet(link) /\ t[i] # Head(link)
    OBVIOUS
  <2>1. i + 1 \in DOMAIN link /\ i + 1 # 1 /\ t[i] = link[i + 1]
    BY <1>4
  <2>2. link[i + 1] # link[1]
    BY <1>1, <1>3, <2>1
  <2> QED
    BY <1>2, <2>1, <2>2 DEF ToSet
<1>7. Head(link) \in ToSet(link)
  BY <1>2, <1>3 DEF ToSet
<1>8. \A p \in ToSet(t) : p \in ToSet(link) /\ p # Head(link)
  BY <1>6 DEF ToSet
<1> QED
  BY <1>2, <1>3, <1>5, <1>7, <1>8 DEF t

\* Nothing is on the link and in the air at once.
LEMMA Separate ==
    ASSUME IInv
    PROVE  /\ ToSet(link) \cap air = {} /\ ToSet(link) \subseteq Op
           /\ air \subseteq AskOp \cup TelemetryOp \cup TraceOp \cup StatusOp
<1>1. /\ link \in Seq(Op)
      /\ air \subseteq AskOp \cup TelemetryOp \cup TraceOp \cup StatusOp
  BY DEF IInv, Traffic
<1>2. ToSet(link) \subseteq Op
  BY <1>1 DEF ToSet
<1> QED
  BY <1>1, <1>2 DEF IInv, Traffic

\* An answer of the companion keeps the invariant.
LEMMA AcceptedKeeps ==
    ASSUME IInv, Accepted
    PROVE  IInv'
<1> DEFINE p == Head(link)
           t == Tail(link)
<1>0. PICK ev \in ack(p) : Proceed(heard(ev, p), lane, t)
  BY DEF Accepted
<1>1. link # <<>> /\ Proceed(heard(ev, p), lane, t)
      /\ air' = IF p \in AskOp \cup TelemetryOp \cup TraceOp \cup StatusOp
                THEN air \cup {p} ELSE air
  BY <1>0 DEF Accepted
<1>2. /\ p \in Op /\ p \in ToSet(link) /\ t \in Seq(Op)
      /\ \A i, j \in DOMAIN t : t[i] = t[j] => i = j
      /\ \A q \in ToSet(t) : q \in ToSet(link) /\ q # p
  BY <1>1, LinkAdvances
<1>3. ev \in {"Ok", "Sent"} /\ ev \in Event /\ ev # "Status"
  BY <1>0 DEF ack, Event
<1>4. kind \in [Op -> Kind] /\ DOMAIN heard(ev, p) = Op
  BY DEF IInv, heard
<1> HIDE DEF p, t
<1>5. /\ ToSet(link) \cap air = {} /\ ToSet(link) \subseteq Op
      /\ air \subseteq AskOp \cup TelemetryOp \cup TraceOp \cup StatusOp
  BY Separate
<1>6. /\ ToSet(t) \cap air' = {} /\ ToSet(t) \cup air' \subseteq ToSet(link) \cup air
      /\ air' \subseteq AskOp \cup TelemetryOp \cup TraceOp \cup StatusOp
      /\ p \in air' => p \notin PathOp \cup TimeOp
      /\ p \notin ToSet(t)
  <2>1. p \notin air
    BY <1>2, <1>5
  <2> QED
    BY <1>1, <1>2, <1>4, <1>5, <2>1, Kinds
<1>7. \A o \in Op : Reacts(o, heard(ev, p)[o], t, air')
  <2>1. p \in ToSet(t) \cup air' => ev \in {"Sent", "Ok"} /\ p \notin PathOp \cup TimeOp
    BY <1>3, <1>6
  <2>2. ev = "Status" => p \in StatusOp
    BY <1>3
  <2>3. p \in ToSet(link) \cup air
    BY <1>2
  <2> QED
    BY <1>2, <1>3, <2>1, <2>2, <2>3, Heard
<1>8. Mid(heard(ev, p), lane, t, air')
  BY <1>2, <1>4, <1>6, <1>7, Reaction
<1> QED
  BY <1>1, <1>8, Proceeds

\* A refusal keeps the invariant.
LEMMA RefusedKeeps ==
    ASSUME IInv, Refused
    PROVE  IInv'
<1> DEFINE p == Head(link)
           t == Tail(link)
<1>1. link # <<>> /\ Proceed(heard("Err", p), lane, t) /\ air' = air
  BY DEF Refused
<1>2. /\ p \in Op /\ p \in ToSet(link) /\ t \in Seq(Op)
      /\ \A i, j \in DOMAIN t : t[i] = t[j] => i = j
      /\ \A q \in ToSet(t) : q \in ToSet(link) /\ q # p
  BY <1>1, LinkAdvances
<1>3. "Err" \in Event /\ DOMAIN heard("Err", p) = Op
  BY DEF Event, heard
<1> HIDE DEF p, t
<1>4. /\ ToSet(link) \cap air = {} /\ ToSet(link) \subseteq Op
      /\ air \subseteq AskOp \cup TelemetryOp \cup TraceOp \cup StatusOp
  BY Separate
<1>5. /\ ToSet(t) \cap air = {} /\ ToSet(t) \cup air \subseteq ToSet(link) \cup air
      /\ p \notin ToSet(t) \cup air
  BY <1>2, <1>4
<1>6. \A o \in Op : Reacts(o, heard("Err", p)[o], t, air)
  <2>1. p \in ToSet(link) \cup air
    BY <1>2
  <2> QED
    BY <1>2, <1>3, <1>5, <2>1, Heard
<1>7. Mid(heard("Err", p), lane, t, air)
  BY <1>2, <1>3, <1>4, <1>5, <1>6, Reaction
<1> QED
  BY <1>1, <1>7, Proceeds

\* So does a command that the companion drops.
LEMMA IgnoredKeeps ==
    ASSUME IInv, Ignored
    PROVE  IInv'
<1> DEFINE t == Tail(link)
<1>1. link # <<>> /\ link' = t /\ kind' = kind /\ op' = op /\ lane' = lane /\ air' = air
  BY DEF Ignored
<1>2. /\ t \in Seq(Op)
      /\ \A i, j \in DOMAIN t : t[i] = t[j] => i = j
      /\ \A q \in ToSet(t) : q \in ToSet(link)
  BY <1>1, LinkAdvances
<1> HIDE DEF t
<1>3. Traffic(op, t, air)
  <2>1. \A q \in Op : q \in ToSet(t) \cup air => q \in ToSet(link) \cup air
    BY <1>2
  <2>2. \A q \in Op : ~(q \in ToSet(t) /\ q \in air)
    BY <1>2 DEF IInv, Traffic
  <2> QED
    BY <1>2, <2>1, <2>2 DEF IInv, Traffic
<1>4. /\ Commands(op') /\ Queues(op', lane') /\ HeadRuns(op', lane')
      /\ Traffic(op', link', air') /\ Orderly(op') /\ Apart(op') /\ Deaf(op')
  BY <1>1, <1>3 DEF IInv
<1> QED
  BY <1>1, <1>4, Primed

\* The answer of a remote node, late or not, keeps the invariant.
LEMMA AnsweredKeeps ==
    ASSUME IInv, NEW p \in Op, Answered(p)
    PROVE  IInv'
<1> DEFINE ev == answer(p)
<1>1. p \in air /\ air' = air \ {p} /\ Proceed(heard(ev, p), lane, link)
  BY DEF Answered
<1>2. kind \in [Op -> Kind] /\ DOMAIN heard(ev, p) = Op
  BY DEF IInv, heard
<1>3. /\ ToSet(link) \cap air = {} /\ ToSet(link) \subseteq Op
      /\ air \subseteq AskOp \cup TelemetryOp \cup TraceOp \cup StatusOp
  BY Separate
<1>4. ev \in {"Binary", "Trace", "Status"} /\ (ev = "Status" => p \in StatusOp)
  BY <1>1, <1>3 DEF answer
<1>5. ev \in Event
  BY <1>4 DEF Event
<1>6. /\ link \in Seq(Op) /\ \A i, j \in DOMAIN link : link[i] = link[j] => i = j
  BY DEF IInv, Traffic
<1> HIDE DEF ev
<1>7. /\ ToSet(link) \cap air' = {} /\ ToSet(link) \cup air' \subseteq ToSet(link) \cup air
      /\ air' \subseteq AskOp \cup TelemetryOp \cup TraceOp \cup StatusOp
      /\ p \notin ToSet(link) \cup air' /\ p \in ToSet(link) \cup air
  BY <1>1, <1>3
<1>8. \A o \in Op : Reacts(o, heard(ev, p)[o], link, air')
  BY <1>4, <1>5, <1>7, Heard
<1>9. Mid(heard(ev, p), lane, link, air')
  BY <1>2, <1>6, <1>7, <1>8, Reaction
<1> QED
  BY <1>1, <1>9, Proceeds

-------------------------------------------------------------------------------
\* The theorems.

\* The invariant holds before any command.
LEMMA Initially == Init => IInv
<1> SUFFICES ASSUME Init PROVE IInv
  OBVIOUS
<1>1. /\ kind \in [Op -> Kind] /\ op = [o \in Op |-> Idle]
      /\ lane = [l \in Lanes |-> <<>>] /\ link = <<>> /\ air = {}
  BY DEF Init, Lanes
<1>2. /\ Idle \in Command /\ Idle.hears = {} /\ Idle.sent = None /\ Idle.st = "unasked"
      /\ Idle.outcome = "none" /\ Idle.own
  BY DEF Idle, Command, Steps, Outcomes
<1>3. \A o \in Op : op[o] = Idle
  BY <1>1
<1> HIDE DEF Idle
<1>4. Commands(op)
  BY <1>1, <1>2, <1>3 DEF Commands, Sound
<1>5. \A l \in Lanes : lane[l] = <<>> /\ DOMAIN lane[l] = {}
  BY <1>1
<1>6. lane \in [Lanes -> Seq(Op)]
  BY <1>1
<1>7. Queues(op, lane)
  <2>1. \A o \in MessageOp : o \in Op
    BY <1>1, Kinds
  <2> QED
    BY <1>2, <1>3, <1>5, <1>6, <2>1 DEF Queues
<1>8. HeadRuns(op, lane)
  BY <1>5 DEF HeadRuns
<1>9. Traffic(op, link, air)
  BY <1>1 DEF Traffic, ToSet
<1>10. Orderly(op) /\ Apart(op) /\ Deaf(op)
  <2>1. StatusOp \subseteq Op /\ RadioOp \subseteq Op
    BY <1>1, Kinds
  <2>2. Orderly(op)
    BY <1>2, <1>3, <2>1 DEF Orderly
  <2>3. Apart(op) /\ Deaf(op)
    BY <1>2, <1>3, <2>1 DEF Apart, Deaf
  <2> QED
    BY <2>2, <2>3
<1> QED
  BY <1>1, <1>4, <1>7, <1>8, <1>9, <1>10 DEF IInv

\* Every step keeps it.
LEMMA Step == IInv /\ [Next]_vars => IInv'
<1> SUFFICES ASSUME IInv, [Next]_vars PROVE IInv'
  OBVIOUS
<1>1. ASSUME NEW o \in Op, runExclusiveRadioOp(o) PROVE IInv'
  BY <1>1, RadioAsked
<1>2. ASSUME NEW o \in Op, sendMessage(o) PROVE IInv'
  BY <1>2, MessageSent
<1>3. ASSUME NEW o \in Op, NEW c \in Contact, getStatusSerialized(o, c) PROVE IInv'
  BY <1>3, StatusAsked
<1>4. ASSUME NEW o \in Op, OwnTimer(o) PROVE IInv'
  BY <1>4, OwnTimerKeeps
<1>5. ASSUME NEW o \in Op, LibraryTimer(o) PROVE IInv'
  BY <1>5, LibraryTimerKeeps
<1>6. ASSUME NEW o \in Op, Backstop(o) PROVE IInv'
  BY <1>6, BackstopKeeps
<1>7. ASSUME NEW o \in Op, Answered(o) PROVE IInv'
  BY <1>7, AnsweredKeeps
<1>8. CASE Accepted \/ Refused \/ Ignored
  BY <1>8, AcceptedKeeps, RefusedKeeps, IgnoredKeeps
<1>9. CASE UNCHANGED vars
  <2>1. kind' = kind /\ op' = op /\ lane' = lane /\ link' = link /\ air' = air
    BY <1>9 DEF vars
  <2>2. /\ Commands(op') /\ Queues(op', lane') /\ HeadRuns(op', lane')
        /\ Traffic(op', link', air') /\ Orderly(op') /\ Apart(op') /\ Deaf(op')
    BY <2>1 DEF IInv
  <2> QED
    BY <2>1, <2>2, Primed
<1> QED
  BY <1>1, <1>2, <1>3, <1>4, <1>5, <1>6, <1>7, <1>8, <1>9 DEF Next

\* The invariant holds throughout.
LEMMA Invariance == SafetySpec => []IInv
  BY Initially, Step, PTL DEF SafetySpec

\* Every variable has its type, and the head of each lane runs while the others
\* wait: no two commands under the lock run at once, and each is written once.
THEOREM TypeCorrect == SafetySpec => []TypeOK
<1>1. IInv => TypeOK
  <2> SUFFICES ASSUME IInv PROVE TypeOK
    OBVIOUS
  <2>1. kind \in [Op -> Kind]
    BY DEF IInv
  <2>2. ASSUME NEW o \in Op
        PROVE  /\ op[o].st \in {"unasked", "queued", "joined", "running", "done"}
               /\ op[o].hears \subseteq listeners(o)
               /\ op[o].outcome \in {"none", "ok", "rejected", "overruled", "timeout"}
               /\ op[o].sent \in Op \cup {None} /\ op[o].own \in BOOLEAN
               /\ op[o].about \in Contact \cup {None}
    <3>1. op[o] \in Command /\ op[o].hears \subseteq listeners(o)
      BY DEF IInv, Commands, Sound
    <3> QED
      BY <3>1 DEF Command, Steps, Outcomes
  <2>3. DOMAIN lane = Lanes
    BY DEF IInv, Queues
  <2>4. ASSUME NEW l \in Lanes, NEW i \in DOMAIN lane[l]
        PROVE  op[lane[l][i]].st = IF i = 1 THEN "running" ELSE "queued"
    <3>1. lane[l] \in Seq(Op)
      BY DEF IInv, Queues
    <3>2. lane[l] # <<>>
      BY <3>1
    <3>3. op[lane[l][1]].st = "running"
      BY <3>2 DEF IInv, HeadRuns
    <3>4. i # 1 => op[lane[l][i]].st = "queued"
      BY DEF IInv, Queues
    <3> QED
      BY <3>3, <3>4
  <2>5. IsInjective(link) /\ ToSet(link) \subseteq Op
    BY Separate DEF IInv, Traffic, IsInjective
  <2>6. air \subseteq Op
    BY <2>1, Separate, Kinds
  <2> QED
    BY <2>1, <2>2, <2>3, <2>4, <2>5, <2>6 DEF TypeOK
<1> QED
  BY <1>1, Invariance, PTL

\* A command under the lock is settled by another one's answer only beside commands
\* outside the lock, or after one of them was given up; and no refusal reaches a
\* request, other than a trace, that has taken an acknowledgement for its own.
THEOREM OnlyStrays == SafetySpec => []StraysOnly
<1>1. IInv => StraysOnly
  <2> SUFFICES ASSUME IInv PROVE StraysOnly
    OBVIOUS
  <2>1. kind \in [Op -> Kind]
    BY DEF IInv
  <2>2. \A o \in Op \ TraceOp : op[o].outcome # "overruled"
    BY <2>1, Kinds DEF IInv, Commands, Sound
  <2> QED
    BY <2>2 DEF IInv, Orderly, Excused, StraysOnly
<1> QED
  BY <1>1, Invariance, PTL

\* No two status requests are out for one contact, and a request no longer listens
\* only when the late answer of one that was given up has come.
THEOREM StatusIsHeard == SafetySpec => []StatusHeard
<1>1. IInv => StatusHeard
  <2> SUFFICES ASSUME IInv, NEW o \in StatusOp
               PROVE  /\ \A p \in StatusOp \ {o} :
                            {op[o].st, op[p].st} \subseteq {"queued", "running"} =>
                                op[p].about # op[o].about
                      /\ op[o].st = "running" /\ "Status" \notin op[o].hears =>
                            \E p \in StatusOp \ {o} : op[p].st = "done" /\ ~op[p].own
    BY DEF StatusHeard
  <2>1. ASSUME NEW p \in StatusOp \ {o}, {op[o].st, op[p].st} \subseteq {"queued", "running"}
        PROVE  op[p].about # op[o].about
    BY <2>1 DEF IInv, Apart
  <2>2. op[o].st = "running" /\ "Status" \notin op[o].hears =>
            \E p \in StatusOp \ {o} : op[p].st = "done" /\ ~op[p].own
    BY DEF IInv, Deaf
  <2> QED
    BY <2>1, <2>2
<1> QED
  BY <1>1, Invariance, PTL
===============================================================================
