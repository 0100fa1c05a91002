---------------------------- MODULE SourceLifecycle ----------------------------
(***************************************************************************)
(* The managers of Meshtastic TCP sources: SourceManagerRegistry           *)
(* (src/src/server/sourceManagerRegistry.ts), the requests that create,    *)
(* edit, delete, connect and disconnect a source                           *)
(* (src/src/server/routes/sourceRoutes.ts), and the boot of the server,    *)
(* which starts the sources one after the other                            *)
(* (src/src/server/bootstrapSources.ts) while requests are answered.       *)
(*                                                                         *)
(* A request awaits the database, a manager's stop() and its start(), and  *)
(* so does the boot; other requests run meanwhile.  A manager is alive     *)
(* while its link or its virtual node server is, or will be when its       *)
(* start() goes on.                                                        *)
(***************************************************************************)
EXTENDS Naturals, FiniteSets

CONSTANTS
    Source,         \* ids of sources
    Request,        \* bound: requests in flight at once
    Boot,           \* bootstrapSources, which goes on like a request
    NoSource,
    MaxManagers     \* bound: managers of one source that exist at once

ASSUME NameAssumption == NoSource \notin Source /\ Boot \notin Request
ASSUME BoundAssumption == MaxManagers \in Nat \ {0} /\ IsFiniteSet(Request)

VARIABLES
    rows,       \* the sources table
    registry,   \* managers: the number of each source's manager, or NoManager
    primary,    \* primaryMeshtasticSourceId
    alive,      \* the managers of each source that have something running
    starting,   \* the managers of each source whose start() has not returned
    jobs,       \* the requests in flight, and what the boot has in hand
    unread,     \* the boot has not read the table yet
    todo,       \* enabledSources, once it has: the sources it still has to start
    configured, \* firstTcpSourceConfigured
    overlapped, \* history: sources on which requests, or one and the boot, overlapped
    clashed,    \* history: sources two removals stopped at once, or while starting
    undercut,   \* history: sources removed while the boot awaited their start()
    parked      \* history: sources a user disconnected and nobody restarted

registryVars == <<registry, primary>>
managerVars == <<alive, starting>>
bootVars == <<unread, todo, configured>>
historyVars == <<overlapped, clashed, undercut, parked>>
vars == <<rows, registryVars, managerVars, jobs, bootVars, historyVars>>

NoManager == 0
Managers == 1 .. MaxManagers

\* What the routes read of a row: enabled, and autoConnect not explicitly false.
Rows == [enabled : BOOLEAN, auto : BOOLEAN]
NoRow == [enabled |-> FALSE]
On(row) == row # NoRow /\ row.enabled /\ row.auto

Process == Request \cup {Boot}
Kinds == {"none", "create", "update", "delete", "connect", "disconnect", "boot"}
Steps == {"read", "written", "stopping", "stopped", "starting"}
Jobs == [kind : Kinds, src : Source \cup {NoSource}, step : Steps,
         man : Managers \cup {NoManager},   \* the manager it stops or starts
         old : Rows \cup {NoRow},           \* existing, as PUT first read it
         moved : BOOLEAN,                   \* transportChanged
         missed : BOOLEAN]                  \* a start() went on behind its stop()
NoJob == [kind |-> "none", src |-> NoSource, step |-> "read", man |-> NoManager,
          old |-> NoRow, moved |-> FALSE, missed |-> FALSE]

JobsOn(s) == {r \in Process : jobs[r].src = s}
\* Those, and the boot if it may still come to s.
Coming(s) == JobsOn(s) \cup (IF s \in todo THEN {Boot} ELSE {})

-------------------------------------------------------------------------------
\* Building blocks.

\* Mutants: the designation survives the removal; a second manager replaces the
\* first in the map; the removal of no manager goes on; a disabled source keeps its
\* manager.
keepPrimary(s) == primary
neverTaken(s) == FALSE
alwaysStops(s) == "stopping"
keepRunning(old, new, moved) ==
    CASE ~old.enabled /\ On(new) -> "add"
      [] old.enabled /\ new.enabled /\ moved -> "restart"
      [] OTHER -> "nothing"

\* What PUT /:id does with the manager of a Meshtastic source.
transition(old, new, moved) ==
    IF ~old.enabled
    THEN IF On(new) THEN "add" ELSE "nothing"
    ELSE IF ~new.enabled \/ (old.auto /\ ~new.auto) THEN "remove"
    ELSE IF ~old.auto /\ new.auto THEN "add"
    ELSE IF moved THEN "restart" ELSE "nothing"

\* addManager refuses a source that has one; removeManager returns without one, and
\* clears the designation of the source it removed.
taken(s) == registry[s] # NoManager
awaits(s) == IF registry[s] = NoManager THEN "stopped" ELSE "stopping"
primaryAfter(s) == IF primary = s THEN NoSource ELSE primary
\* setPrimaryMeshtasticSource: the first designation stays.
designated(s) == IF primary = NoSource THEN s ELSE primary

\* Managers of s that nothing refers to: a new object gets one of their numbers.
Unused(s) == {m \in Managers : /\ m \notin alive[s] \cup starting[s]
                               /\ registry[s] # m
                               /\ \A r \in JobsOn(s) : jobs[r].man # m}
Fresh(s) == CHOOSE m \in Unused(s) : TRUE

\* Bound: a request arrives only when each in flight on s can get a manager, and
\* the boot too.
Room(s) == Cardinality(Unused(s)) > Cardinality(Coming(s))

Ends(r) == jobs' = [jobs EXCEPT ![r] = NoJob]

\* addManager: registered before start() is awaited; no route does anything after.
addManager(r, s) ==
    IF taken(s)
    THEN Ends(r) /\ UNCHANGED <<registryVars, managerVars, bootVars, historyVars>>
    ELSE /\ registry' = [registry EXCEPT ![s] = Fresh(s)]
         /\ alive' = [alive EXCEPT ![s] = @ \cup {Fresh(s)}]
         /\ starting' = [starting EXCEPT ![s] = @ \cup {Fresh(s)}]
         /\ parked' = parked \ {s}
         /\ jobs' = [jobs EXCEPT ![r] = [NoJob EXCEPT !.src = s, !.step = "starting",
                                                    !.man = Fresh(s)]]
         /\ UNCHANGED <<primary, bootVars, overlapped, clashed, undercut>>

\* removeManager up to the await of stop(); PUT adds a manager "again" afterwards.
removeManager(r, s, again) ==
    /\ jobs' = [jobs EXCEPT ![r].step = awaits(s), ![r].man = registry[s],
                            ![r].moved = again, ![r].old = NoRow]
    /\ clashed' = IF \/ registry[s] \in starting[s]
                     \/ \E q \in JobsOn(s) : jobs[q].step = "stopping"
                  THEN clashed \cup {s} ELSE clashed
    /\ UNCHANGED <<registryVars, managerVars, bootVars, overlapped, undercut, parked>>

\* A server that has just come up: nothing runs, and any source may be started.
Init ==
    /\ rows \in [Source -> Rows \cup {NoRow}]
    /\ registry = [s \in Source |-> NoManager] /\ primary = NoSource
    /\ alive = [s \in Source |-> {}] /\ starting = [s \in Source |-> {}]
    /\ jobs = [r \in Process |-> NoJob]
    /\ unread = TRUE /\ todo = Source /\ configured = FALSE
    /\ overlapped = {} /\ clashed = {} /\ undercut = {} /\ parked = {}

-------------------------------------------------------------------------------
\* The boot.

\* getEnabledSources, once; autoConnect is looked at in what was read here.
BootReads ==
    /\ unread
    /\ unread' = FALSE /\ todo' = {s \in Source : On(rows[s])}
    /\ UNCHANGED <<rows, registryVars, managerVars, jobs, configured, historyVars>>

\* The boot builds the manager of the next source and awaits applyManagerSettings.
BootTakes(s) ==
    /\ ~unread /\ s \in todo /\ jobs[Boot] = NoJob
    /\ todo' = todo \ {s}
    /\ jobs' = [jobs EXCEPT ![Boot] = [NoJob EXCEPT !.kind = "boot", !.src = s]]
    /\ UNCHANGED <<rows, registryVars, managerVars, unread, configured, historyVars>>

-------------------------------------------------------------------------------
\* Requests arrive and read the row of their source.

Arrives(r, s, kind) ==
    /\ jobs[r] = NoJob /\ Room(s)
    /\ jobs' = [jobs EXCEPT ![r] = [NoJob EXCEPT
                    !.kind = kind, !.src = s,
                    !.old = IF kind = "update" THEN rows[s] ELSE NoRow]]
    /\ overlapped' = IF Coming(s) # {} THEN overlapped \cup {s} ELSE overlapped
    /\ UNCHANGED <<rows, registryVars, managerVars, bootVars, clashed, undercut, parked>>

update(r, s) == rows[s] # NoRow /\ Arrives(r, s, "update")
connect(r, s) == rows[s].enabled /\ Arrives(r, s, "connect")
disconnect(r, s) == rows[s] # NoRow /\ Arrives(r, s, "disconnect")
\* DELETE does not need the row; without row and manager it does nothing.
delete(r, s) == (rows[s] # NoRow \/ registry[s] # NoManager) /\ Arrives(r, s, "delete")

\* POST /: an id that was never used; the row is there before the manager.  A boot
\* that has not read the table yet starts the source as well.
create(r, s) ==
    /\ jobs[r] = NoJob /\ rows[s] = NoRow
    /\ JobsOn(s) = {} /\ (s \in todo => unread) /\ Room(s)
    /\ registry[s] = NoManager /\ alive[s] \cup starting[s] = {}
    /\ primary # s
    /\ \E row \in Rows :
         /\ rows' = [rows EXCEPT ![s] = row]
         /\ jobs' = IF On(row)
                    THEN [jobs EXCEPT ![r].kind = "create", ![r].src = s]
                    ELSE jobs
    /\ overlapped' = IF s \in todo THEN overlapped \cup {s} ELSE overlapped \ {s}
    /\ clashed' = clashed \ {s} /\ undercut' = undercut \ {s} /\ parked' = parked \ {s}
    /\ UNCHANGED <<registryVars, managerVars, bootVars>>

-------------------------------------------------------------------------------
\* Requests go on.

\* PUT writes the fields it was given; a host is changed with all of the config.
WriteRow(r) ==
    LET s == jobs[r].src
    IN /\ jobs[r].kind = "update" /\ jobs[r].step = "read"
       /\ \E enabled, auto \in {{TRUE}, {FALSE}, {}}, moved \in BOOLEAN :
            /\ moved => auto # {}
            /\ rows' = IF rows[s] = NoRow THEN rows
                       ELSE [rows EXCEPT
                               ![s].enabled = IF enabled = {} THEN @ ELSE TRUE \in enabled,
                               ![s].auto = IF auto = {} THEN @ ELSE TRUE \in auto]
            /\ jobs' = [jobs EXCEPT ![r].step = "written", ![r].moved = moved]
       /\ UNCHANGED <<registryVars, managerVars, bootVars, historyVars>>

\* PUT reads the row back and compares it with the one it read first.
ApplyTransition(r) ==
    LET s == jobs[r].src
        act == IF rows[s] = NoRow THEN "nothing"
               ELSE transition(jobs[r].old, rows[s], jobs[r].moved)
    IN /\ jobs[r].kind = "update" /\ jobs[r].step = "written"
       /\ \/ /\ act = "nothing" /\ Ends(r)
             /\ UNCHANGED <<registryVars, managerVars, bootVars, historyVars>>
          \/ act = "add" /\ addManager(r, s)
          \/ act \in {"remove", "restart"} /\ removeManager(r, s, act = "restart")
       /\ UNCHANGED rows

\* The other routes look at the registry once they have read the row, the boot
\* once it has the settings.
Proceed(r) ==
    LET s == jobs[r].src
    IN /\ jobs[r].step = "read"
       /\ \/ jobs[r].kind \in {"create", "connect", "boot"} /\ addManager(r, s)
          \/ jobs[r].kind \in {"disconnect", "delete"} /\ removeManager(r, s, FALSE)
       /\ UNCHANGED rows

\* stop() returns, and removeManager deletes whatever the map holds by now.
StopReturns(r) ==
    LET s == jobs[r].src
    IN /\ jobs[r].step = "stopping"
       /\ alive' = IF jobs[r].missed THEN alive
                   ELSE [alive EXCEPT ![s] = @ \ {jobs[r].man}]
       /\ registry' = [registry EXCEPT ![s] = NoManager]
       /\ primary' = primaryAfter(s)
       /\ jobs' = [jobs EXCEPT ![r].step = "stopped", ![r].man = NoManager,
                               ![r].missed = FALSE]
       /\ undercut' = IF jobs[Boot].src = s /\ jobs[Boot].step = "starting"
                      THEN undercut \cup {s} ELSE undercut
       /\ UNCHANGED <<rows, starting, bootVars, overlapped, clashed, parked>>

\* The route goes on after removeManager: PUT may add the new manager, DELETE
\* drops the row.
AfterStop(r) ==
    LET s == jobs[r].src
    IN /\ jobs[r].step = "stopped"
       /\ IF jobs[r].moved
          THEN addManager(r, s) /\ UNCHANGED rows
          ELSE /\ Ends(r)
               /\ rows' = IF jobs[r].kind = "delete" THEN [rows EXCEPT ![s] = NoRow] ELSE rows
               /\ parked' = IF jobs[r].kind = "disconnect" THEN parked \cup {s} ELSE parked
               /\ UNCHANGED <<registryVars, managerVars, bootVars,
                              overlapped, clashed, undercut>>

\* start() has returned: with a stop() of the manager behind it or under way it may
\* have brought something up that the stop() did not see.  The boot designates the
\* first source it has started, whatever became of the source meanwhile.
StartReturns(r) ==
    LET s == jobs[r].src
        m == jobs[r].man
        stopping == {q \in JobsOn(s) : jobs[q].step = "stopping" /\ jobs[q].man = m}
    IN /\ jobs[r].step = "starting"
       /\ starting' = [starting EXCEPT ![s] = @ \ {m}]
       /\ \E late \in BOOLEAN :
            /\ alive' = IF late THEN [alive EXCEPT ![s] = @ \cup {m}] ELSE alive
            /\ jobs' = [q \in Process |->
                          IF q = r THEN NoJob
                          ELSE IF q \in stopping THEN [jobs[q] EXCEPT !.missed = late]
                          ELSE jobs[q]]
       /\ primary' = IF r = Boot /\ ~configured THEN designated(s) ELSE primary
       /\ configured' = (configured \/ r = Boot)
       /\ UNCHANGED <<rows, registry, unread, todo, historyVars>>

\* The server goes down, between any two steps, and comes up again.
Restart ==
    /\ registry' = [s \in Source |-> NoManager] /\ primary' = NoSource
    /\ alive' = [s \in Source |-> {}] /\ starting' = [s \in Source |-> {}]
    /\ jobs' = [r \in Process |-> NoJob]
    /\ unread' = TRUE /\ todo' = Source /\ configured' = FALSE
    /\ overlapped' = {} /\ clashed' = {} /\ undercut' = {} /\ parked' = {}
    /\ UNCHANGED rows

-------------------------------------------------------------------------------

Next ==
    \/ \E r \in Request, s \in Source :
         \/ create(r, s) \/ update(r, s) \/ delete(r, s)
         \/ connect(r, s) \/ disconnect(r, s)
    \/ BootReads \/ \E s \in Source : BootTakes(s)
    \/ \E r \in Process :
         \/ WriteRow(r) \/ ApplyTransition(r) \/ Proceed(r)
         \/ StopReturns(r) \/ AfterStop(r) \/ StartReturns(r)
    \/ Restart

Spec == Init /\ [][Next]_vars

-------------------------------------------------------------------------------
\* Properties.

\* Every variable has its type, and a request that awaits a manager's stop() or
\* start() has one.
TypeOK ==
    /\ rows \in [Source -> Rows \cup {NoRow}]
    /\ registry \in [Source -> Managers \cup {NoManager}]
    /\ primary \in Source \cup {NoSource}
    /\ alive \in [Source -> SUBSET Managers] /\ starting \in [Source -> SUBSET Managers]
    /\ jobs \in [Process -> Jobs]
    /\ \A r \in Process : jobs[r].step \in {"stopping", "starting"} => jobs[r].man # NoManager
    /\ unread \in BOOLEAN /\ configured \in BOOLEAN /\ todo \subseteq Source
    /\ overlapped \cup clashed \cup undercut \cup parked \subseteq Source

\* The source that is designated primary is served: its registered manager is
\* running, whatever requests overlap each other and the boot.  Only a removal that
\* returns while the boot awaits the start() of the source leaves it designated
\* without (removeManager, bootstrapSources, getPrimaryMeshtasticManager).
PrimaryIsServed ==
    primary \notin undercut \cup {NoSource} => registry[primary] \in alive[primary]

\* A manager that runs is the one the registry holds for its source, so that a
\* request can still reach and stop it.  Only two removals of the same manager at
\* once, or the removal of one that is starting, can leave another (addManager,
\* removeManager).
NoOrphan == \A s \in Source \ clashed : alive[s] \subseteq {registry[s]}

\* Once the requests on a source are over and the boot has passed it, a disabled or
\* deleted source has nothing running, by whatever requests it came there (PUT,
\* DELETE, connect).
DisabledIsDown ==
    \A s \in Source \ overlapped :
        Coming(s) = {} /\ ~rows[s].enabled => alive[s] = {}

\* And one that is enabled and connects automatically is running, unless a user
\* disconnected it (PUT's transitions, bootstrapSources).
AutoIsUp ==
    \A s \in Source \ (overlapped \cup parked) :
        Coming(s) = {} /\ On(rows[s]) => registry[s] \in alive[s]

\* What runs is what the table asks for, where requests on a source come one after
\* the other and after the boot has started it.
RowsObeyed == DisabledIsDown /\ AutoIsUp

\* Not kept, and checked by no run.  The designation names a source that has a
\* manager: the boot designates a source that was removed while it awaited start().
DesignatedIsThere == primary # NoSource => registry[primary] # NoManager

\* Not kept either.  A disabled source has nothing running once nobody works on it:
\* the boot goes by the table as it first read it, and an edit by its own reading.
OffIsDown == \A s \in Source : Coming(s) = {} /\ ~rows[s].enabled => alive[s] = {}
===============================================================================
