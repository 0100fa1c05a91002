------------------------ MODULE SourceLifecycleProofs ------------------------
(***************************************************************************)
(* Theorems of SourceLifecycle: every manager a request starts has a name, *)
(* the designated primary is served, what runs is what the registry holds  *)
(* and, once the requests are over, what the table asks for, for any       *)
(* sources, requests and bounds.                                           *)
(***************************************************************************)
EXTENDS SourceLifecycle, FiniteSetTheorems, TLAPS

-------------------------------------------------------------------------------
(* The inductive invariant.                                                  *)

TableTypes ==
    /\ rows \in [Source -> Rows \cup {NoRow}]
    /\ primary \in Source \cup {NoSource}
    /\ overlapped \subseteq Source /\ clashed \subseteq Source
    /\ undercut \subseteq Source /\ parked \subseteq Source

\* The boot has nothing in hand before it has read the table, and then nothing it
\* still has ahead.
BootTypes ==
    /\ unread \in BOOLEAN /\ configured \in BOOLEAN /\ todo \subseteq Source
    /\ unread => todo = Source /\ jobs[Boot] = NoJob
    /\ jobs[Boot].src \notin todo

ManagerTypes ==
    /\ registry \in [Source -> Managers \cup {NoManager}]
    /\ alive \in [Source -> SUBSET Managers]
    /\ starting \in [Source -> SUBSET Managers]

JobTypes ==
    /\ jobs \in [Process -> Jobs]
    /\ \A r \in Process :
        /\ jobs[r].src \in Source \/ jobs[r] = NoJob
        /\ jobs[r].step \in {"stopping", "starting"} => jobs[r].man # NoManager
        /\ jobs[r].missed => jobs[r].step \in {"stopping", "stopped"}

\* Those at work on s, or still to come to it, that may need a new manager.
Waiting(s) == {r \in Coming(s) : jobs[r].src = s => jobs[r].step # "starting"}

\* There is a number left for the manager of each of them.
RoomLeft == \A s \in Source : Cardinality(Waiting(s)) <= Cardinality(Unused(s))

\* A source has a manager, and it runs.
Served(s) == registry[s] # NoManager /\ registry[s] \in alive[s]

\* The designated source is served, and so is the one the boot is about to designate,
\* unless it was removed meanwhile.
PrimaryHeld ==
    /\ primary \notin undercut \cup {NoSource} => Served(primary)
    /\ jobs[Boot].step = "starting" /\ jobs[Boot].src \notin undercut =>
        Served(jobs[Boot].src)

Doing(s, step) == {r \in JobsOn(s) : jobs[r].step = step}

\* Where no removal clashed, one request at a time starts the manager that the
\* registry holds, or stops it, and nothing else runs or starts.
Orderly(s) ==
    /\ alive[s] \subseteq {registry[s]} /\ starting[s] \subseteq {registry[s]}
    /\ \A r \in Doing(s, "starting") : jobs[r].man \in starting[s]
    /\ \A q, r \in Doing(s, "starting") : q = r
    /\ \A r \in Doing(s, "stopping") :
        jobs[r].man = registry[s] /\ starting[s] = {} /\ ~jobs[r].missed
    /\ \A q, r \in Doing(s, "stopping") : q = r

OrderKept == \A s \in Source \ clashed : Orderly(s)

IInv ==
    /\ TableTypes /\ BootTypes /\ ManagerTypes /\ JobTypes
    /\ RoomLeft /\ PrimaryHeld /\ OrderKept
-------------------------------------------------------------------------------
(* Names, and the steps of a request in fewer terms.                         *)

\* A request registers the new manager of its source.
Adding(r) ==
    /\ jobs[r].src \in Source /\ jobs[r].step # "starting"
    /\ registry[jobs[r].src] = NoManager
    /\ addManager(r, jobs[r].src) /\ UNCHANGED rows

\* A request takes the manager of its source, if any, to stop it.
Removing(r) ==
    /\ jobs[r].src \in Source /\ jobs[r].step \in {"read", "written"}
    /\ \E again \in BOOLEAN : removeManager(r, jobs[r].src, again)
    /\ UNCHANGED rows

\* A request is over.
Ending(r) ==
    /\ jobs[r].src \in Source /\ jobs[r].step # "starting"
    /\ jobs' = [jobs EXCEPT ![r] = NoJob]
    /\ rows' \in [Source -> Rows \cup {NoRow}] /\ parked' \subseteq Source
    /\ UNCHANGED <<registry, primary, alive, starting, overlapped, clashed, undercut>>
    /\ UNCHANGED bootVars

\* No number is the name of no manager, and no source is the name of none.
LEMMA Names ==
    /\ NoManager \notin Managers /\ NoManager = 0
    /\ NoJob.src = NoSource /\ NoSource \notin Source
    /\ NoJob.step = "read" /\ NoJob.missed = FALSE
    /\ NoJob \in Jobs
    /\ Request \subseteq Process /\ Boot \in Process /\ Boot \notin Request
BY NameAssumption, BoundAssumption DEF Managers, NoManager, NoJob, Jobs, Kinds, Steps, Process

-------------------------------------------------------------------------------
(* The server comes up.                                                      *)

\* The sets that are counted are finite.
LEMMA Finite ==
    \A s : /\ IsFiniteSet(Coming(s)) /\ IsFiniteSet(Waiting(s)) /\ IsFiniteSet(Unused(s))
           /\ IsFiniteSet(Waiting(s)') /\ IsFiniteSet(Unused(s)')
<1> TAKE s
<1>1. IsFiniteSet(1 .. MaxManagers)
    BY FS_Interval, BoundAssumption
<1>2. IsFiniteSet(Process)
  <2>1. IsFiniteSet(Request \cup {Boot})
    BY FS_AddElement, BoundAssumption
  <2> QED
    BY <2>1 DEF Process
<1>3. /\ Coming(s) \subseteq Process /\ Waiting(s) \subseteq Process
      /\ Waiting(s)' \subseteq Process
      /\ Unused(s) \subseteq 1 .. MaxManagers /\ Unused(s)' \subseteq 1 .. MaxManagers
    BY DEF JobsOn, Coming, Waiting, Unused, Managers, Process
<1> QED
    BY <1>1, <1>2, <1>3, FS_Subset

\* Nothing runs yet, nothing is designated, and only the boot is to come.
LEMMA InitHolds == Init => IInv
<1> SUFFICES ASSUME Init PROVE IInv
    OBVIOUS
<1>1. TableTypes /\ ManagerTypes
    BY DEF Init, TableTypes, ManagerTypes
<1>2. JobTypes
    BY Names DEF Init, JobTypes
<1>3. jobs[Boot] = NoJob /\ jobs[Boot].src \notin Source
    BY Names DEF Init
<1>4. BootTypes
    BY <1>3 DEF Init, BootTypes
<1>5. ASSUME NEW s \in Source PROVE JobsOn(s) = {}
    BY Names DEF Init, JobsOn
<1>6. RoomLeft
  <2> SUFFICES ASSUME NEW s \in Source PROVE Cardinality(Waiting(s)) <= Cardinality(Unused(s))
    BY DEF RoomLeft
  <2>1. Waiting(s) = {Boot}
    BY <1>3, <1>5 DEF Init, Waiting, Coming
  <2>2. Unused(s) = Managers
    BY <1>5, Names DEF Init, Unused
  <2>3. Cardinality(Waiting(s)) = 1
    BY <2>1, FS_Singleton
  <2>4. Cardinality(Unused(s)) = MaxManagers
    BY <2>2, FS_Interval, BoundAssumption DEF Managers
  <2> QED
    BY <2>3, <2>4, BoundAssumption
<1>7. PrimaryHeld
    BY <1>3, Names DEF Init, PrimaryHeld
<1>8. OrderKept
    BY <1>5 DEF Init, OrderKept, Orderly, Doing
<1> QED
    BY <1>1, <1>2, <1>4, <1>6, <1>7, <1>8 DEF IInv

\* The same after any restart.
LEMMA InitHoldsNext == Init' => IInv'
BY InitHolds, PTL

LEMMA RestartHolds ==
    ASSUME TableTypes, Restart
    PROVE  IInv'
BY InitHoldsNext DEF Restart, Init, TableTypes

-------------------------------------------------------------------------------
(* What the steps of a request amount to.                                    *)

\* What the second half of an edit does is one of the three.
LEMMA TransitionShape ==
    ASSUME JobTypes, TableTypes, NEW r \in Process, ApplyTransition(r)
    PROVE  Adding(r) \/ Removing(r) \/ Ending(r)
<1> DEFINE s == jobs[r].src
<1>1. s \in Source /\ jobs[r].step = "written"
    BY Names DEF ApplyTransition, JobTypes
<1>2. rows' = rows
    BY DEF ApplyTransition
<1>3. CASE Ends(r) /\ UNCHANGED <<registryVars, managerVars, bootVars, historyVars>>
    BY <1>1, <1>2, <1>3 DEF Ending, Ends, registryVars, managerVars, historyVars, TableTypes
<1>4. CASE addManager(r, s)
  <2>1. CASE taken(s)
    BY <1>1, <1>2, <1>4, <2>1 DEF Ending, Ends, addManager, registryVars, managerVars,
        historyVars, TableTypes
  <2>2. CASE ~taken(s)
    BY <1>1, <1>2, <1>4, <2>2 DEF Adding, taken
  <2> QED
    BY <2>1, <2>2
<1>5. ASSUME NEW again \in BOOLEAN, removeManager(r, s, again) PROVE Removing(r)
    BY <1>1, <1>2, <1>5 DEF Removing
<1> QED
    BY <1>3, <1>4, <1>5 DEF ApplyTransition

\* The same of the other routes.
LEMMA ProceedShape ==
    ASSUME JobTypes, TableTypes, NEW r \in Process, Proceed(r)
    PROVE  Adding(r) \/ Removing(r) \/ Ending(r)
<1> DEFINE s == jobs[r].src
<1>1. s \in Source /\ jobs[r].step = "read" /\ rows' = rows
  <2>1. jobs[r].kind # "none" /\ jobs[r].step = "read" /\ rows' = rows
    BY DEF Proceed
  <2>2. jobs[r] # NoJob
    BY <2>1 DEF NoJob
  <2> QED
    BY <2>1, <2>2 DEF JobTypes
<1>2. CASE addManager(r, s)
  <2>1. CASE taken(s)
    BY <1>1, <1>2, <2>1 DEF Ending, Ends, addManager, registryVars, managerVars,
        historyVars, TableTypes
  <2>2. CASE ~taken(s)
    BY <1>1, <1>2, <2>2 DEF Adding, taken
  <2> QED
    BY <2>1, <2>2
<1>3. CASE removeManager(r, s, FALSE)
    BY <1>1, <1>3 DEF Removing
<1> QED
    BY <1>2, <1>3 DEF Proceed

\* And of the end of a removal.
LEMMA AfterStopShape ==
    ASSUME JobTypes, TableTypes, NEW r \in Process, AfterStop(r)
    PROVE  Adding(r) \/ Ending(r)
<1> DEFINE s == jobs[r].src
<1>1. s \in Source /\ jobs[r].step = "stopped"
    BY Names DEF AfterStop, JobTypes
<1>2. CASE jobs[r].moved /\ taken(s)
    BY <1>1, <1>2 DEF AfterStop, Ending, Ends, addManager, registryVars, managerVars,
        historyVars, TableTypes
<1>3. CASE jobs[r].moved /\ ~taken(s)
    BY <1>1, <1>3 DEF AfterStop, Adding, taken
<1>4. CASE ~jobs[r].moved
  <2>1. rows' \in [Source -> Rows \cup {NoRow}] /\ parked' \subseteq Source
    BY <1>1, <1>4 DEF AfterStop, TableTypes
  <2> QED
    BY <1>1, <1>4, <2>1 DEF AfterStop, Ending, Ends, registryVars, managerVars
<1> QED
    BY <1>2, <1>3, <1>4

\* The steps of the system, in those terms.
LEMMA Shapes ==
    ASSUME JobTypes, TableTypes, [Next]_vars
    PROVE  \/ \E r \in Process, s \in Source :
                /\ r # Boot
                /\ create(r, s) \/ \E kind \in Kinds : Arrives(r, s, kind)
           \/ BootReads
           \/ \E s \in Source : BootTakes(s)
           \/ \E r \in Process :
                \/ WriteRow(r) \/ StopReturns(r) \/ StartReturns(r)
                \/ Adding(r) \/ Removing(r) \/ Ending(r)
           \/ Restart \/ UNCHANGED vars
<1>1. ASSUME NEW r \in Request, NEW s \in Source,
             update(r, s) \/ delete(r, s) \/ connect(r, s) \/ disconnect(r, s)
      PROVE  \E kind \in Kinds : Arrives(r, s, kind)
    BY <1>1 DEF update, delete, connect, disconnect, Kinds
<1> QED
    BY <1>1, Names, TransitionShape, ProceedShape, AfterStopShape DEF Next

-------------------------------------------------------------------------------
(* Types.                                                                    *)

\* The table, the designation and the histories keep their types.
LEMMA TableKept ==
    ASSUME TableTypes, JobTypes, [Next]_vars
    PROVE  TableTypes'
<1>1. ASSUME NEW r \in Process, NEW s \in Source, create(r, s) PROVE TableTypes'
    BY <1>1 DEF create, TableTypes, registryVars, managerVars, bootVars
<1>2. ASSUME NEW r \in Process, NEW s \in Source, NEW kind \in Kinds, Arrives(r, s, kind)
      PROVE  TableTypes'
    BY <1>2 DEF Arrives, TableTypes, registryVars, managerVars
<1>3. ASSUME NEW r \in Process, WriteRow(r) PROVE TableTypes'
  <2> DEFINE s == jobs[r].src
  <2>1. rows' \in [Source -> Rows \cup {NoRow}]
    <3>1. CASE rows[s] = NoRow
      BY <1>3, <3>1 DEF WriteRow, TableTypes
    <3>2. CASE rows[s] # NoRow
      <4>1. s \in Source
        BY <1>3, Names DEF WriteRow, JobTypes, NoJob
      <4>2. rows[s] \in Rows
        BY <4>1, <3>2 DEF TableTypes
      <4>3. PICK enabled \in {{TRUE}, {FALSE}, {}}, auto \in {{TRUE}, {FALSE}, {}} :
                rows' = [rows EXCEPT
                            ![s].enabled = IF enabled = {} THEN @ ELSE TRUE \in enabled,
                            ![s].auto = IF auto = {} THEN @ ELSE TRUE \in auto]
        BY <1>3, <3>2 DEF WriteRow
      <4> DEFINE on == IF enabled = {} THEN rows[s].enabled ELSE TRUE \in enabled
                 automatic == IF auto = {} THEN rows[s].auto ELSE TRUE \in auto
                 row == [rows[s] EXCEPT !.enabled = on, !.auto = automatic]
      <4>4. rows' = [rows EXCEPT ![s] = row]
        BY <4>1, <4>3 DEF TableTypes
      <4>5. row \in Rows
        <5>1. rows[s].enabled \in BOOLEAN /\ rows[s].auto \in BOOLEAN
          BY <4>2 DEF Rows
        <5>2. (TRUE \in enabled) \in BOOLEAN /\ (TRUE \in auto) \in BOOLEAN
          OBVIOUS
        <5>3. on \in BOOLEAN /\ automatic \in BOOLEAN
          BY <5>1, <5>2
        <5> HIDE DEF on, automatic
        <5> QED
          BY <4>2, <5>3 DEF Rows
      <4> HIDE DEF row
      <4> QED
        BY <4>1, <4>4, <4>5 DEF TableTypes
    <3> QED
      BY <3>1, <3>2
  <2>2. UNCHANGED <<primary, overlapped, clashed, undercut, parked>>
    BY <1>3 DEF WriteRow, registryVars, historyVars
  <2> QED
    BY <2>1, <2>2 DEF TableTypes
<1>4. ASSUME NEW r \in Process, StopReturns(r) PROVE TableTypes'
  <2>1. jobs[r].src \in Source
    BY <1>4, Names DEF StopReturns, JobTypes
  <2> QED
    BY <1>4, <2>1 DEF StopReturns, primaryAfter, TableTypes
<1>5. ASSUME NEW r \in Process, StartReturns(r) PROVE TableTypes'
  <2>1. /\ UNCHANGED <<rows, overlapped, clashed, undercut, parked>>
        /\ primary' \in {primary, jobs[r].src}
    BY <1>5 DEF StartReturns, designated, historyVars
  <2>2. jobs[r].src \in Source
    BY <1>5, Names DEF StartReturns, JobTypes
  <2> QED
    BY <2>1, <2>2 DEF TableTypes
<1>6. ASSUME NEW r \in Process, Adding(r) PROVE TableTypes'
    BY <1>6 DEF Adding, addManager, taken, TableTypes
<1>7. ASSUME NEW r \in Process, Removing(r) PROVE TableTypes'
    BY <1>7 DEF Removing, removeManager, TableTypes, registryVars
<1>8. ASSUME NEW r \in Process, Ending(r) PROVE TableTypes'
    BY <1>8 DEF Ending, TableTypes
<1>9. CASE Restart
    BY <1>9, RestartHolds DEF IInv
<1>10. CASE UNCHANGED vars
    BY <1>10 DEF vars, registryVars, historyVars, TableTypes
<1>11. CASE BootReads \/ \E s \in Source : BootTakes(s)
    BY <1>11 DEF BootReads, BootTakes, registryVars, historyVars, TableTypes
<1> QED
    BY <1>1, <1>2, <1>3, <1>4, <1>5, <1>6, <1>7, <1>8, <1>9, <1>10, <1>11, Shapes

\* So does what the boot keeps.
LEMMA BootKept ==
    ASSUME BootTypes, TableTypes, JobTypes, [Next]_vars
    PROVE  BootTypes'
<1> DEFINE Steady == /\ UNCHANGED <<unread, todo>> /\ configured' \in BOOLEAN
                     /\ jobs'[Boot].src \in {jobs[Boot].src, NoSource}
                     /\ jobs[Boot] = NoJob => jobs'[Boot] = NoJob
<1>a. Steady => BootTypes'
    BY Names DEF BootTypes
<1>1. ASSUME NEW r \in Process, NEW s \in Source, r # Boot,
             create(r, s) \/ \E kind \in Kinds : Arrives(r, s, kind)
      PROVE  BootTypes'
  <2>1. UNCHANGED <<unread, todo, configured>> /\ jobs'[Boot] = jobs[Boot]
    BY <1>1, Names DEF create, Arrives, JobTypes, bootVars
  <2> QED
    BY <2>1, <1>a DEF BootTypes
<1>2. ASSUME NEW r \in Process, WriteRow(r) \/ StopReturns(r) \/ Removing(r)
      PROVE  BootTypes'
  <2>1. UNCHANGED <<unread, todo, configured>>
    BY <1>2 DEF WriteRow, StopReturns, Removing, removeManager, bootVars
  <2>2. jobs'[Boot].src = jobs[Boot].src
    <3>1. CASE WriteRow(r)
      BY <3>1, Names DEF WriteRow, JobTypes, Jobs
    <3>2. CASE StopReturns(r)
      BY <3>2, Names DEF StopReturns, JobTypes, Jobs
    <3>3. CASE Removing(r)
      BY <3>3, Names DEF Removing, removeManager, JobTypes, Jobs
    <3> QED
      BY <1>2, <3>1, <3>2, <3>3
  <2>3. jobs[r] # NoJob /\ \A q \in Process : q # r => jobs'[q] = jobs[q]
    <3>1. CASE WriteRow(r)
      BY <3>1 DEF WriteRow, JobTypes, NoJob
    <3>2. CASE StopReturns(r)
      BY <3>2 DEF StopReturns, JobTypes, NoJob
    <3>3. CASE Removing(r)
      BY <3>3, Names DEF Removing, removeManager, JobTypes
    <3> QED
      BY <1>2, <3>1, <3>2, <3>3
  <2> QED
    BY <2>1, <2>2, <2>3, <1>a, Names DEF BootTypes
<1>3. ASSUME NEW r \in Process, StartReturns(r) PROVE BootTypes'
  <2>1. UNCHANGED <<unread, todo>> /\ configured' \in BOOLEAN
    BY <1>3 DEF StartReturns
  <2>2. \A q \in Process : jobs'[q] = NoJob \/ jobs'[q] = jobs[q]
            \/ (jobs'[q].src = jobs[q].src /\ jobs[q].step = "stopping")
    BY <1>3 DEF StartReturns, JobTypes, Jobs, JobsOn
  <2> QED
    BY <2>1, <2>2, <1>a, Names
<1>4. ASSUME NEW r \in Process, Adding(r) PROVE BootTypes'
  <2> DEFINE m == Fresh(jobs[r].src)
  <2>1. /\ UNCHANGED <<unread, todo, configured>> /\ jobs[r].src \in Source
        /\ jobs' = [jobs EXCEPT ![r] = [NoJob EXCEPT !.src = jobs[r].src,
                                                    !.step = "starting", !.man = m]]
    BY <1>4 DEF Adding, addManager, taken, bootVars
  <2> HIDE DEF m
  <2>2. jobs'[Boot].src = jobs[Boot].src /\ (Boot # r => jobs'[Boot] = jobs[Boot])
    BY <2>1, Names DEF JobTypes, NoJob
  <2> QED
    BY <2>1, <2>2, <1>a, Names DEF BootTypes
<1>5. ASSUME NEW r \in Process, Ending(r) PROVE BootTypes'
  <2>1. /\ UNCHANGED <<unread, todo, configured>>
        /\ jobs'[Boot] = NoJob \/ jobs'[Boot] = jobs[Boot]
    BY <1>5, Names DEF Ending, JobTypes, bootVars
  <2> QED
    BY <2>1, <1>a, Names DEF BootTypes
<1>6. CASE Restart
    BY <1>6, RestartHolds DEF IInv
<1>7. CASE BootReads
    BY <1>7, Names DEF BootReads, BootTypes
<1>8. ASSUME NEW s \in Source, BootTakes(s) PROVE BootTypes'
  <2>1. jobs'[Boot].src = s
    BY <1>8, Names DEF BootTakes, JobTypes, NoJob
  <2> QED
    BY <1>8, <2>1 DEF BootTakes, BootTypes
<1>9. CASE UNCHANGED vars
    BY <1>9 DEF vars, bootVars, BootTypes
<1> QED
    BY <1>1, <1>2, <1>3, <1>4, <1>5, <1>6, <1>7, <1>8, <1>9, Shapes

\* A request that needs a manager finds a number for it: Room promised it one.
LEMMA FreshIsUnused ==
    ASSUME JobTypes, RoomLeft, NEW r \in Process, Adding(r)
    PROVE  Fresh(jobs[r].src) \in Unused(jobs[r].src)
<1> DEFINE s == jobs[r].src
<1>1. s \in Source /\ r \in Waiting(s)
    BY DEF Adding, Waiting, Coming, JobsOn
<1>2. IsFiniteSet(Waiting(s)) /\ IsFiniteSet(Unused(s))
    BY Finite
<1>3. Cardinality(Waiting(s)) \in Nat /\ Cardinality(Waiting(s)) # 0
    BY <1>1, <1>2, FS_CardinalityType, FS_EmptySet
<1>4. Unused(s) # {}
  <2>1. Cardinality(Unused(s)) \in Nat
    BY <1>2, FS_CardinalityType
  <2>2. Cardinality(Unused(s)) # 0
    BY <1>1, <1>3, <2>1 DEF RoomLeft
  <2> QED
    BY <2>2, FS_EmptySet
<1> QED
    BY <1>4 DEF Fresh

\* Managers have numbers, and a source has at most one registered.
LEMMA ManagersKept ==
    ASSUME TableTypes, ManagerTypes, JobTypes, RoomLeft, [Next]_vars
    PROVE  ManagerTypes'
<1>1. ASSUME NEW r \in Process, NEW s \in Source, create(r, s) PROVE ManagerTypes'
    BY <1>1 DEF create, ManagerTypes, registryVars, managerVars
<1>2. ASSUME NEW r \in Process, NEW s \in Source, NEW kind \in Kinds, Arrives(r, s, kind)
      PROVE  ManagerTypes'
    BY <1>2 DEF Arrives, ManagerTypes, registryVars, managerVars
<1>3. ASSUME NEW r \in Process, WriteRow(r) PROVE ManagerTypes'
    BY <1>3 DEF WriteRow, ManagerTypes, registryVars, managerVars
<1>4. ASSUME NEW r \in Process, StopReturns(r) PROVE ManagerTypes'
    BY <1>4 DEF StopReturns, ManagerTypes
<1>5. ASSUME NEW r \in Process, StartReturns(r) PROVE ManagerTypes'
  <2>1. jobs[r].man \in Managers
    BY <1>5 DEF StartReturns, JobTypes, Jobs
  <2>2. registry' = registry
    BY <1>5 DEF StartReturns
  <2>3. starting' \in [Source -> SUBSET Managers]
    <3>1. starting' = [starting EXCEPT ![jobs[r].src] = @ \ {jobs[r].man}]
      BY <1>5 DEF StartReturns
    <3> QED
      BY <3>1 DEF ManagerTypes
  <2>4. alive' \in [Source -> SUBSET Managers]
    <3>1. \/ alive' = alive
          \/ alive' = [alive EXCEPT ![jobs[r].src] = @ \cup {jobs[r].man}]
      BY <1>5 DEF StartReturns
    <3> QED
      BY <2>1, <3>1 DEF ManagerTypes
  <2> QED
    BY <2>2, <2>3, <2>4 DEF ManagerTypes
<1>6. ASSUME NEW r \in Process, Adding(r) PROVE ManagerTypes'
  <2>1. Fresh(jobs[r].src) \in Managers
    BY <1>6, FreshIsUnused DEF Unused
  <2> QED
    BY <1>6, <2>1 DEF Adding, addManager, taken, ManagerTypes
<1>7. ASSUME NEW r \in Process, Removing(r) PROVE ManagerTypes'
    BY <1>7 DEF Removing, removeManager, ManagerTypes, registryVars, managerVars
<1>8. ASSUME NEW r \in Process, Ending(r) PROVE ManagerTypes'
    BY <1>8 DEF Ending, ManagerTypes
<1>9. CASE Restart
    BY <1>9, RestartHolds DEF IInv
<1>10. CASE UNCHANGED vars
    BY <1>10 DEF vars, registryVars, managerVars, ManagerTypes
<1>11. CASE BootReads \/ \E s \in Source : BootTakes(s)
    BY <1>11 DEF BootReads, BootTakes, registryVars, managerVars, ManagerTypes
<1> QED
    BY <1>1, <1>2, <1>3, <1>4, <1>5, <1>6, <1>7, <1>8, <1>9, <1>10, <1>11, Shapes

\* One request is changed, and the others are not.
LEMMA OneJobChanged ==
    ASSUME JobTypes, NEW r \in Process, NEW j \in Jobs, jobs' = [jobs EXCEPT ![r] = j],
           j.src \in Source \/ j = NoJob,
           j.step \in {"stopping", "starting"} => j.man # NoManager,
           j.missed => j.step \in {"stopping", "stopped"}
    PROVE  JobTypes'
<1>1. jobs' \in [Process -> Jobs]
    BY DEF JobTypes
<1>2. \A q \in Process : jobs'[q] = IF q = r THEN j ELSE jobs[q]
    BY DEF JobTypes
<1> QED
    BY <1>1, <1>2 DEF JobTypes

\* Requests keep their types.
LEMMA JobsKept ==
    ASSUME TableTypes, ManagerTypes, JobTypes, RoomLeft, [Next]_vars
    PROVE  JobTypes'
<1> USE DEF JobTypes
<1>1. ASSUME NEW r \in Process, NEW s \in Source, create(r, s) PROVE JobTypes'
  <2> DEFINE j == [jobs[r] EXCEPT !.kind = "create", !.src = s]
  <2>1. jobs[r] = NoJob
    BY <1>1 DEF create
  <2>2. jobs' = [jobs EXCEPT ![r] = j] \/ jobs' = jobs
    BY <1>1 DEF create
  <2>3. j \in Jobs /\ j.src \in Source /\ j.step = "read" /\ ~j.missed
    BY <2>1, Names DEF Jobs, NoJob, Kinds
  <2> HIDE DEF j
  <2> QED
    BY <2>2, <2>3, OneJobChanged
<1>2. ASSUME NEW r \in Process, NEW s \in Source, NEW kind \in Kinds, Arrives(r, s, kind)
      PROVE  JobTypes'
    BY <1>2, Names DEF Arrives, Jobs, NoJob, TableTypes
<1>3. ASSUME NEW r \in Process, WriteRow(r) PROVE JobTypes'
  <2>1. PICK moved \in BOOLEAN :
            jobs' = [jobs EXCEPT ![r].step = "written", ![r].moved = moved]
    BY <1>3 DEF WriteRow
  <2> DEFINE j == [jobs[r] EXCEPT !.step = "written", !.moved = moved]
  <2>2. jobs' = [jobs EXCEPT ![r] = j]
    BY <2>1
  <2>3. jobs[r].src \in Source /\ ~jobs[r].missed /\ jobs[r] \in Jobs
    BY <1>3, Names DEF WriteRow, NoJob
  <2>4. j \in Jobs /\ j.src \in Source /\ j.step = "written" /\ ~j.missed
    BY <2>3 DEF Jobs, Steps
  <2> HIDE DEF j
  <2> QED
    BY <2>2, <2>4, OneJobChanged
<1>4. ASSUME NEW r \in Process, StopReturns(r) PROVE JobTypes'
  <2> DEFINE j == [jobs[r] EXCEPT !.step = "stopped", !.man = NoManager, !.missed = FALSE]
  <2>1. jobs' = [jobs EXCEPT ![r] = j]
    BY <1>4 DEF StopReturns
  <2>2. jobs[r].src \in Source /\ jobs[r] \in Jobs
    BY <1>4, Names DEF StopReturns
  <2>3. j \in Jobs /\ j.src \in Source /\ j.step = "stopped"
    BY <2>2 DEF Jobs, Steps
  <2> HIDE DEF j
  <2> QED
    BY <2>1, <2>3, OneJobChanged
<1>5. ASSUME NEW r \in Process, StartReturns(r) PROVE JobTypes'
  <2>1. PICK late \in BOOLEAN, stops \in SUBSET Process :
            /\ \A q \in stops : jobs[q].step = "stopping"
            /\ jobs' = [q \in Process |->
                          IF q = r THEN NoJob
                          ELSE IF q \in stops THEN [jobs[q] EXCEPT !.missed = late]
                          ELSE jobs[q]]
    BY <1>5 DEF StartReturns, JobsOn
  <2>2. ASSUME NEW q \in stops
        PROVE  LET j == [jobs[q] EXCEPT !.missed = late]
               IN  /\ j \in Jobs /\ j.src = jobs[q].src /\ j.step = "stopping"
                   /\ j.man = jobs[q].man /\ jobs[q].src \in Source
    BY <2>1, Names DEF Jobs
  <2>3. jobs' \in [Process -> Jobs]
    BY <2>1, <2>2, Names
  <2>4. ASSUME NEW q \in Process
        PROVE  /\ jobs'[q].src \in Source \/ jobs'[q] = NoJob
               /\ jobs'[q].step \in {"stopping", "starting"} => jobs'[q].man # NoManager
               /\ jobs'[q].missed => jobs'[q].step \in {"stopping", "stopped"}
    <3>1. CASE q = r
      BY <2>1, <3>1, Names
    <3>2. CASE q # r /\ q \in stops
      BY <2>1, <2>2, <3>2
    <3>3. CASE q # r /\ q \notin stops
      BY <2>1, <3>3
    <3> QED
      BY <3>1, <3>2, <3>3
  <2> QED
    BY <2>3, <2>4
<1>6. ASSUME NEW r \in Process, Adding(r) PROVE JobTypes'
  <2> DEFINE s == jobs[r].src
             j == [NoJob EXCEPT !.src = s, !.step = "starting", !.man = Fresh(s)]
  <2>1. Fresh(s) \in Managers
    BY <1>6, FreshIsUnused DEF Unused
  <2>2. jobs' = [jobs EXCEPT ![r] = j]
    BY <1>6, Names DEF Adding, addManager, taken
  <2>3. s \in Source
    BY <1>6 DEF Adding
  <2>4. j \in Jobs /\ j.src \in Source /\ j.step = "starting" /\ ~j.missed /\ j.man # NoManager
    BY <2>1, <2>3, Names DEF Jobs, Steps, NoJob
  <2> HIDE DEF j
  <2> QED
    BY <2>2, <2>4, OneJobChanged
<1>7. ASSUME NEW r \in Process, Removing(r) PROVE JobTypes'
  <2> DEFINE s == jobs[r].src
  <2>1. PICK again \in BOOLEAN :
            jobs' = [jobs EXCEPT ![r].step = awaits(s), ![r].man = registry[s],
                                 ![r].moved = again, ![r].old = NoRow]
    BY <1>7 DEF Removing, removeManager
  <2> DEFINE j == [jobs[r] EXCEPT !.step = awaits(s), !.man = registry[s],
                                  !.moved = again, !.old = NoRow]
  <2>2. jobs' = [jobs EXCEPT ![r] = j]
    BY <2>1
  <2>3. jobs[r] \in Jobs /\ s \in Source /\ ~jobs[r].missed
    BY <1>7 DEF Removing
  <2>4. registry[s] \in Managers \cup {NoManager}
    BY <2>3 DEF ManagerTypes
  <2>5. /\ j \in Jobs /\ j.src \in Source /\ ~j.missed
        /\ j.step \in {"stopping", "starting"} => j.man # NoManager
    BY <2>3, <2>4 DEF Jobs, Steps, awaits
  <2> HIDE DEF j
  <2> QED
    BY <2>2, <2>5, OneJobChanged
<1>8. ASSUME NEW r \in Process, Ending(r) PROVE JobTypes'
    BY <1>8, Names DEF Ending
<1>9. CASE Restart
    BY <1>9, RestartHolds DEF IInv
<1>10. CASE UNCHANGED vars
    BY <1>10 DEF vars
<1>11. ASSUME NEW s \in Source, BootTakes(s) PROVE JobTypes'
  <2> DEFINE j == [NoJob EXCEPT !.kind = "boot", !.src = s]
  <2>1. jobs' = [jobs EXCEPT ![Boot] = j]
    BY <1>11 DEF BootTakes
  <2>2. j \in Jobs /\ j.src \in Source /\ j.step = "read" /\ ~j.missed
    BY Names DEF Jobs, NoJob, Kinds
  <2> HIDE DEF j
  <2> QED
    BY <2>1, <2>2, Names, OneJobChanged
<1>12. CASE BootReads
    BY <1>12 DEF BootReads
<1> QED
    BY <1>1, <1>2, <1>3, <1>4, <1>5, <1>6, <1>7, <1>8, <1>9, <1>10, <1>11, <1>12, Shapes

-------------------------------------------------------------------------------
(* Room for the managers to come.                                            *)

\* Fewer requests wait, or more numbers are free.
LEMMA NoMoreWait ==
    ASSUME NEW W, NEW V \in SUBSET W, NEW T, NEW U \in SUBSET T,
           IsFiniteSet(W), IsFiniteSet(T), Cardinality(W) <= Cardinality(U)
    PROVE  Cardinality(V) <= Cardinality(T)
<1>1. Cardinality(V) <= Cardinality(W) /\ Cardinality(U) <= Cardinality(T)
    BY FS_Subset
<1>2. /\ Cardinality(V) \in Nat /\ Cardinality(W) \in Nat
      /\ Cardinality(U) \in Nat /\ Cardinality(T) \in Nat
    BY FS_Subset, FS_CardinalityType
<1> QED
    BY <1>1, <1>2

\* One of the waiting takes one of the numbers.
LEMMA OneServed ==
    ASSUME NEW W, NEW r \in W, NEW V \in SUBSET (W \ {r}), NEW T, NEW U, NEW m,
           U \ {m} \subseteq T,
           IsFiniteSet(W), IsFiniteSet(T), IsFiniteSet(U), Cardinality(W) <= Cardinality(U)
    PROVE  Cardinality(V) <= Cardinality(T)
<1>1. IsFiniteSet(W \ {r}) /\ Cardinality(W \ {r}) = Cardinality(W) - 1
    BY FS_RemoveElement
<1>2. /\ Cardinality(U \ {m}) >= Cardinality(U) - 1 /\ IsFiniteSet(U \ {m})
      /\ Cardinality(U) \in Nat /\ Cardinality(W) \in Nat
  <2>1. Cardinality(U) \in Nat /\ Cardinality(W) \in Nat
    BY FS_CardinalityType
  <2>2. /\ IsFiniteSet(U \ {m})
        /\ Cardinality(U \ {m}) = IF m \in U THEN Cardinality(U) - 1 ELSE Cardinality(U)
    BY FS_RemoveElement
  <2> QED
    BY <2>1, <2>2
<1>3. Cardinality(W \ {r}) \in Nat /\ Cardinality(U \ {m}) \in Nat
    BY <1>1, <1>2, FS_CardinalityType
<1>4. Cardinality(W \ {r}) <= Cardinality(U \ {m})
    BY <1>1, <1>2, <1>3
<1> QED
    BY <1>1, <1>4, NoMoreWait

\* One more waits, and a number was left for it.
LEMMA OneMoreWaits ==
    ASSUME NEW J, NEW r, NEW V \in SUBSET (J \cup {r}), NEW U,
           IsFiniteSet(J), IsFiniteSet(U), Cardinality(U) > Cardinality(J)
    PROVE  Cardinality(V) <= Cardinality(U)
<1>1. IsFiniteSet(J \cup {r}) /\ Cardinality(J \cup {r}) <= Cardinality(J) + 1
  <2>1. Cardinality(J) \in Nat
    BY FS_CardinalityType
  <2>2. /\ IsFiniteSet(J \cup {r})
        /\ Cardinality(J \cup {r}) = IF r \in J THEN Cardinality(J) ELSE Cardinality(J) + 1
    BY FS_AddElement
  <2> QED
    BY <2>1, <2>2
<1>2. /\ Cardinality(J) \in Nat /\ Cardinality(U) \in Nat
      /\ Cardinality(J \cup {r}) \in Nat
    BY <1>1, FS_CardinalityType
<1>3. Cardinality(J \cup {r}) <= Cardinality(U)
    BY <1>1, <1>2
<1> QED
    BY <1>1, <1>3, NoMoreWait

\* A step that frees or keeps: no number is taken, and nobody new waits.
Frees(s) == Unused(s) \subseteq Unused(s)' /\ Waiting(s)' \subseteq Waiting(s)

\* A request that arrives finds room, one that adds a manager takes it, and no
\* other step takes any.
LEMMA RoomKept ==
    ASSUME TableTypes, BootTypes, ManagerTypes, JobTypes, RoomLeft, [Next]_vars
    PROVE  RoomLeft'
<1> SUFFICES ASSUME NEW s \in Source
             PROVE  Cardinality(Waiting(s)') <= Cardinality(Unused(s)')
    BY DEF RoomLeft
<1> DEFINE Enough == Cardinality(Waiting(s)') <= Cardinality(Unused(s)')
<1>a. Frees(s) => Enough
    BY NoMoreWait, Finite DEF Frees, RoomLeft
<1>1. ASSUME NEW r \in Process, NEW t \in Source,
             create(r, t) \/ \E kind \in Kinds : Arrives(r, t, kind)
      PROVE  Enough
  <2>1. UNCHANGED <<registry, alive, starting, todo>> /\ Room(t)
    BY <1>1 DEF create, Arrives, registryVars, managerVars, bootVars
  <2>2. /\ jobs[r] = NoJob
        /\ \A q \in Process : q # r => jobs'[q] = jobs[q]
        /\ jobs'[r].man = NoManager /\ jobs'[r].src \in {NoSource, t}
    <3>1. CASE create(r, t)
      BY <3>1, Names DEF create, JobTypes, NoJob
    <3>2. CASE \E kind \in Kinds : Arrives(r, t, kind)
      BY <3>2 DEF Arrives, JobTypes, NoJob
    <3> QED
      BY <1>1, <3>1, <3>2
  <2>3. Unused(s) = Unused(s)'
    BY <2>1, <2>2, Names DEF Unused, JobsOn, NoJob
  <2>4. CASE s # t
    <3>1. Frees(s)
      BY <2>1, <2>2, <2>3, <2>4, Names DEF Frees, Waiting, Coming, JobsOn
    <3> QED
      BY <3>1, <1>a
  <2>5. CASE s = t
    <3>1. Cardinality(Unused(s)') > Cardinality(Coming(s))
      BY <2>1, <2>3, <2>5 DEF Room
    <3>2. Waiting(s)' \subseteq Coming(s) \cup {r}
      BY <2>1, <2>2 DEF Waiting, Coming, JobsOn
    <3> QED
      BY <3>1, <3>2, Finite, OneMoreWaits
  <2> QED
    BY <2>4, <2>5
<1>3. ASSUME NEW r \in Process, WriteRow(r) PROVE Enough
  <2>1. /\ UNCHANGED <<registry, alive, starting, todo>>
        /\ \A q \in Process : /\ jobs'[q].src = jobs[q].src /\ jobs'[q].man = jobs[q].man
                              /\ jobs[q].step = "starting" => jobs'[q].step = "starting"
    BY <1>3 DEF WriteRow, JobTypes, Jobs, registryVars, managerVars, bootVars
  <2>2. Frees(s)
    BY <2>1 DEF Frees, Unused, Waiting, Coming, JobsOn, BootTypes
  <2> QED
    BY <2>2, <1>a
<1>4. ASSUME NEW r \in Process, StopReturns(r) PROVE Enough
  <2>1. /\ starting' = starting /\ todo' = todo
        /\ \A x \in Source : alive'[x] \subseteq alive[x]
        /\ \A x \in Source : registry'[x] \in {registry[x], NoManager}
    BY <1>4 DEF StopReturns, ManagerTypes, bootVars
  <2>2. \A q \in Process : /\ jobs'[q].src = jobs[q].src
                           /\ jobs'[q].man \in {jobs[q].man, NoManager}
                           /\ jobs[q].step = "starting" => jobs'[q].step = "starting"
    BY <1>4 DEF StopReturns, JobTypes, Jobs
  <2>3. Frees(s)
    BY <2>1, <2>2, Names DEF Frees, Unused, Waiting, Coming, JobsOn, BootTypes
  <2> QED
    BY <2>3, <1>a
<1>5. ASSUME NEW r \in Process, StartReturns(r) PROVE Enough
  <2> DEFINE t == jobs[r].src
             m == jobs[r].man
  <2>1. /\ registry' = registry /\ todo' = todo
        /\ \A x \in Source : starting'[x] \subseteq starting[x]
        /\ \A x \in Source : alive'[x] \subseteq alive[x] \cup (IF x = t THEN {m} ELSE {})
    BY <1>5 DEF StartReturns, ManagerTypes
  <2>2. \A q \in Process : jobs'[q] = NoJob \/
            (/\ jobs'[q].src = jobs[q].src /\ jobs'[q].man = jobs[q].man
             /\ jobs'[q].step = jobs[q].step)
    BY <1>5 DEF StartReturns, JobTypes, Jobs
  <2>3. Frees(s)
    BY <2>1, <2>2, Names DEF Frees, Unused, Waiting, Coming, JobsOn, BootTypes
  <2> QED
    BY <2>3, <1>a
<1>6. ASSUME NEW r \in Process, Adding(r) PROVE Enough
  <2> DEFINE t == jobs[r].src
             m == Fresh(t)
  <2>1. /\ todo' = todo
        /\ \A x \in Source : /\ registry'[x] \in {registry[x], IF x = t THEN m ELSE registry[x]}
                             /\ alive'[x] \subseteq alive[x] \cup (IF x = t THEN {m} ELSE {})
                             /\ starting'[x] \subseteq starting[x] \cup (IF x = t THEN {m} ELSE {})
    BY <1>6 DEF Adding, addManager, taken, ManagerTypes, bootVars
  <2>2. /\ \A q \in Process : q # r => jobs'[q] = jobs[q]
        /\ jobs'[r].src = t /\ jobs'[r].man = m /\ jobs'[r].step = "starting"
    <3>1. jobs' = [jobs EXCEPT ![r] = [NoJob EXCEPT !.src = t, !.step = "starting", !.man = m]]
      BY <1>6 DEF Adding, addManager, taken
    <3> HIDE DEF m
    <3> QED
      BY <3>1 DEF JobTypes, NoJob
  <2>3. CASE s # t
    <3>1. Frees(s)
      BY <2>1, <2>2, <2>3 DEF Frees, Unused, Waiting, Coming, JobsOn, BootTypes
    <3> QED
      BY <3>1, <1>a
  <2>4. CASE s = t
    <3>1. r \in Waiting(s)
      BY <1>6, <2>4 DEF Adding, Waiting, Coming, JobsOn, BootTypes
    <3>2. Waiting(s)' \in SUBSET (Waiting(s) \ {r})
      BY <2>1, <2>2, <2>4 DEF Waiting, Coming, JobsOn, BootTypes
    <3>3. Unused(s) \ {m} \subseteq Unused(s)'
      BY <2>1, <2>2, <2>4 DEF Unused, JobsOn
    <3>4. Cardinality(Waiting(s)) <= Cardinality(Unused(s))
      BY DEF RoomLeft
    <3>5. IsFiniteSet(Waiting(s)) /\ IsFiniteSet(Unused(s)) /\ IsFiniteSet(Unused(s)')
      BY Finite
    <3> HIDE DEF m
    <3> QED
      BY <3>1, <3>2, <3>3, <3>4, <3>5, OneServed
  <2> QED
    BY <2>3, <2>4
<1>7. ASSUME NEW r \in Process, Removing(r) PROVE Enough
  <2> DEFINE t == jobs[r].src
  <2>1. UNCHANGED <<registry, alive, starting, todo>>
    BY <1>7 DEF Removing, removeManager, registryVars, managerVars, bootVars
  <2>2. /\ \A q \in Process : q # r => jobs'[q] = jobs[q]
        /\ jobs'[r].src = t /\ jobs'[r].man = registry[t] /\ jobs[r].step # "starting"
    BY <1>7 DEF Removing, removeManager, JobTypes, Jobs
  <2>3. Frees(s)
    BY <2>1, <2>2 DEF Frees, Unused, Waiting, Coming, JobsOn, BootTypes
  <2> QED
    BY <2>3, <1>a
<1>8. ASSUME NEW r \in Process, Ending(r) PROVE Enough
  <2>1. /\ UNCHANGED <<registry, alive, starting, todo>>
        /\ \A q \in Process : jobs'[q] = NoJob \/ jobs'[q] = jobs[q]
    BY <1>8 DEF Ending, JobTypes, bootVars
  <2>2. Frees(s)
    BY <2>1, Names DEF Frees, Unused, Waiting, Coming, JobsOn, BootTypes
  <2> QED
    BY <2>2, <1>a
<1>9. CASE Restart
    BY <1>9, RestartHolds DEF IInv, RoomLeft
<1>10. CASE UNCHANGED vars
  <2>1. UNCHANGED <<registry, alive, starting, todo, jobs>>
    BY <1>10 DEF vars, registryVars, managerVars, bootVars
  <2>2. Frees(s)
    BY <2>1 DEF Frees, Unused, Waiting, Coming, JobsOn, BootTypes
  <2> QED
    BY <2>2, <1>a
<1>11. CASE BootReads
  <2>1. UNCHANGED <<registry, alive, starting, jobs>> /\ todo' \subseteq todo
    BY <1>11 DEF BootReads, BootTypes, registryVars, managerVars
  <2>2. Frees(s)
    BY <2>1 DEF Frees, Unused, Waiting, Coming, JobsOn
  <2> QED
    BY <2>2, <1>a
<1>12. ASSUME NEW t \in Source, BootTakes(t) PROVE Enough
  <2>1. UNCHANGED <<registry, alive, starting>> /\ todo' = todo \ {t} /\ t \in todo
    BY <1>12 DEF BootTakes, registryVars, managerVars
  <2>2. /\ \A q \in Process : q # Boot => jobs'[q] = jobs[q]
        /\ jobs'[Boot].src = t /\ jobs'[Boot].man = NoManager /\ jobs[Boot].src = NoSource
    BY <1>12, Names DEF BootTakes, JobTypes, NoJob
  <2>3. Frees(s)
    BY <2>1, <2>2, Names DEF Frees, Unused, Waiting, Coming, JobsOn
  <2> QED
    BY <2>3, <1>a
<1> QED
    BY <1>1, <1>3, <1>4, <1>5, <1>6, <1>7, <1>8, <1>9, <1>10, <1>11, <1>12, Shapes

-------------------------------------------------------------------------------
(* The designated source.                                                    *)

\* A removal clears the designation of its source, an addition finds no manager
\* where there is a designated one, and the boot designates what it has started.
LEMMA PrimaryKept ==
    ASSUME TableTypes, BootTypes, ManagerTypes, JobTypes, RoomLeft, PrimaryHeld, [Next]_vars
    PROVE  PrimaryHeld'
<1> DEFINE Still == /\ UNCHANGED <<registry, primary, alive, undercut>>
                    /\ jobs'[Boot].step = "starting" => jobs'[Boot] = jobs[Boot]
<1>a. Still => PrimaryHeld'
    BY DEF PrimaryHeld, Served
<1>1. ASSUME NEW r \in Process, NEW s \in Source, r # Boot, create(r, s)
      PROVE  PrimaryHeld'
  <2>1. /\ UNCHANGED <<registry, primary, alive>> /\ undercut' = undercut \ {s}
        /\ primary # s
    BY <1>1 DEF create, registryVars, managerVars
  <2>2. jobs'[Boot] = jobs[Boot] /\ jobs[Boot].src # s
    BY <1>1, Names DEF create, JobTypes, JobsOn
  <2> QED
    BY <2>1, <2>2 DEF PrimaryHeld, Served
<1>2. ASSUME NEW r \in Process, NEW s \in Source, r # Boot,
             \E kind \in Kinds : Arrives(r, s, kind)
      PROVE  PrimaryHeld'
    BY <1>2, <1>a, Names DEF Arrives, JobTypes, registryVars, managerVars
<1>3. ASSUME NEW r \in Process, WriteRow(r) \/ Removing(r) PROVE PrimaryHeld'
  <2>1. UNCHANGED <<registry, primary, alive, undercut>>
    BY <1>3 DEF WriteRow, Removing, removeManager, registryVars, managerVars, historyVars
  <2>2. \A q \in Process : jobs'[q].step = "starting" => jobs'[q] = jobs[q]
    <3>1. CASE WriteRow(r)
      BY <3>1 DEF WriteRow, JobTypes, Jobs
    <3>2. CASE Removing(r)
      BY <3>2 DEF Removing, removeManager, awaits, JobTypes, Jobs
    <3> QED
      BY <1>3, <3>1, <3>2
  <2> QED
    BY <2>1, <2>2, <1>a, Names
<1>4. ASSUME NEW r \in Process, StopReturns(r) PROVE PrimaryHeld'
  <2> DEFINE s == jobs[r].src
  <2>1. primary' # NoSource => primary' = primary /\ primary # s
    BY <1>4 DEF StopReturns, primaryAfter
  <2>2. \A x \in Source : x # s => registry'[x] = registry[x] /\ alive'[x] = alive[x]
    BY <1>4 DEF StopReturns, ManagerTypes
  <2>3. /\ undercut \subseteq undercut'
        /\ jobs[Boot].src = s /\ jobs[Boot].step = "starting" => s \in undercut'
    BY <1>4 DEF StopReturns
  <2>4. jobs'[Boot].step = "starting" => jobs'[Boot] = jobs[Boot] /\ jobs[Boot].src \in Source
    BY <1>4, Names DEF StopReturns, JobTypes, Jobs
  <2>5. \A x \in Source : x # s /\ Served(x) => Served(x)'
    BY <2>2 DEF Served
  <2>6. primary' \notin undercut' \cup {NoSource} => Served(primary)'
    BY <2>1, <2>3, <2>5 DEF PrimaryHeld, TableTypes
  <2>7. jobs'[Boot].step = "starting" /\ jobs'[Boot].src \notin undercut' =>
            Served(jobs[Boot].src)'
    BY <2>3, <2>4, <2>5 DEF PrimaryHeld
  <2> QED
    BY <2>1, <2>4, <2>6, <2>7 DEF PrimaryHeld, Served
<1>5. ASSUME NEW r \in Process, StartReturns(r) PROVE PrimaryHeld'
  <2> DEFINE s == jobs[r].src
  <2>1. /\ UNCHANGED <<registry, undercut>>
        /\ \A x \in Source : alive[x] \subseteq alive'[x]
    BY <1>5 DEF StartReturns, ManagerTypes, historyVars
  <2>2. \/ primary' = primary
        \/ r = Boot /\ primary' = jobs[Boot].src /\ jobs[Boot].step = "starting"
    BY <1>5 DEF StartReturns, designated
  <2>3. jobs'[Boot].step = "starting" => jobs'[Boot] = jobs[Boot] /\ jobs[Boot].src \in Source
    BY <1>5, Names DEF StartReturns, JobTypes, Jobs
  <2>4. \A x \in Source : Served(x) => Served(x)'
    BY <2>1 DEF Served
  <2>5. jobs[Boot].step = "starting" => jobs[Boot].src \in Source
    BY Names DEF JobTypes
  <2>6. PICK x \in Source \cup {NoSource} : x = primary'
    BY <2>2, <2>5 DEF TableTypes
  <2>7. x \notin undercut' \cup {NoSource} => Served(x)'
    <3>1. x \notin undercut \cup {NoSource} => Served(x)
      BY <2>1, <2>2, <2>6 DEF PrimaryHeld
    <3> QED
      BY <2>1, <2>4, <3>1
  <2>8. jobs'[Boot].step = "starting" /\ jobs'[Boot].src \notin undercut' =>
            Served(jobs[Boot].src)'
    BY <2>1, <2>3, <2>4 DEF PrimaryHeld
  <2> QED
    BY <2>3, <2>6, <2>7, <2>8 DEF PrimaryHeld, Served
<1>6. ASSUME NEW r \in Process, Adding(r) PROVE PrimaryHeld'
  <2>1. PICK s \in Source, m \in Managers : s = jobs[r].src /\ m = Fresh(s)
    BY <1>6, FreshIsUnused DEF Adding, Unused
  <2>2. /\ UNCHANGED <<primary, undercut>> /\ registry[s] = NoManager
        /\ registry' = [registry EXCEPT ![s] = m]
        /\ alive' = [alive EXCEPT ![s] = @ \cup {m}]
        /\ jobs' = [jobs EXCEPT ![r] = [NoJob EXCEPT !.src = s, !.step = "starting", !.man = m]]
    BY <1>6, <2>1 DEF Adding, addManager, taken
  <2>3. /\ registry'[s] = m /\ m \in alive'[s] /\ m # NoManager
        /\ \A x \in Source : x # s => registry'[x] = registry[x] /\ alive'[x] = alive[x]
    BY <2>2, Names DEF ManagerTypes
  <2>4. Served(s)' /\ ~Served(s) /\ \A x \in Source : Served(x) => Served(x)'
    BY <2>2, <2>3 DEF Served
  <2>5. jobs'[r].src = s /\ \A q \in Process : q # r => jobs'[q] = jobs[q]
    BY <2>2 DEF JobTypes, NoJob
  <2>6. primary' \notin undercut' \cup {NoSource} => Served(primary)'
    BY <2>2, <2>4 DEF PrimaryHeld, TableTypes
  <2>7. jobs'[Boot].step = "starting" =>
            /\ jobs'[Boot].src \in Source
            /\ jobs'[Boot].src = s \/ jobs'[Boot] = jobs[Boot]
    BY <2>5, Names DEF JobTypes
  <2>8. ASSUME NEW x \in Source, x = jobs'[Boot].src, jobs'[Boot].step = "starting",
               x \notin undercut'
        PROVE  Served(x)'
    <3>1. CASE x = s
      BY <2>4, <3>1 DEF Served
    <3>2. CASE jobs'[Boot] = jobs[Boot]
      <4>1. jobs[Boot].step = "starting" /\ jobs[Boot].src = x
        BY <2>8, <3>2
      <4>2. x \notin undercut
        BY <2>2, <2>8
      <4>3. Served(jobs[Boot].src)
        BY <4>1, <4>2 DEF PrimaryHeld
      <4>4. Served(x)
        BY <4>1, <4>3 DEF Served
      <4> QED
        BY <2>4, <4>4
    <3> QED
      BY <2>7, <2>8, <3>1, <3>2
  <2> QED
    BY <2>6, <2>7, <2>8 DEF PrimaryHeld, Served
<1>7. ASSUME NEW r \in Process, Ending(r) PROVE PrimaryHeld'
    BY <1>7, <1>a, Names DEF Ending, JobTypes
<1>8. CASE Restart
    BY <1>8, RestartHolds DEF IInv
<1>9. CASE BootReads \/ UNCHANGED vars
    BY <1>9, <1>a DEF BootReads, vars, registryVars, managerVars, historyVars
<1>10. ASSUME NEW s \in Source, BootTakes(s) PROVE PrimaryHeld'
  <2>1. jobs'[Boot].step = "read"
    BY <1>10, Names DEF BootTakes, JobTypes, NoJob
  <2> QED
    BY <1>10, <2>1, <1>a DEF BootTakes, registryVars, managerVars, historyVars
<1> QED
    BY <1>1, <1>2, <1>3, <1>4, <1>5, <1>6, <1>7, <1>8, <1>9, <1>10, Shapes

-------------------------------------------------------------------------------
(* Order where no removal clashed.                                           *)

\* A source whose managers are left alone, and on which no request begins to start
\* or stop one, stays orderly.
LEMMA LeftAlone ==
    ASSUME NEW s \in Source, Orderly(s),
           registry'[s] = registry[s], alive'[s] = alive[s], starting'[s] = starting[s],
           \A q \in Process :
             jobs'[q].src = s /\ jobs'[q].step \in {"starting", "stopping"} => jobs'[q] = jobs[q]
    PROVE  Orderly(s)'
BY DEF Orderly, Doing, JobsOn

\* A source with nothing registered, running or starting is orderly whatever the
\* requests on it are, if none starts or stops a manager.
LEMMA NothingThere ==
    ASSUME NEW s \in Source, alive'[s] \subseteq {registry'[s]}, starting'[s] = {},
           \A q \in Process : jobs'[q].src = s => jobs'[q].step \notin {"starting", "stopping"}
    PROVE  Orderly(s)'
BY DEF Orderly, Doing, JobsOn

\* Order is lost only where a removal clashes.
LEMMA OrderPreserved ==
    ASSUME TableTypes, ManagerTypes, JobTypes, RoomLeft, OrderKept, [Next]_vars
    PROVE  OrderKept'
<1> SUFFICES ASSUME NEW s \in Source, s \notin clashed' PROVE Orderly(s)'
    BY DEF OrderKept
<1>1. ASSUME NEW r \in Process, NEW t \in Source, create(r, t) PROVE Orderly(s)'
  <2>1. UNCHANGED <<registry, alive, starting>> /\ clashed' = clashed \ {t}
    BY <1>1 DEF create, registryVars, managerVars
  <2>2. /\ \A q \in Process : q # r => jobs'[q] = jobs[q]
        /\ jobs'[r].step = "read"
    BY <1>1, Names DEF create, JobTypes, NoJob
  <2>3. CASE s # t
    BY <2>1, <2>2, <2>3, LeftAlone DEF OrderKept
  <2>4. CASE s = t
    <3>1. alive'[s] = {} /\ starting'[s] = {}
      BY <1>1, <2>1, <2>4 DEF create
    <3>2. \A q \in Process : jobs'[q].src = s => jobs'[q].step = "read"
      BY <1>1, <2>2, <2>4 DEF create, JobsOn
    <3> QED
      BY <3>1, <3>2, NothingThere
  <2> QED
    BY <2>3, <2>4
<1>2. ASSUME NEW r \in Process, NEW t \in Source, NEW kind \in Kinds, Arrives(r, t, kind)
      PROVE  Orderly(s)'
  <2>1. UNCHANGED <<registry, alive, starting, clashed>>
    BY <1>2 DEF Arrives, registryVars, managerVars
  <2>2. /\ \A q \in Process : q # r => jobs'[q] = jobs[q]
        /\ jobs'[r].step = "read"
    BY <1>2 DEF Arrives, JobTypes, NoJob
  <2> QED
    BY <2>1, <2>2, LeftAlone DEF OrderKept
<1>3. ASSUME NEW r \in Process, WriteRow(r) PROVE Orderly(s)'
  <2>1. UNCHANGED <<registry, alive, starting, clashed>>
    BY <1>3 DEF WriteRow, registryVars, managerVars, historyVars
  <2>2. /\ \A q \in Process : q # r => jobs'[q] = jobs[q]
        /\ jobs'[r].step = "written"
    BY <1>3 DEF WriteRow, JobTypes, Jobs
  <2> QED
    BY <2>1, <2>2, LeftAlone DEF OrderKept
<1>4. ASSUME NEW r \in Process, StopReturns(r) PROVE Orderly(s)'
  <2> DEFINE t == jobs[r].src
  <2>1. /\ clashed' = clashed /\ starting' = starting
        /\ \A x \in Source : x # t => registry'[x] = registry[x] /\ alive'[x] = alive[x]
    BY <1>4 DEF StopReturns, ManagerTypes
  <2>2. /\ \A q \in Process : q # r => jobs'[q] = jobs[q]
        /\ jobs'[r].step = "stopped" /\ jobs'[r].src = t
    BY <1>4 DEF StopReturns, JobTypes, Jobs
  <2>3. CASE s # t
    BY <2>1, <2>2, <2>3, LeftAlone DEF OrderKept
  <2>4. CASE s = t
    <3>1. Orderly(s) /\ r \in Doing(s, "stopping")
      BY <1>4, <2>1, <2>4 DEF StopReturns, OrderKept, Doing, JobsOn
    <3>2. starting[s] = {} /\ jobs[r].man = registry[s] /\ ~jobs[r].missed
      BY <3>1 DEF Orderly
    <3>3. alive'[s] = {}
      BY <1>4, <2>4, <3>1, <3>2 DEF StopReturns, ManagerTypes, Orderly
    <3>4. \A q \in Process : q # r /\ jobs[q].src = s => jobs[q].step \notin {"starting", "stopping"}
      BY <3>1, <3>2 DEF Orderly, Doing, JobsOn
    <3> QED
      BY <2>1, <2>2, <3>2, <3>3, <3>4, NothingThere
  <2> QED
    BY <2>3, <2>4
<1>5. ASSUME NEW r \in Process, StartReturns(r) PROVE Orderly(s)'
  <2> DEFINE t == jobs[r].src
             m == jobs[r].man
  <2>1. /\ clashed' = clashed /\ registry' = registry
        /\ \A x \in Source : x # t => starting'[x] = starting[x] /\ alive'[x] = alive[x]
    BY <1>5 DEF StartReturns, ManagerTypes, historyVars
  <2>2. \A q \in Process :
            jobs'[q] = NoJob \/ jobs'[q] = jobs[q]
              \/ (jobs[q].src = t /\ jobs'[q].src = t /\ jobs[q].step = "stopping")
    BY <1>5 DEF StartReturns, JobTypes, Jobs, JobsOn
  <2>3. CASE s # t
    BY <2>1, <2>2, <2>3, Names, LeftAlone DEF OrderKept
  <2>4. CASE s = t
    <3>1. Orderly(s) /\ r \in Doing(s, "starting")
      BY <1>5, <2>1, <2>4 DEF StartReturns, OrderKept, Doing, JobsOn
    <3>2. m \in starting[s] /\ m = registry[s] /\ starting[s] = {m} /\ alive[s] \subseteq {m}
      BY <3>1 DEF Orderly
    <3>3. starting'[s] = {} /\ alive'[s] \subseteq {m}
      BY <1>5, <2>4, <3>2 DEF StartReturns, ManagerTypes
    <3>4. \A q \in Process : q # r /\ jobs[q].src = s => jobs[q].step \notin {"starting", "stopping"}
      BY <3>1, <3>2 DEF Orderly, Doing, JobsOn
    <3>5. jobs'[r] = NoJob
      BY <1>5 DEF StartReturns
    <3>6. \A q \in Process : jobs'[q].src = s => jobs'[q].step \notin {"starting", "stopping"}
      BY <2>2, <2>4, <3>4, <3>5, Names
    <3> QED
      BY <2>1, <3>2, <3>3, <3>6, NothingThere
  <2> QED
    BY <2>3, <2>4
<1>6. ASSUME NEW r \in Process, Adding(r) PROVE Orderly(s)'
  <2> DEFINE t == jobs[r].src
             m == Fresh(t)
  <2>1. /\ clashed' = clashed
        /\ \A x \in Source : x # t => /\ registry'[x] = registry[x] /\ alive'[x] = alive[x]
                                      /\ starting'[x] = starting[x]
    BY <1>6 DEF Adding, addManager, taken, ManagerTypes
  <2>2. /\ \A q \in Process : q # r => jobs'[q] = jobs[q]
        /\ jobs'[r].src = t /\ jobs'[r].man = m /\ jobs'[r].step = "starting"
    <3>1. jobs' = [jobs EXCEPT ![r] = [NoJob EXCEPT !.src = t, !.step = "starting", !.man = m]]
      BY <1>6 DEF Adding, addManager, taken
    <3> HIDE DEF m
    <3> QED
      BY <3>1 DEF JobTypes, NoJob
  <2>3. CASE s # t
    BY <2>1, <2>2, <2>3, LeftAlone DEF OrderKept
  <2>4. CASE s = t
    <3>1. Orderly(s) /\ registry[s] = NoManager
      BY <1>6, <2>1, <2>4 DEF OrderKept, Adding
    <3>2. alive[s] = {} /\ starting[s] = {}
      BY <3>1, Names DEF Orderly, ManagerTypes
    <3>3. registry'[s] = m /\ alive'[s] = {m} /\ starting'[s] = {m}
      BY <1>6, <2>4, <3>2 DEF Adding, addManager, taken, ManagerTypes
    <3>4. \A q \in Process : q # r /\ jobs[q].src = s => jobs[q].step \notin {"starting", "stopping"}
      BY <3>1, <3>2 DEF Orderly, Doing, JobsOn, JobTypes
    <3>5. Doing(s, "starting")' = {r} /\ Doing(s, "stopping")' = {}
      BY <2>2, <2>4, <3>4 DEF Doing, JobsOn
    <3> HIDE DEF m
    <3> QED
      BY <2>2, <3>3, <3>5 DEF Orderly
  <2> QED
    BY <2>3, <2>4
<1>7. ASSUME NEW r \in Process, Removing(r) PROVE Orderly(s)'
  <2> DEFINE t == jobs[r].src
  <2>1. /\ UNCHANGED <<registry, alive, starting>>
        /\ clashed \subseteq clashed'
        /\ t \notin clashed' => /\ registry[t] \notin starting[t]
                                /\ \A q \in JobsOn(t) : jobs[q].step # "stopping"
    BY <1>7 DEF Removing, removeManager, registryVars, managerVars
  <2>2. /\ \A q \in Process : q # r => jobs'[q] = jobs[q]
        /\ jobs'[r].src = t /\ jobs'[r].man = registry[t] /\ jobs'[r].missed = jobs[r].missed
        /\ jobs'[r].step # "starting"
    BY <1>7 DEF Removing, removeManager, awaits, JobTypes, Jobs
  <2>3. CASE s # t
    BY <2>1, <2>2, <2>3, LeftAlone DEF OrderKept
  <2>4. CASE s = t
    <3>1. Orderly(s)
      BY <2>1 DEF OrderKept
    <3>2. starting[s] = {}
      BY <2>1, <2>4, <3>1 DEF Orderly
    <3>3. ~jobs[r].missed
      BY <1>7 DEF Removing, JobTypes
    <3>4. Doing(s, "starting")' = {} /\ Doing(s, "stopping")' \subseteq {r}
      BY <2>1, <2>2, <2>4, <3>1, <3>2 DEF Orderly, Doing, JobsOn
    <3> QED
      BY <2>1, <2>2, <2>4, <3>1, <3>2, <3>3, <3>4 DEF Orderly
  <2> QED
    BY <2>3, <2>4
<1>8. ASSUME NEW r \in Process, Ending(r) PROVE Orderly(s)'
  <2>1. /\ UNCHANGED <<registry, alive, starting, clashed>>
        /\ \A q \in Process : jobs'[q] = NoJob \/ jobs'[q] = jobs[q]
    BY <1>8 DEF Ending, JobTypes
  <2> QED
    BY <2>1, Names, LeftAlone DEF OrderKept
<1>9. CASE Restart
    BY <1>9, RestartHolds DEF IInv, OrderKept
<1>10. CASE UNCHANGED vars
  <2>1. UNCHANGED <<registry, alive, starting, jobs, clashed>>
    BY <1>10 DEF vars, registryVars, managerVars, historyVars
  <2> QED
    BY <2>1, LeftAlone DEF OrderKept
<1>11. CASE BootReads
  <2>1. UNCHANGED <<registry, alive, starting, jobs, clashed>>
    BY <1>11 DEF BootReads, registryVars, managerVars, historyVars
  <2> QED
    BY <2>1, LeftAlone DEF OrderKept
<1>12. ASSUME NEW t \in Source, BootTakes(t) PROVE Orderly(s)'
  <2>1. UNCHANGED <<registry, alive, starting, clashed>>
    BY <1>12 DEF BootTakes, registryVars, managerVars, historyVars
  <2>2. /\ \A q \in Process : q # Boot => jobs'[q] = jobs[q]
        /\ jobs'[Boot].step = "read"
    BY <1>12, Names DEF BootTakes, JobTypes, NoJob
  <2> QED
    BY <2>1, <2>2, LeftAlone DEF OrderKept
<1> QED
    BY <1>1, <1>2, <1>3, <1>4, <1>5, <1>6, <1>7, <1>8, <1>9, <1>10, <1>11, <1>12, Shapes

-------------------------------------------------------------------------------
(* What the table asks for.  Where requests do not overlap, the single       *)
(* request on a source carries what is still to be done, and so does the     *)
(* boot: Settled is the agreement of managers and row, and Alone(r) how far  *)
(* request r, or the boot, is from it.                                       *)

Settled(s, row) ==
    /\ starting[s] = {}
    /\ alive[s] = {registry[s]} \ {NoManager}
    /\ ~row.enabled => registry[s] = NoManager
    /\ On(row) /\ s \notin parked => registry[s] # NoManager

\* Why r stops the manager: to start another one, or because none is to run.
StopsFor(r) ==
    LET s == jobs[r].src IN
    IF jobs[r].moved THEN rows[s].enabled
    ELSE jobs[r].kind \in {"disconnect", "delete"} \/ ~On(rows[s])

Nothing(s) == registry[s] = NoManager /\ alive[s] = {} /\ starting[s] = {}

Alone(r) ==
    LET s == jobs[r].src
        job == jobs[r]
    IN /\ job.step = "read" /\ job.kind \in {"create", "boot"} => On(rows[s]) /\ Nothing(s)
       /\ job.step = "read" /\ job.kind \notin {"create", "boot"} =>
            /\ Settled(s, rows[s])
            /\ job.kind = "update" => job.old = rows[s] /\ rows[s] # NoRow
            /\ job.kind = "connect" => rows[s].enabled
       /\ job.step = "written" =>
            Settled(s, job.old) /\ job.old # NoRow /\ rows[s] # NoRow
       /\ job.step = "stopping" =>
            /\ registry[s] = job.man /\ alive[s] = {job.man} /\ starting[s] = {}
            /\ StopsFor(r)
       /\ job.step = "stopped" => Nothing(s) /\ StopsFor(r)
       /\ job.step = "starting" =>
            /\ registry[s] = job.man /\ alive[s] = {job.man} /\ starting[s] = {job.man}
            /\ rows[s].enabled

\* The boot is still to come: to every source before it has read the table, and then
\* to those that are on.
Ahead(s) == Nothing(s) /\ (unread \/ On(rows[s]))

Led(s) ==
    /\ \A q, r \in Coming(s) : q = r
    /\ JobsOn(s) = {} => IF s \in todo THEN Ahead(s) ELSE Settled(s, rows[s])
    /\ \A r \in JobsOn(s) : Alone(r) /\ ~jobs[r].missed /\ s \notin todo

LedInv == \A s \in Source \ overlapped : Led(s)

\* A source the step does not touch.
LEMMA LedApart ==
    ASSUME NEW s \in Source, Led(s),
           registry'[s] = registry[s], alive'[s] = alive[s], starting'[s] = starting[s],
           rows'[s] = rows[s], s \in parked' <=> s \in parked,
           unread' = unread, s \in todo' <=> s \in todo,
           \A q \in Process : jobs[q].src = s \/ jobs'[q].src = s => jobs'[q] = jobs[q]
    PROVE  Led(s)'
<1>1. \A q \in Process : q \in JobsOn(s) <=> q \in JobsOn(s)'
    BY DEF JobsOn
<1>2. JobsOn(s)' = JobsOn(s)
    BY <1>1 DEF JobsOn
<1>3. \A q \in JobsOn(s) : q \in Process /\ jobs'[q] = jobs[q] /\ jobs[q].src = s
    BY DEF JobsOn
<1>4. \A row : Settled(s, row) <=> Settled(s, row)'
    BY DEF Settled
<1>5. Nothing(s)' <=> Nothing(s)
    BY DEF Nothing
<1>6. ASSUME NEW q \in JobsOn(s) PROVE Alone(q)' /\ ~jobs'[q].missed
  <2>1. Alone(q) /\ ~jobs[q].missed
    BY DEF Led
  <2>2. StopsFor(q)' <=> StopsFor(q)
    BY <1>3 DEF StopsFor
  <2> QED
    BY <1>3, <1>4, <1>5, <2>1, <2>2 DEF Alone
<1>7. JobsOn(s) = {} => (IF s \in todo THEN Ahead(s)' ELSE Settled(s, rows[s])')
    BY <1>4, <1>5 DEF Led, Ahead
<1>8. Coming(s)' = Coming(s)
    BY <1>2 DEF Coming
<1> QED
    BY <1>2, <1>6, <1>7, <1>8 DEF Led

\* No other request is on the source of a request where none overlap.
LEMMA SoleRequest ==
    ASSUME LedInv, NEW r \in Process, jobs[r].src \in Source \ overlapped
    PROVE  /\ \A q \in Process : q # r => jobs[q].src # jobs[r].src
           /\ Alone(r) /\ ~jobs[r].missed /\ Led(jobs[r].src) /\ jobs[r].src \notin todo
BY DEF LedInv, Led, Coming, JobsOn

\* The single request goes on.
LEMMA LedOn ==
    ASSUME NEW r \in Process, NEW s \in Source,
           \A q \in Process : q # r => jobs'[q].src # s,
           jobs'[r].src = s, Alone(r)', ~jobs'[r].missed, s \notin todo'
    PROVE  Led(s)'
<1>1. JobsOn(s)' = {r} /\ Coming(s)' = {r}
    BY DEF JobsOn, Coming
<1> QED
    BY <1>1 DEF Led

\* The single request is over.
LEMMA LedOff ==
    ASSUME NEW s \in Source,
           \A q \in Process : jobs'[q].src # s,
           s \notin todo', Settled(s, rows[s])'
    PROVE  Led(s)'
<1>1. JobsOn(s)' = {} /\ Coming(s)' = {}
    BY DEF JobsOn, Coming
<1> QED
    BY <1>1 DEF Led

\* The single request adds a manager, to a source that is to have one.
LEMMA AddLed ==
    ASSUME ManagerTypes, JobTypes, LedInv, NEW r \in Process, NEW s \in Source,
           s = jobs[r].src, s \notin overlapped, addManager(r, s), rows' = rows,
           rows[s].enabled, starting[s] = {}, alive[s] = {registry[s]} \ {NoManager}
    PROVE  Led(s)'
<1>0. (\A q \in Process : q # r => jobs[q].src # s) /\ s \notin todo /\ todo' = todo
    BY SoleRequest DEF addManager, bootVars
<1>1. CASE taken(s)
  <2>1. /\ jobs' = [jobs EXCEPT ![r] = NoJob]
        /\ UNCHANGED <<registry, alive, starting>>
    BY <1>1 DEF addManager, Ends, registryVars, managerVars
  <2>2. \A q \in Process : jobs'[q].src # s
    BY <1>0, <2>1, Names DEF JobTypes
  <2>3. registry[s] # NoManager
    BY <1>1 DEF taken
  <2>4. Settled(s, rows[s])'
    BY <2>1, <2>3 DEF Settled
  <2> QED
    BY <1>0, <2>2, <2>4, LedOff
<1>2. CASE ~taken(s)
  <2> DEFINE m == Fresh(s)
  <2>1. /\ registry' = [registry EXCEPT ![s] = m]
        /\ alive' = [alive EXCEPT ![s] = @ \cup {m}]
        /\ starting' = [starting EXCEPT ![s] = @ \cup {m}]
        /\ jobs' = [jobs EXCEPT ![r] = [NoJob EXCEPT !.src = s, !.step = "starting", !.man = m]]
    BY <1>2 DEF addManager
  <2>2. registry[s] = NoManager
    BY <1>2 DEF taken
  <2> HIDE DEF m
  <2>3. PICK n : n = m
    OBVIOUS
  <2>4. registry'[s] = n /\ alive'[s] = {n} /\ starting'[s] = {n}
    BY <2>1, <2>2, <2>3 DEF ManagerTypes
  <2>5. /\ jobs'[r].src = s /\ jobs'[r].step = "starting" /\ jobs'[r].man = n
        /\ jobs'[r].missed = FALSE
        /\ \A q \in Process : q # r => jobs'[q] = jobs[q]
    BY <2>1, <2>3 DEF JobTypes, NoJob
  <2>6. Alone(r)'
    BY <2>4, <2>5 DEF Alone
  <2> QED
    BY <1>0, <2>5, <2>6, LedOn
<1> QED
    BY <1>1, <1>2

\* The single request stops what runs, if anything.
LEMMA RemoveLed ==
    ASSUME ManagerTypes, JobTypes, LedInv, NEW r \in Process, NEW s \in Source,
           s = jobs[r].src, s \notin overlapped, NEW again \in BOOLEAN,
           removeManager(r, s, again), rows' = rows,
           starting[s] = {}, alive[s] = {registry[s]} \ {NoManager},
           IF again THEN rows[s].enabled
           ELSE jobs[r].kind \in {"disconnect", "delete"} \/ ~On(rows[s])
    PROVE  Led(s)'
<1>0. /\ \A q \in Process : q # r => jobs[q].src # s
      /\ ~jobs[r].missed /\ s \notin todo /\ todo' = todo
    BY SoleRequest DEF removeManager, bootVars
<1>1. /\ jobs' = [jobs EXCEPT ![r].step = awaits(s), ![r].man = registry[s],
                              ![r].moved = again, ![r].old = NoRow]
      /\ UNCHANGED <<registry, alive, starting>>
    BY DEF removeManager, registryVars, managerVars
<1>2. /\ jobs'[r].src = s /\ jobs'[r].step = awaits(s) /\ jobs'[r].man = registry[s]
      /\ jobs'[r].moved = again /\ jobs'[r].missed = jobs[r].missed
      /\ jobs'[r].kind = jobs[r].kind
      /\ \A q \in Process : q # r => jobs'[q] = jobs[q]
    BY <1>1 DEF JobTypes, Jobs
<1>3. StopsFor(r)'
    BY <1>2 DEF StopsFor
<1>4. Alone(r)'
  <2>1. CASE registry[s] = NoManager
    <3>1. jobs'[r].step = "stopped"
      BY <1>2, <2>1 DEF awaits
    <3>2. Nothing(s)'
      BY <1>1, <2>1 DEF Nothing
    <3> QED
      BY <1>2, <1>3, <3>1, <3>2 DEF Alone
  <2>2. CASE registry[s] # NoManager
    <3>1. jobs'[r].step = "stopping"
      BY <1>2, <2>2 DEF awaits
    <3>2. alive[s] = {registry[s]}
      BY <2>2
    <3> QED
      BY <1>1, <1>2, <1>3, <3>1, <3>2 DEF Alone
  <2> QED
    BY <2>1, <2>2
<1> QED
    BY <1>0, <1>2, <1>4, LedOn

\* A request that arrives finds its source settled, or overlaps another.
LEMMA ArrivesLed ==
    ASSUME JobTypes, LedInv, NEW r \in Process, NEW t \in Source,
           NEW kind \in {"update", "delete", "connect", "disconnect"},
           Arrives(r, t, kind),
           kind = "update" => rows[t] # NoRow,
           kind = "connect" => rows[t].enabled
    PROVE  LedInv'
<1>1. /\ UNCHANGED <<rows, registry, alive, starting, unread, todo, parked>>
      /\ overlapped' = IF Coming(t) # {} THEN overlapped \cup {t} ELSE overlapped
      /\ jobs[r] = NoJob
    BY DEF Arrives, registryVars, managerVars, bootVars
<1> DEFINE j == [NoJob EXCEPT !.kind = kind, !.src = t,
                              !.old = IF kind = "update" THEN rows[t] ELSE NoRow]
<1>2. jobs' = [jobs EXCEPT ![r] = j]
    BY DEF Arrives
<1>3. /\ j.src = t /\ j.step = "read" /\ j.kind = kind /\ j.missed = FALSE
      /\ kind = "update" => j.old = rows[t]
    BY DEF NoJob
<1> HIDE DEF j
<1>4. /\ jobs'[r].src = t /\ jobs'[r].step = "read" /\ jobs'[r].kind = kind
      /\ jobs'[r].missed = FALSE
      /\ kind = "update" => jobs'[r].old = rows[t]
      /\ \A q \in Process : q # r => jobs'[q] = jobs[q]
    BY <1>2, <1>3 DEF JobTypes
<1> SUFFICES ASSUME NEW s \in Source, s \notin overlapped' PROVE Led(s)'
    BY DEF LedInv
<1>5. s \notin overlapped
    BY <1>1
<1>6. CASE s # t
  <2>1. \A q \in Process : jobs[q].src = s \/ jobs'[q].src = s => jobs'[q] = jobs[q]
    BY <1>1, <1>4, <1>6, Names
  <2> QED
    BY <1>1, <1>5, <2>1, LedApart DEF LedInv
<1>7. CASE s = t
  <2>1. JobsOn(s) = {} /\ s \notin todo /\ s \notin todo'
    BY <1>1, <1>7 DEF Coming
  <2>2. Settled(s, rows[s])
    BY <1>5, <2>1 DEF LedInv, Led
  <2>3. Settled(s, rows[s])'
    BY <1>1, <2>2 DEF Settled
  <2>4. Alone(r)'
    BY <1>1, <1>4, <1>7, <2>3 DEF Alone
  <2>5. \A q \in Process : q # r => jobs'[q].src # s
    BY <1>4, <2>1 DEF JobsOn
  <2> QED
    BY <1>4, <1>7, <2>1, <2>4, <2>5, LedOn
<1> QED
    BY <1>6, <1>7

\* A step of request r leaves every source but t alone.
TouchesOnly(r, t) ==
    /\ UNCHANGED <<overlapped, unread, todo>>
    /\ \A x \in Source \ {t} :
         /\ registry'[x] = registry[x] /\ alive'[x] = alive[x] /\ starting'[x] = starting[x]
         /\ rows'[x] = rows[x]
         /\ x \in parked' <=> x \in parked
    /\ \A q \in Process \ {r} :
         jobs'[q] = jobs[q] \/ (jobs[q].src = t /\ jobs'[q].src = t)
    /\ jobs'[r].src \in {t, NoSource}

\* ... and so keeps what is said of them.
LEMMA OthersLed ==
    ASSUME JobTypes, LedInv, NEW r \in Process, NEW t \in Source, t = jobs[r].src,
           TouchesOnly(r, t), t \notin overlapped => Led(t)'
    PROVE  LedInv'
<1> SUFFICES ASSUME NEW s \in Source, s \notin overlapped, s # t PROVE Led(s)'
    BY DEF LedInv, TouchesOnly
<1>1. \A q \in Process : jobs[q].src = s \/ jobs'[q].src = s => jobs'[q] = jobs[q]
    BY Names DEF TouchesOnly
<1>2. Led(s)
    BY DEF LedInv
<1>3. /\ registry'[s] = registry[s] /\ alive'[s] = alive[s] /\ starting'[s] = starting[s]
      /\ rows'[s] = rows[s] /\ unread' = unread /\ todo' = todo
    BY DEF TouchesOnly
<1>4. s \in parked' <=> s \in parked
    BY DEF TouchesOnly
<1> QED
    BY <1>1, <1>2, <1>3, <1>4, LedApart

\* addManager and removeManager touch their own source alone.
LEMMA OneSource ==
    ASSUME ManagerTypes, JobTypes, NEW r \in Process, NEW t \in Source, t = jobs[r].src,
           rows' = rows,
           addManager(r, t) \/ \E again \in BOOLEAN : removeManager(r, t, again)
    PROVE  TouchesOnly(r, t)
<1>1. CASE addManager(r, t) /\ taken(t)
  <2>1. /\ jobs' = [jobs EXCEPT ![r] = NoJob]
        /\ UNCHANGED <<registry, alive, starting, unread, todo, overlapped, parked>>
    BY <1>1 DEF addManager, Ends, registryVars, managerVars, bootVars, historyVars
  <2> QED
    BY <2>1, Names DEF JobTypes, TouchesOnly
<1>2. CASE addManager(r, t) /\ ~taken(t)
  <2> DEFINE m == Fresh(t)
  <2>1. /\ registry' = [registry EXCEPT ![t] = m]
        /\ alive' = [alive EXCEPT ![t] = @ \cup {m}]
        /\ starting' = [starting EXCEPT ![t] = @ \cup {m}]
        /\ jobs' = [jobs EXCEPT ![r] = [NoJob EXCEPT !.src = t, !.step = "starting", !.man = m]]
        /\ parked' = parked \ {t} /\ UNCHANGED <<overlapped, unread, todo>>
    BY <1>2 DEF addManager, bootVars
  <2> HIDE DEF m
  <2>2. /\ \A x \in Source \ {t} : /\ registry'[x] = registry[x]
                                   /\ alive'[x] = alive[x]
                                   /\ starting'[x] = starting[x]
        /\ \A q \in Process \ {r} : jobs'[q] = jobs[q]
        /\ jobs'[r].src = t
    BY <2>1 DEF ManagerTypes, JobTypes, NoJob
  <2>3. \A x \in Source \ {t} : x \in parked' <=> x \in parked
    BY <2>1
  <2>4. /\ UNCHANGED <<overlapped, unread, todo>> /\ rows' = rows
        /\ jobs'[r].src \in {t, NoSource}
    BY <2>1, <2>2
  <2> QED
    BY <2>2, <2>3, <2>4, Zenon DEF TouchesOnly
<1>3. ASSUME NEW again \in BOOLEAN, removeManager(r, t, again) PROVE TouchesOnly(r, t)
  <2>1. /\ UNCHANGED <<overlapped, unread, todo, registry, alive, starting, parked>>
        /\ jobs' = [jobs EXCEPT ![r].step = awaits(t), ![r].man = registry[t],
                                ![r].moved = again, ![r].old = NoRow]
    BY <1>3 DEF removeManager, registryVars, managerVars, bootVars
  <2>2. /\ \A q \in Process \ {r} : jobs'[q] = jobs[q]
        /\ jobs'[r].src = t
    BY <2>1 DEF JobTypes, Jobs
  <2> QED
    BY <2>1, <2>2 DEF TouchesOnly
<1> QED
    BY <1>1, <1>2, <1>3

\* POST / finds no manager and no request on the source it adds.
LEMMA CreateLed ==
    ASSUME TableTypes, JobTypes, LedInv, NEW r \in Process, NEW t \in Source, create(r, t)
    PROVE  LedInv'
<1>1. /\ jobs[r] = NoJob /\ JobsOn(t) = {} /\ Nothing(t)
      /\ overlapped' = IF t \in todo THEN overlapped \cup {t} ELSE overlapped \ {t}
      /\ parked' = parked \ {t}
      /\ UNCHANGED <<registry, alive, starting, unread, todo>>
    BY DEF create, Nothing, registryVars, managerVars, bootVars
<1>2. PICK row \in Rows :
        /\ rows' = [rows EXCEPT ![t] = row]
        /\ jobs' = IF On(row)
                   THEN [jobs EXCEPT ![r].kind = "create", ![r].src = t]
                   ELSE jobs
    BY DEF create
<1>3. rows'[t] = row /\ \A x \in Source : x # t => rows'[x] = rows[x]
    BY <1>2 DEF TableTypes
<1>4. \A q \in Process : q # r => jobs'[q] = jobs[q]
    BY <1>2 DEF JobTypes
<1>5. \/ /\ On(row) /\ jobs'[r].src = t /\ jobs'[r].kind = "create"
         /\ jobs'[r].step = "read" /\ jobs'[r].missed = FALSE
      \/ ~On(row) /\ jobs' = jobs
    BY <1>1, <1>2, Names DEF JobTypes, Jobs, NoJob
<1> SUFFICES ASSUME NEW s \in Source, s \notin overlapped' PROVE Led(s)'
    BY DEF LedInv
<1>6. CASE s # t
  <2>1. \A q \in Process : jobs[q].src = s \/ jobs'[q].src = s => jobs'[q] = jobs[q]
    BY <1>1, <1>4, <1>5, <1>6, Names
  <2> QED
    BY <1>1, <1>3, <1>6, <2>1, LedApart DEF LedInv
<1>9. s = t => s \notin todo'
    BY <1>1
<1>7. CASE s = t /\ On(row)
  <2>1. Nothing(s)'
    BY <1>1, <1>7 DEF Nothing
  <2>2. \A q \in Process : q # r => jobs'[q].src # s
    BY <1>1, <1>4, <1>7 DEF JobsOn
  <2>3. Alone(r)'
    BY <1>3, <1>5, <1>7, <2>1 DEF Alone
  <2> QED
    BY <1>5, <1>7, <1>9, <2>2, <2>3, LedOn
<1>8. CASE s = t /\ ~On(row)
  <2>1. \A q \in Process : jobs'[q].src # s
    BY <1>1, <1>5, <1>8 DEF JobsOn
  <2>2. Settled(s, rows[s])'
    BY <1>1, <1>3, <1>8 DEF Nothing, Settled
  <2> QED
    BY <1>8, <1>9, <2>1, <2>2, LedOff
<1> QED
    BY <1>6, <1>7, <1>8

\* PUT keeps the row it first read.
LEMMA WriteRowLed ==
    ASSUME TableTypes, JobTypes, LedInv, NEW r \in Process, WriteRow(r)
    PROVE  LedInv'
<1>1. PICK s \in Source : s = jobs[r].src
    BY DEF WriteRow, JobTypes, NoJob
<1>2. /\ jobs[r].kind = "update" /\ jobs[r].step = "read"
      /\ UNCHANGED <<registry, alive, starting, unread, todo, overlapped, parked>>
    BY DEF WriteRow, registryVars, managerVars, bootVars, historyVars
<1>3. PICK moved \in BOOLEAN : jobs' = [jobs EXCEPT ![r].step = "written", ![r].moved = moved]
    BY DEF WriteRow
<1>4. /\ \A x \in Source : x # s => rows'[x] = rows[x]
      /\ rows[s] # NoRow => rows'[s] # NoRow
  <2>1. rows' = rows \/ \E enabled, auto \in BOOLEAN :
            rows[s] # NoRow /\ rows' = [rows EXCEPT ![s].enabled = enabled, ![s].auto = auto]
    <3>1. PICK enabled \in {{TRUE}, {FALSE}, {}}, auto \in {{TRUE}, {FALSE}, {}} :
             rows' = IF rows[s] = NoRow THEN rows
                     ELSE [rows EXCEPT
                             ![s].enabled = IF enabled = {} THEN @ ELSE TRUE \in enabled,
                             ![s].auto = IF auto = {} THEN @ ELSE TRUE \in auto]
      BY <1>1 DEF WriteRow
    <3>2. rows[s] # NoRow => rows[s].enabled \in BOOLEAN /\ rows[s].auto \in BOOLEAN
      BY DEF TableTypes, Rows
    <3> DEFINE e == IF enabled = {} THEN rows[s].enabled ELSE TRUE \in enabled
               a == IF auto = {} THEN rows[s].auto ELSE TRUE \in auto
    <3>3. rows[s] # NoRow => e \in BOOLEAN /\ a \in BOOLEAN
      <4>1. (TRUE \in enabled) \in BOOLEAN /\ (TRUE \in auto) \in BOOLEAN
        OBVIOUS
      <4>2. /\ e = rows[s].enabled \/ e = (TRUE \in enabled)
            /\ a = rows[s].auto \/ a = (TRUE \in auto)
        OBVIOUS
      <4> HIDE DEF e, a
      <4> QED
        BY <3>2, <4>1, <4>2
    <3>4. rows[s] # NoRow => rows' = [rows EXCEPT ![s].enabled = e, ![s].auto = a]
      BY <3>1, <3>2 DEF TableTypes, Rows
    <3> HIDE DEF e, a
    <3> QED
      BY <3>1, <3>3, <3>4
  <2> QED
    BY <2>1 DEF TableTypes, Rows, NoRow
<1>5. /\ jobs'[r].src = s /\ jobs'[r].step = "written" /\ jobs'[r].old = jobs[r].old
      /\ jobs'[r].missed = jobs[r].missed
      /\ \A q \in Process : q # r => jobs'[q] = jobs[q]
    BY <1>1, <1>3 DEF JobTypes, Jobs
<1>6. ASSUME s \notin overlapped PROVE Led(s)'
  <2>1. /\ \A q \in Process : q # r => jobs[q].src # s
        /\ Alone(r) /\ ~jobs[r].missed /\ s \notin todo
    BY <1>1, <1>6, SoleRequest
  <2>2. Settled(s, rows[s]) /\ jobs[r].old = rows[s] /\ rows[s] # NoRow
    BY <1>1, <1>2, <2>1 DEF Alone
  <2>3. Settled(s, jobs[r].old)'
    <3>1. Settled(s, jobs'[r].old)
      BY <1>5, <2>2
    <3> QED
      BY <1>2, <3>1 DEF Settled
  <2>4. Alone(r)'
    BY <1>4, <1>5, <2>2, <2>3 DEF Alone
  <2> QED
    BY <1>2, <1>5, <2>1, <2>4, LedOn
<1>7. TouchesOnly(r, s)
    BY <1>2, <1>4, <1>5 DEF TouchesOnly
<1> QED
    BY <1>1, <1>6, <1>7, OthersLed

\* PUT does what its two readings of the row differ by.
LEMMA TransitionLed ==
    ASSUME TableTypes, ManagerTypes, JobTypes, LedInv, NEW r \in Process, ApplyTransition(r)
    PROVE  LedInv'
<1>1. PICK s \in Source : s = jobs[r].src
    BY Names DEF ApplyTransition, JobTypes
<1> DEFINE old == jobs[r].old
           act == IF rows[s] = NoRow THEN "nothing" ELSE transition(old, rows[s], jobs[r].moved)
<1>2. jobs[r].kind = "update" /\ jobs[r].step = "written" /\ rows' = rows
    BY DEF ApplyTransition
<1>3. \/ /\ act = "nothing" /\ jobs' = [jobs EXCEPT ![r] = NoJob]
         /\ UNCHANGED <<registry, alive, starting, unread, todo, overlapped, parked>>
      \/ act = "add" /\ addManager(r, s)
      \/ act \in {"remove", "restart"} /\ removeManager(r, s, act = "restart")
    BY <1>1 DEF ApplyTransition, Ends, registryVars, managerVars, bootVars, historyVars
<1>4. ASSUME s \notin overlapped
      PROVE  /\ Settled(s, old) /\ old # NoRow /\ rows[s] # NoRow
             /\ \A q \in Process : q # r => jobs[q].src # s
             /\ s \notin todo
    BY <1>1, <1>2, <1>4, SoleRequest DEF Alone
<1>5. ASSUME s \notin overlapped PROVE Led(s)'
  <2>1. /\ starting[s] = {} /\ alive[s] = {registry[s]} \ {NoManager}
        /\ ~old.enabled => registry[s] = NoManager
        /\ On(old) /\ s \notin parked => registry[s] # NoManager
    BY <1>4, <1>5 DEF Settled
  <2>2. /\ old \in Rows /\ rows[s] \in Rows
        /\ act = transition(old, rows[s], jobs[r].moved)
    BY <1>4, <1>5 DEF JobTypes, Jobs, TableTypes
  <2>3. /\ old.enabled \in BOOLEAN /\ old.auto \in BOOLEAN
        /\ rows[s].enabled \in BOOLEAN /\ rows[s].auto \in BOOLEAN
        /\ jobs[r].moved \in BOOLEAN
    BY <2>2 DEF Rows, JobTypes, Jobs
  <2>4. /\ On(old) <=> old.enabled /\ old.auto
        /\ On(rows[s]) <=> rows[s].enabled /\ rows[s].auto
    BY <1>4, <1>5 DEF On
  <2> HIDE DEF act
  <2>5. /\ act = "add" => rows[s].enabled
        /\ act = "remove" => ~On(rows[s])
        /\ act = "restart" => rows[s].enabled
        /\ act = "nothing" =>
              /\ ~rows[s].enabled => ~old.enabled
              /\ On(rows[s]) => On(old)
    <3>1. PICK oe, oa, ne, na, mv \in BOOLEAN :
             /\ oe = old.enabled /\ oa = old.auto
             /\ ne = rows[s].enabled /\ na = rows[s].auto /\ mv = jobs[r].moved
      BY <2>3
    <3>2. act = IF ~oe
                THEN IF ne /\ na THEN "add" ELSE "nothing"
                ELSE IF ~ne \/ (oa /\ ~na) THEN "remove"
                ELSE IF ~oa /\ na THEN "add"
                ELSE IF mv THEN "restart" ELSE "nothing"
      BY <2>2, <2>4, <3>1 DEF transition
    <3> QED
      BY <2>4, <3>1, <3>2
  <2>6. CASE /\ act = "nothing" /\ jobs' = [jobs EXCEPT ![r] = NoJob]
             /\ UNCHANGED <<registry, alive, starting, unread, todo, overlapped, parked>>
    <3>1. \A q \in Process : jobs'[q].src # s
      BY <1>4, <1>5, <2>6, Names DEF JobTypes
    <3>2. Settled(s, rows[s])
      BY <2>1, <2>3, <2>4, <2>5, <2>6 DEF Settled
    <3>3. Settled(s, rows[s])'
      BY <1>2, <2>6, <3>2 DEF Settled
    <3> QED
      BY <1>4, <1>5, <2>6, <3>1, <3>3, LedOff
  <2>7. CASE act = "add" /\ addManager(r, s)
    BY <1>1, <1>2, <1>5, <2>1, <2>5, <2>7, AddLed
  <2>8. CASE act \in {"remove", "restart"} /\ removeManager(r, s, act = "restart")
    <3>1. PICK again \in BOOLEAN : again <=> act = "restart"
      OBVIOUS
    <3>2. removeManager(r, s, again)
      <4>1. again = (act = "restart")
        BY <3>1
      <4> QED
        BY <2>8, <4>1
    <3>3. IF again THEN rows[s].enabled
          ELSE jobs[r].kind \in {"disconnect", "delete"} \/ ~On(rows[s])
      BY <2>5, <2>8, <3>1
    <3> QED
      BY <1>1, <1>2, <1>5, <2>1, <3>2, <3>3, RemoveLed
  <2> QED
    BY <1>3, <2>6, <2>7, <2>8 DEF act
<1> HIDE DEF act
<1>6. TouchesOnly(r, s)
  <2>1. (act = "restart") \in BOOLEAN
    OBVIOUS
  <2>2. CASE addManager(r, s) \/ \E again \in BOOLEAN : removeManager(r, s, again)
    BY <1>1, <1>2, <2>2, OneSource
  <2>3. CASE /\ jobs' = [jobs EXCEPT ![r] = NoJob]
             /\ UNCHANGED <<registry, alive, starting, unread, todo, overlapped, parked>>
    BY <1>2, <2>3, Names DEF JobTypes, TouchesOnly
  <2> QED
    BY <1>3, <2>1, <2>2, <2>3
<1> QED
    BY <1>1, <1>5, <1>6, OthersLed

\* The other routes: a source created or connected is one to run.
LEMMA ProceedLed ==
    ASSUME TableTypes, ManagerTypes, JobTypes, LedInv, NEW r \in Process, Proceed(r)
    PROVE  LedInv'
<1>1. PICK s \in Source : s = jobs[r].src
  <2>1. jobs[r].kind # "none"
    BY DEF Proceed
  <2>2. jobs[r] # NoJob
    BY <2>1 DEF NoJob
  <2> QED
    BY <2>2 DEF JobTypes
<1>2. /\ jobs[r].step = "read" /\ rows' = rows
      /\ \/ jobs[r].kind \in {"create", "connect", "boot"} /\ addManager(r, s)
         \/ jobs[r].kind \in {"disconnect", "delete"} /\ removeManager(r, s, FALSE)
    BY <1>1 DEF Proceed
<1>3. ASSUME s \notin overlapped PROVE Led(s)'
  <2>1. Alone(r)
    BY <1>1, <1>3, SoleRequest
  <2>2. /\ starting[s] = {} /\ alive[s] = {registry[s]} \ {NoManager}
        /\ jobs[r].kind \in {"create", "connect", "boot"} => rows[s].enabled
    <3>1. CASE jobs[r].kind \in {"create", "boot"}
      BY <1>1, <1>2, <2>1, <3>1 DEF Alone, Nothing, On
    <3>2. CASE jobs[r].kind \notin {"create", "boot"}
      BY <1>1, <1>2, <2>1, <3>2 DEF Alone, Settled
    <3> QED
      BY <3>1, <3>2
  <2>3. CASE jobs[r].kind \in {"create", "connect", "boot"} /\ addManager(r, s)
    BY <1>1, <1>2, <1>3, <2>2, <2>3, AddLed
  <2>4. CASE jobs[r].kind \in {"disconnect", "delete"} /\ removeManager(r, s, FALSE)
    <3>1. PICK again \in BOOLEAN : again = FALSE
      OBVIOUS
    <3> QED
      BY <1>1, <1>2, <1>3, <2>2, <2>4, <3>1, RemoveLed
  <2> QED
    BY <1>2, <2>3, <2>4
<1>4. TouchesOnly(r, s)
  <2>1. addManager(r, s) \/ \E again \in BOOLEAN : removeManager(r, s, again)
    BY <1>2
  <2> QED
    BY <1>1, <1>2, <2>1, OneSource
<1> QED
    BY <1>1, <1>3, <1>4, OthersLed

\* stop() took down what ran: no start was in flight beside the only request.
LEMMA StopReturnsLed ==
    ASSUME TableTypes, ManagerTypes, JobTypes, LedInv, NEW r \in Process, StopReturns(r)
    PROVE  LedInv'
<1>1. PICK s \in Source : s = jobs[r].src
    BY Names DEF StopReturns, JobTypes
<1>2. /\ jobs[r].step = "stopping"
      /\ alive' = IF jobs[r].missed THEN alive ELSE [alive EXCEPT ![s] = @ \ {jobs[r].man}]
      /\ registry' = [registry EXCEPT ![s] = NoManager]
      /\ jobs' = [jobs EXCEPT ![r].step = "stopped", ![r].man = NoManager,
                              ![r].missed = FALSE]
      /\ UNCHANGED <<rows, starting, unread, todo, overlapped, parked>>
    BY <1>1 DEF StopReturns, bootVars
<1>3. /\ jobs'[r].src = s /\ jobs'[r].step = "stopped" /\ jobs'[r].moved = jobs[r].moved
      /\ jobs'[r].missed = FALSE /\ jobs'[r].kind = jobs[r].kind
      /\ \A q \in Process : q # r => jobs'[q] = jobs[q]
    BY <1>1, <1>2 DEF JobTypes, Jobs
<1>4. ASSUME s \notin overlapped PROVE Led(s)'
  <2>1. /\ \A q \in Process : q # r => jobs[q].src # s
        /\ Alone(r) /\ ~jobs[r].missed /\ s \notin todo
    BY <1>1, <1>4, SoleRequest
  <2>2. alive[s] = {jobs[r].man} /\ starting[s] = {} /\ StopsFor(r)
    BY <1>1, <1>2, <2>1 DEF Alone
  <2>3. Nothing(s)'
    BY <1>2, <2>1, <2>2 DEF Nothing, ManagerTypes
  <2>4. StopsFor(r)'
    BY <1>1, <1>2, <1>3, <2>2 DEF StopsFor
  <2>5. Alone(r)'
    BY <1>3, <2>3, <2>4 DEF Alone
  <2> QED
    BY <1>2, <1>3, <2>1, <2>5, LedOn
<1>5. \A x \in Source : x # s => registry'[x] = registry[x] /\ alive'[x] = alive[x]
    BY <1>2 DEF ManagerTypes
<1>6. TouchesOnly(r, s)
    BY <1>2, <1>3, <1>5 DEF TouchesOnly
<1> QED
    BY <1>1, <1>4, <1>6, OthersLed

\* The route goes on: the new manager, the deleted row, the user's disconnect.
LEMMA AfterStopLed ==
    ASSUME TableTypes, ManagerTypes, JobTypes, LedInv, NEW r \in Process, AfterStop(r)
    PROVE  LedInv'
<1>1. PICK s \in Source : s = jobs[r].src
    BY Names DEF AfterStop, JobTypes
<1>2. /\ jobs[r].step = "stopped"
      /\ \/ jobs[r].moved /\ addManager(r, s) /\ rows' = rows
         \/ /\ ~jobs[r].moved /\ jobs' = [jobs EXCEPT ![r] = NoJob]
            /\ rows' = IF jobs[r].kind = "delete" THEN [rows EXCEPT ![s] = NoRow] ELSE rows
            /\ parked' = IF jobs[r].kind = "disconnect" THEN parked \cup {s} ELSE parked
            /\ UNCHANGED <<registry, alive, starting, unread, todo, overlapped>>
    BY <1>1 DEF AfterStop, Ends, registryVars, managerVars, bootVars
<1>3. ASSUME s \notin overlapped
      PROVE  /\ Nothing(s) /\ StopsFor(r) /\ s \notin todo
             /\ \A q \in Process : q # r => jobs[q].src # s
    BY <1>1, <1>2, <1>3, SoleRequest DEF Alone
<1>4. CASE jobs[r].moved /\ addManager(r, s) /\ rows' = rows
  <2>1. ASSUME s \notin overlapped PROVE Led(s)'
    <3>1. /\ starting[s] = {} /\ alive[s] = {registry[s]} \ {NoManager}
          /\ rows[s].enabled
      BY <1>1, <1>3, <1>4, <2>1 DEF Nothing, StopsFor
    <3> QED
      BY <1>1, <1>4, <2>1, <3>1, AddLed
  <2> QED
    BY <1>1, <1>4, <2>1, OneSource, OthersLed
<1>5. CASE /\ ~jobs[r].moved /\ jobs' = [jobs EXCEPT ![r] = NoJob]
           /\ rows' = IF jobs[r].kind = "delete" THEN [rows EXCEPT ![s] = NoRow] ELSE rows
           /\ parked' = IF jobs[r].kind = "disconnect" THEN parked \cup {s} ELSE parked
           /\ UNCHANGED <<registry, alive, starting, unread, todo, overlapped>>
  <2>1. ASSUME s \notin overlapped PROVE Led(s)'
    <3>1. \A q \in Process : jobs'[q].src # s
      BY <1>3, <1>5, <2>1, Names DEF JobTypes
    <3>2. jobs[r].kind \in {"disconnect", "delete"} \/ ~On(rows[s])
      BY <1>1, <1>3, <1>5, <2>1 DEF StopsFor
    <3>3. On(rows'[s]) => s \in parked'
      <4>1. CASE jobs[r].kind = "delete"
        BY <1>5, <4>1 DEF On, TableTypes
      <4>2. CASE jobs[r].kind = "disconnect"
        BY <1>5, <4>2
      <4>3. CASE jobs[r].kind \notin {"disconnect", "delete"}
        BY <1>5, <3>2, <4>3
      <4> QED
        BY <4>1, <4>2, <4>3
    <3>4. Settled(s, rows[s])'
      BY <1>3, <1>5, <2>1, <3>3 DEF Settled, Nothing
    <3> QED
      BY <1>3, <1>5, <2>1, <3>1, <3>4, LedOff
  <2>2. /\ \A x \in Source : x # s => rows'[x] = rows[x]
        /\ \A x \in Source : x # s => (x \in parked' <=> x \in parked)
    BY <1>5 DEF TableTypes
  <2>3. /\ \A q \in Process : q # r => jobs'[q] = jobs[q]
        /\ jobs'[r].src \in {s, NoSource}
    BY <1>5, Names DEF JobTypes
  <2>4. TouchesOnly(r, s)
    BY <1>5, <2>2, <2>3 DEF TouchesOnly
  <2> QED
    BY <1>1, <2>1, <2>4, OthersLed
<1> QED
    BY <1>2, <1>4, <1>5

\* start() has returned and its manager runs.
LEMMA StartReturnsLed ==
    ASSUME TableTypes, ManagerTypes, JobTypes, LedInv, NEW r \in Process, StartReturns(r)
    PROVE  LedInv'
<1>1. PICK s \in Source, m \in Managers : s = jobs[r].src /\ m = jobs[r].man
    BY Names DEF StartReturns, JobTypes, Jobs
<1>2. /\ jobs[r].step = "starting"
      /\ starting' = [starting EXCEPT ![s] = @ \ {m}]
      /\ alive' = alive \/ alive' = [alive EXCEPT ![s] = @ \cup {m}]
      /\ jobs'[r] = NoJob
      /\ \A q \in Process : q # r => jobs'[q] = jobs[q] \/ (jobs[q].src = s /\ jobs'[q].src = s)
      /\ UNCHANGED <<rows, registry, unread, todo, overlapped, parked>>
    BY <1>1 DEF StartReturns, historyVars, JobTypes, Jobs, JobsOn
<1>3. ASSUME s \notin overlapped PROVE Led(s)'
  <2>1. /\ \A q \in Process : q # r => jobs[q].src # s
        /\ Alone(r) /\ s \notin todo
    BY <1>1, <1>3, SoleRequest
  <2>2. /\ registry[s] = m /\ alive[s] = {m} /\ starting[s] = {m} /\ rows[s].enabled
    BY <1>1, <1>2, <2>1 DEF Alone
  <2>3. \A q \in Process : jobs'[q].src # s
    BY <1>2, <2>1, Names
  <2>4. registry'[s] = m /\ alive'[s] = {m} /\ starting'[s] = {} /\ m # NoManager
    BY <1>2, <2>2, Names DEF ManagerTypes
  <2>5. Settled(s, rows[s])'
    BY <1>2, <2>2, <2>4 DEF Settled
  <2> QED
    BY <1>2, <2>1, <2>3, <2>5, LedOff
<1>4. \A x \in Source : x # s => starting'[x] = starting[x] /\ alive'[x] = alive[x]
    BY <1>2 DEF ManagerTypes
<1>5. jobs'[r].src = NoSource
    BY <1>2, Names
<1>6. TouchesOnly(r, s)
    BY <1>2, <1>4, <1>5 DEF TouchesOnly
<1> QED
    BY <1>1, <1>3, <1>6, OthersLed

\* When the server has come up, the boot is still to come to every source.
LEMMA InitLed == Init => LedInv
<1> SUFFICES ASSUME Init, NEW s \in Source PROVE Led(s)
    BY DEF LedInv
<1>1. JobsOn(s) = {} /\ Coming(s) = {Boot}
    BY Names DEF Init, JobsOn, Coming
<1>2. Ahead(s) /\ s \in todo
    BY DEF Init, Ahead, Nothing
<1> QED
    BY <1>1, <1>2 DEF Led

LEMMA InitLedNext == Init' => LedInv'
BY InitLed, PTL

\* The boot reads the table: what is not on stays down, with nothing to be done.
LEMMA BootReadsLed ==
    ASSUME TableTypes, BootTypes, JobTypes, LedInv, BootReads
    PROVE  LedInv'
<1>1. /\ UNCHANGED <<rows, registry, alive, starting, jobs, overlapped, parked>>
      /\ unread /\ ~unread' /\ todo = Source /\ todo' = {s \in Source : On(rows[s])}
    BY DEF BootReads, BootTypes, registryVars, managerVars, historyVars
<1> SUFFICES ASSUME NEW s \in Source, s \notin overlapped PROVE Led(s)'
    BY <1>1 DEF LedInv
<1>2. JobsOn(s) = {} /\ Ahead(s)
    BY <1>1 DEF LedInv, Led
<1>3. \A q \in Process : jobs'[q].src # s
    BY <1>1, <1>2 DEF JobsOn
<1>4. JobsOn(s)' = {}
    BY <1>3 DEF JobsOn
<1>5. Nothing(s)'
    BY <1>1, <1>2 DEF Ahead, Nothing
<1>6. CASE On(rows[s])
  <2>1. Coming(s)' = {Boot} /\ s \in todo'
    BY <1>1, <1>4, <1>6 DEF Coming
  <2>2. Ahead(s)'
    BY <1>1, <1>5, <1>6 DEF Ahead
  <2> QED
    BY <1>4, <2>1, <2>2 DEF Led
<1>7. CASE ~On(rows[s])
  <2>1. s \notin todo' /\ ~On(rows'[s])
    BY <1>1, <1>7
  <2>2. Settled(s, rows[s])'
    BY <1>5, <2>1 DEF Settled, Nothing
  <2> QED
    BY <1>3, <2>1, <2>2, LedOff
<1> QED
    BY <1>6, <1>7

\* It takes a source that is on and has no manager.
LEMMA BootTakesLed ==
    ASSUME TableTypes, BootTypes, JobTypes, LedInv, NEW t \in Source, BootTakes(t)
    PROVE  LedInv'
<1>1. /\ UNCHANGED <<rows, registry, alive, starting, unread, overlapped, parked>>
      /\ todo' = todo \ {t} /\ t \in todo /\ ~unread /\ jobs[Boot] = NoJob
    BY DEF BootTakes, registryVars, managerVars, historyVars
<1>2. /\ \A q \in Process : q # Boot => jobs'[q] = jobs[q]
      /\ jobs'[Boot].src = t /\ jobs'[Boot].kind = "boot" /\ jobs'[Boot].step = "read"
      /\ jobs'[Boot].missed = FALSE
    BY Names DEF BootTakes, JobTypes, NoJob
<1> SUFFICES ASSUME NEW s \in Source, s \notin overlapped PROVE Led(s)'
    BY <1>1 DEF LedInv
<1>3. CASE s # t
  <2>1. \A q \in Process : jobs[q].src = s \/ jobs'[q].src = s => jobs'[q] = jobs[q]
    BY <1>1, <1>2, <1>3, Names
  <2>2. (s \in todo' <=> s \in todo) /\ (s \in parked' <=> s \in parked)
    BY <1>1, <1>3
  <2> QED
    BY <1>1, <2>1, <2>2, LedApart DEF LedInv
<1>4. CASE s = t
  <2>1. JobsOn(s) = {} /\ Ahead(s)
    BY <1>1, <1>4 DEF LedInv, Led
  <2>2. \A q \in Process : q # Boot => jobs'[q].src # s
    BY <1>2, <2>1 DEF JobsOn
  <2>3. Nothing(s)' /\ On(rows'[s])
    BY <1>1, <2>1 DEF Ahead, Nothing
  <2>4. Alone(Boot)'
    BY <1>2, <1>4, <2>3 DEF Alone
  <2> QED
    BY <1>1, <1>2, <1>4, <2>2, <2>4, Names, LedOn
<1> QED
    BY <1>3, <1>4

\* No step leaves a source and its row at odds unless requests overlap.
LEMMA LedKept ==
    ASSUME TableTypes, BootTypes, ManagerTypes, JobTypes, LedInv, [Next]_vars
    PROVE  LedInv'
<1>1. ASSUME NEW r \in Request, NEW s \in Source, create(r, s) PROVE LedInv'
    BY <1>1, Names, CreateLed
<1>2. ASSUME NEW r \in Request, NEW s \in Source,
             update(r, s) \/ delete(r, s) \/ connect(r, s) \/ disconnect(r, s)
      PROVE  LedInv'
    BY <1>2, Names, ArrivesLed DEF update, delete, connect, disconnect
<1>3. ASSUME NEW r \in Process,
             WriteRow(r) \/ ApplyTransition(r) \/ Proceed(r)
               \/ StopReturns(r) \/ AfterStop(r) \/ StartReturns(r)
      PROVE  LedInv'
    BY <1>3, WriteRowLed, TransitionLed, ProceedLed, StopReturnsLed, AfterStopLed,
       StartReturnsLed
<1>4. CASE Restart
    BY <1>4, InitLedNext DEF Restart, Init, TableTypes
<1>5. CASE UNCHANGED vars
  <2> SUFFICES ASSUME NEW s \in Source, s \notin overlapped' PROVE Led(s)'
    BY DEF LedInv
  <2>1. UNCHANGED <<rows, registry, alive, starting, jobs, unread, todo, overlapped, parked>>
    BY <1>5 DEF vars, registryVars, managerVars, bootVars, historyVars
  <2> QED
    BY <2>1, LedApart DEF LedInv
<1>6. CASE BootReads \/ \E s \in Source : BootTakes(s)
    BY <1>6, BootReadsLed, BootTakesLed
<1> QED
    BY <1>1, <1>2, <1>3, <1>4, <1>5, <1>6 DEF Next

-------------------------------------------------------------------------------
(* The theorems.                                                             *)

\* No step breaks the inductive invariant.
LEMMA StepKeeps == IInv /\ [Next]_vars => IInv'
BY TableKept, BootKept, ManagersKept, JobsKept, RoomKept, PrimaryKept, OrderPreserved DEF IInv

\* It holds in every state of every behaviour.
LEMMA InvariantHolds == Spec => []IInv
BY InitHolds, StepKeeps, PTL DEF Spec

\* Every variable has its type; in particular a request that adds a manager finds
\* a number for it.
THEOREM TypeCorrect == Spec => []TypeOK
<1>1. IInv => TypeOK
    BY DEF IInv, TypeOK, TableTypes, BootTypes, ManagerTypes, JobTypes
<1> QED
    BY InvariantHolds, <1>1, PTL

\* Whatever requests overlap each other and the boot, the source designated primary
\* has a registered manager, and it runs, unless a removal of it returned while the
\* boot awaited its start() (removeManager, bootstrapSources).
THEOREM PrimaryServed == Spec => []PrimaryIsServed
<1>1. IInv => PrimaryIsServed
    BY DEF IInv, PrimaryHeld, Served, PrimaryIsServed
<1> QED
    BY InvariantHolds, <1>1, PTL

\* What runs is in the map, where a request can reach and stop it, save after
\* removals that clash (addManager, removeManager).
THEOREM NoOrphans == Spec => []NoOrphan
<1>1. IInv => NoOrphan
    BY DEF IInv, OrderKept, Orderly, NoOrphan
<1> QED
    BY InvariantHolds, <1>1, PTL

\* Where requests on a source overlap neither each other nor the boot that is still to
\* start it, what runs is what its row asks for once they are over, unless a user
\* disconnected it (PUT, DELETE, connect, bootstrapSources).
THEOREM RowsAreObeyed == Spec => []RowsObeyed
<1>1. Init => LedInv
    BY InitLed
<1>2. IInv /\ LedInv /\ [Next]_vars => LedInv'
    BY LedKept DEF IInv
<1>3. LedInv => RowsObeyed
  <2> SUFFICES ASSUME LedInv PROVE RowsObeyed
    OBVIOUS
  <2>1. ASSUME NEW s \in Source, s \notin overlapped, Coming(s) = {}
        PROVE  Settled(s, rows[s])
    BY <2>1 DEF LedInv, Led, Coming
  <2>2. DisabledIsDown
    BY <2>1 DEF DisabledIsDown, Settled
  <2>3. AutoIsUp
    BY <2>1 DEF AutoIsUp, Settled
  <2> QED
    BY <2>2, <2>3 DEF RowsObeyed
<1> QED
    BY InvariantHolds, <1>1, <1>2, <1>3, PTL DEF Spec

===============================================================================
