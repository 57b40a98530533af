--------------------------- MODULE MigratorProofs ---------------------------
(* Theorems about Migrator, for every set of configurations, numbers of    *)
(* rows, commands and faults: types, the gate of the cut-over, the         *)
(* lifecycle, the lock, and what a cancellation, a failure and the         *)
(* destructor leave behind.                                                *)
EXTENDS Migrator, FiniteSetTheorems, TLAPS

-----------------------------------------------------------------------------
(* Type correctness.                                                       *)

\* A group of variables that a step leaves alone keeps its type.
LEMMA UnchangedTyped ==
    /\ FixedOK /\ UNCHANGED fixed => FixedOK'
    /\ ControlOK /\ UNCHANGED control => ControlOK'
    /\ ReportOK /\ UNCHANGED report => ReportOK'
    /\ ProgressOK /\ UNCHANGED progress => ProgressOK'
    /\ TablesOK /\ UNCHANGED tables => TablesOK'
    /\ ThreadsOK /\ UNCHANGED threads => ThreadsOK'
    /\ PcOK /\ UNCHANGED pc => PcOK'
BY DEF FixedOK, ControlOK, ReportOK, ProgressOK, TablesOK, ThreadsOK, PcOK,
       fixed, control, flags, report, progress, tables, threads

LEMMA GoesTyped ==
    ASSUME PcOK, NEW p \in Controllers, NEW from, NEW to \in Labels, Goes(p, from, to)
    PROVE  PcOK'
BY DEF Goes, PcOK

LEMMA StatementTyped ==
    ASSUME TypeOK, NEW label, NEW next \in Labels, NEW succeeds, Statement(label, next, succeeds)
    PROVE  TypeOK'
<1>1. "run" \in Controllers /\ "fail" \in Labels
  BY DEF Controllers, Labels, RunLabels
<1> QED  BY <1>1, UnchangedTyped, GoesTyped DEF TypeOK, Statement

LEMMA StartThreadTyped ==
    ASSUME TypeOK, NEW w \in Workers, NEW from, NEW to \in Labels,
           StartThread("run", w, from, to), UNCHANGED report, streaming' \in BOOLEAN
    PROVE  TypeOK'
<1>1. PcOK'
  BY GoesTyped DEF TypeOK, StartThread, Controllers
<1>2. ThreadsOK'
  BY DEF TypeOK, StartThread, ThreadsOK
<1>3. ControlOK'
  BY DEF TypeOK, StartThread, ControlOK, flags
<1> QED  BY <1>1, <1>2, <1>3, UnchangedTyped DEF TypeOK, StartThread

LEMMA JoinTyped ==
    ASSUME TypeOK, NEW p \in Controllers, NEW w \in Workers, NEW from, NEW to \in Labels,
           Join(p, w, from, to)
    PROVE  TypeOK'
<1>1. PcOK'
  BY GoesTyped, UnchangedTyped DEF TypeOK, Join
<1>2. ThreadsOK'
  BY DEF TypeOK, Join, ThreadsOK, threads
<1> QED  BY <1>1, <1>2, UnchangedTyped DEF TypeOK, Join

\* The controllers and the labels they go to.
LEMMA LabelsTyped ==
    /\ "run" \in Controllers /\ "user" \in Controllers
    /\ RunLabels \subseteq Labels /\ CleanupLabels \subseteq Labels /\ UserLabels \subseteq Labels
BY DEF Controllers, Labels

LEMMA SetupTyped ==
    ASSUME TypeOK,
           \/ Start \/ PhaseInitialSetup \/ DropStaleGhost \/ CreateGhostTable
           \/ DropStaleChangelog \/ CreateChangelogTable \/ MarkMigrated
           \/ PhaseAlterGhostTable \/ PhaseInspectOriginalTable \/ PhaseValidateMigration
           \/ PhasePopulateRowRange \/ PhaseReadStreamInitiate
    PROVE  TypeOK'
<1>1. CASE Start
  BY <1>1, UnchangedTyped, GoesTyped, LabelsTyped DEF TypeOK, Start, ControlOK, RunLabels
<1>2. CASE PhaseInitialSetup
  BY <1>2, StatementTyped, LabelsTyped DEF PhaseInitialSetup, RunLabels
<1>3. CASE DropStaleGhost
  BY <1>3, UnchangedTyped, GoesTyped, LabelsTyped DEF TypeOK, DropStaleGhost, TablesOK, RunLabels
<1>4. CASE CreateGhostTable
  BY <1>4, UnchangedTyped, GoesTyped, LabelsTyped DEF TypeOK, CreateGhostTable, TablesOK, RunLabels
<1>5. CASE DropStaleChangelog
  BY <1>5, UnchangedTyped, GoesTyped, LabelsTyped
     DEF TypeOK, DropStaleChangelog, DropChangelog, TablesOK, RunLabels
<1>6. CASE CreateChangelogTable
  BY <1>6, UnchangedTyped, GoesTyped, LabelsTyped
     DEF TypeOK, CreateChangelogTable, TablesOK, RunLabels
<1>7. CASE MarkMigrated
  BY <1>7, UnchangedTyped, GoesTyped, LabelsTyped DEF TypeOK, MarkMigrated, ControlOK, flags, RunLabels
<1>8. CASE PhaseAlterGhostTable
  BY <1>8, StatementTyped, LabelsTyped DEF PhaseAlterGhostTable, RunLabels
<1>9. CASE PhaseInspectOriginalTable \/ PhaseValidateMigration
  BY <1>9, StatementTyped, LabelsTyped DEF PhaseInspectOriginalTable, PhaseValidateMigration, RunLabels
<1>10. CASE PhasePopulateRowRange
  <2>1. PcOK'
    BY <1>10, GoesTyped, LabelsTyped DEF TypeOK, PhasePopulateRowRange, RunLabels
  <2>2. ProgressOK'
    BY <1>10 DEF TypeOK, PhasePopulateRowRange, ProgressOK, FixedOK
  <2> QED  BY <1>10, <2>1, <2>2, UnchangedTyped DEF TypeOK, PhasePopulateRowRange
<1>11. CASE PhaseReadStreamInitiate
  BY <1>11, StartThreadTyped, LabelsTyped
     DEF PhaseReadStreamInitiate, RunLabels, Workers, TypeOK, ControlOK, report
<1> QED
  BY <1>1, <1>2, <1>3, <1>4, <1>5, <1>6, <1>7, <1>8, <1>9, <1>10, <1>11

LEMMA StopStreamerTyped ==
    ASSUME TypeOK, NEW p \in Controllers, NEW from, NEW to \in Labels, StopStreamer(p, from, to)
    PROVE  TypeOK'
<1>1. ControlOK'
  BY DEF TypeOK, StopStreamer, ControlOK, flags
<1> QED  BY <1>1, UnchangedTyped, GoesTyped DEF TypeOK, StopStreamer

LEMMA DropChangelogTyped ==
    ASSUME TypeOK, NEW p \in Controllers, NEW from, NEW to \in Labels,
           DropChangelog(p, from, to), ReportOK'
    PROVE  TypeOK'
<1>1. TablesOK'
  BY DEF TypeOK, DropChangelog, TablesOK
<1> QED  BY <1>1, UnchangedTyped, GoesTyped DEF TypeOK, DropChangelog

LEMMA RowCopyTyped ==
    ASSUME TypeOK,
           \/ BeginRowCopy \/ PhaseRowCopy \/ RowCopyEnds \/ AwaitCutOver
           \/ LockOriginalTable \/ RenameTables \/ UnlockTables
           \/ PhaseCleanup \/ Complete \/ HandleError
    PROVE  TypeOK'
<1>1. CASE BeginRowCopy
  BY <1>1, UnchangedTyped, GoesTyped, LabelsTyped DEF TypeOK, BeginRowCopy, ReportOK, RunLabels
<1>2. CASE PhaseRowCopy
  <2>1. CASE Goes("run", "monitor", "joinCopy") /\ UNCHANGED <<fixed, control, report, progress, tables, threads>>
    BY <2>1, UnchangedTyped, GoesTyped, LabelsTyped DEF TypeOK, RunLabels
  <2> QED
    BY <1>2, <2>1, StartThreadTyped, JoinTyped, LabelsTyped
       DEF PhaseRowCopy, RunLabels, Workers, TypeOK, ControlOK
<1>3. CASE RowCopyEnds
  BY <1>3, UnchangedTyped, GoesTyped, LabelsTyped DEF TypeOK, RowCopyEnds, ReportOK, RunLabels
<1>4. CASE AwaitCutOver
  BY <1>4, UnchangedTyped, GoesTyped, LabelsTyped DEF TypeOK, AwaitCutOver, RunLabels
<1>5. CASE LockOriginalTable
  BY <1>5, UnchangedTyped, GoesTyped, LabelsTyped DEF TypeOK, LockOriginalTable, TablesOK, RunLabels
<1>6. CASE RenameTables
  BY <1>6, UnchangedTyped, GoesTyped, LabelsTyped DEF TypeOK, RenameTables, TablesOK, RunLabels
<1>7. CASE UnlockTables
  <2>1. TablesOK'
    BY <1>7 DEF TypeOK, UnlockTables, TablesOK
  <2>2. ReportOK'
    BY <1>7 DEF TypeOK, UnlockTables, ReportOK
  <2>3. PcOK'
    BY <1>7, GoesTyped, LabelsTyped DEF TypeOK, UnlockTables, RunLabels
  <2> QED  BY <1>7, <2>1, <2>2, <2>3, UnchangedTyped DEF TypeOK, UnlockTables
<1>8. CASE PhaseCleanup
  <2>1. CASE DropOldTable
    BY <2>1, UnchangedTyped, GoesTyped, LabelsTyped DEF TypeOK, DropOldTable, TablesOK, RunLabels
  <2>2. CASE DropChangelog("run", "finalDropChangelog", "finalStopStreamer") /\ UNCHANGED report
    BY <2>2, DropChangelogTyped, UnchangedTyped, LabelsTyped DEF TypeOK, RunLabels
  <2>3. CASE StopStreamer("run", "finalStopStreamer", "finalJoinStream")
    BY <2>3, StopStreamerTyped, LabelsTyped DEF RunLabels
  <2>4. CASE \/ Join("run", "stream", "finalJoinStream", "finalJoinHeartbeat")
             \/ Join("run", "heartbeat", "finalJoinHeartbeat", "finalJoinThrottle")
             \/ Join("run", "throttle", "finalJoinThrottle", "complete")
    BY <2>4, JoinTyped, LabelsTyped DEF RunLabels, Workers
  <2> QED
    BY <1>8, <2>1, <2>2, <2>3, <2>4 DEF PhaseCleanup
<1>9. CASE Complete \/ HandleError
  BY <1>9, UnchangedTyped, GoesTyped, LabelsTyped DEF TypeOK, Complete, HandleError, ReportOK, RunLabels, CleanupLabels
<1> QED
  BY <1>1, <1>2, <1>3, <1>4, <1>5, <1>6, <1>7, <1>8, <1>9

LEMMA CleanupOnErrorTyped ==
    ASSUME TypeOK, NEW p \in Controllers, CleanupOnError(p) \/ NullConnection(p)
    PROVE  TypeOK'
<1>1. CASE /\ Goes(p, "cleanUp", "stopStreamer")
           /\ running' = FALSE /\ cancelled' = TRUE
           /\ UNCHANGED <<fixed, paused, row_copy_complete, all_events_up_to_lock_processed,
                          ghost_table_migrated, streaming, throttled, report, progress,
                          tables, threads>>
  BY <1>1, UnchangedTyped, GoesTyped, LabelsTyped DEF TypeOK, ControlOK, CleanupLabels
<1>2. CASE StopStreamer(p, "stopStreamer", "joinStream")
  BY <1>2, StopStreamerTyped, LabelsTyped DEF CleanupLabels
<1>3. CASE Join(p, "stream", "joinStream", "dropGhost")
  BY <1>3, JoinTyped, LabelsTyped DEF CleanupLabels, Workers
<1>4. CASE DropGhostTable(p)
  BY <1>4, UnchangedTyped, GoesTyped, LabelsTyped DEF TypeOK, DropGhostTable, TablesOK, CleanupLabels
<1>5. CASE p = "run" /\ DropChangelog(p, "dropChangelog", "returned")
             /\ result' = "failed" /\ UNCHANGED <<phase, status>>
  BY <1>5, DropChangelogTyped, LabelsTyped DEF TypeOK, ReportOK, RunLabels
<1>6. CASE DropChangelog(p, "dropChangelog", IF destroying THEN "destroyed" ELSE "idle")
             /\ UNCHANGED report
  <2>1. (IF destroying THEN "destroyed" ELSE "idle") \in Labels
    BY LabelsTyped DEF UserLabels
  <2> QED  BY <1>6, <2>1, DropChangelogTyped, UnchangedTyped DEF TypeOK
<1>7. CASE NullConnection(p)
  BY <1>7, UnchangedTyped DEF TypeOK, NullConnection, ThreadsOK
<1> QED
  BY <1>1, <1>2, <1>3, <1>4, <1>5, <1>6, <1>7 DEF CleanupOnError

LEMMA UserTyped ==
    ASSUME TypeOK, User
    PROVE  TypeOK'
<1>1. CASE Pause \/ Resume \/ Throttle \/ Unthrottle
  <2>1. ControlOK'
    BY <1>1 DEF TypeOK, Pause, Resume, Throttle, Unthrottle, Command, ControlOK
  <2>2. ReportOK'
    BY <1>1 DEF TypeOK, Pause, Resume, Throttle, Unthrottle, Command, ReportOK
  <2> QED
    BY <1>1, <2>1, <2>2, UnchangedTyped DEF TypeOK, Pause, Resume, Throttle, Unthrottle, Command
<1>2. CASE PanicAbort
  BY <1>2, UnchangedTyped, GoesTyped, LabelsTyped DEF TypeOK, PanicAbort, ReportOK, UserLabels
<1>3. CASE Destroy
  BY <1>3, UnchangedTyped, GoesTyped, LabelsTyped DEF TypeOK, Destroy, ThreadsOK, UserLabels
<1>4. CASE Cancel
  <2>1. ControlOK'
    BY <1>4 DEF TypeOK, Cancel, ControlOK
  <2>2. ReportOK'
    BY <1>4 DEF TypeOK, Cancel, ReportOK
  <2>3. PcOK'
    BY <1>4, GoesTyped, LabelsTyped DEF TypeOK, Cancel, UserLabels
  <2> QED  BY <1>4, <2>1, <2>2, <2>3, UnchangedTyped DEF TypeOK, Cancel
<1>5. CASE CancelJoins
  BY <1>5, JoinTyped, LabelsTyped DEF CancelJoins, UserLabels, CleanupLabels, Workers
<1> QED
  BY <1>1, <1>2, <1>3, <1>4, <1>5, CleanupOnErrorTyped, LabelsTyped DEF User, GoOn

LEMMA WorksTyped ==
    ASSUME TypeOK, NEW w \in Workers, NEW from,
           NEW to \in {"loop", "check", "await", "chunk", "pop", "set", "done"}, Works(w, from, to),
           row_copy_complete' \in BOOLEAN, all_events_up_to_lock_processed' \in BOOLEAN,
           throttled' \in BOOLEAN, copied' \in Nat, last_key' \in Nat
    PROVE  TypeOK'
<1>1. ThreadsOK'
  BY DEF TypeOK, Works, ThreadsOK
<1>2. ControlOK' /\ ProgressOK'
  BY DEF TypeOK, Works, ControlOK, ProgressOK, flags
<1> QED  BY <1>1, <1>2, UnchangedTyped DEF TypeOK, Works

\* The rows of a chunk are counted by a natural number.
LEMMA ChunkCount ==
    ASSUME NEW n \in Nat, NEW a, NEW b
    PROVE  Cardinality({k \in 1..n : a < k /\ k <= b}) \in Nat
<1>1. IsFiniteSet(1..n)
  BY FS_Interval
<1>2. IsFiniteSet({k \in 1..n : a < k /\ k <= b})
  BY <1>1, FS_Subset
<1> QED  BY <1>2, FS_CardinalityType

LEMMA WorkersTyped ==
    ASSUME TypeOK,
           RunRowCopy \/ RunEventsApply \/ RunHeartbeat \/ RunThrottleCheck \/ StreamLoop
    PROVE  TypeOK'
<1> USE DEF Workers
<1>1. CASE RunRowCopy
  <2>1. CASE /\ Works("copy", "chunk", "loop")
             /\ last_key' = ChunkEnd(last_key)
             /\ copied' = copied + Cardinality({k \in 1..rows : last_key < k /\ k <= last_key'})
             /\ UNCHANGED <<row_copy_complete, all_events_up_to_lock_processed, throttled>>
    <3>1. copied' \in Nat /\ last_key' \in Nat
      BY <2>1, ChunkCount DEF TypeOK, ProgressOK, FixedOK, ChunkEnd
    <3> QED  BY <2>1, <3>1, WorksTyped DEF TypeOK, ControlOK
  <2>2. (IF Going /\ ~paused THEN "check" ELSE "done") \in {"check", "done"}
    OBVIOUS
  <2> QED
    BY <1>1, <2>1, <2>2, WorksTyped DEF RunRowCopy, TypeOK, ControlOK, ProgressOK
<1>2. CASE RunEventsApply
  <2>1. (IF Going THEN "pop" ELSE "done") \in {"pop", "done"}
    OBVIOUS
  <2> QED
    BY <1>2, <2>1, WorksTyped DEF RunEventsApply, TypeOK, ControlOK, ProgressOK
<1>3. CASE RunHeartbeat \/ StreamLoop
  BY <1>3, WorksTyped DEF RunHeartbeat, StreamLoop, TypeOK, ControlOK, ProgressOK
<1>4. CASE RunThrottleCheck
  <2>1. (IF Going THEN "set" ELSE "done") \in {"set", "done"}
    OBVIOUS
  <2>2. throttled' \in BOOLEAN
    BY <1>4, MigratorAssumption DEF RunThrottleCheck, TypeOK, ControlOK
  <2> QED
    BY <1>4, <2>1, <2>2, WorksTyped DEF RunThrottleCheck, TypeOK, ControlOK, ProgressOK
<1> QED  BY <1>1, <1>2, <1>3, <1>4

LEMMA InitTyped == Init => TypeOK
<1> SUFFICES ASSUME Init PROVE TypeOK
  OBVIOUS
<1>1. PcOK
  BY DEF Init, PcOK, Controllers, Labels, RunLabels, UserLabels
<1>2. ThreadsOK
  BY DEF Init, ThreadsOK
<1> QED
  BY <1>1, <1>2, MigratorAssumption
     DEF Init, TypeOK, FixedOK, ControlOK, ReportOK, ProgressOK, TablesOK

LEMMA NextTyped == TypeOK /\ [Next]_vars => TypeOK'
<1> SUFFICES ASSUME TypeOK, [Next]_vars PROVE TypeOK'
  OBVIOUS
<1>1. CASE Run
  BY <1>1, SetupTyped, RowCopyTyped, CleanupOnErrorTyped, LabelsTyped DEF Run
<1>2. CASE UNCHANGED vars
  BY <1>2, UnchangedTyped DEF TypeOK, vars
<1> QED
  BY <1>1, <1>2, UserTyped, WorkersTyped DEF Next

(* Every variable of the migration has its type in every reachable state,  *)
(* whatever statements fail and whatever commands the user gives.          *)
THEOREM TypeCorrect == Spec => []TypeOK
BY InitTyped, NextTyped, PTL DEF Spec

-----------------------------------------------------------------------------
(* No cut-over before the migration is drained.                            *)

BeforeCopy ==
    {"start", "setup", "dropStaleGhost", "createGhost", "dropStaleChangelog",
     "createChangelog", "markMigrated", "alterGhost", "inspectGhost",
     "inspectOriginal", "validate", "rowRange", "startStream", "startHeartbeat",
     "startThrottle", "rowCopy", "startCopy"}
BeforeEvents == BeforeCopy \union {"startEvents"}

\* Before Cancel clears running it has set cancelled; so who finds running
\* cleared finds the migration cancelled.
FlagsInOrder ==
    /\ pc["user"] = "stopRunning" => cancelled
    /\ pc["run"] # "start" /\ ~cancelled => running

\* Run starts each of the two threads once.
NotYetStarted ==
    /\ pc["run"] \in BeforeCopy => worker["copy"] = "none"
    /\ pc["run"] \in BeforeEvents => worker["events"] = "none"

\* A thread that has set its flag has ended.
FlagsMeanDone ==
    /\ row_copy_complete => worker["copy"] = "done"
    /\ all_events_up_to_lock_processed => row_copy_complete /\ worker["events"] = "done"

\* What AwaitCutOver waits for.
CutOverReady ==
    InCutOver \/ live = "migrated" => all_events_up_to_lock_processed

CutOverInv == TypeOK /\ FlagsInOrder /\ NotYetStarted /\ FlagsMeanDone /\ CutOverReady

\* A step of Run that changes nothing but its label, phase and tables keeps
\* the invariant, unless it enters the cut-over.
LEMMA RunMoves ==
    ASSUME CutOverInv, NEW from, NEW to, Goes("run", from, to), from # "start",
           UNCHANGED <<flags, row_copy_complete, all_events_up_to_lock_processed, worker, live>>,
           to \in BeforeCopy => from \in BeforeCopy,
           to \in BeforeEvents => from \in BeforeEvents,
           to \in {"lock", "rename", "unlock", "unlockFailed"} =>
               from \in {"lock", "rename", "unlock", "unlockFailed"}
    PROVE  FlagsInOrder' /\ NotYetStarted' /\ FlagsMeanDone' /\ CutOverReady'
<1>1. pc["run"] = from /\ pc'["run"] = to /\ pc'["user"] = pc["user"]
  BY DEF CutOverInv, TypeOK, PcOK, Goes, Controllers
<1>2. FlagsInOrder'
  BY <1>1 DEF CutOverInv, FlagsInOrder, flags
<1>3. NotYetStarted'
  BY <1>1 DEF CutOverInv, NotYetStarted
<1>4. FlagsMeanDone'
  BY DEF CutOverInv, FlagsMeanDone
<1>5. CutOverReady'
  BY <1>1 DEF CutOverInv, CutOverReady, InCutOver
<1> QED  BY <1>2, <1>3, <1>4, <1>5

LEMMA SetupKeeps ==
    ASSUME CutOverInv,
           \/ Start \/ PhaseInitialSetup \/ DropStaleGhost \/ CreateGhostTable
           \/ DropStaleChangelog \/ CreateChangelogTable \/ MarkMigrated
           \/ PhaseAlterGhostTable \/ PhaseInspectOriginalTable \/ PhaseValidateMigration
           \/ PhasePopulateRowRange
    PROVE  FlagsInOrder' /\ NotYetStarted' /\ FlagsMeanDone' /\ CutOverReady'
<1> USE DEF BeforeCopy, BeforeEvents, control, flags, tables, threads
<1>1. CASE Start
  <2>1. pc["run"] = "start" /\ pc'["run"] = "setup" /\ pc'["user"] = pc["user"]
    BY <1>1 DEF CutOverInv, TypeOK, PcOK, Start, Goes, Controllers
  <2> QED
    BY <1>1, <2>1
       DEF CutOverInv, Start, FlagsInOrder, NotYetStarted, FlagsMeanDone, CutOverReady, InCutOver
<1>2. CASE PhaseInitialSetup
  BY <1>2, RunMoves DEF PhaseInitialSetup, Statement
<1>3. CASE DropStaleGhost
  BY <1>3, RunMoves DEF DropStaleGhost
<1>4. CASE CreateGhostTable
  BY <1>4, RunMoves DEF CreateGhostTable
<1>5. CASE DropStaleChangelog
  BY <1>5, RunMoves DEF DropStaleChangelog, DropChangelog
<1>6. CASE CreateChangelogTable
  BY <1>6, RunMoves DEF CreateChangelogTable
<1>7. CASE MarkMigrated
  BY <1>7, RunMoves DEF MarkMigrated
<1>8. CASE PhaseAlterGhostTable
  BY <1>8, RunMoves DEF PhaseAlterGhostTable, Statement
<1>9. CASE PhaseInspectOriginalTable \/ PhaseValidateMigration
  BY <1>9, RunMoves DEF PhaseInspectOriginalTable, PhaseValidateMigration, Statement
<1>10. CASE PhasePopulateRowRange
  BY <1>10, RunMoves DEF PhasePopulateRowRange
<1> QED
  BY <1>1, <1>2, <1>3, <1>4, <1>5, <1>6, <1>7, <1>8, <1>9, <1>10

\* A thread is started where it has not been started before, so none of the
\* two that have set their flags is started again.
LEMMA StartThreadKeeps ==
    ASSUME CutOverInv, NEW w \in Workers, NEW from, NEW to,
           StartThread("run", w, from, to),
           \/ w \in {"stream", "heartbeat", "throttle"}
              /\ from \in BeforeCopy /\ to \in BeforeCopy /\ from # "start"
           \/ w = "copy" /\ from = "startCopy" /\ to = "startEvents"
           \/ w = "events" /\ from = "startEvents" /\ to = "monitor"
    PROVE  FlagsInOrder' /\ NotYetStarted' /\ FlagsMeanDone' /\ CutOverReady'
<1> USE DEF BeforeCopy, BeforeEvents
<1>1. pc["run"] = from /\ pc'["run"] = to /\ pc'["user"] = pc["user"]
  BY DEF CutOverInv, TypeOK, PcOK, StartThread, Goes, Controllers
<1>2. worker'["copy"] = IF w = "copy" THEN "loop" ELSE worker["copy"]
  BY DEF CutOverInv, TypeOK, ThreadsOK, StartThread, Workers
<1>3. worker'["events"] = IF w = "events" THEN "loop" ELSE worker["events"]
  BY DEF CutOverInv, TypeOK, ThreadsOK, StartThread, Workers
<1>4. /\ UNCHANGED <<cancelled, running, row_copy_complete, all_events_up_to_lock_processed>>
      /\ UNCHANGED live
  BY DEF StartThread, flags, tables
<1>5. FlagsInOrder'
  BY <1>1, <1>4 DEF CutOverInv, FlagsInOrder
<1>6. NotYetStarted'
  BY <1>1, <1>2, <1>3 DEF CutOverInv, NotYetStarted
<1>7. FlagsMeanDone'
  BY <1>1, <1>2, <1>3, <1>4 DEF CutOverInv, FlagsMeanDone, NotYetStarted
<1>8. CutOverReady'
  BY <1>1, <1>4 DEF CutOverInv, CutOverReady, InCutOver
<1> QED  BY <1>5, <1>6, <1>7, <1>8

\* Waiting for a thread leaves Run where it is or takes it past the start of
\* the threads.
LEMMA JoinKeeps ==
    ASSUME CutOverInv, NEW p \in Controllers, NEW w \in Workers, NEW from, NEW to,
           Join(p, w, from, to),
           from # "start" /\ to # "stopRunning" /\ to \notin BeforeEvents
               /\ to \notin {"lock", "rename", "unlock", "unlockFailed"}
    PROVE  FlagsInOrder' /\ NotYetStarted' /\ FlagsMeanDone' /\ CutOverReady'
<1> USE DEF BeforeCopy, BeforeEvents
<1>1. \/ UNCHANGED pc
      \/ p = "run" /\ pc["run"] = from /\ pc'["run"] = to /\ pc'["user"] = pc["user"]
      \/ p = "user" /\ pc'["run"] = pc["run"] /\ pc'["user"] = to
  BY DEF CutOverInv, TypeOK, PcOK, Join, Goes, Controllers
<1>2. /\ UNCHANGED <<cancelled, running, row_copy_complete, all_events_up_to_lock_processed>>
      /\ UNCHANGED <<live, worker>>
  BY DEF Join, control, flags, tables, threads
<1>3. FlagsInOrder'
  BY <1>1, <1>2 DEF CutOverInv, FlagsInOrder
<1>4. NotYetStarted'
  BY <1>1, <1>2 DEF CutOverInv, NotYetStarted
<1>5. FlagsMeanDone'
  BY <1>2 DEF CutOverInv, FlagsMeanDone
<1>6. CutOverReady'
  BY <1>1, <1>2 DEF CutOverInv, CutOverReady, InCutOver
<1> QED  BY <1>3, <1>4, <1>5, <1>6

LEMMA StopStreamerKeeps ==
    ASSUME CutOverInv, NEW p \in Controllers, NEW from, NEW to, StopStreamer(p, from, to),
           from # "start" /\ to # "stopRunning" /\ to \notin BeforeEvents
               /\ to \notin {"lock", "rename", "unlock", "unlockFailed"}
    PROVE  FlagsInOrder' /\ NotYetStarted' /\ FlagsMeanDone' /\ CutOverReady'
<1> USE DEF BeforeCopy, BeforeEvents
<1>1. \/ p = "run" /\ pc["run"] = from /\ pc'["run"] = to /\ pc'["user"] = pc["user"]
      \/ p = "user" /\ pc'["run"] = pc["run"] /\ pc'["user"] = to
  BY DEF CutOverInv, TypeOK, PcOK, StopStreamer, Goes, Controllers
<1> QED
  BY <1>1 DEF CutOverInv, StopStreamer, flags, tables, threads,
              FlagsInOrder, NotYetStarted, FlagsMeanDone, CutOverReady, InCutOver

LEMMA RowCopyKeeps ==
    ASSUME CutOverInv,
           \/ PhaseReadStreamInitiate \/ BeginRowCopy \/ PhaseRowCopy \/ RowCopyEnds
    PROVE  FlagsInOrder' /\ NotYetStarted' /\ FlagsMeanDone' /\ CutOverReady'
<1>1. CASE PhaseReadStreamInitiate
  BY <1>1, StartThreadKeeps DEF PhaseReadStreamInitiate, BeforeCopy, Workers
<1>2. CASE BeginRowCopy
  BY <1>2, RunMoves DEF BeginRowCopy, BeforeCopy, BeforeEvents, control, flags, tables, threads
<1>3. CASE PhaseRowCopy
  <2>1. CASE Goes("run", "monitor", "joinCopy") /\ UNCHANGED <<fixed, control, report, progress, tables, threads>>
    BY <2>1, RunMoves DEF BeforeCopy, BeforeEvents, control, flags, tables, threads
  <2>2. CASE Join("run", "copy", "joinCopy", "joinEvents") \/ Join("run", "events", "joinEvents", "rowCopyEnded")
    BY <2>2, JoinKeeps DEF BeforeCopy, BeforeEvents, Workers, Controllers
  <2> QED
    BY <1>3, <2>1, <2>2, StartThreadKeeps DEF PhaseRowCopy, Workers
<1>4. CASE RowCopyEnds
  BY <1>4, RunMoves DEF RowCopyEnds, BeforeCopy, BeforeEvents, control, flags, tables, threads
<1> QED  BY <1>1, <1>2, <1>3, <1>4

\* The step that matters: Run leaves the loop of PhaseCutOver although the
\* migration is not cancelled; then the events thread has set its flag.
LEMMA CutOverKeeps ==
    ASSUME CutOverInv,
           \/ AwaitCutOver \/ LockOriginalTable \/ RenameTables \/ UnlockTables
    PROVE  FlagsInOrder' /\ NotYetStarted' /\ FlagsMeanDone' /\ CutOverReady'
<1> USE DEF BeforeCopy, BeforeEvents, control, flags, tables, threads
<1>1. CASE AwaitCutOver
  <2>1. CASE cancelled
    BY <1>1, <2>1, RunMoves DEF AwaitCutOver
  <2>2. CASE ~cancelled
    <3>1. PICK from \in {"awaitEvents", "postponed"}, to \in {"postponed", "lock"} : Goes("run", from, to)
      BY <1>1, <2>2 DEF AwaitCutOver
    <3>2. pc["run"] = from /\ pc'["run"] = to /\ pc'["user"] = pc["user"]
      BY <3>1 DEF CutOverInv, TypeOK, PcOK, Goes, Controllers
    <3>3. Going
      BY <2>2, <3>2 DEF CutOverInv, FlagsInOrder, Going
    <3>4. all_events_up_to_lock_processed
      BY <1>1, <3>3 DEF AwaitCutOver
    <3> QED
      BY <1>1, <3>2, <3>4
         DEF CutOverInv, AwaitCutOver, FlagsInOrder, NotYetStarted, FlagsMeanDone, CutOverReady, InCutOver
  <2> QED  BY <2>1, <2>2
<1>2. CASE LockOriginalTable
  BY <1>2, RunMoves DEF LockOriginalTable
<1>3. CASE RenameTables
  <2>1. PICK to \in {"unlock", "unlockFailed"} : Goes("run", "rename", to)
    BY <1>3 DEF RenameTables
  <2>2. pc["run"] = "rename" /\ pc'["run"] \in {"unlock", "unlockFailed"} /\ pc'["user"] = pc["user"]
    BY <2>1 DEF CutOverInv, TypeOK, PcOK, Goes, Controllers
  <2> QED
    BY <1>3, <2>2
       DEF CutOverInv, RenameTables, FlagsInOrder, NotYetStarted, FlagsMeanDone, CutOverReady, InCutOver
<1>4. CASE UnlockTables
  BY <1>4, RunMoves DEF UnlockTables
<1> QED  BY <1>1, <1>2, <1>3, <1>4

LEMMA CleanupKeeps ==
    ASSUME CutOverInv, PhaseCleanup \/ Complete \/ HandleError
    PROVE  FlagsInOrder' /\ NotYetStarted' /\ FlagsMeanDone' /\ CutOverReady'
<1> USE DEF BeforeCopy, BeforeEvents, control, flags, tables, threads
<1>1. CASE Complete \/ HandleError
  BY <1>1, RunMoves DEF Complete, HandleError
<1>2. CASE DropOldTable
  BY <1>2, RunMoves DEF DropOldTable
<1>3. CASE DropChangelog("run", "finalDropChangelog", "finalStopStreamer")
  BY <1>3, RunMoves DEF DropChangelog
<1>4. CASE StopStreamer("run", "finalStopStreamer", "finalJoinStream")
  BY <1>4, StopStreamerKeeps DEF Controllers
<1>5. CASE \/ Join("run", "stream", "finalJoinStream", "finalJoinHeartbeat")
           \/ Join("run", "heartbeat", "finalJoinHeartbeat", "finalJoinThrottle")
           \/ Join("run", "throttle", "finalJoinThrottle", "complete")
  BY <1>5, JoinKeeps DEF Controllers, Workers
<1> QED  BY <1>1, <1>2, <1>3, <1>4, <1>5 DEF PhaseCleanup

LEMMA CleanupOnErrorKeeps ==
    ASSUME CutOverInv, NEW p \in Controllers, CleanupOnError(p) \/ NullConnection(p)
    PROVE  FlagsInOrder' /\ NotYetStarted' /\ FlagsMeanDone' /\ CutOverReady'
<1> USE DEF BeforeCopy, BeforeEvents, control, flags, tables, threads
<1>1. CASE /\ Goes(p, "cleanUp", "stopStreamer")
           /\ running' = FALSE /\ cancelled' = TRUE
           /\ UNCHANGED <<fixed, paused, row_copy_complete, all_events_up_to_lock_processed,
                          ghost_table_migrated, streaming, throttled, report, progress,
                          tables, threads>>
  <2>1. pc'["run"] \in {"stopStreamer", pc["run"]}
    BY <1>1 DEF CutOverInv, TypeOK, PcOK, Goes, Controllers
  <2> QED
    BY <1>1, <2>1
       DEF CutOverInv, FlagsInOrder, NotYetStarted, FlagsMeanDone, CutOverReady, InCutOver
<1>2. CASE StopStreamer(p, "stopStreamer", "joinStream")
  BY <1>2, StopStreamerKeeps
<1>3. CASE Join(p, "stream", "joinStream", "dropGhost")
  BY <1>3, JoinKeeps DEF Workers
<1>4. CASE DropGhostTable(p)
  <2>1. \/ pc["run"] = "dropGhost" /\ pc'["run"] = "dropChangelog" /\ pc'["user"] = pc["user"]
        \/ pc'["run"] = pc["run"] /\ pc'["user"] = "dropChangelog"
    BY <1>4 DEF CutOverInv, TypeOK, PcOK, DropGhostTable, Goes, Controllers
  <2> QED
    BY <1>4, <2>1 DEF CutOverInv, DropGhostTable,
       FlagsInOrder, NotYetStarted, FlagsMeanDone, CutOverReady, InCutOver
<1>5. CASE p = "run" /\ DropChangelog(p, "dropChangelog", "returned")
             /\ result' = "failed" /\ UNCHANGED <<phase, status>>
  BY <1>5, RunMoves DEF DropChangelog
<1>6. CASE p = "user"
             /\ DropChangelog(p, "dropChangelog", IF destroying THEN "destroyed" ELSE "idle")
             /\ UNCHANGED report
  <2>1. pc'["run"] = pc["run"] /\ pc'["user"] \in {"destroyed", "idle"}
    BY <1>6 DEF CutOverInv, TypeOK, PcOK, DropChangelog, Goes, Controllers
  <2> QED
    BY <1>6, <2>1 DEF CutOverInv, DropChangelog,
       FlagsInOrder, NotYetStarted, FlagsMeanDone, CutOverReady, InCutOver
<1>7. CASE NullConnection(p)
  BY <1>7 DEF CutOverInv, NullConnection,
     FlagsInOrder, NotYetStarted, FlagsMeanDone, CutOverReady, InCutOver
<1> QED
  BY <1>1, <1>2, <1>3, <1>4, <1>5, <1>6, <1>7 DEF CleanupOnError

LEMMA UserKeeps ==
    ASSUME CutOverInv, User
    PROVE  FlagsInOrder' /\ NotYetStarted' /\ FlagsMeanDone' /\ CutOverReady'
<1> USE DEF BeforeCopy, BeforeEvents, control, flags, tables, threads
<1>1. CASE Pause \/ Resume \/ Throttle \/ Unthrottle
  BY <1>1 DEF CutOverInv, Pause, Resume, Throttle, Unthrottle, Command,
     FlagsInOrder, NotYetStarted, FlagsMeanDone, CutOverReady, InCutOver
<1>2. CASE PanicAbort \/ Destroy
  <2>1. pc'["run"] = pc["run"] /\ pc'["user"] = "cancel"
    BY <1>2 DEF CutOverInv, TypeOK, PcOK, PanicAbort, Destroy, Goes, Controllers
  <2> QED
    BY <1>2, <2>1 DEF CutOverInv, PanicAbort, Destroy,
       FlagsInOrder, NotYetStarted, FlagsMeanDone, CutOverReady, InCutOver
<1>3. CASE Cancel
  <2>1. /\ pc'["run"] = pc["run"]
        /\ \/ pc'["user"] = "stopRunning" /\ cancelled' = TRUE /\ UNCHANGED running
           \/ pc["user"] = "stopRunning" /\ pc'["user"] = "joinCopy" /\ UNCHANGED cancelled
    BY <1>3 DEF CutOverInv, TypeOK, PcOK, Cancel, Goes, Controllers
  <2> QED
    BY <1>3, <2>1 DEF CutOverInv, Cancel,
       FlagsInOrder, NotYetStarted, FlagsMeanDone, CutOverReady, InCutOver
<1>4. CASE CancelJoins
  BY <1>4, JoinKeeps DEF CancelJoins, Workers, Controllers
<1> QED
  BY <1>1, <1>2, <1>3, <1>4, CleanupOnErrorKeeps DEF User, GoOn, Controllers

LEMMA WorkersKeep ==
    ASSUME CutOverInv,
           RunRowCopy \/ RunEventsApply \/ RunHeartbeat \/ RunThrottleCheck \/ StreamLoop
    PROVE  FlagsInOrder' /\ NotYetStarted' /\ FlagsMeanDone' /\ CutOverReady'
<1>1. UNCHANGED <<pc, running, cancelled, live>>
  BY DEF RunRowCopy, RunEventsApply, RunHeartbeat, RunThrottleCheck, StreamLoop, Works, flags, tables
<1>2. /\ worker'["copy"] # worker["copy"] => worker["copy"] \notin {"none", "done"} /\ worker'["events"] = worker["events"]
      /\ worker'["events"] # worker["events"] => worker["events"] \notin {"none", "done"} /\ worker'["copy"] = worker["copy"]
  BY DEF CutOverInv, TypeOK, ThreadsOK, Workers,
     RunRowCopy, RunEventsApply, RunHeartbeat, RunThrottleCheck, StreamLoop, Works
<1>3. row_copy_complete' # row_copy_complete => row_copy_complete' /\ worker'["copy"] = "done"
  BY DEF CutOverInv, TypeOK, ThreadsOK, ControlOK, Workers,
     RunRowCopy, RunEventsApply, RunHeartbeat, RunThrottleCheck, StreamLoop, Works
<1>4. all_events_up_to_lock_processed' # all_events_up_to_lock_processed =>
          /\ all_events_up_to_lock_processed' /\ row_copy_complete'
          /\ worker'["events"] = "done"
  BY DEF CutOverInv, TypeOK, ThreadsOK, ControlOK, Workers,
     RunRowCopy, RunEventsApply, RunHeartbeat, RunThrottleCheck, StreamLoop, Works
<1>5. FlagsInOrder'
  BY <1>1 DEF CutOverInv, FlagsInOrder
<1>6. NotYetStarted'
  BY <1>1, <1>2 DEF CutOverInv, NotYetStarted
<1>7. FlagsMeanDone'
  BY <1>2, <1>3, <1>4 DEF CutOverInv, FlagsMeanDone, TypeOK, ControlOK
<1>8. CutOverReady'
  BY <1>1, <1>4 DEF CutOverInv, CutOverReady, InCutOver, TypeOK, ControlOK
<1> QED  BY <1>5, <1>6, <1>7, <1>8

LEMMA InitCutOver == Init => CutOverInv
BY InitTyped DEF Init, CutOverInv, FlagsInOrder, NotYetStarted, FlagsMeanDone,
   CutOverReady, InCutOver, Workers

LEMMA NextCutOver == CutOverInv /\ [Next]_vars => CutOverInv'
<1> SUFFICES ASSUME CutOverInv, [Next]_vars PROVE CutOverInv'
  OBVIOUS
<1>1. TypeOK'
  BY NextTyped DEF CutOverInv
<1>2. CASE Run
  BY <1>1, <1>2, SetupKeeps, RowCopyKeeps, CutOverKeeps, CleanupKeeps, CleanupOnErrorKeeps
     DEF Run, CutOverInv, Controllers
<1>3. CASE UNCHANGED vars
  BY <1>1, <1>3 DEF vars, control, flags, tables, threads, CutOverInv,
     FlagsInOrder, NotYetStarted, FlagsMeanDone, CutOverReady, InCutOver
<1> QED
  BY <1>1, <1>2, <1>3, UserKeeps, WorkersKeep DEF Next, CutOverInv

(* Run enters the cut-over, and the tables change places, only when the    *)
(* row copy and the events thread have said that they are finished and     *)
(* have ended, whatever is cancelled, fails or is paused in between.       *)
THEOREM CutOverIsGated == Spec => []CutOverOnlyWhenDrained
<1>1. CutOverInv => CutOverOnlyWhenDrained
  BY DEF CutOverInv, CutOverReady, FlagsMeanDone, CutOverOnlyWhenDrained, Drained
<1> QED  BY <1>1, InitCutOver, NextCutOver, PTL DEF Spec

-----------------------------------------------------------------------------
(* The phases, for the refinement.                                         *)

SetupLabels == BeforeCopy \ {"startCopy"}
CopyLabels  == {"startCopy", "startEvents", "monitor", "joinCopy", "joinEvents", "rowCopyEnded"}
CutOverLabels == {"awaitEvents", "postponed", "lock", "rename", "unlock", "unlockFailed"}
CleanupPhase == {"dropOld", "finalDropChangelog", "finalStopStreamer", "finalJoinStream",
                 "finalJoinHeartbeat", "finalJoinThrottle", "complete"}

PhaseOfRun ==
    /\ pc["run"] \in SetupLabels => phase = "InitialSetup"
    /\ pc["run"] \in CopyLabels => phase = "RowCopy"
    /\ pc["run"] \in CutOverLabels => phase = "CutOver"
    /\ pc["run"] \in CleanupPhase => phase = "Cleanup"
    /\ pc["run"] = "fail" => phase \in {"InitialSetup", "RowCopy", "CutOver"}

BeforeSwap == SetupLabels \union CopyLabels \union {"awaitEvents", "postponed", "lock", "rename"}
AfterSwap  == {"unlock"} \union CleanupPhase

SwapOfRun ==
    /\ pc["run"] \in BeforeSwap => live = "original"
    /\ pc["run"] \in AfterSwap => live = "migrated"

LifecycleInv == TypeOK /\ PhaseOfRun /\ SwapOfRun

\* A step that leaves phase and live alone keeps the invariant if it takes
\* Run to a label of the same part of the migration.
LEMMA SamePhase ==
    ASSUME LifecycleInv, NEW from, NEW to,
           pc["run"] = from, pc'["run"] = to, UNCHANGED <<phase, live>>,
           to \in SetupLabels => from \in SetupLabels,
           to \in CopyLabels => from \in CopyLabels,
           to \in CutOverLabels => from \in CutOverLabels,
           to \in CleanupPhase => from \in CleanupPhase,
           to = "fail" => from \in {"fail"} \union SetupLabels \union CopyLabels \union CutOverLabels,
           to \in BeforeSwap => from \in BeforeSwap,
           to \in AfterSwap => from \in AfterSwap
    PROVE  PhaseOfRun' /\ SwapOfRun'
<1>1. PhaseOfRun'
  BY DEF LifecycleInv, PhaseOfRun
<1>2. SwapOfRun'
  BY DEF LifecycleInv, SwapOfRun
<1> QED  BY <1>1, <1>2

\* The same for a step of Run that the table's owner does not see.
LEMMA SamePhaseRun ==
    ASSUME LifecycleInv, NEW from, NEW to, Goes("run", from, to),
           UNCHANGED <<phase, live, ghost, old>>,
           \/ from \in SetupLabels /\ to \in {"fail"} \union SetupLabels
           \/ from \in CopyLabels /\ to \in {"fail"} \union CopyLabels
           \/ /\ from \in {"awaitEvents", "postponed", "lock"}
              /\ to \in {"postponed", "lock", "rename", "fail"}
           \/ from = "unlockFailed" /\ to = "fail"
           \/ from \in CleanupPhase /\ to \in CleanupPhase
           \/ from \in CleanupLabels /\ to \in CleanupLabels \union {"returned"}
    PROVE  PhaseOfRun' /\ SwapOfRun' /\ UNCHANGED Lifecycle!vars
<1>1. pc["run"] = from /\ pc'["run"] = to
  BY DEF LifecycleInv, TypeOK, PcOK, Goes, Controllers
<1>2. PhaseOfRun' /\ SwapOfRun'
  BY <1>1, SamePhase DEF SetupLabels, BeforeCopy, CopyLabels, CutOverLabels, CleanupPhase,
     CleanupLabels, BeforeSwap, AfterSwap
<1> QED  BY <1>2 DEF Lifecycle!vars, OriginalRowsExist

\* The same for a step of another thread.
LEMMA SamePhaseOthers ==
    ASSUME LifecycleInv, UNCHANGED <<phase, live, ghost, old>>, pc'["run"] = pc["run"]
    PROVE  PhaseOfRun' /\ SwapOfRun' /\ UNCHANGED Lifecycle!vars
BY DEF LifecycleInv, PhaseOfRun, SwapOfRun, Lifecycle!vars, OriginalRowsExist

LEMMA SetupLifecycle ==
    ASSUME LifecycleInv,
           \/ Start \/ PhaseInitialSetup \/ DropStaleGhost \/ CreateGhostTable
           \/ DropStaleChangelog \/ CreateChangelogTable \/ MarkMigrated
           \/ PhaseAlterGhostTable \/ PhaseInspectOriginalTable \/ PhaseValidateMigration
           \/ PhasePopulateRowRange \/ PhaseReadStreamInitiate
    PROVE  PhaseOfRun' /\ SwapOfRun' /\ [Lifecycle!Next]_(Lifecycle!vars)
<1> USE DEF SetupLabels, BeforeCopy, CopyLabels, report, tables
<1>1. CASE Start \/ MarkMigrated
  BY <1>1, SamePhaseRun DEF Start, MarkMigrated
<1>2. CASE PhaseInitialSetup
  BY <1>2, SamePhaseRun DEF PhaseInitialSetup, Statement
<1>3. CASE DropStaleGhost
  <2>1. PICK to \in {"createGhost", "fail"} : Goes("run", "dropStaleGhost", to)
    BY <1>3 DEF DropStaleGhost
  <2>2. pc["run"] = "dropStaleGhost" /\ pc'["run"] = to
    BY <2>1 DEF LifecycleInv, TypeOK, PcOK, Goes, Controllers
  <2>3. PhaseOfRun' /\ SwapOfRun'
    BY <1>3, <2>2, SamePhase DEF DropStaleGhost, CutOverLabels, CleanupPhase, BeforeSwap, AfterSwap
  <2>4. UNCHANGED <<phase, live, OriginalRowsExist>> /\ ghost' \in {FALSE, ghost}
    BY <1>3 DEF DropStaleGhost, OriginalRowsExist
  <2>5. ghost \in BOOLEAN
    BY DEF LifecycleInv, TypeOK, TablesOK
  <2> QED
    BY <2>3, <2>4, <2>5 DEF Lifecycle!Next, Lifecycle!DropGhost, Lifecycle!vars
<1>4. CASE CreateGhostTable
  <2>1. PICK to \in {"dropStaleChangelog", "fail"} : Goes("run", "createGhost", to)
    BY <1>4 DEF CreateGhostTable
  <2>2. pc["run"] = "createGhost" /\ pc'["run"] = to
    BY <2>1 DEF LifecycleInv, TypeOK, PcOK, Goes, Controllers
  <2>3. PhaseOfRun' /\ SwapOfRun'
    BY <1>4, <2>2, SamePhase DEF CreateGhostTable, CutOverLabels, CleanupPhase, BeforeSwap, AfterSwap
  <2>4. UNCHANGED <<phase, live, OriginalRowsExist>> /\ (UNCHANGED ghost \/ (~ghost /\ ghost'))
    BY <1>4 DEF CreateGhostTable, OriginalRowsExist
  <2>5. phase = "InitialSetup" /\ live = "original"
    BY <2>2 DEF LifecycleInv, PhaseOfRun, SwapOfRun, BeforeSwap
  <2>6. ghost \in BOOLEAN /\ ghost' \in BOOLEAN
    BY <1>4 DEF CreateGhostTable, LifecycleInv, TypeOK, TablesOK
  <2> QED
    BY <2>3, <2>4, <2>5, <2>6 DEF Lifecycle!Next, Lifecycle!CreateGhost, Lifecycle!vars
<1>5. CASE DropStaleChangelog
  BY <1>5, SamePhaseRun DEF DropStaleChangelog, DropChangelog
<1>6. CASE CreateChangelogTable
  BY <1>6, SamePhaseRun DEF CreateChangelogTable
<1>7. CASE PhaseAlterGhostTable
  BY <1>7, SamePhaseRun DEF PhaseAlterGhostTable, Statement
<1>8. CASE PhaseInspectOriginalTable \/ PhaseValidateMigration
  BY <1>8, SamePhaseRun DEF PhaseInspectOriginalTable, PhaseValidateMigration, Statement
<1>9. CASE PhasePopulateRowRange
  BY <1>9, SamePhaseRun DEF PhasePopulateRowRange
<1>10. CASE PhaseReadStreamInitiate
  BY <1>10, SamePhaseRun DEF PhaseReadStreamInitiate, StartThread
<1> QED
  BY <1>1, <1>2, <1>3, <1>4, <1>5, <1>6, <1>7, <1>8, <1>9, <1>10

LEMMA JoinLifecycle ==
    ASSUME LifecycleInv, NEW p \in Controllers, NEW w \in Workers, NEW from, NEW to,
           Join(p, w, from, to),
           p = "run" =>
               \/ from \in CopyLabels /\ to \in CopyLabels
               \/ from \in CleanupPhase /\ to \in CleanupPhase
               \/ from \in CleanupLabels /\ to \in CleanupLabels
    PROVE  PhaseOfRun' /\ SwapOfRun' /\ [Lifecycle!Next]_(Lifecycle!vars)
<1>1. UNCHANGED <<phase, live, ghost, old>>
  BY DEF Join, report, tables
<1>2. CASE UNCHANGED pc
  BY <1>1, <1>2, SamePhaseOthers
<1>3. CASE p = "run" /\ Goes("run", from, to)
  BY <1>1, <1>3, SamePhaseRun
<1>4. CASE p = "user" /\ Goes("user", from, to)
  <2>1. pc'["run"] = pc["run"]
    BY <1>4 DEF LifecycleInv, TypeOK, PcOK, Goes, Controllers
  <2> QED  BY <1>1, <2>1, SamePhaseOthers
<1> QED  BY <1>2, <1>3, <1>4 DEF Join, Controllers

LEMMA RowCopyLifecycle ==
    ASSUME LifecycleInv, BeginRowCopy \/ PhaseRowCopy \/ RowCopyEnds
    PROVE  PhaseOfRun' /\ SwapOfRun' /\ [Lifecycle!Next]_(Lifecycle!vars)
<1> USE DEF SetupLabels, BeforeCopy, CopyLabels, report, tables
<1>1. CASE BeginRowCopy
  <2>1. pc["run"] = "rowCopy" /\ pc'["run"] = "startCopy"
    BY <1>1 DEF BeginRowCopy, LifecycleInv, TypeOK, PcOK, Goes, Controllers
  <2>2. phase = "InitialSetup" /\ phase' = "RowCopy" /\ live = "original"
    BY <1>1, <2>1 DEF BeginRowCopy, LifecycleInv, PhaseOfRun, SwapOfRun, BeforeSwap
  <2>3. UNCHANGED <<live, ghost, OriginalRowsExist>>
    BY <1>1 DEF BeginRowCopy, OriginalRowsExist
  <2>4. PhaseOfRun' /\ SwapOfRun'
    BY <2>1, <2>2, <2>3 DEF PhaseOfRun, SwapOfRun, CutOverLabels, CleanupPhase, AfterSwap
  <2> QED
    BY <2>2, <2>3, <2>4 DEF Lifecycle!Next, Lifecycle!BeginRowCopy, Lifecycle!Advance, Lifecycle!vars
<1>2. CASE PhaseRowCopy
  <2>1. CASE /\ \/ StartThread("run", "copy", "startCopy", "startEvents")
                \/ StartThread("run", "events", "startEvents", "monitor")
             /\ UNCHANGED <<streaming, report>>
    BY <2>1, SamePhaseRun DEF StartThread
  <2>2. CASE /\ Goes("run", "monitor", "joinCopy")
             /\ UNCHANGED <<fixed, control, report, progress, tables, threads>>
    BY <2>2, SamePhaseRun
  <2>3. CASE \/ Join("run", "copy", "joinCopy", "joinEvents")
             \/ Join("run", "events", "joinEvents", "rowCopyEnded")
    BY <2>3, JoinLifecycle DEF Controllers, Workers
  <2> QED  BY <1>2, <2>1, <2>2, <2>3 DEF PhaseRowCopy
<1>3. CASE RowCopyEnds
  <2>1. CASE cancelled
    BY <1>3, <2>1, SamePhaseRun DEF RowCopyEnds
  <2>2. CASE ~cancelled
    <3>1. pc["run"] = "rowCopyEnded" /\ pc'["run"] = "awaitEvents"
      BY <1>3, <2>2 DEF RowCopyEnds, LifecycleInv, TypeOK, PcOK, Goes, Controllers
    <3>2. phase = "RowCopy" /\ phase' = "CutOver" /\ live = "original"
      BY <1>3, <2>2, <3>1 DEF RowCopyEnds, LifecycleInv, PhaseOfRun, SwapOfRun, BeforeSwap
    <3>3. UNCHANGED <<live, ghost, OriginalRowsExist>>
      BY <1>3 DEF RowCopyEnds, OriginalRowsExist
    <3>4. PhaseOfRun' /\ SwapOfRun'
      BY <3>1, <3>2, <3>3 DEF PhaseOfRun, SwapOfRun, CutOverLabels, CleanupPhase, AfterSwap
    <3> QED
      BY <3>2, <3>3, <3>4 DEF Lifecycle!Next, Lifecycle!BeginCutOver, Lifecycle!Advance, Lifecycle!vars
  <2> QED  BY <2>1, <2>2
<1> QED  BY <1>1, <1>2, <1>3

LEMMA CutOverLifecycle ==
    ASSUME LifecycleInv, AwaitCutOver \/ LockOriginalTable \/ RenameTables \/ UnlockTables
    PROVE  PhaseOfRun' /\ SwapOfRun' /\ [Lifecycle!Next]_(Lifecycle!vars)
<1> USE DEF SetupLabels, BeforeCopy, CopyLabels, CutOverLabels, CleanupPhase, BeforeSwap, AfterSwap,
            report, tables
<1>1. CASE AwaitCutOver
  <2>1. PICK from \in {"awaitEvents", "postponed"}, to \in {"postponed", "lock", "fail"} :
            Goes("run", from, to)
    BY <1>1 DEF AwaitCutOver
  <2> QED  BY <1>1, <2>1, SamePhaseRun DEF AwaitCutOver
<1>2. CASE LockOriginalTable
  BY <1>2, SamePhaseRun DEF LockOriginalTable
<1>3. CASE RenameTables
  <2>1. PICK to \in {"unlock", "unlockFailed"} : Goes("run", "rename", to)
    BY <1>3 DEF RenameTables
  <2>2. pc["run"] = "rename" /\ pc'["run"] = to
    BY <2>1 DEF LifecycleInv, TypeOK, PcOK, Goes, Controllers
  <2>3. phase = "CutOver" /\ phase' = "CutOver" /\ live = "original"
    BY <1>3, <2>2 DEF RenameTables, LifecycleInv, PhaseOfRun, SwapOfRun
  <2>4. PhaseOfRun'
    BY <2>2, <2>3 DEF PhaseOfRun
  <2>5. CASE ghost /\ ghost' = FALSE /\ live' = "migrated" /\ old' = "original"
    <3>1. SwapOfRun'
      BY <2>2, <2>5 DEF SwapOfRun
    <3>2. OriginalRowsExist /\ OriginalRowsExist'
      BY <2>3, <2>5 DEF OriginalRowsExist
    <3>3. Lifecycle!Swap
      BY <2>3, <2>5, <3>2 DEF Lifecycle!Swap
    <3> QED  BY <2>4, <3>1, <3>3 DEF Lifecycle!Next
  <2>6. CASE UNCHANGED <<ghost, live, old>> /\ to = "unlockFailed"
    <3>1. SwapOfRun'
      BY <2>2, <2>6 DEF SwapOfRun
    <3> QED  BY <2>3, <2>4, <2>6, <3>1 DEF Lifecycle!vars, OriginalRowsExist
  <2> QED
    <3>1. pc'["run"] = "unlock" => ghost /\ ghost' = FALSE /\ live' = "migrated" /\ old' = "original"
      BY <1>3 DEF RenameTables, LifecycleInv, TypeOK, PcOK, Goes, Controllers
    <3>2. \/ ghost /\ ghost' = FALSE /\ live' = "migrated" /\ old' = "original"
          \/ UNCHANGED <<ghost, live, old>>
      BY <1>3 DEF RenameTables
    <3> QED  BY <2>2, <2>5, <2>6, <3>1, <3>2
<1>4. CASE UnlockTables
  <2>1. UNCHANGED <<live, ghost, OriginalRowsExist>>
    BY <1>4 DEF UnlockTables, OriginalRowsExist
  <2>2. CASE Goes("run", "unlock", "dropOld") /\ phase' = "Cleanup"
    <3>1. pc["run"] = "unlock" /\ pc'["run"] = "dropOld"
      BY <2>2 DEF LifecycleInv, TypeOK, PcOK, Goes, Controllers
    <3>2. phase = "CutOver" /\ live = "migrated"
      BY <3>1 DEF LifecycleInv, PhaseOfRun, SwapOfRun
    <3>3. PhaseOfRun' /\ SwapOfRun'
      BY <2>1, <2>2, <3>1, <3>2 DEF PhaseOfRun, SwapOfRun
    <3> QED
      BY <2>1, <2>2, <3>2, <3>3
         DEF Lifecycle!Next, Lifecycle!BeginCleanup, Lifecycle!Advance, Lifecycle!vars
  <2>3. CASE Goes("run", "unlockFailed", "fail") /\ UNCHANGED phase
    BY <1>4, <2>3, SamePhaseRun DEF UnlockTables
  <2> QED  BY <1>4, <2>2, <2>3 DEF UnlockTables
<1> QED  BY <1>1, <1>2, <1>3, <1>4

LEMMA StopStreamerLifecycle ==
    ASSUME LifecycleInv, NEW p \in Controllers, NEW from, NEW to, StopStreamer(p, from, to),
           \/ from \in CleanupPhase /\ to \in CleanupPhase
           \/ from \in CleanupLabels /\ to \in CleanupLabels
    PROVE  PhaseOfRun' /\ SwapOfRun' /\ [Lifecycle!Next]_(Lifecycle!vars)
<1>1. UNCHANGED <<phase, live, ghost, old>> /\ Goes(p, from, to)
  BY DEF StopStreamer, report, tables
<1>2. CASE p = "run"
  BY <1>1, <1>2, SamePhaseRun
<1>3. CASE p = "user"
  <2>1. pc'["run"] = pc["run"]
    BY <1>1, <1>3 DEF LifecycleInv, TypeOK, PcOK, Goes, Controllers
  <2> QED  BY <1>1, <2>1, SamePhaseOthers
<1> QED  BY <1>2, <1>3 DEF Controllers

LEMMA CleanupLifecycle ==
    ASSUME LifecycleInv, PhaseCleanup \/ Complete \/ HandleError
    PROVE  PhaseOfRun' /\ SwapOfRun' /\ [Lifecycle!Next]_(Lifecycle!vars)
<1> USE DEF CleanupPhase, report, tables
<1>1. CASE DropOldTable
  <2>1. pc["run"] = "dropOld" /\ pc'["run"] = "finalDropChangelog"
    BY <1>1 DEF DropOldTable, LifecycleInv, TypeOK, PcOK, Goes, Controllers
  <2>2. phase = "Cleanup" /\ live = "migrated" /\ UNCHANGED <<phase, live, ghost>>
    BY <1>1, <2>1 DEF DropOldTable, LifecycleInv, PhaseOfRun, SwapOfRun, AfterSwap
  <2>3. PhaseOfRun' /\ SwapOfRun'
    BY <2>1, <2>2, SamePhase DEF SetupLabels, BeforeCopy, CopyLabels, CutOverLabels, BeforeSwap, AfterSwap
  <2>4. OriginalRowsExist' = FALSE \/ UNCHANGED OriginalRowsExist
    BY <1>1, <2>2 DEF DropOldTable, OriginalRowsExist
  <2> QED
    BY <2>2, <2>3, <2>4 DEF Lifecycle!Next, Lifecycle!DropOriginal, Lifecycle!vars
<1>2. CASE DropChangelog("run", "finalDropChangelog", "finalStopStreamer") /\ UNCHANGED report
  BY <1>2, SamePhaseRun DEF DropChangelog
<1>3. CASE StopStreamer("run", "finalStopStreamer", "finalJoinStream")
  BY <1>3, StopStreamerLifecycle DEF Controllers
<1>4. CASE \/ Join("run", "stream", "finalJoinStream", "finalJoinHeartbeat")
           \/ Join("run", "heartbeat", "finalJoinHeartbeat", "finalJoinThrottle")
           \/ Join("run", "throttle", "finalJoinThrottle", "complete")
  BY <1>4, JoinLifecycle DEF Controllers, Workers
<1>5. CASE Complete
  <2>1. pc["run"] = "complete" /\ pc'["run"] = "returned"
    BY <1>5 DEF Complete, LifecycleInv, TypeOK, PcOK, Goes, Controllers
  <2>2. phase = "Cleanup" /\ phase' = "Completed"
    BY <1>5, <2>1 DEF Complete, LifecycleInv, PhaseOfRun
  <2>3. UNCHANGED <<live, ghost, OriginalRowsExist>>
    BY <1>5 DEF Complete, OriginalRowsExist
  <2>4. PhaseOfRun' /\ SwapOfRun'
    BY <2>1 DEF PhaseOfRun, SwapOfRun, SetupLabels, BeforeCopy, CopyLabels, CutOverLabels,
       BeforeSwap, AfterSwap
  <2> QED
    BY <2>2, <2>3, <2>4 DEF Lifecycle!Next, Lifecycle!Complete, Lifecycle!Advance, Lifecycle!vars
<1>6. CASE HandleError
  <2>1. pc["run"] = "fail" /\ pc'["run"] = "cleanUp"
    BY <1>6 DEF HandleError, LifecycleInv, TypeOK, PcOK, Goes, Controllers
  <2>2. phase \in {"InitialSetup", "RowCopy", "CutOver"} /\ phase' = "Failed"
    BY <1>6, <2>1 DEF HandleError, LifecycleInv, PhaseOfRun
  <2>3. UNCHANGED <<live, ghost, OriginalRowsExist>>
    BY <1>6 DEF HandleError, OriginalRowsExist
  <2>4. PhaseOfRun' /\ SwapOfRun'
    BY <2>1 DEF PhaseOfRun, SwapOfRun, SetupLabels, BeforeCopy, CopyLabels, CutOverLabels,
       BeforeSwap, AfterSwap
  <2> QED
    BY <2>2, <2>3, <2>4 DEF Lifecycle!Next, Lifecycle!Fail, Lifecycle!Advance, Lifecycle!vars
<1> QED  BY <1>1, <1>2, <1>3, <1>4, <1>5, <1>6 DEF PhaseCleanup

LEMMA CleanupOnErrorLifecycle ==
    ASSUME LifecycleInv, NEW p \in Controllers, CleanupOnError(p) \/ NullConnection(p)
    PROVE  PhaseOfRun' /\ SwapOfRun' /\ [Lifecycle!Next]_(Lifecycle!vars)
<1> USE DEF CleanupLabels, report, tables
<1>1. CASE /\ UNCHANGED <<phase, live, ghost, old>>
           /\ \E from, to : /\ Goes(p, from, to)
                            /\ p = "run" => from \in CleanupLabels /\ to \in CleanupLabels \union {"returned"}
  <2>1. PICK from, to : /\ Goes(p, from, to)
                        /\ p = "run" => from \in CleanupLabels /\ to \in CleanupLabels \union {"returned"}
    BY <1>1
  <2>2. CASE p = "run"
    BY <1>1, <2>1, <2>2, SamePhaseRun
  <2>3. CASE p = "user"
    <3>1. pc'["run"] = pc["run"]
      BY <2>1, <2>3 DEF LifecycleInv, TypeOK, PcOK, Goes, Controllers
    <3> QED  BY <1>1, <3>1, SamePhaseOthers
  <2> QED  BY <2>2, <2>3 DEF Controllers
<1>2. CASE /\ Goes(p, "cleanUp", "stopStreamer")
           /\ running' = FALSE /\ cancelled' = TRUE
           /\ UNCHANGED <<fixed, paused, row_copy_complete, all_events_up_to_lock_processed,
                          ghost_table_migrated, streaming, throttled, report, progress,
                          tables, threads>>
  BY <1>1, <1>2
<1>3. CASE StopStreamer(p, "stopStreamer", "joinStream")
  BY <1>3, StopStreamerLifecycle
<1>4. CASE Join(p, "stream", "joinStream", "dropGhost")
  BY <1>4, JoinLifecycle DEF Workers
<1>5. CASE DropGhostTable(p)
  <2>1. UNCHANGED <<phase, live, old, OriginalRowsExist>> /\ ghost' \in {FALSE, ghost}
    BY <1>5 DEF DropGhostTable, OriginalRowsExist
  <2>2. ghost \in BOOLEAN
    BY DEF LifecycleInv, TypeOK, TablesOK
  <2>3. PhaseOfRun' /\ SwapOfRun'
    <3>1. \/ pc["run"] = "dropGhost" /\ pc'["run"] = "dropChangelog"
          \/ pc'["run"] = pc["run"]
      BY <1>5 DEF DropGhostTable, LifecycleInv, TypeOK, PcOK, Goes, Controllers
    <3>2. CASE pc["run"] = "dropGhost" /\ pc'["run"] = "dropChangelog"
      BY <2>1, <3>2, SamePhase DEF SetupLabels, BeforeCopy, CopyLabels, CutOverLabels,
         CleanupPhase, BeforeSwap, AfterSwap
    <3>3. CASE pc'["run"] = pc["run"]
      BY <2>1, <3>3 DEF LifecycleInv, PhaseOfRun, SwapOfRun
    <3> QED  BY <3>1, <3>2, <3>3
  <2> QED
    BY <2>1, <2>2, <2>3 DEF Lifecycle!Next, Lifecycle!DropGhost, Lifecycle!vars
<1>6. CASE p = "run" /\ DropChangelog(p, "dropChangelog", "returned")
             /\ result' = "failed" /\ UNCHANGED <<phase, status>>
  BY <1>1, <1>6 DEF DropChangelog
<1>7. CASE p = "user"
             /\ DropChangelog(p, "dropChangelog", IF destroying THEN "destroyed" ELSE "idle")
             /\ UNCHANGED report
  BY <1>1, <1>7 DEF DropChangelog
<1>8. CASE NullConnection(p)
  BY <1>8, SamePhaseOthers DEF NullConnection
<1> QED
  BY <1>2, <1>3, <1>4, <1>5, <1>6, <1>7, <1>8 DEF CleanupOnError

LEMMA UserLifecycle ==
    ASSUME LifecycleInv, User
    PROVE  PhaseOfRun' /\ SwapOfRun' /\ [Lifecycle!Next]_(Lifecycle!vars)
<1> USE DEF report, tables
<1>1. CASE Pause \/ Resume \/ Throttle \/ Unthrottle
  BY <1>1, SamePhaseOthers DEF Pause, Resume, Throttle, Unthrottle, Command
<1>2. CASE PanicAbort \/ Destroy \/ Cancel
  <2>1. UNCHANGED <<phase, live, ghost, old>> /\ \E from, to : Goes("user", from, to)
    BY <1>2 DEF PanicAbort, Destroy, Cancel
  <2>2. pc'["run"] = pc["run"]
    BY <2>1 DEF LifecycleInv, TypeOK, PcOK, Goes, Controllers
  <2> QED  BY <2>1, <2>2, SamePhaseOthers
<1>3. CASE CancelJoins
  BY <1>3, JoinLifecycle DEF CancelJoins, Workers, Controllers
<1> QED
  BY <1>1, <1>2, <1>3, CleanupOnErrorLifecycle DEF User, GoOn, Controllers

LEMMA WorkersLifecycle ==
    ASSUME LifecycleInv,
           RunRowCopy \/ RunEventsApply \/ RunHeartbeat \/ RunThrottleCheck \/ StreamLoop
    PROVE  PhaseOfRun' /\ SwapOfRun' /\ [Lifecycle!Next]_(Lifecycle!vars)
<1>1. UNCHANGED <<pc, phase, live, ghost, old>>
  BY DEF RunRowCopy, RunEventsApply, RunHeartbeat, RunThrottleCheck, StreamLoop, Works, report, tables
<1> QED  BY <1>1, SamePhaseOthers

LEMMA InitLifecycle == Init => LifecycleInv /\ Lifecycle!Init
BY InitTyped DEF Init, LifecycleInv, PhaseOfRun, SwapOfRun, SetupLabels, BeforeCopy, CopyLabels,
   CutOverLabels, CleanupPhase, BeforeSwap, AfterSwap, Lifecycle!Init, OriginalRowsExist

LEMMA NextLifecycle ==
    LifecycleInv /\ [Next]_vars => LifecycleInv' /\ [Lifecycle!Next]_(Lifecycle!vars)
<1> SUFFICES ASSUME LifecycleInv, [Next]_vars
             PROVE  LifecycleInv' /\ [Lifecycle!Next]_(Lifecycle!vars)
  OBVIOUS
<1>1. TypeOK'
  BY NextTyped DEF LifecycleInv
<1>2. CASE Run
  <2>1. PhaseOfRun' /\ SwapOfRun' /\ [Lifecycle!Next]_(Lifecycle!vars)
    BY <1>2, SetupLifecycle, RowCopyLifecycle, CutOverLifecycle, CleanupLifecycle,
       CleanupOnErrorLifecycle DEF Run, Controllers
  <2> QED  BY <1>1, <2>1 DEF LifecycleInv
<1>3. CASE UNCHANGED vars
  <2>1. UNCHANGED <<pc, phase, live, ghost, old>>
    BY <1>3 DEF vars, report, tables
  <2> QED  BY <1>1, <2>1, SamePhaseOthers DEF LifecycleInv
<1> QED
  BY <1>1, <1>2, <1>3, UserLifecycle, WorkersLifecycle DEF Next, LifecycleInv

(* The migrator, its threads, its failures and its cancellations keep what *)
(* MigrationLifecycle promises to the owner of the table: every step is a  *)
(* step of it or changes nothing the owner sees.                           *)
THEOREM ImplementsLifecycle == Spec => LifecycleSpec
BY InitLifecycle, NextLifecycle, PTL DEF Spec, LifecycleSpec, Lifecycle!Spec

-----------------------------------------------------------------------------
(* The table lock.                                                         *)

LockingLabels == {"rename", "unlock", "unlockFailed"}

LockHeld == locked => pc["run"] \in LockingLabels

LockInv == TypeOK /\ LockHeld

\* A step that leaves the lock alone and is not one of Run's with the lock.
LEMMA LockUntouched ==
    ASSUME LockInv, UNCHANGED locked,
           \/ UNCHANGED pc
           \/ \E from, to : Goes("user", from, to)
           \/ \E from, to : from \notin LockingLabels /\ Goes("run", from, to)
    PROVE  LockHeld'
<1>1. CASE UNCHANGED pc
  BY <1>1 DEF LockInv, LockHeld
<1>2. CASE \E from, to : Goes("user", from, to)
  <2>1. pc'["run"] = pc["run"]
    BY <1>2 DEF LockInv, TypeOK, PcOK, Goes, Controllers
  <2> QED  BY <2>1 DEF LockInv, LockHeld
<1>3. CASE \E from, to : from \notin LockingLabels /\ Goes("run", from, to)
  <2>1. pc["run"] \notin LockingLabels
    BY <1>3 DEF Goes
  <2> QED  BY <2>1 DEF LockInv, LockHeld
<1> QED  BY <1>1, <1>2, <1>3

LEMMA JoinLock ==
    ASSUME LockInv, NEW p \in Controllers, NEW w, NEW from, NEW to, from \notin LockingLabels,
           Join(p, w, from, to)
    PROVE  LockHeld'
<1>1. UNCHANGED locked /\ (UNCHANGED pc \/ Goes(p, from, to))
  BY DEF Join, tables
<1> QED  BY <1>1, LockUntouched DEF Controllers

LEMMA CutOverLock ==
    ASSUME LockInv, LockOriginalTable \/ RenameTables \/ UnlockTables
    PROVE  LockHeld'
<1>1. CASE LockOriginalTable
  <2>1. \/ pc'["run"] = "rename"
        \/ pc["run"] = "lock" /\ UNCHANGED locked
    BY <1>1 DEF LockOriginalTable, LockInv, TypeOK, PcOK, Goes, Controllers
  <2> QED  BY <2>1 DEF LockInv, LockHeld, LockingLabels
<1>2. CASE RenameTables
  <2>1. pc'["run"] \in {"unlock", "unlockFailed"}
    BY <1>2 DEF RenameTables, LockInv, TypeOK, PcOK, Goes, Controllers
  <2> QED  BY <2>1 DEF LockHeld, LockingLabels
<1>3. CASE UnlockTables
  BY <1>3 DEF UnlockTables, LockHeld
<1> QED  BY <1>1, <1>2, <1>3

LEMMA RunLock ==
    ASSUME LockInv, Run
    PROVE  LockHeld'
<1> USE DEF LockingLabels, tables
<1>1. CASE \/ Start \/ PhaseInitialSetup \/ DropStaleGhost \/ CreateGhostTable
           \/ DropStaleChangelog \/ CreateChangelogTable \/ MarkMigrated
  BY <1>1, LockUntouched DEF Start, PhaseInitialSetup, Statement, DropStaleGhost, CreateGhostTable,
     DropStaleChangelog, DropChangelog, CreateChangelogTable, MarkMigrated
<1>2. CASE \/ PhaseAlterGhostTable \/ PhaseInspectOriginalTable \/ PhaseValidateMigration
           \/ PhasePopulateRowRange \/ PhaseReadStreamInitiate \/ BeginRowCopy
  BY <1>2, LockUntouched DEF PhaseAlterGhostTable, PhaseInspectOriginalTable,
     PhaseValidateMigration, Statement, PhasePopulateRowRange, PhaseReadStreamInitiate,
     StartThread, BeginRowCopy
<1>3. CASE PhaseRowCopy
  <2>1. CASE \/ Join("run", "copy", "joinCopy", "joinEvents")
             \/ Join("run", "events", "joinEvents", "rowCopyEnded")
    BY <2>1, JoinLock DEF Controllers
  <2> QED  BY <1>3, <2>1, LockUntouched DEF PhaseRowCopy, StartThread
<1>4. CASE RowCopyEnds
  BY <1>4, LockUntouched DEF RowCopyEnds
<1>5. CASE AwaitCutOver
  BY <1>5, LockUntouched DEF AwaitCutOver
<1>6. CASE PhaseCleanup
  <2>1. CASE \/ Join("run", "stream", "finalJoinStream", "finalJoinHeartbeat")
             \/ Join("run", "heartbeat", "finalJoinHeartbeat", "finalJoinThrottle")
             \/ Join("run", "throttle", "finalJoinThrottle", "complete")
    BY <2>1, JoinLock DEF Controllers
  <2> QED
    BY <1>6, <2>1, LockUntouched DEF PhaseCleanup, DropOldTable, DropChangelog, StopStreamer
<1>7. CASE Complete \/ HandleError
  BY <1>7, LockUntouched DEF Complete, HandleError
<1>8. CASE CleanupOnError("run")
  <2>1. CASE Join("run", "stream", "joinStream", "dropGhost")
    BY <2>1, JoinLock DEF Controllers
  <2> QED
    BY <1>8, <2>1, LockUntouched DEF CleanupOnError, StopStreamer, DropGhostTable, DropChangelog
<1>9. CASE NullConnection("run")
  BY <1>9, LockUntouched DEF NullConnection
<1> QED
  BY <1>1, <1>2, <1>3, <1>4, <1>5, <1>6, <1>7, <1>8, <1>9, CutOverLock DEF Run

LEMMA UserLock ==
    ASSUME LockInv, User
    PROVE  LockHeld'
<1> USE DEF tables
<1>1. CASE Pause \/ Resume \/ Throttle \/ Unthrottle
  BY <1>1, LockUntouched DEF Pause, Resume, Throttle, Unthrottle, Command
<1>2. CASE PanicAbort \/ Destroy \/ Cancel
  BY <1>2, LockUntouched DEF PanicAbort, Destroy, Cancel
<1>3. CASE CancelJoins
  BY <1>3, JoinLock DEF CancelJoins, Controllers, LockingLabels
<1>4. CASE CleanupOnError("user")
  <2>1. CASE Join("user", "stream", "joinStream", "dropGhost")
    BY <2>1, JoinLock DEF Controllers, LockingLabels
  <2> QED
    BY <1>4, <2>1, LockUntouched DEF CleanupOnError, StopStreamer, DropGhostTable, DropChangelog
<1>5. CASE NullConnection("user")
  BY <1>5, LockUntouched DEF NullConnection
<1> QED  BY <1>1, <1>2, <1>3, <1>4, <1>5 DEF User, GoOn

LEMMA NextLock == LockInv /\ [Next]_vars => LockInv'
<1> SUFFICES ASSUME LockInv, [Next]_vars PROVE LockInv'
  OBVIOUS
<1>1. TypeOK'
  BY NextTyped DEF LockInv
<1>2. CASE RunRowCopy \/ RunEventsApply \/ RunHeartbeat \/ RunThrottleCheck \/ StreamLoop
  <2>1. UNCHANGED <<pc, locked>>
    BY <1>2 DEF RunRowCopy, RunEventsApply, RunHeartbeat, RunThrottleCheck, StreamLoop, Works, tables
  <2> QED  BY <1>1, <2>1, LockUntouched DEF LockInv
<1>3. CASE UNCHANGED vars
  BY <1>1, <1>3, LockUntouched DEF vars, tables, LockInv
<1> QED  BY <1>1, <1>2, <1>3, RunLock, UserLock DEF Next, LockInv

(* Whatever fails and whoever cancels, Run never gets to its error path or *)
(* returns with the table lock in its session.                             *)
THEOREM LockIsReleased == Spec => []LockReleased
<1>1. Init => LockInv
  BY InitTyped DEF Init, LockInv, LockHeld
<1>2. LockInv => LockReleased
  BY DEF LockInv, LockHeld, LockingLabels, LockReleased
<1> QED  BY <1>1, <1>2, NextLock, PTL DEF Spec

-----------------------------------------------------------------------------
(* After the destructor.                                                   *)

\* The steps of the user's thread after each of the joins it waits in.
AfterCleanupJoin == {"dropGhost", "dropChangelog", "destroyed"}
AfterThrottle    == {"cleanUp", "stopStreamer", "joinStream"} \union AfterCleanupJoin
AfterHeartbeat   == {"joinThrottle"} \union AfterThrottle
AfterEvents      == {"joinHeartbeat"} \union AfterHeartbeat
AfterCopy        == {"joinEvents"} \union AfterEvents

AfterJoin == [copy      |-> AfterCopy,
              events    |-> AfterEvents,
              heartbeat |-> AfterHeartbeat,
              throttle  |-> AfterThrottle,
              stream    |-> AfterCleanupJoin]

\* The destructor is called when Run has returned, so nothing starts a
\* thread after it, and it does not give the user's thread back.
RunIsOver ==
    /\ destroying => pc["run"] = "returned" /\ pc["user"] # "idle"
    /\ pc["user"] = "destroyed" => destroying

\* A std::thread that is not joinable was never started or has ended.
Detached == \A w \in Workers : ~joinable[w] => worker[w] \in {"none", "done"}

\* The destructor leaves the threads it has waited for behind it.
JoinedOnTheWay ==
    destroying => \A w \in Workers : pc["user"] \in AfterJoin[w] => ~joinable[w]

EndInv == TypeOK /\ RunIsOver /\ Detached /\ JoinedOnTheWay

LEMMA StartThreadDetached ==
    ASSUME EndInv, NEW w \in Workers, NEW from, NEW to, StartThread("run", w, from, to)
    PROVE  Detached'
BY DEF EndInv, TypeOK, ThreadsOK, StartThread, Detached

LEMMA JoinDetached ==
    ASSUME EndInv, NEW p \in Controllers, NEW w \in Workers, NEW from, NEW to, Join(p, w, from, to)
    PROVE  Detached'
BY DEF EndInv, TypeOK, ThreadsOK, Join, Detached, threads

\* While Run takes a step it has not returned, so nobody is destroying.
LEMMA BeforeReturn ==
    ASSUME EndInv, pc["run"] # "returned", UNCHANGED destroying, pc'["user"] = pc["user"], Detached'
    PROVE  RunIsOver' /\ Detached' /\ JoinedOnTheWay'
<1>1. ~destroying /\ ~destroying'
  BY DEF EndInv, RunIsOver, TypeOK, ThreadsOK
<1> QED  BY <1>1 DEF EndInv, RunIsOver, JoinedOnTheWay

\* A step of Run that leaves the threads alone.
LEMMA RunEnd ==
    ASSUME EndInv, NEW from, NEW to, Goes("run", from, to), from # "returned",
           UNCHANGED <<worker, joinable, destroying>>
    PROVE  RunIsOver' /\ Detached' /\ JoinedOnTheWay'
<1>1. pc["run"] # "returned" /\ pc'["user"] = pc["user"]
  BY DEF EndInv, TypeOK, PcOK, Goes, Controllers
<1>2. Detached'
  BY DEF EndInv, Detached
<1> QED  BY <1>1, <1>2, BeforeReturn

LEMMA StartThreadEnd ==
    ASSUME EndInv, NEW w \in Workers, NEW from, NEW to, StartThread("run", w, from, to),
           from # "returned"
    PROVE  RunIsOver' /\ Detached' /\ JoinedOnTheWay'
<1>1. pc["run"] # "returned" /\ pc'["user"] = pc["user"] /\ UNCHANGED destroying
  BY DEF EndInv, TypeOK, PcOK, StartThread, Goes, Controllers
<1> QED  BY <1>1, StartThreadDetached, BeforeReturn

LEMMA JoinRunEnd ==
    ASSUME EndInv, NEW w \in Workers, NEW from, NEW to, Join("run", w, from, to),
           from # "returned"
    PROVE  RunIsOver' /\ Detached' /\ JoinedOnTheWay'
<1>1. pc["run"] # "returned"
  BY DEF Join, Goes
<1>2. pc'["user"] = pc["user"] /\ UNCHANGED destroying
  BY DEF EndInv, TypeOK, PcOK, Join, Goes, Controllers, threads
<1> QED  BY <1>1, <1>2, JoinDetached, BeforeReturn DEF Controllers

LEMMA SetupEnd ==
    ASSUME EndInv,
           \/ Start \/ PhaseInitialSetup \/ DropStaleGhost \/ CreateGhostTable
           \/ DropStaleChangelog \/ CreateChangelogTable \/ MarkMigrated
           \/ PhaseAlterGhostTable \/ PhaseInspectOriginalTable \/ PhaseValidateMigration
           \/ PhasePopulateRowRange \/ PhaseReadStreamInitiate \/ BeginRowCopy
    PROVE  RunIsOver' /\ Detached' /\ JoinedOnTheWay'
<1> USE DEF threads
<1>1. CASE Start \/ DropStaleGhost \/ CreateGhostTable \/ CreateChangelogTable \/ MarkMigrated
  BY <1>1, RunEnd DEF Start, DropStaleGhost, CreateGhostTable, CreateChangelogTable, MarkMigrated
<1>2. CASE DropStaleChangelog
  BY <1>2, RunEnd DEF DropStaleChangelog, DropChangelog
<1>3. CASE PhaseInitialSetup \/ PhaseAlterGhostTable \/ PhaseInspectOriginalTable \/ PhaseValidateMigration
  BY <1>3, RunEnd DEF PhaseInitialSetup, PhaseAlterGhostTable, PhaseInspectOriginalTable,
     PhaseValidateMigration, Statement
<1>4. CASE PhasePopulateRowRange \/ BeginRowCopy
  BY <1>4, RunEnd DEF PhasePopulateRowRange, BeginRowCopy
<1>5. CASE PhaseReadStreamInitiate
  BY <1>5, StartThreadEnd DEF PhaseReadStreamInitiate, Workers
<1> QED  BY <1>1, <1>2, <1>3, <1>4, <1>5

LEMMA RowCopyEnd ==
    ASSUME EndInv,
           \/ PhaseRowCopy \/ RowCopyEnds \/ AwaitCutOver \/ LockOriginalTable \/ RenameTables
           \/ UnlockTables \/ PhaseCleanup \/ Complete \/ HandleError
           \/ CleanupOnError("run") \/ NullConnection("run")
    PROVE  RunIsOver' /\ Detached' /\ JoinedOnTheWay'
<1> USE DEF threads
<1>1. CASE PhaseRowCopy
  BY <1>1, RunEnd, StartThreadEnd, JoinRunEnd DEF PhaseRowCopy, Workers
<1>2. CASE RowCopyEnds \/ AwaitCutOver
  BY <1>2, RunEnd DEF RowCopyEnds, AwaitCutOver
<1>3. CASE LockOriginalTable \/ RenameTables \/ UnlockTables
  BY <1>3, RunEnd DEF LockOriginalTable, RenameTables, UnlockTables
<1>4. CASE PhaseCleanup
  BY <1>4, RunEnd, JoinRunEnd DEF PhaseCleanup, DropOldTable, DropChangelog, StopStreamer, Workers
<1>5. CASE Complete \/ HandleError
  BY <1>5, RunEnd DEF Complete, HandleError
<1>6. CASE CleanupOnError("run")
  BY <1>6, RunEnd, JoinRunEnd DEF CleanupOnError, DropGhostTable, DropChangelog, StopStreamer, Workers
<1>7. CASE NullConnection("run")
  <2>1. pc["run"] # "returned" /\ UNCHANGED <<pc, worker, joinable, destroying>>
    BY <1>7 DEF NullConnection
  <2> QED  BY <2>1, BeforeReturn DEF EndInv, Detached
<1> QED  BY <1>1, <1>2, <1>3, <1>4, <1>5, <1>6, <1>7

\* A step of the user's thread that is no join: none of the joins lies
\* between its two labels.
LEMMA UserEnd ==
    ASSUME EndInv, NEW from, NEW to, Goes("user", from, to), from # "idle",
           UNCHANGED <<worker, joinable, destroying>>,
           to = "idle" => ~destroying, to = "destroyed" => destroying,
           \A w \in Workers : to \in AfterJoin[w] => from \in AfterJoin[w]
    PROVE  RunIsOver' /\ Detached' /\ JoinedOnTheWay'
<1>1. pc["user"] = from /\ pc'["user"] = to /\ pc'["run"] = pc["run"]
  BY DEF EndInv, TypeOK, PcOK, Goes, Controllers
<1>2. RunIsOver'
  BY <1>1 DEF EndInv, RunIsOver
<1>3. Detached' /\ JoinedOnTheWay'
  BY <1>1 DEF EndInv, Detached, JoinedOnTheWay
<1> QED  BY <1>2, <1>3

\* The thread waited for is the one join that lies between the labels.
LEMMA JoinUserEnd ==
    ASSUME EndInv, NEW w \in Workers, NEW from, NEW to, Join("user", w, from, to),
           from # "idle" /\ to \notin {"idle", "destroyed"},
           \A v \in Workers : to \in AfterJoin[v] => v = w \/ from \in AfterJoin[v]
    PROVE  RunIsOver' /\ Detached' /\ JoinedOnTheWay'
<1>1. \/ UNCHANGED <<pc, joinable>>
      \/ Goes("user", from, to) /\ ~joinable'[w] /\ \A v \in Workers : joinable'[v] => joinable[v]
  BY DEF EndInv, TypeOK, ThreadsOK, Join, threads
<1>2. UNCHANGED destroying
  BY DEF Join, threads
<1>3. CASE UNCHANGED <<pc, joinable>>
  BY <1>2, <1>3, JoinDetached DEF EndInv, RunIsOver, JoinedOnTheWay, Controllers
<1>4. CASE Goes("user", from, to) /\ ~joinable'[w] /\ \A v \in Workers : joinable'[v] => joinable[v]
  <2>1. pc["user"] = from /\ pc'["user"] = to /\ pc'["run"] = pc["run"]
    BY <1>4 DEF EndInv, TypeOK, PcOK, Goes, Controllers
  <2>2. RunIsOver'
    BY <1>2, <2>1 DEF EndInv, RunIsOver
  <2>3. JoinedOnTheWay'
    BY <1>2, <1>4, <2>1 DEF EndInv, JoinedOnTheWay
  <2> QED  BY <2>2, <2>3, JoinDetached DEF Controllers
<1> QED  BY <1>1, <1>3, <1>4

LEMMA UserStepsEnd ==
    ASSUME EndInv, User
    PROVE  RunIsOver' /\ Detached' /\ JoinedOnTheWay'
<1> USE DEF AfterJoin, AfterCleanupJoin, AfterThrottle, AfterHeartbeat, AfterEvents, AfterCopy,
            Workers, threads
<1>1. CASE Pause \/ Resume \/ Throttle \/ Unthrottle
  <2>1. UNCHANGED <<pc, worker, joinable, destroying>>
    BY <1>1 DEF Pause, Resume, Throttle, Unthrottle, Command
  <2> QED  BY <2>1 DEF EndInv, RunIsOver, Detached, JoinedOnTheWay
<1>2. CASE PanicAbort \/ Destroy
  <2>1. pc["user"] = "idle" /\ pc'["user"] = "cancel" /\ pc'["run"] = pc["run"]
    BY <1>2 DEF PanicAbort, Destroy, EndInv, TypeOK, PcOK, Goes, Controllers
  <2>2. UNCHANGED destroying \/ pc["run"] = "returned"
    BY <1>2 DEF PanicAbort, Destroy
  <2>3. ~destroying
    BY <2>1 DEF EndInv, RunIsOver, TypeOK, ThreadsOK
  <2>4. UNCHANGED <<worker, joinable>>
    BY <1>2 DEF PanicAbort, Destroy
  <2> QED  BY <2>1, <2>2, <2>3, <2>4 DEF EndInv, RunIsOver, Detached, JoinedOnTheWay
<1>3. CASE Cancel
  <2>1. /\ pc["user"] \in {"idle", "cancel", "stopRunning"} /\ pc'["user"] \in {"stopRunning", "joinCopy"}
        /\ pc'["run"] = pc["run"] /\ UNCHANGED <<worker, joinable, destroying>>
    BY <1>3 DEF Cancel, EndInv, TypeOK, PcOK, Goes, Controllers
  <2> QED  BY <2>1 DEF EndInv, RunIsOver, Detached, JoinedOnTheWay
<1>4. CASE CancelJoins
  BY <1>4, JoinUserEnd DEF CancelJoins
<1>5. CASE CleanupOnError("user")
  <2>1. CASE \/ Goes("user", "cleanUp", "stopStreamer") /\ UNCHANGED threads
             \/ StopStreamer("user", "stopStreamer", "joinStream")
             \/ DropGhostTable("user")
    BY <2>1, UserEnd DEF StopStreamer, DropGhostTable
  <2>2. CASE Join("user", "stream", "joinStream", "dropGhost")
    BY <2>2, JoinUserEnd
  <2>3. CASE DropChangelog("user", "dropChangelog", IF destroying THEN "destroyed" ELSE "idle")
    BY <2>3, UserEnd DEF DropChangelog
  <2> QED  BY <1>5, <2>1, <2>2, <2>3 DEF CleanupOnError
<1>6. CASE NullConnection("user")
  <2>1. UNCHANGED <<pc, worker, joinable, destroying>>
    BY <1>6 DEF NullConnection
  <2> QED  BY <2>1 DEF EndInv, RunIsOver, Detached, JoinedOnTheWay
<1> QED  BY <1>1, <1>2, <1>3, <1>4, <1>5, <1>6 DEF User, GoOn

\* A thread that takes a step of its loop has not ended, so it is joinable.
LEMMA WorkersEnd ==
    ASSUME EndInv,
           RunRowCopy \/ RunEventsApply \/ RunHeartbeat \/ RunThrottleCheck \/ StreamLoop
    PROVE  RunIsOver' /\ Detached' /\ JoinedOnTheWay'
<1>1. UNCHANGED <<pc, joinable, destroying>>
  BY DEF RunRowCopy, RunEventsApply, RunHeartbeat, RunThrottleCheck, StreamLoop, Works
<1>2. PICK w \in Workers, from \in {"loop", "check", "await", "chunk", "pop", "set"} :
            \E to : Works(w, from, to)
  BY DEF RunRowCopy, RunEventsApply, RunHeartbeat, RunThrottleCheck, StreamLoop, Workers
<1>3. worker[w] = from /\ \A v \in Workers \ {w} : worker'[v] = worker[v]
  BY <1>2 DEF Works, EndInv, TypeOK, ThreadsOK
<1>4. Detached'
  BY <1>1, <1>3 DEF EndInv, Detached
<1> QED  BY <1>1, <1>4 DEF EndInv, RunIsOver, JoinedOnTheWay

LEMMA NextEnd == EndInv /\ [Next]_vars => EndInv'
<1> SUFFICES ASSUME EndInv, [Next]_vars PROVE EndInv'
  OBVIOUS
<1>1. TypeOK'
  BY NextTyped DEF EndInv
<1>2. CASE Run
  BY <1>1, <1>2, SetupEnd, RowCopyEnd DEF Run, EndInv
<1>3. CASE UNCHANGED vars
  BY <1>1, <1>3 DEF vars, threads, EndInv, RunIsOver, Detached, JoinedOnTheWay
<1> QED  BY <1>1, <1>2, <1>3, UserStepsEnd, WorkersEnd DEF Next, EndInv

LEMMA InitEnd == Init => EndInv
BY InitTyped DEF Init, EndInv, RunIsOver, Detached, JoinedOnTheWay

(* When the destructor has returned, no thread is left that would use the  *)
(* destroyed object and no std::thread is joinable, however many commands  *)
(* and failures there were before it.                                      *)
THEOREM DestructorLeavesNothing == Spec => []DestroyedIsQuiet
<1>1. EndInv => DestroyedIsQuiet
  <2> SUFFICES ASSUME EndInv, pc["user"] = "destroyed", NEW w \in Workers
               PROVE  ~joinable[w] /\ worker[w] \in {"none", "done"}
    BY DEF DestroyedIsQuiet
  <2>1. "destroyed" \in AfterJoin[w]
    BY DEF AfterJoin, AfterCleanupJoin, AfterThrottle, AfterHeartbeat, AfterEvents, AfterCopy, Workers
  <2> QED  BY <2>1 DEF EndInv, RunIsOver, Detached, JoinedOnTheWay
<1> QED  BY <1>1, InitEnd, NextEnd, PTL DEF Spec

-----------------------------------------------------------------------------
(* The ghost table is withdrawn.  A DROP TABLE that the server refuses     *)
(* leaves it where it is, so these theorems are about servers that drop    *)
(* the tables they are told to drop.                                       *)

\* The steps of Run between the marking of the ghost table and the swap.
SwapLabels   == {"lock", "rename"}
MarkedLabels ==
    {"alterGhost", "inspectGhost", "inspectOriginal", "validate", "rowRange", "startStream",
     "startHeartbeat", "startThrottle", "rowCopy"} \union CopyLabels
         \union {"awaitEvents", "postponed"} \union SwapLabels

\* The steps of a Cancel that has set cancelled and not yet dropped the table.
Withdrawing ==
    {"stopRunning", "joinCopy", "joinEvents", "joinHeartbeat", "joinThrottle", "cleanUp",
     "stopStreamer", "joinStream", "dropGhost"}

Withdrawn == config.drop_ghost_table => ~ghost

MarkedByThen == pc["run"] \in MarkedLabels => ghost_table_migrated

\* The failure path of Run has withdrawn the table when it has passed
\* DropGhostTable, and nothing brings the table back.
RunWithdrew ==
    pc["run"] = "dropChangelog" \/ (pc["run"] = "returned" /\ result = "failed")
        => (ghost_table_migrated => Withdrawn)

\* Run does not enter the cut-over when it is cancelled; a Cancel that comes
\* later finds the ghost table marked and withdraws it.
CancelWithdrew ==
    pc["run"] \in SwapLabels /\ cancelled => pc["user"] \in Withdrawing \/ Withdrawn

WithdrawInv == TypeOK /\ MarkedByThen /\ RunWithdrew /\ CancelWithdrew

\* The invariant says nothing of the other labels of Run.
LEMMA Elsewhere ==
    ASSUME NEW from, NEW to, WithdrawInv, Goes("run", from, to),
           to \notin MarkedLabels /\ to \notin {"dropChangelog", "returned"}
    PROVE  MarkedByThen' /\ RunWithdrew' /\ CancelWithdrew'
<1>1. pc'["run"] = to
  BY DEF WithdrawInv, TypeOK, PcOK, Goes, Controllers
<1> QED  BY <1>1 DEF MarkedByThen, RunWithdrew, CancelWithdrew, MarkedLabels

\* A step from one marked label to another that does not enter the cut-over.
LEMMA MarkedMoves ==
    ASSUME NEW from, NEW to, WithdrawInv, Goes("run", from, to),
           from \in MarkedLabels, to \notin {"dropChangelog", "returned"},
           to \in SwapLabels => from \in SwapLabels,
           UNCHANGED <<config, ghost_table_migrated, cancelled, ghost>>
    PROVE  MarkedByThen' /\ RunWithdrew' /\ CancelWithdrew'
<1>1. pc["run"] = from /\ pc'["run"] = to /\ pc'["user"] = pc["user"]
  BY DEF WithdrawInv, TypeOK, PcOK, Goes, Controllers
<1> QED
  BY <1>1 DEF WithdrawInv, MarkedByThen, RunWithdrew, CancelWithdrew, Withdrawn

\* What others do: they create no ghost table and end no withdrawal.
LEMMA OthersMove ==
    ASSUME WithdrawInv, pc'["run"] = pc["run"], UNCHANGED <<config, ghost_table_migrated, result>>,
           ghost' => ghost,
           cancelled' => cancelled \/ pc'["user"] \in Withdrawing,
           pc["user"] \in Withdrawing => pc'["user"] \in Withdrawing
    PROVE  MarkedByThen' /\ RunWithdrew' /\ CancelWithdrew'
BY DEF WithdrawInv, MarkedByThen, RunWithdrew, CancelWithdrew, Withdrawn

LEMMA JoinWithdraws ==
    ASSUME NEW w, NEW from, NEW to, WithdrawInv, Join("run", w, from, to),
           \/ to \notin MarkedLabels /\ to \notin {"dropChangelog", "returned"}
           \/ from \in CopyLabels /\ to \in CopyLabels
    PROVE  MarkedByThen' /\ RunWithdrew' /\ CancelWithdrew'
<1>1. UNCHANGED <<config, ghost_table_migrated, cancelled, ghost, result>>
  BY DEF Join, fixed, control, flags, tables, report
<1>2. CASE UNCHANGED pc
  BY <1>1, <1>2, OthersMove
<1>3. CASE Goes("run", from, to)
  BY <1>1, <1>3, Elsewhere, MarkedMoves DEF MarkedLabels, SwapLabels, CopyLabels
<1> QED  BY <1>2, <1>3 DEF Join

LEMMA SetupWithdraws ==
    ASSUME WithdrawInv,
           \/ Start \/ PhaseInitialSetup \/ DropStaleGhost \/ CreateGhostTable
           \/ DropStaleChangelog \/ CreateChangelogTable \/ MarkMigrated
           \/ PhaseAlterGhostTable \/ PhaseInspectOriginalTable \/ PhaseValidateMigration
           \/ PhasePopulateRowRange \/ PhaseReadStreamInitiate \/ BeginRowCopy
    PROVE  MarkedByThen' /\ RunWithdrew' /\ CancelWithdrew'
<1> USE DEF MarkedLabels, SwapLabels, CopyLabels, fixed, control, flags, tables
<1>1. CASE Start \/ DropStaleGhost \/ CreateGhostTable \/ CreateChangelogTable
  BY <1>1, Elsewhere DEF Start, DropStaleGhost, CreateGhostTable, CreateChangelogTable
<1>2. CASE DropStaleChangelog \/ PhaseInitialSetup
  BY <1>2, Elsewhere DEF DropStaleChangelog, DropChangelog, PhaseInitialSetup, Statement
<1>3. CASE MarkMigrated
  <2>1. pc'["run"] = "alterGhost" /\ ghost_table_migrated'
    BY <1>3 DEF MarkMigrated, WithdrawInv, TypeOK, PcOK, Goes, Controllers
  <2> QED  BY <2>1 DEF MarkedByThen, RunWithdrew, CancelWithdrew
<1>4. CASE PhaseAlterGhostTable
  BY <1>4, MarkedMoves DEF PhaseAlterGhostTable, Statement
<1>5. CASE PhaseInspectOriginalTable \/ PhaseValidateMigration
  BY <1>5, MarkedMoves DEF PhaseInspectOriginalTable, PhaseValidateMigration, Statement
<1>6. CASE PhasePopulateRowRange \/ BeginRowCopy
  BY <1>6, MarkedMoves DEF PhasePopulateRowRange, BeginRowCopy
<1>7. CASE PhaseReadStreamInitiate
  BY <1>7, MarkedMoves DEF PhaseReadStreamInitiate, StartThread
<1> QED  BY <1>1, <1>2, <1>3, <1>4, <1>5, <1>6, <1>7

LEMMA CutOverWithdraws ==
    ASSUME WithdrawInv,
           \/ PhaseRowCopy \/ RowCopyEnds \/ AwaitCutOver \/ LockOriginalTable \/ RenameTables
           \/ UnlockTables
    PROVE  MarkedByThen' /\ RunWithdrew' /\ CancelWithdrew'
<1> USE DEF MarkedLabels, SwapLabels, CopyLabels, fixed, control, flags, tables
<1>1. CASE PhaseRowCopy
  BY <1>1, MarkedMoves, JoinWithdraws DEF PhaseRowCopy, StartThread
<1>2. CASE RowCopyEnds
  BY <1>2, MarkedMoves DEF RowCopyEnds
<1>3. CASE AwaitCutOver
  <2>1. CASE cancelled
    BY <1>3, <2>1, MarkedMoves DEF AwaitCutOver
  <2>2. CASE ~cancelled
    <3>1. pc["run"] \in {"awaitEvents", "postponed"} /\ pc'["run"] \in {"postponed", "lock"}
      BY <1>3, <2>2 DEF AwaitCutOver, WithdrawInv, TypeOK, PcOK, Goes, Controllers
    <3>2. UNCHANGED <<cancelled, ghost_table_migrated>>
      BY <1>3 DEF AwaitCutOver
    <3> QED  BY <2>2, <3>1, <3>2 DEF WithdrawInv, MarkedByThen, RunWithdrew, CancelWithdrew
  <2> QED  BY <2>1, <2>2
<1>4. CASE LockOriginalTable
  BY <1>4, MarkedMoves DEF LockOriginalTable
<1>5. CASE RenameTables \/ UnlockTables
  BY <1>5, Elsewhere DEF RenameTables, UnlockTables
<1> QED  BY <1>1, <1>2, <1>3, <1>4, <1>5

LEMMA CleanupWithdraws ==
    ASSUME "drop" \notin Faults, WithdrawInv,
           \/ PhaseCleanup \/ Complete \/ HandleError
           \/ CleanupOnError("run") \/ NullConnection("run")
    PROVE  MarkedByThen' /\ RunWithdrew' /\ CancelWithdrew'
<1> USE DEF MarkedLabels, SwapLabels, CopyLabels
<1>1. CASE PhaseCleanup
  BY <1>1, Elsewhere, JoinWithdraws DEF PhaseCleanup, DropOldTable, DropChangelog, StopStreamer
<1>2. CASE Complete
  <2>1. pc'["run"] = "returned" /\ result' = "ok"
    BY <1>2 DEF Complete, WithdrawInv, TypeOK, PcOK, Goes, Controllers
  <2> QED  BY <2>1 DEF MarkedByThen, RunWithdrew, CancelWithdrew
<1>3. CASE HandleError
  BY <1>3, Elsewhere DEF HandleError
<1>4. CASE Goes("run", "cleanUp", "stopStreamer") \/ StopStreamer("run", "stopStreamer", "joinStream")
  BY <1>4, Elsewhere DEF StopStreamer
<1>5. CASE Join("run", "stream", "joinStream", "dropGhost")
  BY <1>5, JoinWithdraws
<1>6. CASE DropGhostTable("run")
  <2>1. pc'["run"] = "dropChangelog" /\ UNCHANGED <<config, ghost_table_migrated>>
    BY <1>6 DEF DropGhostTable, WithdrawInv, TypeOK, PcOK, Goes, Controllers, fixed, control
  <2>2. ghost_table_migrated => Withdrawn'
    BY <1>6, <2>1 DEF DropGhostTable, Withdrawn
  <2> QED  BY <2>1, <2>2 DEF MarkedByThen, RunWithdrew, CancelWithdrew
<1>7. CASE DropChangelog("run", "dropChangelog", "returned")
  <2>1. /\ pc["run"] = "dropChangelog" /\ pc'["run"] = "returned"
        /\ UNCHANGED <<config, ghost_table_migrated, ghost>>
    BY <1>7 DEF DropChangelog, WithdrawInv, TypeOK, PcOK, Goes, Controllers, fixed, control
  <2> QED
    BY <2>1 DEF WithdrawInv, MarkedByThen, RunWithdrew, CancelWithdrew, Withdrawn
<1>8. CASE NullConnection("run")
  BY <1>8, OthersMove DEF NullConnection, fixed, control, flags, tables, report
<1> QED
  BY <1>1, <1>2, <1>3, <1>4, <1>5, <1>6, <1>7, <1>8 DEF CleanupOnError

LEMMA UserWithdraws ==
    ASSUME "drop" \notin Faults, WithdrawInv, User
    PROVE  MarkedByThen' /\ RunWithdrew' /\ CancelWithdrew'
<1> USE DEF Withdrawing, fixed, control, flags, tables, report
<1>1. CASE Pause \/ Resume \/ Throttle \/ Unthrottle
  BY <1>1, OthersMove DEF Pause, Resume, Throttle, Unthrottle, Command
<1>2. CASE PanicAbort \/ Destroy
  <2>1. pc["user"] = "idle" /\ pc'["run"] = pc["run"]
    BY <1>2 DEF PanicAbort, Destroy, WithdrawInv, TypeOK, PcOK, Goes, Controllers
  <2> QED  BY <1>2, <2>1, OthersMove DEF PanicAbort, Destroy
<1>3. CASE Cancel
  <2>1. pc'["user"] \in {"stopRunning", "joinCopy"} /\ pc'["run"] = pc["run"]
    BY <1>3 DEF Cancel, WithdrawInv, TypeOK, PcOK, Goes, Controllers
  <2> QED  BY <1>3, <2>1, OthersMove DEF Cancel
<1>4. CASE CancelJoins \/ Join("user", "stream", "joinStream", "dropGhost")
  <2>1. /\ pc'["run"] = pc["run"]
        /\ pc["user"] \in Withdrawing => pc'["user"] \in Withdrawing
    BY <1>4 DEF CancelJoins, Join, WithdrawInv, TypeOK, PcOK, Goes, Controllers
  <2> QED  BY <1>4, <2>1, OthersMove DEF CancelJoins, Join
<1>5. CASE /\ Goes("user", "cleanUp", "stopStreamer")
           /\ UNCHANGED <<fixed, ghost_table_migrated, report, tables>>
  <2>1. pc'["user"] = "stopStreamer" /\ pc'["run"] = pc["run"]
    BY <1>5 DEF WithdrawInv, TypeOK, PcOK, Goes, Controllers
  <2> QED  BY <1>5, <2>1, OthersMove
<1>6. CASE StopStreamer("user", "stopStreamer", "joinStream")
  <2>1. pc'["user"] = "joinStream" /\ pc'["run"] = pc["run"]
    BY <1>6 DEF StopStreamer, WithdrawInv, TypeOK, PcOK, Goes, Controllers
  <2> QED  BY <1>6, <2>1, OthersMove DEF StopStreamer
<1>7. CASE DropGhostTable("user")
  <2>1. /\ pc'["run"] = pc["run"] /\ ghost' \in {FALSE, ghost}
        /\ UNCHANGED <<config, ghost_table_migrated, cancelled, result>>
    BY <1>7 DEF DropGhostTable, WithdrawInv, TypeOK, PcOK, Goes, Controllers
  <2>2. ghost_table_migrated => Withdrawn'
    BY <1>7, <2>1 DEF DropGhostTable, Withdrawn
  <2>3. pc'["run"] \in SwapLabels => Withdrawn'
    BY <2>1, <2>2 DEF WithdrawInv, MarkedByThen, MarkedLabels
  <2>4. ghost \in BOOLEAN
    BY DEF WithdrawInv, TypeOK, TablesOK
  <2> QED
    BY <2>1, <2>2, <2>3, <2>4 DEF WithdrawInv, MarkedByThen, RunWithdrew, CancelWithdrew, Withdrawn
<1>8. CASE DropChangelog("user", "dropChangelog", IF destroying THEN "destroyed" ELSE "idle")
             /\ UNCHANGED report
  <2>1. pc["user"] = "dropChangelog" /\ pc'["run"] = pc["run"]
    BY <1>8 DEF DropChangelog, WithdrawInv, TypeOK, PcOK, Goes, Controllers
  <2> QED  BY <1>8, <2>1, OthersMove DEF DropChangelog
<1>9. CASE NullConnection("user")
  BY <1>9, OthersMove DEF NullConnection
<1> QED
  BY <1>1, <1>2, <1>3, <1>4, <1>5, <1>6, <1>7, <1>8, <1>9 DEF User, GoOn, CleanupOnError

LEMMA NextWithdraws ==
    ASSUME "drop" \notin Faults, WithdrawInv, [Next]_vars
    PROVE  WithdrawInv'
<1>1. TypeOK'
  BY NextTyped DEF WithdrawInv
<1>2. CASE Run
  BY <1>1, <1>2, SetupWithdraws, CutOverWithdraws, CleanupWithdraws DEF Run, WithdrawInv
<1>3. CASE RunRowCopy \/ RunEventsApply \/ RunHeartbeat \/ RunThrottleCheck \/ StreamLoop
  <2>1. UNCHANGED <<pc, config, ghost_table_migrated, result, ghost, cancelled>>
    BY <1>3 DEF RunRowCopy, RunEventsApply, RunHeartbeat, RunThrottleCheck, StreamLoop, Works,
       fixed, flags, report, tables
  <2> QED  BY <1>1, <2>1, OthersMove DEF WithdrawInv
<1>4. CASE UNCHANGED vars
  BY <1>1, <1>4, OthersMove DEF vars, fixed, control, flags, report, tables, WithdrawInv
<1> QED  BY <1>1, <1>2, <1>3, <1>4, UserWithdraws DEF Next, WithdrawInv

LEMMA InitWithdraws == Init => WithdrawInv
BY InitTyped DEF Init, WithdrawInv, MarkedByThen, RunWithdrew, CancelWithdrew,
   MarkedLabels, SwapLabels, CopyLabels

LEMMA WithdrawHolds ==
    ASSUME "drop" \notin Faults
    PROVE  Spec => []WithdrawInv
<1>1. WithdrawInv /\ [Next]_vars => WithdrawInv'
  BY NextWithdraws
<1> QED  BY <1>1, InitWithdraws, PTL DEF Spec

(* A run that has failed leaves no ghost table of its own behind, wherever *)
(* it failed and whatever the user's thread was doing at the same time.    *)
THEOREM FailureLeavesNoGhost ==
    ASSUME "drop" \notin Faults
    PROVE  Spec => []FailureDropsGhost
<1>1. WithdrawInv => FailureDropsGhost
  BY DEF WithdrawInv, RunWithdrew, Withdrawn, FailureDropsGhost
<1> QED  BY <1>1, WithdrawHolds, PTL

\* Only the rename changes which table has the original's name.
LEMMA OthersKeepLive ==
    ASSUME [Next]_vars, ~RenameTables
    PROVE  UNCHANGED live
<1> USE DEF tables
<1>1. CASE \/ Start \/ PhaseInitialSetup \/ DropStaleGhost \/ CreateGhostTable
           \/ DropStaleChangelog \/ CreateChangelogTable \/ MarkMigrated
  BY <1>1 DEF Start, PhaseInitialSetup, Statement, DropStaleGhost, CreateGhostTable,
     DropStaleChangelog, DropChangelog, CreateChangelogTable, MarkMigrated
<1>2. CASE \/ PhaseAlterGhostTable \/ PhaseInspectOriginalTable \/ PhaseValidateMigration
           \/ PhasePopulateRowRange \/ PhaseReadStreamInitiate \/ BeginRowCopy
  BY <1>2 DEF PhaseAlterGhostTable, PhaseInspectOriginalTable, PhaseValidateMigration,
     Statement, PhasePopulateRowRange, PhaseReadStreamInitiate, StartThread, BeginRowCopy
<1>3. CASE \/ PhaseRowCopy \/ RowCopyEnds \/ AwaitCutOver \/ LockOriginalTable \/ UnlockTables
  BY <1>3 DEF PhaseRowCopy, StartThread, Join, RowCopyEnds, AwaitCutOver, LockOriginalTable,
     UnlockTables
<1>4. CASE PhaseCleanup \/ Complete \/ HandleError
  BY <1>4 DEF PhaseCleanup, DropOldTable, DropChangelog, StopStreamer, Join, Complete, HandleError
<1>5. ASSUME NEW p, CleanupOnError(p) \/ NullConnection(p) PROVE UNCHANGED live
  BY <1>5 DEF CleanupOnError, StopStreamer, Join, DropGhostTable, DropChangelog, NullConnection
<1>6. CASE Pause \/ Resume \/ Throttle \/ Unthrottle \/ PanicAbort \/ Cancel \/ Destroy \/ CancelJoins
  BY <1>6 DEF Pause, Resume, Throttle, Unthrottle, Command, PanicAbort, Cancel, Destroy,
     CancelJoins, Join
<1>7. CASE RunRowCopy \/ RunEventsApply \/ RunHeartbeat \/ RunThrottleCheck \/ StreamLoop
  BY <1>7 DEF RunRowCopy, RunEventsApply, RunHeartbeat, RunThrottleCheck, StreamLoop, Works
<1>8. CASE UNCHANGED vars
  BY <1>8 DEF vars
<1> QED
  BY <1>1, <1>2, <1>3, <1>4, <1>5, <1>6, <1>7, <1>8 DEF Next, Run, User, GoOn

(* Once a Cancel has returned the tables stay where they are, even if Run  *)
(* was about to rename them and had looked at cancelled before.            *)
THEOREM CancelPreventsSwap ==
    ASSUME "drop" \notin Faults
    PROVE  Spec => NoSwapAfterCancel
<1>1. ASSUME WithdrawInv, [Next]_vars,
             cancelled, pc["user"] = "idle", config.drop_ghost_table
      PROVE  UNCHANGED live
  <2>1. CASE RenameTables
    <3>1. pc["run"] = "rename"
      BY <2>1 DEF RenameTables, Goes
    <3>2. ~ghost
      BY <1>1, <3>1 DEF WithdrawInv, CancelWithdrew, SwapLabels, Withdrawing, Withdrawn
    <3> QED  BY <2>1, <3>2 DEF RenameTables
  <2>2. CASE ~RenameTables
    BY <1>1, <2>2, OthersKeepLive
  <2> QED  BY <2>1, <2>2
<1>2. WithdrawInv /\ [Next]_vars =>
          [cancelled /\ pc["user"] = "idle" /\ config.drop_ghost_table => UNCHANGED live]_vars
  BY <1>1
<1> QED  BY <1>2, WithdrawHolds, PTL DEF Spec, NoSwapAfterCancel
=============================================================================
