------------------------------ MODULE Migrator ------------------------------
(***************************************************************************)
(* One migration as src/logic/migrator.cpp runs it: the thread that calls  *)
(* Run and goes through the phases, the thread that gives the user's       *)
(* commands (Pause, Resume, Throttle, Unthrottle, Cancel, PanicAbort and   *)
(* in the end the destructor), the four threads Run starts (row copy,      *)
(* events apply, heartbeat, throttle check) and the streamer's thread.     *)
(*                                                                         *)
(* The threads share atomic flags, which they read and write without a     *)
(* lock; a step is what a thread does between two accesses that another    *)
(* thread can tell apart: one test of a loop's condition, one statement    *)
(* for the database, one assignment.  Statements are executed one at a     *)
(* time by the server.  Table contents are abstracted to the number of     *)
(* rows, the keys of the original table being 1..rows; what Applier and    *)
(* Inspector do in a phase is here the effect of their statements on the   *)
(* tables and whether they succeed.                                        *)
(***************************************************************************)
EXTENDS Integers, FiniteSets

CONSTANTS
    Configs,      \* configurations: drop_original_table, drop_ghost_table,
                  \* postpone_cut_over
    TableRows,    \* numbers of rows the original table may have
    Connections,  \* whether the applier has its connection (a set of Booleans)
    Verdicts,     \* what the throttler may decide (a set of Booleans)
    Commands,     \* commands the user gives
    Faults        \* the statements that may fail, named by the label of the
                  \* step that executes them, and "drop" for any DROP TABLE

ASSUME MigratorAssumption ==
    /\ Configs \subseteq [drop_original_table : BOOLEAN, drop_ghost_table : BOOLEAN,
                          postpone_cut_over : BOOLEAN]
    /\ TableRows \subseteq Nat
    /\ Connections \subseteq BOOLEAN
    /\ Verdicts \subseteq BOOLEAN

VARIABLES
    config,       \* the configuration, and the applier's connection, do not
    connected,    \* change; Initialize never calls Applier::Initialize
    running, cancelled, paused,                          \* atomic flags
    row_copy_complete, all_events_up_to_lock_processed,  \* of Migrator
    ghost_table_migrated,
    streaming,    \* EventsStreamer::running_
    throttled,    \* MigrationContext::throttled_
    phase, status,
    rows, total, copied,  \* rows of the table, TotalRowCount, CopiedRowCount
    last_key,     \* local to RunRowCopy
    ghost, changelog,     \* do these tables exist?
    live,         \* which table has the name of the original one
    old,          \* the table with the suffix _old: "none", one left by an
                  \* earlier migration ("stale"), or the "original"
    locked,       \* does the applier's session hold the table lock?
    pc,           \* what the threads of Run and of the user do next
    result,       \* what Run returned
    worker,       \* the started threads: "none", a label of their loop, "done"
    joinable, joiner,     \* the std::thread objects, and who is in join()
    destroying,   \* has the destructor been called?
    crashed       \* undefined behaviour, or an exception nobody catches

fixed    == <<config, connected, rows>>
flags    == <<running, cancelled, paused>>
control  == <<flags, row_copy_complete, all_events_up_to_lock_processed,
              ghost_table_migrated, streaming, throttled>>
report   == <<phase, status, result>>
progress == <<total, copied, last_key>>
tables   == <<ghost, changelog, live, old, locked>>
threads  == <<worker, joinable, joiner, destroying, crashed>>
vars     == <<fixed, control, report, progress, tables, threads, pc>>

Workers == {"copy", "events", "heartbeat", "throttle", "stream"}
Controllers == {"run", "user"}

\* The condition of every worker loop.  Three reads, but the last one decides:
\* running and cancelled only ever change towards the end of the loops.
Going == running /\ ~cancelled

Init ==
    /\ config \in Configs /\ connected \in Connections
    /\ running = FALSE /\ cancelled = FALSE /\ paused = FALSE
    /\ row_copy_complete = FALSE /\ all_events_up_to_lock_processed = FALSE
    /\ ghost_table_migrated = FALSE
    /\ streaming = FALSE /\ throttled = FALSE
    /\ phase = "InitialSetup" /\ status = "Running"
    /\ rows \in TableRows /\ total = 0 /\ copied = 0 /\ last_key = 0
    /\ ghost \in BOOLEAN /\ changelog \in BOOLEAN
    /\ live = "original" /\ old \in {"none", "stale"} /\ locked = FALSE
    /\ pc = [run |-> "start", user |-> "idle"] /\ result = "none"
    /\ worker = [w \in Workers |-> "none"]
    /\ joinable = [w \in Workers |-> FALSE]
    /\ joiner = [w \in Workers |-> "none"]
    /\ destroying = FALSE /\ crashed = FALSE

\* Controller p goes from one label to another.
Goes(p, from, to) == pc[p] = from /\ pc' = [pc EXCEPT ![p] = to]

-----------------------------------------------------------------------------
(* Run, up to the row copy.                                                *)

Start ==
    /\ Goes("run", "start", "setup")
    /\ running' = TRUE
    /\ UNCHANGED <<fixed, cancelled, paused, row_copy_complete,
                   all_events_up_to_lock_processed, ghost_table_migrated, streaming,
                   throttled, report, progress, tables, threads>>

\* A statement of Run that changes nothing another step depends on: it
\* succeeds, or it fails and the run with it.
Statement(label, next, succeeds) ==
    /\ \/ succeeds /\ Goes("run", label, next)
       \/ (~succeeds \/ label \in Faults) /\ Goes("run", label, "fail")
    /\ UNCHANGED <<fixed, control, report, progress, tables, threads>>

PhaseInitialSetup == Statement("setup", "dropStaleGhost", TRUE)

\* GhostTableExists is tested first, but DROP TABLE IF EXISTS does not mind.
DropStaleGhost ==
    /\ connected
    /\ \/ ghost' = FALSE /\ Goes("run", "dropStaleGhost", "createGhost")
       \/ /\ ghost /\ "drop" \in Faults
          /\ Goes("run", "dropStaleGhost", "fail") /\ UNCHANGED ghost
    /\ UNCHANGED <<fixed, control, report, progress, changelog, live, old, locked, threads>>

CreateGhostTable ==
    /\ connected
    /\ \/ ~ghost /\ ghost' = TRUE /\ Goes("run", "createGhost", "dropStaleChangelog")
       \/ /\ ghost \/ "createGhost" \in Faults
          /\ Goes("run", "createGhost", "fail") /\ UNCHANGED ghost
    /\ UNCHANGED <<fixed, control, report, progress, changelog, live, old, locked, threads>>

\* DROP TABLE IF EXISTS by controller p, who goes on whatever its result.
DropChangelog(p, label, next) ==
    /\ connected
    /\ Goes(p, label, next)
    /\ \/ changelog' = FALSE
       \/ "drop" \in Faults /\ UNCHANGED changelog
    /\ UNCHANGED <<fixed, control, progress, ghost, live, old, locked, threads>>

DropStaleChangelog ==
    /\ DropChangelog("run", "dropStaleChangelog", "createChangelog")
    /\ UNCHANGED report

\* CREATE TABLE without IF NOT EXISTS.
CreateChangelogTable ==
    /\ \/ ~changelog /\ changelog' = TRUE /\ Goes("run", "createChangelog", "markMigrated")
       \/ /\ changelog \/ "createChangelog" \in Faults
          /\ Goes("run", "createChangelog", "fail") /\ UNCHANGED changelog
    /\ UNCHANGED <<fixed, control, report, progress, ghost, live, old, locked, threads>>

\* Mutation: the flag is not set.
MarkMigratedNot ==
    /\ Goes("run", "markMigrated", "alterGhost")
    /\ UNCHANGED <<fixed, control, report, progress, tables, threads>>

\* Only from here on a failure or a cancellation drops the ghost table.
MarkMigrated ==
    /\ Goes("run", "markMigrated", "alterGhost")
    /\ ghost_table_migrated' = TRUE
    /\ UNCHANGED <<fixed, flags, row_copy_complete, all_events_up_to_lock_processed,
                   streaming, throttled, report, progress, tables, threads>>

PhaseAlterGhostTable ==
    \/ Statement("alterGhost", "inspectGhost", ghost)
    \/ Statement("inspectGhost", "inspectOriginal", ghost)

PhaseInspectOriginalTable == Statement("inspectOriginal", "validate", TRUE)
PhaseValidateMigration    == Statement("validate", "rowRange", ghost)

\* Mutation: the number of rows is taken one too small.
PhasePopulateRowRangeLess ==
    /\ Goes("run", "rowRange", "startStream")
    /\ total' \in {-1, rows - 1}
    /\ last_key' = IF rows = 0 THEN 0 ELSE 1
    /\ UNCHANGED <<fixed, control, report, copied, tables, threads>>

\* The estimate is the server's TABLE_ROWS statistic, and 0 when the query
\* fails.  The first key to copy is the smallest key, "0" without rows.
PhasePopulateRowRange ==
    /\ \/ /\ Goes("run", "rowRange", "startStream")
          /\ total' \in {0, rows}
          /\ last_key' = IF rows = 0 THEN 0 ELSE 1
       \/ /\ "rowRange" \in Faults
          /\ Goes("run", "rowRange", "fail") /\ UNCHANGED <<total, last_key>>
    /\ UNCHANGED <<fixed, control, report, copied, tables, threads>>

\* Controller p assigns a new std::thread, which begins at its loop.
StartThread(p, w, from, to) ==
    /\ Goes(p, from, to)
    /\ worker' = [worker EXCEPT ![w] = "loop"]
    /\ joinable' = [joinable EXCEPT ![w] = TRUE]
    /\ UNCHANGED <<fixed, flags, row_copy_complete, all_events_up_to_lock_processed,
                   ghost_table_migrated, throttled, progress, tables, joiner, destroying, crashed>>

PhaseReadStreamInitiate ==
    \/ /\ StartThread("run", "stream", "startStream", "startHeartbeat")
       /\ streaming' = TRUE
       /\ UNCHANGED report
    \/ /\ \/ StartThread("run", "heartbeat", "startHeartbeat", "startThrottle")
          \/ StartThread("run", "throttle", "startThrottle", "rowCopy")
       /\ UNCHANGED <<streaming, report>>

-----------------------------------------------------------------------------
(* Waiting for a thread.                                                   *)

\* if (t.joinable()) t.join() by controller p.  Two threads in join() of one
\* std::thread are an error: the second gets an exception nobody catches.
Join(p, w, from, to) ==
    /\ \/ ~joinable[w] /\ Goes(p, from, to) /\ UNCHANGED threads
       \/ /\ joinable[w] /\ joiner[w] = "none" /\ pc[p] = from
          /\ joiner' = [joiner EXCEPT ![w] = p]
          /\ UNCHANGED <<worker, joinable, destroying, crashed, pc>>
       \/ /\ joinable[w] /\ joiner[w] = p /\ worker[w] = "done"
          /\ joiner' = [joiner EXCEPT ![w] = "none"]
          /\ joinable' = [joinable EXCEPT ![w] = FALSE]
          /\ Goes(p, from, to)
          /\ UNCHANGED <<worker, destroying, crashed>>
       \/ /\ joinable[w] /\ joiner[w] \notin {"none", p} /\ pc[p] = from
          /\ crashed' = TRUE
          /\ UNCHANGED <<worker, joinable, joiner, destroying, pc>>
    /\ UNCHANGED <<fixed, control, report, progress, tables>>

-----------------------------------------------------------------------------
(* Run: row copy, cut-over and clean-up.                                   *)

BeginRowCopy ==
    /\ Goes("run", "rowCopy", "startCopy")
    /\ phase' = "RowCopy"
    /\ UNCHANGED <<fixed, control, status, result, progress, tables, threads>>

\* Mutation: Run waits for the row copy whatever the flags say.
PhaseRowCopyUncancelled ==
    \/ /\ \/ StartThread("run", "copy", "startCopy", "startEvents")
          \/ StartThread("run", "events", "startEvents", "monitor")
       /\ UNCHANGED <<streaming, report>>
    \/ /\ row_copy_complete
       /\ Goes("run", "monitor", "joinCopy")
       /\ UNCHANGED <<fixed, control, report, progress, tables, threads>>
    \/ Join("run", "copy", "joinCopy", "joinEvents")
    \/ Join("run", "events", "joinEvents", "rowCopyEnded")

PhaseRowCopy ==
    \/ /\ \/ StartThread("run", "copy", "startCopy", "startEvents")
          \/ StartThread("run", "events", "startEvents", "monitor")
       /\ UNCHANGED <<streaming, report>>
    \/ /\ ~(Going /\ ~row_copy_complete)
       /\ Goes("run", "monitor", "joinCopy")
       /\ UNCHANGED <<fixed, control, report, progress, tables, threads>>
    \/ Join("run", "copy", "joinCopy", "joinEvents")
    \/ Join("run", "events", "joinEvents", "rowCopyEnded")

RowCopyEnds ==
    /\ IF cancelled
         THEN Goes("run", "rowCopyEnded", "fail") /\ UNCHANGED phase
         ELSE Goes("run", "rowCopyEnded", "awaitEvents") /\ phase' = "CutOver"
    /\ UNCHANGED <<fixed, control, status, result, progress, tables, threads>>

\* Without a flag to look for, only a cancellation ends a postponement.
AwaitCutOver ==
    /\ \/ /\ ~(Going /\ ~all_events_up_to_lock_processed)
          /\ Goes("run", "awaitEvents",
                  IF cancelled THEN "fail"
                  ELSE IF config.postpone_cut_over THEN "postponed" ELSE "lock")
       \/ ~Going /\ Goes("run", "postponed", IF cancelled THEN "fail" ELSE "lock")
    /\ UNCHANGED <<fixed, control, report, progress, tables, threads>>

LockOriginalTable ==
    /\ \/ Goes("run", "lock", "rename") /\ locked' = TRUE
       \/ "lock" \in Faults /\ Goes("run", "lock", "fail") /\ UNCHANGED locked
    /\ UNCHANGED <<fixed, control, report, progress, ghost, changelog, live, old, threads>>

\* One statement renames both tables or none.  When the connection breaks the
\* applier reports a failure whether or not the server has executed it.
RenameTables ==
    /\ \/ /\ ghost /\ old = "none"
          /\ ghost' = FALSE /\ live' = "migrated" /\ old' = "original"
          /\ \/ Goes("run", "rename", "unlock")
             \/ "rename" \in Faults /\ Goes("run", "rename", "unlockFailed")
       \/ /\ ~ghost \/ old # "none" \/ "rename" \in Faults
          /\ Goes("run", "rename", "unlockFailed")
          /\ UNCHANGED <<ghost, live, old>>
    /\ UNCHANGED <<fixed, control, report, progress, changelog, locked, threads>>

\* Mutation: a failed rename returns without UNLOCK TABLES.
UnlockTablesForgotten ==
    /\ \/ Goes("run", "unlock", "dropOld") /\ phase' = "Cleanup" /\ locked' = FALSE
       \/ Goes("run", "unlockFailed", "fail") /\ UNCHANGED <<phase, locked>>
    /\ UNCHANGED <<fixed, control, status, result, progress, ghost, changelog, live, old,
                   threads>>

\* Mutation: the result of the rename is not looked at.
UnlockTablesAnyway ==
    /\ locked' = FALSE
    /\ Goes("run", "unlock", "dropOld") \/ Goes("run", "unlockFailed", "dropOld")
    /\ phase' = "Cleanup"
    /\ UNCHANGED <<fixed, control, status, result, progress, ghost, changelog, live, old,
                   threads>>

UnlockTables ==
    /\ locked' = FALSE
    /\ \/ Goes("run", "unlock", "dropOld") /\ phase' = "Cleanup"
       \/ Goes("run", "unlockFailed", "fail") /\ UNCHANGED phase
    /\ UNCHANGED <<fixed, control, status, result, progress, ghost, changelog, live, old,
                   threads>>

DropOldTable ==
    /\ Goes("run", "dropOld", "finalDropChangelog")
    /\ \/ config.drop_original_table /\ old' = "none"
       \/ (~config.drop_original_table \/ "drop" \in Faults) /\ UNCHANGED old
    /\ UNCHANGED <<fixed, control, report, progress, ghost, changelog, live, locked, threads>>

StopStreamer(p, from, to) ==
    /\ Goes(p, from, to)
    /\ streaming' = FALSE
    /\ UNCHANGED <<fixed, flags, row_copy_complete, all_events_up_to_lock_processed,
                   ghost_table_migrated, throttled, report, progress, tables, threads>>

\* running_ is still TRUE here, so nothing tells heartbeat and throttle
\* check to stop.
PhaseCleanup ==
    \/ DropOldTable
    \/ DropChangelog("run", "finalDropChangelog", "finalStopStreamer") /\ UNCHANGED report
    \/ StopStreamer("run", "finalStopStreamer", "finalJoinStream")
    \/ Join("run", "stream", "finalJoinStream", "finalJoinHeartbeat")
    \/ Join("run", "heartbeat", "finalJoinHeartbeat", "finalJoinThrottle")
    \/ Join("run", "throttle", "finalJoinThrottle", "complete")

Complete ==
    /\ Goes("run", "complete", "returned")
    /\ status' = "Completed" /\ phase' = "Completed" /\ result' = "ok"
    /\ UNCHANGED <<fixed, control, progress, tables, threads>>

HandleError ==
    /\ Goes("run", "fail", "cleanUp")
    /\ status' = "Failed" /\ phase' = "Failed"
    /\ UNCHANGED <<fixed, control, result, progress, tables, threads>>

-----------------------------------------------------------------------------
(* CleanupOnError, called by HandleError and by Cancel.                    *)

\* Mutation: the ghost table is kept once it has all the rows.
DropGhostTableIncomplete(p) ==
    /\ Goes(p, "dropGhost", "dropChangelog")
    /\ LET drop == ghost_table_migrated /\ config.drop_ghost_table /\ ~row_copy_complete
       IN \/ drop /\ ghost' = FALSE
          \/ (~drop \/ "drop" \in Faults) /\ UNCHANGED ghost
    /\ UNCHANGED <<fixed, control, report, progress, changelog, live, old, locked, threads>>

DropGhostTable(p) ==
    /\ Goes(p, "dropGhost", "dropChangelog")
    /\ LET drop == ghost_table_migrated /\ config.drop_ghost_table
       IN \/ drop /\ ghost' = FALSE
          \/ (~drop \/ "drop" \in Faults) /\ UNCHANGED ghost
    /\ UNCHANGED <<fixed, control, report, progress, changelog, live, old, locked, threads>>

CleanupOnError(p) ==
    \/ /\ Goes(p, "cleanUp", "stopStreamer")
       /\ running' = FALSE /\ cancelled' = TRUE
       /\ UNCHANGED <<fixed, paused, row_copy_complete, all_events_up_to_lock_processed,
                      ghost_table_migrated, streaming, throttled, report, progress,
                      tables, threads>>
    \/ StopStreamer(p, "stopStreamer", "joinStream")
    \/ Join(p, "stream", "joinStream", "dropGhost")
    \/ DropGhostTable(p)
    \/ /\ p = "run"
       /\ DropChangelog(p, "dropChangelog", "returned")
       /\ result' = "failed" /\ UNCHANGED <<phase, status>>
    \/ /\ p = "user"
       /\ DropChangelog(p, "dropChangelog", IF destroying THEN "destroyed" ELSE "idle")
       /\ UNCHANGED report

\* An applier without a connection dereferences a null pointer.
NullConnection(p) ==
    /\ ~connected
    /\ pc[p] \in {"dropStaleGhost", "createGhost", "dropChangelog"}
    /\ crashed' = TRUE
    /\ UNCHANGED <<fixed, control, report, progress, tables, pc,
                   worker, joinable, joiner, destroying>>

-----------------------------------------------------------------------------
(* The user's thread.                                                      *)

\* A command that is over at once.
Command(name) ==
    /\ name \in Commands /\ pc["user"] = "idle"
    /\ UNCHANGED <<fixed, running, cancelled, row_copy_complete,
                   all_events_up_to_lock_processed, ghost_table_migrated, streaming,
                   phase, result, progress, tables, threads, pc>>

Pause      == Command("pause")      /\ paused' = TRUE     /\ status' = "Paused"  /\ UNCHANGED throttled
Resume     == Command("resume")     /\ paused' = FALSE    /\ status' = "Running" /\ UNCHANGED throttled
Throttle   == Command("throttle")   /\ throttled' = TRUE  /\ UNCHANGED <<paused, status>>
Unthrottle == Command("unthrottle") /\ throttled' = FALSE /\ UNCHANGED <<paused, status>>

PanicAbort ==
    /\ "panic" \in Commands
    /\ Goes("user", "idle", "cancel")
    /\ status' = "Cancelled"
    /\ UNCHANGED <<fixed, control, phase, result, progress, tables, threads>>

\* The destructor, when Run has returned: Cancel, and no command after it.
Destroy ==
    /\ pc["run"] = "returned"
    /\ Goes("user", "idle", "cancel")
    /\ destroying' = TRUE
    /\ UNCHANGED <<fixed, control, report, progress, tables,
                   worker, joinable, joiner, crashed>>

\* Mutation: the two flags are changed in the other order.
CancelStopsFirst ==
    /\ \/ /\ \/ Goes("user", "cancel", "stopRunning")
             \/ "cancel" \in Commands /\ Goes("user", "idle", "stopRunning")
          /\ running' = FALSE
          /\ UNCHANGED <<cancelled, status>>
       \/ /\ Goes("user", "stopRunning", "joinCopy")
          /\ cancelled' = TRUE /\ status' = "Cancelled"
          /\ UNCHANGED running
    /\ UNCHANGED <<fixed, paused, row_copy_complete, all_events_up_to_lock_processed,
                   ghost_table_migrated, streaming, throttled, phase, result, progress,
                   tables, threads>>

\* cancelled_ is set before running_ is cleared: whoever leaves a loop
\* because of a cancellation finds cancelled_ set.
Cancel ==
    /\ \/ /\ \/ Goes("user", "cancel", "stopRunning")
             \/ "cancel" \in Commands /\ Goes("user", "idle", "stopRunning")
          /\ cancelled' = TRUE
          /\ UNCHANGED <<running, status>>
       \/ /\ Goes("user", "stopRunning", "joinCopy")
          /\ running' = FALSE /\ status' = "Cancelled"
          /\ UNCHANGED cancelled
    /\ UNCHANGED <<fixed, paused, row_copy_complete, all_events_up_to_lock_processed,
                   ghost_table_migrated, streaming, throttled, phase, result, progress,
                   tables, threads>>

\* Mutation: the heartbeat thread is forgotten.
CancelJoinsNoHeartbeat ==
    \/ Join("user", "copy", "joinCopy", "joinEvents")
    \/ Join("user", "events", "joinEvents", "joinThrottle")
    \/ Join("user", "throttle", "joinThrottle", "cleanUp")

CancelJoins ==
    \/ Join("user", "copy", "joinCopy", "joinEvents")
    \/ Join("user", "events", "joinEvents", "joinHeartbeat")
    \/ Join("user", "heartbeat", "joinHeartbeat", "joinThrottle")
    \/ Join("user", "throttle", "joinThrottle", "cleanUp")

-----------------------------------------------------------------------------
(* The worker threads.                                                     *)

Works(w, from, to) ==
    /\ worker[w] = from
    /\ worker' = [worker EXCEPT ![w] = to]
    /\ UNCHANGED <<fixed, flags, ghost_table_migrated, streaming, report, total,
                   tables, joinable, joiner, destroying, crashed, pc>>

\* "std::string max_key = last_key": the end of the chunk that begins at last.
ChunkEnd(last) == last

RunRowCopy ==
    /\ \/ /\ Works("copy", "loop", IF Going /\ ~paused THEN "check" ELSE "done")
          /\ UNCHANGED <<row_copy_complete, copied, last_key>>
       \/ /\ copied >= total
          /\ Works("copy", "check", "done")
          /\ row_copy_complete' = TRUE
          /\ UNCHANGED <<copied, last_key>>
       \/ /\ copied < total
          /\ Works("copy", "check", "await")
          /\ UNCHANGED <<row_copy_complete, copied, last_key>>
       \/ /\ ~throttled
          /\ Works("copy", "await", "chunk")
          /\ UNCHANGED <<row_copy_complete, copied, last_key>>
       \/ /\ Works("copy", "chunk", "loop")
          /\ last_key' = ChunkEnd(last_key)
          /\ copied' = copied + Cardinality({k \in 1..rows : last_key < k /\ k <= last_key'})
          /\ UNCHANGED row_copy_complete
       \/ /\ "copy" \in Faults
          /\ Works("copy", "chunk", "done")
          /\ UNCHANGED <<row_copy_complete, copied, last_key>>
    /\ UNCHANGED <<all_events_up_to_lock_processed, throttled>>

\* Nothing fills the streamer's queue: PopFor times out, or returns nothing
\* from the stopped queue.
RunEventsApply ==
    /\ \/ /\ Works("events", "loop", IF Going THEN "pop" ELSE "done")
          /\ UNCHANGED all_events_up_to_lock_processed
       \/ /\ row_copy_complete
          /\ Works("events", "pop", "done")
          /\ all_events_up_to_lock_processed' = TRUE
       \/ /\ ~row_copy_complete
          /\ Works("events", "pop", "loop")
          /\ UNCHANGED all_events_up_to_lock_processed
    /\ UNCHANGED <<row_copy_complete, throttled, copied, last_key>>

RunHeartbeat ==
    /\ ~Going
    /\ Works("heartbeat", "loop", "done")
    /\ UNCHANGED <<row_copy_complete, all_events_up_to_lock_processed, throttled, copied, last_key>>

\* Mutation: the thread sleeps on while the migration is throttled.
RunThrottleCheckSleeps ==
    /\ \/ /\ Going \/ ~throttled
          /\ Works("throttle", "loop", IF Going THEN "set" ELSE "done")
          /\ UNCHANGED throttled
       \/ /\ Works("throttle", "set", "loop")
          /\ throttled' \in Verdicts
    /\ UNCHANGED <<row_copy_complete, all_events_up_to_lock_processed, copied, last_key>>

RunThrottleCheck ==
    /\ \/ /\ Works("throttle", "loop", IF Going THEN "set" ELSE "done")
          /\ UNCHANGED throttled
       \/ /\ Works("throttle", "set", "loop")
          /\ throttled' \in Verdicts
    /\ UNCHANGED <<row_copy_complete, all_events_up_to_lock_processed, copied, last_key>>

StreamLoop ==
    /\ ~streaming
    /\ Works("stream", "loop", "done")
    /\ UNCHANGED <<row_copy_complete, all_events_up_to_lock_processed, throttled, copied, last_key>>

-----------------------------------------------------------------------------
Run ==
    \/ Start \/ PhaseInitialSetup
    \/ DropStaleGhost \/ CreateGhostTable \/ DropStaleChangelog
    \/ CreateChangelogTable \/ MarkMigrated
    \/ PhaseAlterGhostTable \/ PhaseInspectOriginalTable \/ PhaseValidateMigration
    \/ PhasePopulateRowRange \/ PhaseReadStreamInitiate
    \/ BeginRowCopy \/ PhaseRowCopy \/ RowCopyEnds
    \/ AwaitCutOver \/ LockOriginalTable \/ RenameTables \/ UnlockTables
    \/ PhaseCleanup \/ Complete
    \/ HandleError \/ CleanupOnError("run") \/ NullConnection("run")

\* What the user's thread goes on with when it has given its command.
GoOn == pc["user"] # "idle" /\ (Cancel \/ CancelJoins \/ CleanupOnError("user") \/ NullConnection("user"))

User == Pause \/ Resume \/ Throttle \/ Unthrottle \/ PanicAbort \/ Cancel \/ Destroy \/ GoOn

Next ==
    /\ ~crashed
    /\ \/ Run \/ User
       \/ RunRowCopy \/ RunEventsApply \/ RunHeartbeat \/ RunThrottleCheck \/ StreamLoop

Spec == Init /\ [][Next]_vars

(* Every thread that can go on does so: they are threads of the operating  *)
(* system, whose loops sleep but take no lock, and the server answers      *)
(* every statement.  Nothing obliges the user to give a command.           *)
FairSpec ==
    /\ Spec
    /\ WF_vars(~crashed /\ Run)
    /\ WF_vars(~crashed /\ GoOn)
    /\ WF_vars(~crashed /\ RunRowCopy)
    /\ WF_vars(~crashed /\ RunEventsApply)
    /\ WF_vars(~crashed /\ RunHeartbeat)
    /\ WF_vars(~crashed /\ RunThrottleCheck)
    /\ WF_vars(~crashed /\ StreamLoop)

-----------------------------------------------------------------------------
RunLabels ==
    {"start", "setup", "dropStaleGhost", "createGhost", "dropStaleChangelog",
     "createChangelog", "markMigrated", "alterGhost", "inspectGhost",
     "inspectOriginal", "validate", "rowRange", "startStream", "startHeartbeat",
     "startThrottle", "rowCopy", "startCopy", "startEvents", "monitor", "joinCopy",
     "joinEvents", "rowCopyEnded", "awaitEvents", "postponed", "lock", "rename",
     "unlock", "unlockFailed", "dropOld", "finalDropChangelog", "finalStopStreamer",
     "finalJoinStream", "finalJoinHeartbeat", "finalJoinThrottle", "complete",
     "returned", "fail"}
CleanupLabels == {"cleanUp", "stopStreamer", "joinStream", "dropGhost", "dropChangelog"}
UserLabels ==
    {"idle", "cancel", "stopRunning", "joinCopy", "joinEvents", "joinHeartbeat",
     "joinThrottle", "destroyed"}
Labels == RunLabels \union CleanupLabels \union UserLabels

FixedOK == config \in Configs /\ connected \in BOOLEAN /\ rows \in Nat
ControlOK ==
    /\ running \in BOOLEAN /\ cancelled \in BOOLEAN /\ paused \in BOOLEAN
    /\ row_copy_complete \in BOOLEAN /\ all_events_up_to_lock_processed \in BOOLEAN
    /\ ghost_table_migrated \in BOOLEAN /\ streaming \in BOOLEAN /\ throttled \in BOOLEAN
ReportOK ==
    /\ phase \in {"InitialSetup", "RowCopy", "CutOver", "Cleanup", "Completed", "Failed"}
    /\ status \in {"Running", "Paused", "Cancelled", "Completed", "Failed"}
    /\ result \in {"none", "ok", "failed"}
ProgressOK == total \in Nat /\ copied \in Nat /\ last_key \in Nat
TablesOK ==
    /\ ghost \in BOOLEAN /\ changelog \in BOOLEAN /\ locked \in BOOLEAN
    /\ live \in {"original", "migrated"} /\ old \in {"none", "stale", "original"}
ThreadsOK ==
    /\ worker \in [Workers -> {"none", "loop", "check", "await", "chunk", "pop", "set", "done"}]
    /\ joinable \in [Workers -> BOOLEAN] /\ joiner \in [Workers -> Controllers \union {"none"}]
    /\ destroying \in BOOLEAN /\ crashed \in BOOLEAN
PcOK == pc \in [Controllers -> Labels]

(* Every variable has its type. *)
TypeOK == FixedOK /\ ControlOK /\ ReportOK /\ ProgressOK /\ TablesOK /\ ThreadsOK /\ PcOK

(* The rows of the original table exist under its own name or under _old.  *)
OriginalRowsExist == live = "original" \/ old = "original"

(* The migration keeps what it promises to the owner of the table: see     *)
(* MigrationLifecycle.  In particular a run whose rename failed, even one  *)
(* whose rename was executed all the same, never drops the original rows.  *)
Lifecycle == INSTANCE MigrationLifecycle WITH original <- OriginalRowsExist
LifecycleSpec == Lifecycle!Spec

InCutOver == pc["run"] \in {"lock", "rename", "unlock", "unlockFailed"}

(* Run locks the table, and changes the tables' places, only when both the *)
(* row copy and the events thread have said that they are finished, and no *)
(* thread that writes rows into the ghost table is left: a cancellation,   *)
(* which ends their loops and the loops that wait for them too, never gets *)
(* Run that far.                                                           *)
Drained ==
    /\ row_copy_complete /\ all_events_up_to_lock_processed
    /\ worker["copy"] = "done" /\ worker["events"] = "done"
CutOverOnlyWhenDrained == InCutOver \/ live = "migrated" => Drained

(* A Cancel that has returned has withdrawn the ghost table, if the        *)
(* configuration drops it: from then on the tables stay where they are,    *)
(* wherever Run was.                                                       *)
NoSwapAfterCancel ==
    [][cancelled /\ pc["user"] = "idle" /\ config.drop_ghost_table => UNCHANGED live]_vars

(* The table lock never outlives Run.                                      *)
LockReleased == pc["run"] \in {"fail", "returned"} => ~locked

(* When Run has failed, no ghost table of its own is left behind, if the   *)
(* configuration drops it and Run got as far as marking it as its own.     *)
FailureDropsGhost ==
    pc["run"] = "returned" /\ result = "failed" /\ ghost_table_migrated
        /\ config.drop_ghost_table => ~ghost

(* After the destructor no thread is left that would use the destroyed     *)
(* object, and no std::thread is joinable.                                 *)
DestroyedIsQuiet ==
    pc["user"] = "destroyed" =>
        \A w \in Workers : ~joinable[w] /\ worker[w] \in {"none", "done"}

(* A cancelled migration ends: Run returns wherever it was, with one       *)
(* exception, that of a throttle that is never lifted.                     *)
CancelEndsRun ==
    <>cancelled /\ <>[]~throttled => <>(pc["run"] = "returned" \/ crashed)

(* The destructor returns, whatever the threads are doing, throttled or    *)
(* not: no thread that Run leaves behind can be held by a throttle.        *)
DestructorReturns ==
    destroying ~> pc["user"] = "destroyed" \/ crashed

(* When RunRowCopy says that the row copy is complete (migrator.cpp:434)   *)
(* and the tables have changed places, the new table has the rows.         *)
AllRowsCopied == live = "migrated" => copied >= rows

(* Cancel "joins all threads" (migrator.cpp:622); that is no reason for    *)
(* the process to end in an exception.                                     *)
CancelNeverCrashes == ~crashed

(* PhaseCleanup "stops the heartbeat thread" (migrator.cpp:413).           *)
CleanupStopsHeartbeat ==
    pc["run"] = "finalJoinHeartbeat" ~> worker["heartbeat"] = "done"

=============================================================================
