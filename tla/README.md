# Verification of gh-ost-cpp in TLA+

gh-ost-cpp changes the schema of a MySQL table while it is in use: it creates a
*ghost* table with the new schema, copies the rows, applies the changes of the
binary log, and in the *cut-over* lets the ghost table take the place of the
original. This directory holds models of its components, the TLC configurations
that check them, and theorems about them with TLAPS proofs. Every definition is
translated from the sources; `PROJECT.json` names the lines.

To check a run: `tlc -config X.cfg M` (pairs below). To check the proofs:
`tlapm M.tla` for each of `SafeQueueProofs`, `MigratorProofs`, `ThrottleProofs`,
`ApplierProofs`, `ServicesProofs`, `TextProofs`, `ValuesProofs` and `ParserProofs`
(the last three take minutes, `ValuesProofs` about ten).

## 1. The system

| Component | State | Operations | Talks to |
|---|---|---|---|
| `Migrator` (src/logic/migrator.cpp) | atomic flags `running_`, `cancelled_`, `paused_`, `ghost_table_migrated_`, `row_copy_complete_`, `all_events_up_to_lock_processed_`; four `std::thread`s | `Run` (ten phases), `Pause`, `Resume`, `Cancel`, `Throttle`, `Unthrottle`, `PanicAbort`, destructor | everything below |
| `MigrationContext` | status, phase, throttle flag and reason, row counts, coordinates | setters and getters, most without a lock | read and written by all threads |
| `Applier` | the master connection, counters | DDL of set-up, cut-over and clean-up, `CopyRows`, `ApplyDMLEvent`, `ApplyBatch`, changelog writes | connection, `SQLBuilder` |
| `Inspector` | column lists and keys in the context | inspection, validation, row range and counts | replica and master connections |
| `EventsStreamer` | `running_`, event queue, stream thread | `Start`, `Stop`, event handlers, `WaitForCoordinates` | `BinlogReader`, `SafeQueue` |
| `BinlogReader` | coordinates, reader thread | `Start`, `Stop`, read loop (a stub), event parsing | replica connection |
| `SafeQueue` (header) | elements, `max_size_`, `running_`, two condition variables | push, pop, clear, resize, stop, start | producers and consumers in other threads |
| `Throttler` | reason, own flag, counters | the five conditions, backoff | context, connections |
| `Server`, `InteractiveCommands` | socket, accept thread | start, stop, the commands | context |
| `HooksExecutor` | counters | run a hook as a child process with a timeout | operating system |
| `ThreadPool` | task queue, threads, counters | submit, wait, stop, restart | tasks |
| `Checkpoint` | current state | read, save, resume, hints | changelog table |
| coordinates, GTID sets, binlog entries, DML events | values | compare, parse, add, contains | |
| SQL parser, builder, types, encoding | values | pure functions over text | |
| connection, instance key, MySQL and other utilities, `main` | client handle, none | client calls, formatting, parsing | MySQL |

How they interact: `Run` goes through the phases on the caller's thread and
starts the row copy, events apply, heartbeat and throttle check threads; the
streamer has a thread of its own and hands events over through a `SafeQueue`.
All of them read the atomic flags in their loop conditions and nothing else
tells them to stop. Commands come from other threads (the embedder, the status
server) at any time. Several connections are declared and not made:
`main` ends where it would construct the migrator, nothing feeds the streamer's
queue, and `ApplyBatch`, the checkpoint, the hooks, the pool and the rate
limiter have no caller in src/. They are modelled for the caller
that their interface describes. The applier's statements go over one
connection, one at a time.

What is hard:

* **Interleavings.** `Cancel` runs on another thread than `Run`, changes two
  flags one after the other, joins the same `std::thread` objects and runs the
  same clean-up as `Run` does when it fails.
* **Partial failure.** Any statement can fail; a rename may have been executed
  although the answer was lost; what has been created has to be withdrawn
  exactly when it is the migration's own.
* **Waiting.** Six loops wait for flags; each must see a cancellation.
* **Wake-ups.** Two condition variables with `notify_one`, timeouts, resizing.
* **Shared fields.** The throttle flag and its reason are two fields written by
  two threads without a lock.
* **Order of copies and changes.** A row on its way from SELECT to INSERT, an
  event of the same key and a batch on the same connection meet in any order.
* **Numbers used again.** The status server's descriptors and a hook's process
  number belong to the whole system.
* **Texts.** ALTER statements, keys, coordinates and options are parsed by hand.

What makes each component correct: for the **migrator** that the tables change
places only when copy and events are finished, at most once and never after a
cancellation that withdrew the ghost table; that the original rows are dropped
only after a good swap; that failure leaves no lock and no ghost table of its
own behind; that cancellation and destruction end. For the **queue** that no
thread sleeps beside work it could do, and that stopping it frees everybody.
For the **throttle** that a lasting condition throttles, that nothing else
keeps the migration throttled, and that the user's command lasts until the next
one or an exceeded condition. For the **applier** that the ghost table converges to the original and that no
coordinates are ahead of what was applied. For the **services** that accepted
tasks run, that stopping ends and leaves nothing, and that no other's descriptor
or process is touched. For the **values** that what is written can be read
back, that orders are orders, and that keys, columns and statements fit both
tables. Section 7 lists what is not modelled.

## 2. The modules

| Module | What it is |
|---|---|
| `SafeQueue`, `MCSafeQueue`, `SafeQueueProofs` | the blocking queue |
| `MigrationLifecycle` | abstract specification: what the owner of the table is promised |
| `Migrator`, `MCMigrator`, `MigratorProofs` | the migration with its threads; implements `MigrationLifecycle` |
| `Throttle`, `MCThrottle`, `ThrottleProofs` | the throttle flag and reason between the check thread and the commands |
| `Applier`, `MCApplier`, `ApplierProofs` | the contents of the ghost table: row copy, streamer's queue, events, batches, one connection |
| `ThreadPool` | the pool, its owner and its clients |
| `Server` | the status server's two threads, its descriptors and commands |
| `Hooks` | a hook's process, its limit of time and its number |
| `MCServices`, `ServicesProofs` | these three, one of them in a behaviour |
| `Checkpoint` | hints in the changelog table, restart and resume |
| `Timers` | rate limiter, deadline, wait for a flag file, under a clock that can be set |
| `AlterParser`, `ParserProofs` | the parser of ALTER statements, with the state it keeps between two |
| `Schema` | column pairs, the choice of the key, the CREATE of the ghost table |
| `RowEvents` | the statements of a row event and of a chunk, and what they do to a table |
| `Options` | the command line, its validation, the names of the tables, what `main` returns |
| `Text`, `Encoding`, `TextProofs` | texts and bytes |
| `Times`, `Coordinates` | times, coordinates, GTIDs, instance keys |
| `Values`, `MCValues`, `ValuesProofs` | the last ten, one of them in a behaviour |

**SafeQueue.** Each member function is one critical section, cut by its waits.
`pc[t]` says whether a thread is outside the queue, in the wait set of a
condition variable (`pushWait`, `popWait`, `popForWait`) or woken and not yet
running (`...Woken`), from where it re-evaluates the loop condition. Elements
are abstracted to their number. `notify_one` chooses any waiter; a timeout may
pass at any time; spurious wake-ups happen.

**Migrator.** `pc["run"]` is the next statement of `Run`, `pc["user"]` what the
thread that gives commands does next, `worker[w]` where a started thread is in
its loop. A step is what a thread does between two accesses another thread can
tell apart. `Join` is `if (t.joinable()) t.join()`, with its two-caller error.
Tables are `ghost`, `changelog`, `old` (the table with the suffix `_old`),
`live` (which table has the original's name) and the table lock `locked`.
Statements of the applier and inspector appear as their effect on the tables
and as success or failure; the constant `Faults` names those that may fail. The
throttle verdict is any member of `Verdicts`. `connected = FALSE` is the code as
`Initialize` leaves it, which never gives the applier its connection: the first
statement is then a crash. `connected = TRUE` is the program with an applier
that was given one.

**Throttle.** The two fields are written one at a time. `checker` is the next
check of the thread's round in the order of `CheckAllConditions`, then the
user's throttle, then two assignments. Conditions are exceeded or not, and
change between any two steps. `Migrator` abstracts all this to "the flag may be
set to any verdict", which is sound for what it claims.

**Applier.** A table is a function from keys to the version of the row, and a
version is the position of the write that made it. A chunk is a SELECT and one
INSERT per row, an event one statement per row, each a step. `before` is what a
rollback on the shared connection returns to; `chunk` holds rows between SELECT
and INSERT. The server may refuse a statement on a live session (`Refused`; for any
reason: a lock wait, a deadlock, a value the ghost's column does not take), which
leaves the tables as they were or the whole transaction undone (`Kept`), and a
session may be lost. `failed` is a batch that has met a failing row and has its
ROLLBACK still to send. A COMMIT, a ROLLBACK or the SET autocommit behind it may be
refused too; `unended` records that the server has a transaction nobody knows of.
A stopped queue gives nothing, whatever it holds. `spoiled` collects the keys
whose change is lost at a named place of the code (below).

**ThreadPool.** Each critical section of `mutex_` is a step and the notification
after it another. `Server` tells apart the number of a descriptor and
the socket an `accept` was called with, since closing a number neither ends the
call nor keeps others from getting that number. `Hooks` counts time in polls; the
child ends at any of them.

**The values.** Functions are operators of the same names. A text is a sequence
of the characters (tokens, bytes) that the functions tell apart. Each module
states what its functions promise as a predicate over one input, against a
reference of its own (`ReadLiteral` for what MySQL makes of a literal, cuts of
a text for wildcards, `Execute` for a statement on a table, `AlterTable` for
what MySQL makes of the ghost table). `Values` has one initial state per
input, and gives `Checkpoint`, `Timers` and `AlterParser`, which have state,
their steps. Its constant `Inputs` says what each function is given, and its
assumptions what the proofs need of that; `MCValues` has the inputs that TLC
tries. Numerals are the domain of the constant `Value`, which gives their numbers.

`MCServices` and `Values` put components side by side that share nothing:
`part` names the one that a behaviour is about, and the others stay
as they begin.

The model of MySQL is external, from how the code uses it: a rename of two
tables happens as a whole or not at all and fails without the ghost table or
when `_old` exists; `DROP TABLE IF EXISTS` of a missing table succeeds; the lock
belongs to the applier's session and a rename under it is carried out.

## 3. The runs

| Run | Module, cfg | Question | Result |
|---|---|---|---|
| `safe_queue` | `MCSafeQueue`, `SafeQueue.cfg` | lost wake-ups, stopping | holds (13,744 states) |
| `safe_queue_unlimited` | `MCSafeQueue`, `SafeQueueUnlimited.cfg` | is limit 0 unlimited? | **violated** |
| `migrator` | `MCMigrator`, `Migrator.cfg` | gating, locks, clean-up, refinement | holds (1.26 million states) |
| `migrator_liveness` | `MCMigrator`, `MigratorLiveness.cfg` | do cancellation and destructor end? | holds (197,174 states) |
| `migrator_rows` | `MCMigrator`, `MigratorRows.cfg` | is a complete row copy complete? | **violated** |
| `migrator_cancel` | `MCMigrator`, `MigratorCancel.cfg` | does Cancel never crash? | **violated** |
| `migrator_cleanup` | `MCMigrator`, `MigratorCleanup.cfg` | does the clean-up stop the heartbeat? | **violated** |
| `throttle` | `MCThrottle`, `Throttle.cfg` | conditions and user against each other | holds (13,360 states) |
| `throttle_release` | `MCThrottle`, `ThrottleRelease.cfg` | does unthrottle release? | **violated** |
| `applier` | `MCApplier`, `Applier.cfg` | does the ghost table converge? | holds (5.43 million states) |
| `services` | `MCServices`, `Services.cfg` | pool, server and hooks against every interleaving | holds (132,248 states) |
| `values` | `MCValues`, `Values.cfg` | functions and sequential objects against references | holds (697,226 states) |

What holds:

* `NoLostItemWakeup`, `NoLostSlotWakeup`: while somebody sleeps, each element
  (free slot) has a woken thread on its way to it.
* `StoppedNobodyWaits`, `StopReleasesWaiters`: stopping frees every caller.
* `CutOverOnlyWhenDrained`: the flags are set in an order in which no
  cancellation takes `Run` past its waiting loops.
* `LifecycleSpec`: the migrator implements `MigrationLifecycle`, with
  "original rows exist" as `live = "original" \/ old = "original"`.
* `NoSwapAfterCancel`: a `Cancel` that has returned has removed the ghost
  table, so a `Run` in mid cut-over can no longer swap. It needs
  `drop_ghost_table` and a clean-up whose DROP succeeds; without them a
  rename already under way can still happen after `Cancel`.
* `LockReleased`, `FailureDropsGhost`, `DestroyedIsQuiet`: what a failed run and
  the destructor leave behind. `FailureDropsGhost` too is about runs without a
  failing DROP, and about a ghost table that `Run` has marked as its own: a
  failing `CREATE` of the changelog table comes before the mark and leaks it.
* `CancelEndsRun`: a cancelled migration returns unless it stays throttled for
  ever (the throttle loop of the row copy tests no flag, migrator.cpp:442) or
  the process crashes as `migrator_cancel` shows. `DestructorReturns` needs no
  assumption about the throttle.
* `ConditionKeepsThrottled`, `ReleasedAfterConditions`: a condition that lasts
  throttles, and without a user's command nothing else does.
* `UserThrottleHolds`: a user's throttle that the present round has taken over, or
  still has to look at, is ended only by the next command or an exceeded
  condition. One that is commanded after the round has looked, when it is about to
  release, is ended by that release; the property does not claim otherwise.

Of the ghost table's contents:

* `GhostAgrees`: when all events are through, a copied key holds the original's
  row, and one not copied holds it or nothing. Not for the keys in `spoiled`: a
  change that overtakes a row between its SELECT and its INSERT is overwritten by
  the older row (the copy takes no lock, and the loser's duplicate key is not
  retried); a refused statement and the rest of its event, a batch that rolls
  back, a COMMIT that is refused or that the session did not live to see, a BEGIN
  that fails, an event that meets a stopped queue and those it still holds are
  given up. A rollback also takes the rows that the row copy has inserted over the
  same connection, and rows read in a transaction that nobody ended may be old.
* `NothingBehindCoordinates`: the context's coordinates are never ahead of an
  event that still waits, so a restart from them misses none. (That an event was
  given up does not keep them back.)
* `AutocommitOutsideBatch`: no path of `ApplyBatch` on which the server does what it
  is told leaves a transaction open. A COMMIT or ROLLBACK that is refused on
  a live session does, and so does the SET behind it: `Commit` returns before
  it turns autocommit on (connection.cpp:347), `ApplyBatch` returns that without a
  rollback (applier.cpp:236), and what follows is lost unless a later batch
  commits it. That is the exception in the property (`unended`).

Of the services:

* `WaitAllMeansDone`, `AcceptedTasksRun`, `PoolCallsReturn`: over start, stop,
  restart and resize, with tasks left in the queue of a stopped pool. Not for
  tasks that call their own pool, nor for a pool of 0 threads.
* `ClosesOnlyItsOwn`: but after a failed bind, when `Stop` closes the number once
  more. `StopLeavesNothing`.
* `StopReturns` needs clients: closing the socket does not end an `accept` in
  progress, nor anything a `recv` (no timeout). Without a client that
  connects, `Stop` waits for ever.
* `NoChildLeft`, `HookReturns`: whether the child ends before, at or after its
  limit, none is left unwaited for when the call is over, and success means that
  it ended with status 0. A second wait, or a kill, by a number that may meanwhile
  be another's is in the model (`killed_other`), but no property denies it.

Of the values; each exception below is what the code does, and stated in the
property:

* `ReadsBack`: literals, identifiers and JSON strings of any text; valid UTF-8;
  times and durations; coordinates and instance keys. Not through `EncodeString`
  for texts with a single quote or a NUL, whose escapes `DecodeString` does not
  know. Times come back later by what daylight saving had added, as the parsers
  leave `tm_isdst` at 0 (time_utils.cpp:200, 211, 244); ISO 8601 times in UTC only
  where standard time is UTC. Durations are written in whole seconds, and by
  `FormatDurationHuman` in milliseconds below one.
* `WildcardMatches`: for texts without a star of their own.
* `CoordinatesOrdered`: a total order on one server's files, and a GTID set keeps
  the newest GTID of each domain.
* `AlterIsUnderstood`: every operation in the form the parser expects, unless one
  of its names hides a keyword that the parser looks for (`Clear`), since
  `StringUtils::Contains` searches the whole text: `ADD COLUMN FIRST_NAME INT AFTER b`
  loses its AFTER, `ADD INDEX idx_unique (a)` becomes a unique key, and without
  the word COLUMN a name that contains INDEX or KEY is taken for an index. The
  model parses such statements as the code does.
* `SharedColumnsExist`: shared columns are in both tables unless a column is
  renamed, which the pairs do not follow; the chosen key need not be
  unique in the ghost; the CREATE statement has a comma too many exactly if
  the last column is dropped.
* `ReplayFollowsTheTable`: an event's statements do what was logged, though a row
  whose key changes stays under its old one. A caller that moves its bounds on
  from chunk to chunk copies each row once, but not the row with the least key, and
  with the empty text for NULL, and with chunks of size 0, which the command line
  lets pass, nothing. The migrator is no such caller: it passes the same key as both
  bounds (migrator.cpp:447); that is in `Migrator`, where a chunk copies or fails.
* `CommandLineIsFollowed`: modes, start and exit code; five options are read
  and forgotten; the default names of two migrations' tables differ but for
  the listed cases; a migration drops its own table only if a name was written.
* `ResumesFromARow`: a process resumes at coordinates that it has read in this
  life, and never at a heartbeat's time.
* `TimersKeepTime`: while nobody sets the system clock between two calls. The
  clock they use can be set, which is why it says so.

What the violations show:

1. `SetMaxSize(0)` does not notify producers blocked on the full queue.
2. With an estimate of 0 (an old statistic or a failed query) the row copy is
   "complete" without a row, the cut-over swaps, and by default the original
   table is dropped.
3. `Cancel` and `Run` join the same thread object.
4. After a good cut-over `Run` waits for the heartbeat thread, which nothing has
   told to stop: a successful migration does not return.
5. The throttle check thread reads the user's throttle before an `unthrottle`,
   writes it back after it, and from then on confirms its own write.

## 4. Bounds

* Queue: four threads put two on one wait set while another is woken and a
  fourth acts; limits 0, 1, 2 let a full queue shrink, grow and lose its limit;
  `SizeBound = 3` exceeds every limit. No symmetry, as liveness is checked.
* Migrator: one row is enough to tell "copied" from "not copied", since the code
  treats all chunks alike; every command may be given any number of times at any
  moment, from one thread. In `Migrator.cfg` most statements may fail; DROP
  failures are left to `MigratorLiveness.cfg` and to the proofs. Liveness uses
  the default configuration, the faults that lengthen the clean-up paths and
  a failing chunk copy.
* Throttle: no bound, it is finite-state.
* Applier: two keys let a statement fail between the rows of one event and a
  chunk be shorter than what is left; three writes let a key be inserted, updated
  and deleted (or deleted and inserted again) around one copy; queue length 2 is
  reached, and chunks may be taken again and in any order. Every kind of statement
  meets the first key, and INSERT and DELETE the second. One fault: a refused
  statement, a lost session or a stopped queue (the proofs are for any number).
* Services: three worker numbers let a pool of two be stopped and started while
  an old thread has not ended; two clients wait on one set; sizes 1 and 2; three
  calls of the owner. Three descriptors: the listening one, a client's and another's;
  two starts. A limit of three polls lets a hook end before, at and after it.
* Values: all texts of up to 3 characters out of 13, 5 bytes out of 6 kinds, wildcard
  patterns of up to 3 against texts of up to 4; times around midnight and the
  leading zeros of a fraction, in three zones, in standard time and an hour of
  daylight saving; durations from below 0 to days; coordinates whose file numbers have different
  lengths; numbers below `Wide` and ports below `PortWidth`, which stand for 2^64
  and 2^16 (beyond, a port is cut, as `ParseKey` says); schemas of 2 or 3 columns with 0 to 4 keys and up to 2
  operations; events of 1 or 2 rows with NULL and a changing key; tables of
  up to 5 rows in chunks of 0 to 3; every option once, saying something else
  than a complete command line did. `Checkpoint` has two
  rows and one restart, `Timers` five units of time and one setting of the clock,
  `AlterParser` two statements one after the other, with names
  that hide no keyword (`c`), FIRST and KEY, or UNIQUE, INDEX and AFTER.

`CHECK_DEADLOCK FALSE` in the migrator's runs: a migration ends, and a crash
ends everything. So in `applier` (its writes end), `services` (the owners' calls
end) and `values` (a function's input is one state). The other runs check for
deadlock.

## 5. Fairness

Each started thread and `Run` itself is weakly fair: they are threads of the
operating system that sleep but hold no lock for long, and the server answers
each statement. A command that was begun is finished (`GoOn`), but nothing
obliges the user to give one. In the queue only a woken thread is fair: a thread
gets the mutex in the end, and need not call anything. In `Throttle` the check
thread repeats its round; conditions and commands are the environment's. In the pool
the workers, and the calls that owner and clients have begun, go on, and a task
ends. In the server both threads go on; clients need neither connect nor speak,
and where that matters the property says so. For the hooks, the executor goes on
and time passes; the child need not end. `Applier` and `MCValues` state
safety only. No fairness is assumed of timeouts, faults or the load.

## 6. Proofs

Each theorem is for every value of the constants that satisfies the named
assumptions: the sets of threads, workers and keys are finite, limits, times and
descriptors are naturals, configurations are records of Booleans, the
statements of an application touch a key once each and there is at least one key
(`SafeQueueAssumption`, `MigratorAssumption`, `ThrottleAssumption`,
`KeysAssumption` and those after it, `ServicesAssumption`, `TimesAssumption`,
`TimesArePoints`). What the values assume beyond their types:

* `CharactersAssumption`: the characters that escapes and quotes are made of are
  among the characters of texts.
* `NumeralsAssumption`: a numeral stands for one number and is no mark of a text.
* `PlacesAssumption`: a file name has no colon and a GTID's domain no colon, comma or
  blank, which the code would cut at; coordinates to be compared are of files that
  their numbers tell apart.
* `SchemasAssumption`: the keys of a table are of its columns, which are at least
  one, and a name is not the comma of a statement.
* `RowsAssumption`: an event's rows have keys of their own that are not NULL, as MySQL
  logs them; a table that is copied has numbers for keys.
* `CommandLinesAssumption`: a command line gives each option a text or does not give it. Of
  the names of tables: putting the same text in front of or behind two names keeps
  them different, in either order the result is the same, and is not the name. These
  are facts about the characters of strings, of which the provers know nothing.
* `StatementsAssumption`: no name is a keyword or a mark of a statement, or a word
  of the type and the key columns that it is written with, which are the same in
  every statement; a statement asks for one operation or more. Which
  keywords a name hides within (`Hides`) is arbitrary.

The invariants were model-checked before they were proved.

**The queue** (`SafeQueueProofs`): `TypeCorrect`, `StopWakesEverybody`,
`NoWakeupIsLost`, `NoSlotIsLost`. The inductive invariant `IInv` is the
conjunction of the type invariant and the three properties. The lemmas say that
the sets of waiting and woken threads are finite and disjoint and how each call
changes their sizes: a push or pop changes the number of elements and of woken
threads by at most one, in step, which is why `notify_one` preserves the
inequalities.

**The migrator** (`MigratorProofs`):

* `TypeCorrect`.
* `LockIsReleased`: `LockInv` says where in `Run` the lock is held: only from the
  statement after taking it to the one that releases it, on the good path and
  on the failed one.
* `CutOverIsGated`: not inductive as it stands, since a step into the cut-over
  has to know why `Run` left its loop. `CutOverInv` adds `FlagsInOrder` (who finds
  `running` cleared finds `cancelled` set: `Cancel` sets one before it clears the
  other), `NotYetStarted`, `FlagsMeanDone` (a thread that has set its flag has
  ended and is not started a second time) and `CutOverReady`.
* `ImplementsLifecycle`: `Spec => LifecycleSpec`. Each step of any thread is a step
  of the abstract specification or leaves its variables alone. `LifecycleInv` adds
  which phase (`PhaseOfRun`) and which table (`SwapOfRun`) goes with each label of
  `Run`; only `RenameTables` swaps, only `DropOldTable`, after a good rename,
  deletes the original rows, and failed renames never reach it.

**The end of a migration** (also `MigratorProofs`):

* `DestructorLeavesNothing`. `EndInv` adds that a thread that is not joinable does
  not run (`Detached`), that nobody destroys a migrator whose `Run` has not
  returned (`RunIsOver`), so that no thread is started any more, and which
  threads the destructor has joined at each of its statements (`JoinedOnTheWay`).
* `FailureLeavesNoGhost` and `CancelPreventsSwap`, from one invariant, since a failed
  run and a `Cancel` do the same clean-up and either may find the other's work
  done. `WithdrawInv` says from which label on the ghost table is marked as the
  run's own (`MarkedByThen`), that a run that has failed and has come past its
  clean-up has withdrawn it (`RunWithdrew`), and that if `cancelled` is set while
  `Run` is in the cut-over, the `Cancel` is still on its way or has withdrawn it
  (`CancelWithdrew`). Both assume `"drop" \notin Faults`: the code logs a DROP that
  fails and goes on, so with one both are false. `Migrator.cfg` has the same
  assumption. This includes the swap that is prevented by the server, which
  refuses to rename a table that is gone.

**The throttle** (`ThrottleProofs`): `TypeCorrect`, `UserThrottleIsKept`: as
`UserThrottleHolds`, of a throttle that the round has taken over or still has to
look at (`UserThrottleSettled`). A condition that is exceeded does replace the
user's reason, and the throttle then ends with the condition; and a throttle
commanded between the round's look and its release is lost, and not claimed.

**The applier** (`ApplierProofs`), for any keys, statements,
capacity, number of writes and faults:

* `NothingIsBehind`: inductive only as `InOrder`: binlog and queue ascend in
  position, the queue precedes the binlog and the entries in work precede
  both, and the events thread works on at most one unless they are a batch, which
  does not move the coordinates. `TailKeepsOrder` and `AppendKeepsOrder` say what
  taking from and adding to a sequence leaves true.
* `AutocommitIsKept`: `SessionInv` adds that the session is alive in a transaction: a
  lost one takes its transaction with it, so that the COMMIT that then fails leaves
  none open. One that is refused on a live session does, and sets `unended`.
* `TypeCorrect`.
* `GhostConverges`: `GhostAgrees` speaks of the moment when no event waits; the
  invariant must say at every other moment where the events that wait will lead.
  `Converges` says it for one key, of which it knows the row in both tables, the
  set of changes on their way in the order of their positions, and the copies
  that were selected and not inserted. The changes follow each other as a row's
  can (an INSERT exactly after a DELETE); the last one leaves the original's row;
  if nothing but an INSERT is on its way, what is in the ghost table or in hand is
  the original's row or none; and a copied key without a row has an INSERT
  coming. Each step does to a key one of a few things (the application writes it,
  its first change is applied, it is selected, inserted), which have a lemma each,
  or it spoils the key. That the set of changes of a key is what binlog, queue and
  the entries in work hold (`ChangesInv`) takes the order from `NothingIsBehind`.
  A refused statement, or a transaction the server undoes with it, spoils what it
  loses (`RolledBackChanges`), and what a stopped queue holds is spoiled
  (`StoppedInv`).

**The services** (`ServicesProofs`), each beside the other two:

* `TypeCorrect`: the pool's counter of active tasks is the number of workers that
  run one, by counting (`Runners` changes by one member).
* `NoTaskIsForgotten`: `PoolInv` says that no task is in two places (`TasksApart`),
  that each accepted one is in the queue, in a worker, or has run once
  (`TasksAccounted`), and that a pool that may have tasks has a thread (`Staffed`).
  Assumes `0 \notin Sizes`. A pool of 0 threads runs nothing, and `Join` clears
  what it has been given; the constructor's default, `hardware_concurrency()`
  (thread_pool.hpp:25), may be 0 where the number is unknown.
* `DescriptorsAreItsOwn`, `NothingIsLeft`: `ServerInv` says whose each number is
  (`SocketOfServer`, `ClientOfThread`) at each step of the two threads, with the
  number that a failed bind leaves as the one exception.
* `ChildIsWaitedFor`: `HookInv` says what has become of the child at each step;
  that a child still running at the last look at the clock is killed needs that
  time only passes.

**Texts** (`TextProofs`), for every text and every sequence of bytes:

* `WildcardsMatch`, `StringsComeBack`, `TextsComeBack`, `BytesComeBack`. A loop of the
  code is `Loop`: a step as a function on its states and a number of steps after
  which it has ended. `LoopEnds` is what the proofs share: an invariant that each step
  keeps and a measure that each step lowers give the invariant and the end
  condition at the end. The invariants say what has been read and written so far; for
  the wildcards, that what is before the last star has been matched as early as
  possible, so that going back further would not help; for bytes that what
  is written consists of whole characters (`WholeTo`).

**The values** (`ValuesProofs`). A function's input never changes (`InputStays`), so a
property of its results is an invariant; the theorems about single functions carry
the argument:

* `ResumesAtARow`: `ReadInv` adds that what the state holds too was read in this
  life, since a row that cannot be parsed leaves the coordinates as they are.
* `TimesAreKept`: `ClockInv` says that as long as nobody has set the clock, the
  times taken from it are as long ago as it says, and that who waits for the
  limiter waits until the interval is over.
* `TimesComeBack` (of every time, zone and shift by daylight saving),
  `CoordinatesAreATotalOrder` (of files whose numbers tell them
  apart, as one server's do), `ModesAreFollowed`: functions without recursion, for
  every input, by their cases.
* `SetContainsTheNewest`, `ChangesAreReplayed`: recursive functions, by induction over
  the GTIDs that are added and over the rows of the event. The library's induction
  theorems take a predicate as parameter, which cannot be instantiated here; so
  `Induction` (of `TextProofs`) is stated with a set, and follows from the
  well-foundedness of the strict subset relation (`LeastNatural`). `Iteration` gives
  from it the existence of a function that is defined by its value one before.
  `TableAfter` is the invariant of the replay: the table after the first i
  statements. `IsChange` says what an event is: rows with keys of their own that are
  not NULL, absent from the rest of the table.
* `ChunksCover`, and with the replay `RowsFollowTheTable`: `OrderBy` puts each row at
  its rank, the number of rows that do not come after it; each chunk therefore
  goes on to a later key, copies the rows between the two, and a table of n
  rows is copied after n chunks at most.
* `SharedColumnsAreThere`: of any table whose keys are of its own columns (`Keyed`,
  as MySQL's are) and any ALTER. `Effect` says what one operation does to the
  columns and keys, with a lemma for each kind of operation, and that it keeps
  `Keyed`; `AfterSome` is what holds of each table after the first i operations,
  and `AfterAll` the induction over them. Losing a column from a table or from a
  key is a recursive function too (`LoseKeeps`).
* `CreateFitsKeptLast`, and with it `SharedColumnsAreShared`: where the commas of the
  builder's CREATE are, by induction over the columns, the operations and the keys.
* `DurationsComeBack`, of any number of milliseconds: a text has at most four parts, so the sum that reads it is
  worked out (`Sums`) and the cases are by the largest unit that is written.
* `PlacesComeBack`, `SetsComeBack`: what is written with marks between its parts is
  cut at the same places, by induction over the tokens, since no part contains one.
  With the order and the times they give `CoordinatesAreOrdered` and, with the
  texts, `EverythingReadsBack`. `PatternsAreMatched` is `WildcardsMatch` for the inputs.
* `OptionsAreAllKept`: two command lines that differ in one option give configurations
  that differ in that option's field, or are the same if the option is forgotten.
  `NamesAreKeptApart`: by the cases in which the names of tables are given
  or made. Both with `ModesAreFollowed` give `CommandLinesAreFollowed`.

**The parser** (`ParserProofs`): `StatementsAreUnderstood`. A part is one operation
if its only commas lie inside its one pair of parentheses (`OnePart`); what
`SplitOperations` holds after reading some tokens is known by induction over them, and
so a list of operations falls apart into the operations (`ListSplits`, by induction
along the list). For each kind of operation a lemma says that what was written is
read (`IsRead`). `ParserInv` then says that the database is the last one named and
every operation of the last statement is understood. Names in which the parser
finds a keyword that it looks for are the exception that the property states
(`Clear`); a search is a property of the whole text, so `WordsHideNothing` and
`FoundIs` say what it finds in a part from what its words and its names hide.

Only model-checked: the liveness properties (`StopReleasesWaiters`, `CancelEndsRun`,
`DestructorReturns`, `AcceptedTasksRun`, `PoolCallsReturn`, `StopReturns`, `HookReturns` and
the two about conditions of the throttle), since fairness and ENABLED are beyond the
prover. And the counterexamples: a violation is a behaviour that TLC shows.

## 7. Not modelled, and the plan

The plan is carried out: every safety property that a run finds to hold is a theorem. What
would extend the project is code that gets a caller: `BinlogReader` once it reads
events, `main` once it constructs a `Migrator`.

Not modelled, and why:

* `BinlogReader`: its loop sleeps, and `ReadNextEvent` returns nothing.
* Logger, progress and ETA arithmetic, status texts, the configuration's dump:
  wording, and nothing is decided by it.
* File and path helpers, the wrapping of the client library, charset tables: pure
  input and output, or data.
* `WaitForCoordinates`, the processed counter, `cut_over_phase_`: no code reads
  what they say to decide anything. The status callback is the embedder's.
* The Windows variants of server and hooks.
* A failing UNLOCK TABLES (applier.cpp:285): the lock is the session's and ends
  with it, and nothing in the code reads the result but a log line.
* The exception of cxxopts on a value of the wrong type, also of an option that is
  read and forgotten; `main` reports it and fails (main.cpp:347).
* A NUL in the name of a table or a column, which MySQL does not allow; times before
  the epoch and years of more or less than four digits, whose texts the code does
  not promise to read.
* The signal that ends the process when the status server answers a client on its
  Unix socket that has hung up (server.cpp:261): nothing would be left to state.
* `max-lag`, which sets one number as `chunk-size` does.
