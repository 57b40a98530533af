------------------------------ MODULE Applier ------------------------------
(* How the ghost table is filled: the application goes on writing to the   *)
(* original table, its changes come back as binlog events through the      *)
(* streamer's queue and are applied by the events thread, while the row    *)
(* copy selects chunks and inserts them; all over one connection.          *)
(*                                                                         *)
(* A table is a function from keys to the version of the row, which is the *)
(* position of the write that made it.  A chunk is copied by a SELECT and  *)
(* one INSERT per row, an event by one statement per row; each is a step,  *)
(* since other threads' statements come in between.  The chunk bounds are  *)
(* the caller's, any two keys.  Nothing in the repository feeds the        *)
(* streamer or calls ApplyBatch: both are modelled for the caller their    *)
(* interface describes.                                                    *)
EXTENDS Naturals, Sequences, FiniteSets, SequencesExt

CONSTANTS
    Keys,        \* a set of positive numbers: the values of the unique key
    NoRow,       \* a key without a row
    Autocommit,  \* no transaction to return to
    ChunkSizes,  \* the LIMITs a chunk is selected with
    QueueSize,   \* the capacity of the streamer's queue (10000)
    Statements,  \* what the application writes: <<dml, keys in order>>
    MaxWrites,   \* bound: number of writes by the application and heartbeats
    MaxFaults    \* bound: number of refused statements, lost sessions, stopped queues

ASSUME KeysAssumption == Keys \subseteq Nat \ {0} /\ IsFiniteSet(Keys) /\ Keys # {}
ASSUME LimitsAssumption == QueueSize \in Nat /\ MaxWrites \in Nat
ASSUME StatementsAssumption ==
    \A s \in Statements :
        /\ s[1] \in {"insert", "update", "delete"}
        /\ s[2] \in Seq(Keys) /\ IsInjective(s[2])
ASSUME NoRowAssumption == NoRow \notin Nat
ASSUME AutocommitAssumption == Autocommit \notin [Keys -> Nat \union {NoRow}]

VARIABLES
    original,    \* the original table
    binlog,      \* events that the streamer has not handled yet
    writes,      \* number of events so far, the position of the last one
    queue,       \* event_queue_
    streaming,   \* event_queue_ has not been stopped
    coordinates, \* position in the context: the last event processed
    ghost,       \* the ghost table as the connection sees it
    before,      \* the ghost table a rollback returns to, or Autocommit
    alive,       \* the server still has the connection's session
    applying,    \* entries the events thread has popped and not yet finished
    row,         \* next row of the first of them
    batched,     \* they are applied by ApplyBatch
    failed,      \* which has failed and has its ROLLBACK still to send
    chunk,       \* rows that were selected and are not yet inserted
    covered,     \* history: keys that CopyRows reported as copied
    spoiled,     \* history: keys for which a change was lost in a way named below
    unended,     \* history: the server refused to end the last transaction
    refusals,    \* number of statements that it refused on a live session
    cut_over     \* "no", "eventsDone", "swapped"

vars == <<original, binlog, writes, queue, streaming, coordinates, ghost, before,
          alive, applying, row, batched, failed, chunk, covered, spoiled, unended,
          refusals, cut_over>>
source   == <<original, binlog, writes>>
stream   == <<queue, streaming, coordinates>>
session  == <<before, alive, unended, refusals>>
events   == <<applying, row, batched, failed>>

Versions == 0..MaxWrites
Table == [Keys -> Versions \union {NoRow}]
Empty == [k \in Keys |-> NoRow]

KeysOf(e) == {e.rows[i].key : i \in 1..Len(e.rows)}
KeysIn(s) == UNION {KeysOf(e) : e \in ToSet(s)}
Pending == {chunk[i].key : i \in 1..Len(chunk)}
Changed(t) == {k \in Keys : t[k] # ghost[k]}
AnyKey == CHOOSE k \in Keys : TRUE
Faults == refusals + (IF alive THEN 0 ELSE 1) + (IF streaming THEN 0 ELSE 1)
Processing == applying # <<>>

\* The ghost table when the open transaction is undone, and what a refused
\* statement may leave: itself undone or, in a deadlock, the transaction.
Undone == IF before = Autocommit THEN ghost ELSE before
Kept == {ghost, Undone}

Init ==
    /\ original \in [Keys -> {0, NoRow}]
    /\ binlog = <<>> /\ writes = 0
    /\ queue = <<>> /\ streaming = TRUE /\ coordinates = 0
    /\ ghost = Empty /\ before = Autocommit /\ alive = TRUE
    /\ applying = <<>> /\ row = 1 /\ batched = FALSE /\ failed = FALSE
    /\ chunk = <<>> /\ covered = {} /\ spoiled = {}
    /\ unended = FALSE /\ refusals = 0
    /\ cut_over = "no"

-----------------------------------------------------------------------------
(* The application and the heartbeat write, the streamer hands over.       *)

\* One statement of the application on one or two rows of the original.
Write(dml, keys) ==
    LET Row(k) == [key |-> k, value |-> IF dml = "delete" THEN NoRow ELSE writes + 1]
    IN
    /\ writes < MaxWrites /\ cut_over # "swapped"
    /\ \A i \in 1..Len(keys) : (dml = "insert") <=> (original[keys[i]] = NoRow)
    /\ original' = [k \in Keys |-> IF k \in ToSet(keys) THEN Row(k).value ELSE original[k]]
    /\ binlog' = Append(binlog, [table |-> "original", dml |-> dml, pos |-> writes + 1,
                                 rows |-> [i \in 1..Len(keys) |-> Row(keys[i])]])
    /\ writes' = writes + 1
    /\ UNCHANGED <<stream, ghost, session, events, chunk, covered, spoiled, cut_over>>

\* The changelog's rows have keys of their own, which look like anybody's.
WriteHeartbeat ==
    /\ alive /\ writes < MaxWrites
    /\ binlog' = Append(binlog, [table |-> "changelog", dml |-> "insert",
                                 pos |-> writes + 1,
                                 rows |-> <<[key |-> AnyKey, value |-> writes + 1]>>])
    /\ writes' = writes + 1
    /\ UNCHANGED <<original, stream, ghost, session, events, chunk, covered, spoiled, cut_over>>

\* Mutation: the newest event goes to the front.
HandleDMLEventFirst ==
    /\ binlog # <<>> /\ binlog' = Tail(binlog)
    /\ Len(queue) < QueueSize /\ queue' = <<Head(binlog)>> \o queue
    /\ UNCHANGED <<original, writes, streaming, coordinates, ghost, session, events,
                   chunk, covered, spoiled, cut_over>>

\* Mutation: Push looks for room with <= instead of <.
HandleDMLEventOneMore ==
    /\ binlog # <<>> /\ binlog' = Tail(binlog)
    /\ Len(queue) <= QueueSize /\ queue' = Append(queue, Head(binlog))
    /\ UNCHANGED <<original, writes, streaming, coordinates, ghost, session, events,
                   chunk, covered, spoiled, cut_over>>

\* Push blocks while the queue is full; a stopped queue drops the event.
HandleDMLEvent ==
    /\ binlog # <<>> /\ binlog' = Tail(binlog)
    /\ \/ streaming /\ Len(queue) < QueueSize
          /\ queue' = Append(queue, Head(binlog)) /\ UNCHANGED spoiled
       \/ ~streaming
          /\ spoiled' = spoiled \union KeysOf(Head(binlog)) /\ UNCHANGED queue
    /\ UNCHANGED <<original, writes, streaming, coordinates, ghost, session, events,
                   chunk, covered, cut_over>>

\* What is left in the queue is given up: nothing starts it again.
StopStreamer ==
    /\ Faults < MaxFaults /\ streaming
    /\ streaming' = FALSE
    /\ spoiled' = spoiled \union KeysIn(queue)
    /\ UNCHANGED <<source, queue, coordinates, ghost, session, events, chunk, covered, cut_over>>

-----------------------------------------------------------------------------
(* RunEventsApply and ApplyBatch.                                          *)

\* The server refuses a statement on a live session: a lock wait, a deadlock,
\* a value the ghost's column does not take.
Refused ==
    /\ alive /\ Faults < MaxFaults
    /\ refusals' = refusals + 1

\* A stopped queue gives nothing, whatever it holds.
PopFor ==
    /\ ~Processing /\ streaming /\ queue # <<>> /\ cut_over = "no"
    /\ applying' = <<Head(queue)>> /\ queue' = Tail(queue)
    /\ row' = 1 /\ batched' = FALSE
    /\ UNCHANGED <<source, streaming, coordinates, ghost, session, failed, chunk, covered,
                   spoiled, cut_over>>

\* A caller that has popped all there is begins a transaction for it.  The
\* entries are lost when BEGIN fails.
BeginBatch ==
    /\ ~Processing /\ streaming /\ queue # <<>> /\ cut_over = "no"
    /\ queue' = <<>>
    /\ \/ /\ alive
          /\ applying' = queue /\ row' = 1 /\ batched' = TRUE
          /\ before' = Undone
          /\ UNCHANGED <<spoiled, refusals>>
       \/ /\ Refused \/ (~alive /\ UNCHANGED refusals)
          /\ spoiled' = spoiled \union KeysIn(queue)
          /\ UNCHANGED <<applying, row, batched, before>>
    /\ UNCHANGED <<source, streaming, coordinates, ghost, alive, failed, chunk, covered,
                   unended, cut_over>>

\* What a statement needs to succeed, unless it is refused all the same.
\* RunEventsApply skips events of other tables, ApplyBatch does not, and the
\* columns of the changelog are not those of the ghost table.
Succeeds(e, r) ==
    /\ alive /\ e.table = "original"
    /\ e.dml = "insert" => ghost[r.key] = NoRow

\* INSERT, UPDATE ... WHERE key or DELETE ... WHERE key on the ghost table.
\* Without the row an UPDATE succeeds and changes nothing.
After(e, r) ==
    IF e.dml = "update" /\ ghost[r.key] = NoRow
    THEN ghost ELSE [ghost EXCEPT ![r.key] = r.value]

\* One statement of ApplyInsert, ApplyUpdate or ApplyDelete.  After a failure
\* the rest of the event's rows is given up, by ApplyBatch the whole batch.
\* A change that meets a row on its way from SELECT to INSERT is overwritten.
ApplyDMLEvent ==
    /\ Processing /\ ~failed /\ row <= Len(Head(applying).rows)
    /\ batched \/ Head(applying).table = "original"
    /\ LET e == Head(applying)
           r == e.rows[row]
           Left == {e.rows[i].key : i \in row + 1 .. Len(e.rows)}
           Fail(lost) ==
               /\ failed' = batched /\ row' = IF batched THEN row ELSE Len(e.rows) + 1
               /\ spoiled' = spoiled \union Changed(ghost')
                                \union (IF batched THEN {} ELSE Left \union lost)
       IN \/ /\ Succeeds(e, r)
             /\ ghost' = After(e, r) /\ row' = row + 1
             /\ spoiled' = spoiled \union ({r.key} \intersect Pending)
             /\ UNCHANGED <<failed, refusals>>
          \/ /\ ~Succeeds(e, r) /\ UNCHANGED <<ghost, refusals>>
             /\ Fail({r.key} \intersect (IF alive THEN Pending ELSE Keys))
          \/ /\ Refused /\ ghost' \in Kept
             /\ Fail({r.key})
    /\ UNCHANGED <<source, stream, before, alive, applying, batched, chunk, covered,
                   unended, cut_over>>

\* Mutation: the coordinates are the last position seen in the queue.
FinishEventAhead ==
    /\ Processing /\ ~batched
    /\ \/ row > Len(Head(applying).rows) \/ Head(applying).table # "original"
    /\ applying' = <<>> /\ row' = 1
    /\ coordinates' = IF queue = <<>> THEN Head(applying).pos ELSE Last(queue).pos
    /\ UNCHANGED <<source, queue, streaming, ghost, session, batched, failed, chunk, covered,
                   spoiled, cut_over>>

\* The coordinates advance whether the event was applied, skipped or failed.
FinishEvent ==
    /\ Processing /\ ~batched
    /\ \/ row > Len(Head(applying).rows) \/ Head(applying).table # "original"
    /\ applying' = <<>> /\ row' = 1
    /\ coordinates' = Head(applying).pos
    /\ UNCHANGED <<source, queue, streaming, ghost, session, batched, failed, chunk, covered,
                   spoiled, cut_over>>

\* The batch is over with COMMIT or ROLLBACK, which make the ghost table
\* "good", and SET autocommit = 1.  Either may be refused: the transaction goes
\* on, or a new one has begun.  A dead session has no transaction to end.
Ended(good) ==
    \/ /\ alive /\ ghost' = good /\ before' = Autocommit
       /\ unended' = FALSE /\ UNCHANGED refusals
    \/ /\ Refused /\ unended' = TRUE
       /\ \/ ghost' \in Kept /\ UNCHANGED before
          \/ ghost' = good /\ before' = good
    \/ ~alive /\ UNCHANGED <<ghost, session>>

FinishBatchEntry ==
    /\ Processing /\ batched /\ ~failed /\ row > Len(Head(applying).rows)
    /\ Len(applying) > 1
    /\ applying' = Tail(applying) /\ row' = 1
    /\ UNCHANGED <<source, stream, ghost, session, batched, failed, chunk, covered,
                   spoiled, cut_over>>

\* Nothing is rolled back when COMMIT fails.
Commit ==
    /\ Processing /\ batched /\ ~failed /\ row > Len(Head(applying).rows)
    /\ Len(applying) = 1
    /\ applying' = <<>> /\ row' = 1
    /\ Ended(ghost)
    /\ spoiled' = spoiled \union Changed(ghost')
    /\ UNCHANGED <<source, stream, alive, batched, failed, chunk, covered, cut_over>>

\* Mutation: ApplyBatch returns without a rollback.
RollbackForgotten ==
    /\ Processing /\ failed
    /\ applying' = <<>> /\ row' = 1 /\ failed' = FALSE
    /\ spoiled' = spoiled \union KeysIn(applying)
    /\ UNCHANGED <<source, stream, ghost, session, batched, chunk, covered, cut_over>>

\* Everything since BEGIN is undone, what other threads have written too.
Rollback ==
    /\ Processing /\ failed
    /\ applying' = <<>> /\ row' = 1 /\ failed' = FALSE
    /\ Ended(Undone)
    /\ spoiled' = spoiled \union KeysIn(applying) \union Changed(ghost')
    /\ UNCHANGED <<source, stream, alive, batched, chunk, covered, cut_over>>

-----------------------------------------------------------------------------
(* The row copy.                                                           *)

\* The keys that SELECT ... WHERE key > min AND key <= max ORDER BY key LIMIT
\* limit returns.
Selected(min, max, limit) ==
    LET InRange == {k \in Keys : min < k /\ k <= max /\ original[k] # NoRow}
    IN {k \in InRange : Cardinality({j \in InRange : j < k}) < limit}

\* A SELECT that fails looks like one without rows: the chunk is done.  In a
\* transaction that nobody ended it may see rows of long ago.
CopyRows ==
    /\ chunk = <<>> /\ cut_over = "no"
    /\ \E min \in Keys \union {0}, max \in Keys, limit \in ChunkSizes :
        LET ks == Selected(min, max, limit)
        IN /\ min < max
           /\ \/ /\ alive
                 /\ \E s \in [1..Cardinality(ks) -> ks] :
                       /\ \A i, j \in DOMAIN s : i < j => s[i] < s[j]
                       /\ chunk' = [i \in DOMAIN s |-> [key |-> s[i], value |-> original[s[i]]]]
                 /\ spoiled' = IF unended THEN spoiled \union {k \in Keys : min < k /\ k <= max}
                               ELSE spoiled
                 /\ UNCHANGED <<covered, refusals>>
              \/ /\ Refused \/ (~alive /\ UNCHANGED refusals)
                 /\ covered' = covered \union ks
                 /\ spoiled' = spoiled \union ks
                 /\ UNCHANGED chunk
    /\ UNCHANGED <<source, stream, ghost, before, alive, unended, events, cut_over>>

\* A plain INSERT: CopyRows fails on a row that is there already.
InsertRow ==
    /\ chunk # <<>>
    /\ LET r == Head(chunk)
           Fits == alive /\ ghost[r.key] = NoRow
       IN \/ /\ Fits
             /\ ghost' = [ghost EXCEPT ![r.key] = r.value]
             /\ covered' = covered \union {r.key}
             /\ chunk' = Tail(chunk)
             /\ UNCHANGED <<spoiled, refusals>>
          \/ /\ ~Fits /\ chunk' = <<>>
             /\ UNCHANGED <<ghost, covered, spoiled, refusals>>
          \/ /\ Refused /\ chunk' = <<>>
             /\ ghost' \in Kept /\ spoiled' = spoiled \union Changed(ghost')
             /\ UNCHANGED covered
    /\ UNCHANGED <<source, stream, before, alive, unended, events, cut_over>>

-----------------------------------------------------------------------------
(* The session and the cut-over.                                           *)

\* The server rolls back; nothing in the code connects again.
SessionLost ==
    /\ Faults < MaxFaults /\ alive
    /\ alive' = FALSE /\ before' = Autocommit
    /\ ghost' = Undone
    /\ spoiled' = spoiled \union Changed(Undone)
    /\ UNCHANGED <<source, stream, unended, refusals, events, chunk, covered, cut_over>>

\* The events thread finds its queue empty or stopped and is finished; then
\* Run locks the original, which commits what is open, and swaps the tables.
CutOver ==
    /\ \/ /\ cut_over = "no" /\ ~Processing /\ chunk = <<>>
          /\ queue = <<>> \/ ~streaming
          /\ cut_over' = "eventsDone" /\ UNCHANGED before
       \/ /\ cut_over = "eventsDone" /\ alive /\ cut_over' = "swapped"
          /\ before' = IF before = Autocommit THEN Autocommit ELSE ghost
    /\ UNCHANGED <<source, stream, ghost, alive, unended, refusals, events, chunk,
                   covered, spoiled>>

-----------------------------------------------------------------------------
RunEventsApply == PopFor \/ ApplyDMLEvent \/ FinishEvent
ApplyBatch     == BeginBatch \/ FinishBatchEntry \/ Commit \/ Rollback
RunRowCopy     == CopyRows \/ InsertRow

Next ==
    \/ \E s \in Statements : Write(s[1], s[2])
    \/ WriteHeartbeat \/ HandleDMLEvent \/ StopStreamer
    \/ RunEventsApply \/ ApplyBatch \/ RunRowCopy
    \/ SessionLost \/ CutOver

Spec == Init /\ [][Next]_vars

-----------------------------------------------------------------------------
Change == [key : Keys, value : Versions \union {NoRow}]
Event == [table : {"original", "changelog"}, dml : {"insert", "update", "delete"},
          pos : Nat, rows : Seq(Change)]

(* Every variable has its type; the queue is never longer than its limit.  *)
TypeOK ==
    /\ original \in Table /\ ghost \in Table /\ before \in Table \union {Autocommit}
    /\ binlog \in Seq(Event) /\ queue \in Seq(Event) /\ applying \in Seq(Event)
    /\ Len(queue) <= QueueSize
    /\ writes \in Nat /\ coordinates \in Nat /\ row \in Nat \ {0} /\ refusals \in Nat
    /\ streaming \in BOOLEAN /\ alive \in BOOLEAN /\ unended \in BOOLEAN
    /\ batched \in BOOLEAN /\ failed \in BOOLEAN
    /\ chunk \in Seq([key : Keys, value : Versions])
    /\ covered \subseteq Keys /\ spoiled \subseteq Keys
    /\ cut_over \in {"no", "eventsDone", "swapped"}

Drained == binlog = <<>> /\ (queue = <<>> \/ ~streaming) /\ ~Processing /\ chunk = <<>>

(* Row copy and events converge although they meet in any order: when all  *)
(* events are through, a key that was copied holds the original's row, and *)
(* one that was not holds it or nothing.  The exceptions are the keys for  *)
(* which a change overtook a row between SELECT and INSERT, was refused or *)
(* was given up with a failed event, batch, session or queue, those whose  *)
(* row went with an undone transaction, and those read in a transaction    *)
(* that the server had refused to end.                                     *)
GhostAgrees ==
    Drained => \A k \in Keys \ spoiled :
        ghost[k] = original[k] \/ (k \notin covered /\ ghost[k] = NoRow)

(* No event is waiting that the coordinates in the context have passed: a  *)
(* restart from them sees it again.                                        *)
NothingBehindCoordinates ==
    \A e \in ToSet(binlog) \union ToSet(queue) \union ToSet(applying) :
        e.pos > coordinates

(* Outside of ApplyBatch the connection is in autocommit: no row of the    *)
(* row copy and no event waits for a commit that nobody will give.  Only   *)
(* a COMMIT or ROLLBACK that the server refused, or the SET autocommit     *)
(* after it, leaves a transaction open, which the code does not look at.   *)
AutocommitOutsideBatch ==
    before # Autocommit => (Processing /\ batched) \/ unended
=============================================================================
