--------------------------- MODULE ApplierProofs ---------------------------
(* Theorems about Applier, whatever the keys, the application's writes,    *)
(* the queue's capacity and the number of faults.                          *)
EXTENDS Applier, FiniteSetTheorems, TLAPS

-----------------------------------------------------------------------------
(* Entries on their way are sequences of records with a position.          *)

OnTheirWay ==
    /\ binlog \in Seq(Event) /\ queue \in Seq(Event) /\ applying \in Seq(Event)
    /\ writes \in Nat /\ coordinates \in Nat

LEMMA WriteAppends ==
    ASSUME NEW s \in Statements, OnTheirWay, Write(s[1], s[2])
    PROVE  \E e \in Event :
              /\ e.pos = writes + 1 /\ binlog' = Append(binlog, e)
              /\ e.table = "original" /\ e.dml = s[1] /\ Len(e.rows) = Len(s[2])
              /\ \A i \in 1..Len(s[2]) :
                    /\ e.rows[i].key = s[2][i]
                    /\ e.rows[i].value = IF s[1] = "delete" THEN NoRow ELSE writes + 1
<1> DEFINE value == IF s[1] = "delete" THEN NoRow ELSE writes + 1
           rows  == [i \in 1..Len(s[2]) |-> [key |-> s[2][i], value |-> value]]
           e     == [table |-> "original", dml |-> s[1], pos |-> writes + 1, rows |-> rows]
<1>1. s[1] \in {"insert", "update", "delete"} /\ s[2] \in Seq(Keys)
  BY StatementsAssumption
<1>2. value \in Versions \union {NoRow}
  BY LimitsAssumption DEF OnTheirWay, Write, Versions
<1>3. rows \in Seq(Change)
  <2>1. \A i \in 1..Len(s[2]) : s[2][i] \in Keys
    BY <1>1
  <2>2. \A i \in 1..Len(s[2]) : [key |-> s[2][i], value |-> value] \in Change
    BY <2>1, <1>2 DEF Change
  <2>3. Len(s[2]) \in Nat
    BY <1>1
  <2> HIDE DEF value
  <2>4. rows \in [1..Len(s[2]) -> Change]
    BY <2>2
  <2> QED  BY <2>3, <2>4
<1>4. e \in Event
  BY <1>1, <1>3 DEF Event, OnTheirWay
<1>5. /\ e.pos = writes + 1 /\ e.table = "original" /\ e.dml = s[1] /\ e.rows = rows
      /\ Len(rows) = Len(s[2])
      /\ \A i \in 1..Len(s[2]) : rows[i].key = s[2][i] /\ rows[i].value = value
  BY <1>1
<1>6. binlog' = Append(binlog, e)
  BY DEF Write
<1> QED  BY <1>4, <1>5, <1>6

LEMMA HeartbeatAppends ==
    ASSUME OnTheirWay, WriteHeartbeat
    PROVE  \E e \in Event :
              e.pos = writes + 1 /\ binlog' = Append(binlog, e) /\ e.table = "changelog"
<1> DEFINE rows == <<[key |-> AnyKey, value |-> writes + 1]>>
           e == [table |-> "changelog", dml |-> "insert", pos |-> writes + 1, rows |-> rows]
<1>1. [key |-> AnyKey, value |-> writes + 1] \in Change
  BY KeysAssumption, LimitsAssumption DEF Change, OnTheirWay, WriteHeartbeat, AnyKey, Versions
<1>2. rows \in Seq(Change)
  BY <1>1
<1>3. e \in Event
  BY <1>2 DEF Event, OnTheirWay
<1>4. e.pos = writes + 1 /\ binlog' = Append(binlog, e) /\ e.table = "changelog"
  BY DEF WriteHeartbeat
<1> QED  BY <1>3, <1>4
\* Only of a single entry nothing is left.
LEMMA TailLength ==
    ASSUME NEW s \in Seq(Event), s # <<>>
    PROVE  Len(s) <= 1 <=> Tail(s) = <<>>
<1>1. Len(s) \in Nat \ {0} /\ Len(Tail(s)) = Len(s) - 1 /\ Tail(s) \in Seq(Event) /\ Len(<<>>) = 0
  OBVIOUS
<1>2. Len(s) <= 1 => Tail(s) = <<>>
  BY <1>1
<1>3. Tail(s) = <<>> => Len(s) - 1 = 0
  BY <1>1, Zenon
<1> QED  BY <1>1, <1>2, <1>3
-----------------------------------------------------------------------------
(* The order of the entries.                                               *)

Ascending(s) == \A i, j \in 1..Len(s) : i < j => s[i].pos < s[j].pos
Within(s, low, high) == \A i \in 1..Len(s) : low < s[i].pos /\ s[i].pos <= high
Precedes(s, t) == \A i \in 1..Len(s), j \in 1..Len(t) : s[i].pos < t[j].pos

LEMMA EmptyIsOrdered ==
    ASSUME NEW t, NEW low, NEW high
    PROVE  Ascending(<<>>) /\ Within(<<>>, low, high) /\ Precedes(<<>>, t) /\ Precedes(t, <<>>)
BY DEF Ascending, Within, Precedes

\* What is left of a sequence without its head keeps its place.
LEMMA TailKeepsOrder ==
    ASSUME NEW s \in Seq(Event), s # <<>>, NEW t \in Seq(Event),
           NEW low \in Nat, NEW high \in Nat
    PROVE  /\ Tail(s) \in Seq(Event)
           /\ Ascending(s) => Ascending(Tail(s)) /\ Precedes(<<Head(s)>>, Tail(s))
           /\ Within(s, low, high) => Within(Tail(s), low, high) /\ Within(<<Head(s)>>, low, high)
           /\ Precedes(s, t) => Precedes(Tail(s), t) /\ Precedes(<<Head(s)>>, t)
           /\ Precedes(t, s) => Precedes(t, Tail(s)) /\ Precedes(t, <<Head(s)>>)
<1>1. Tail(s) \in Seq(Event) /\ Len(s) \in Nat \ {0} /\ Len(Tail(s)) = Len(s) - 1
  OBVIOUS
<1>2. \A i \in 1..Len(Tail(s)) : i + 1 \in 1..Len(s) /\ Tail(s)[i] = s[i + 1]
  BY <1>1
<1>3. Head(s) = s[1] /\ 1 \in 1..Len(s)
  BY <1>1
<1>4. Len(<<Head(s)>>) = 1 /\ <<Head(s)>>[1] = s[1]
  BY <1>3
<1>5. ASSUME Ascending(s)
      PROVE  Ascending(Tail(s)) /\ Precedes(<<Head(s)>>, Tail(s))
  <2>1. ASSUME NEW i \in 1..Len(Tail(s)), NEW j \in 1..Len(Tail(s)), i < j
        PROVE  Tail(s)[i].pos < Tail(s)[j].pos
    <3>1. i + 1 \in 1..Len(s) /\ j + 1 \in 1..Len(s) /\ i + 1 < j + 1
      BY <1>1, <1>2, <2>1
    <3>2. s[i + 1].pos < s[j + 1].pos
      BY <1>5, <3>1 DEF Ascending
    <3> QED  BY <1>2, <3>2
  <2>2. ASSUME NEW j \in 1..Len(Tail(s))
        PROVE  s[1].pos < Tail(s)[j].pos
    <3>1. j + 1 \in 1..Len(s) /\ 1 < j + 1
      BY <1>1, <1>2
    <3>2. s[1].pos < s[j + 1].pos
      BY <1>3, <1>5, <3>1 DEF Ascending
    <3> QED  BY <1>2, <3>2
  <2>3. Ascending(Tail(s))
    BY <2>1 DEF Ascending
  <2>4. Precedes(<<Head(s)>>, Tail(s))
    BY <1>4, <2>2 DEF Precedes
  <2> QED  BY <2>3, <2>4
<1>6. Within(s, low, high) => Within(Tail(s), low, high) /\ Within(<<Head(s)>>, low, high)
  BY <1>1, <1>2, <1>3, <1>4 DEF Within
<1>7. Precedes(s, t) => Precedes(Tail(s), t) /\ Precedes(<<Head(s)>>, t)
  BY <1>1, <1>2, <1>3, <1>4 DEF Precedes
<1>8. Precedes(t, s) => Precedes(t, Tail(s)) /\ Precedes(t, <<Head(s)>>)
  BY <1>1, <1>2, <1>3, <1>4 DEF Precedes
<1> QED  BY <1>1, <1>5, <1>6, <1>7, <1>8

\* A later entry at the end of a sequence is in order.
LEMMA AppendKeepsOrder ==
    ASSUME NEW s \in Seq(Event), NEW t \in Seq(Event), NEW e \in Event,
           NEW low \in Nat, NEW high \in Nat
    PROVE  /\ Append(s, e) \in Seq(Event)
           /\ Ascending(s) /\ Precedes(s, <<e>>) => Ascending(Append(s, e))
           /\ Within(s, low, high) /\ Within(<<e>>, low, high) => Within(Append(s, e), low, high)
           /\ Precedes(s, t) /\ Precedes(<<e>>, t) => Precedes(Append(s, e), t)
           /\ Precedes(t, s) /\ Precedes(t, <<e>>) => Precedes(t, Append(s, e))
<1>1. Append(s, e) \in Seq(Event) /\ Len(s) \in Nat /\ Len(Append(s, e)) = Len(s) + 1
  OBVIOUS
<1>2. \A i \in 1..Len(Append(s, e)) :
        \/ i \in 1..Len(s) /\ Append(s, e)[i] = s[i]
        \/ i = Len(s) + 1 /\ Append(s, e)[i] = e
  BY <1>1
<1>3. Len(<<e>>) = 1 /\ <<e>>[1] = e
  OBVIOUS
<1>4. Ascending(s) /\ Precedes(s, <<e>>) => Ascending(Append(s, e))
  BY <1>1, <1>2, <1>3 DEF Ascending, Precedes
<1>5. Within(s, low, high) /\ Within(<<e>>, low, high) => Within(Append(s, e), low, high)
  BY <1>1, <1>2, <1>3 DEF Within
<1>6. Precedes(s, t) /\ Precedes(<<e>>, t) => Precedes(Append(s, e), t)
  BY <1>1, <1>2, <1>3 DEF Precedes
<1>7. Precedes(t, s) /\ Precedes(t, <<e>>) => Precedes(t, Append(s, e))
  BY <1>1, <1>2, <1>3 DEF Precedes
<1> QED  BY <1>1, <1>4, <1>5, <1>6, <1>7
-----------------------------------------------------------------------------
(* Nothing behind the coordinates.                                         *)

InOrder ==
    /\ coordinates <= writes
    /\ Within(binlog, coordinates, writes)
    /\ Within(queue, coordinates, writes)
    /\ Within(applying, coordinates, writes)
    /\ Ascending(binlog) /\ Ascending(queue) /\ Ascending(applying)
    /\ Precedes(queue, binlog) /\ Precedes(applying, queue) /\ Precedes(applying, binlog)
    /\ ~batched => Len(applying) <= 1

OrderInv == OnTheirWay /\ InOrder

\* A new event is later than all others.
LEMMA NewEventInOrder ==
    ASSUME OrderInv, NEW e \in Event, e.pos = writes + 1, binlog' = Append(binlog, e),
           writes' = writes + 1, UNCHANGED <<stream, events>>
    PROVE  OrderInv'
<1> USE DEF OrderInv, OnTheirWay
<1>1. Len(<<e>>) = 1 /\ <<e>>[1] = e
  OBVIOUS
<1>2. \A s \in {binlog, queue, applying} : Within(s, coordinates, writes + 1) /\ Precedes(s, <<e>>)
  <2> SUFFICES ASSUME NEW s \in {binlog, queue, applying}
               PROVE  Within(s, coordinates, writes + 1) /\ Precedes(s, <<e>>)
    OBVIOUS
  <2>1. s \in Seq(Event) /\ Within(s, coordinates, writes)
    BY DEF InOrder
  <2>2. \A i \in 1..Len(s) : s[i] \in Event
    BY <2>1
  <2>3. \A i \in 1..Len(s) : s[i].pos \in Nat
    BY <2>2 DEF Event
  <2> QED  BY <1>1, <2>1, <2>3 DEF Within, Precedes
<1>3. Within(<<e>>, coordinates, writes + 1)
  BY <1>1 DEF InOrder, Within
<1>4. /\ binlog' \in Seq(Event) /\ Ascending(binlog')
      /\ Within(binlog', coordinates, writes + 1)
      /\ Precedes(queue, binlog') /\ Precedes(applying, binlog')
  <2>1. writes + 1 \in Nat
    OBVIOUS
  <2>2. \A t \in Seq(Event) : Precedes(t, binlog) /\ Precedes(t, <<e>>) => Precedes(t, binlog')
    BY <2>1, AppendKeepsOrder
  <2>3. binlog' \in Seq(Event) /\ Ascending(binlog') /\ Within(binlog', coordinates, writes + 1)
    BY <2>1, <1>2, <1>3, AppendKeepsOrder DEF InOrder
  <2> QED  BY <2>2, <2>3, <1>2 DEF InOrder
<1> QED  BY <1>2, <1>4 DEF InOrder, stream, events

\* The oldest event goes from the binlog to the end of the queue, or is lost.
LEMMA HandledInOrder ==
    ASSUME OrderInv, HandleDMLEvent
    PROVE  OrderInv'
<1> USE DEF OrderInv, OnTheirWay
<1> DEFINE e == Head(binlog)
<1>1. binlog # <<>> /\ binlog' = Tail(binlog)
      /\ UNCHANGED <<writes, coordinates, applying, batched>>
      /\ (queue' = queue \/ queue' = Append(queue, e))
  BY DEF HandleDMLEvent, events
<1>2. e \in Event
  BY <1>1
<1>3. /\ binlog' \in Seq(Event) /\ Ascending(binlog') /\ Within(binlog', coordinates, writes)
      /\ Precedes(<<e>>, binlog') /\ Within(<<e>>, coordinates, writes)
  BY <1>1, TailKeepsOrder DEF InOrder
<1>4. \A t \in {queue, applying} : Precedes(t, binlog') /\ Precedes(t, <<e>>)
  BY <1>1, TailKeepsOrder DEF InOrder
<1>5. CASE queue' = queue
  BY <1>1, <1>3, <1>4, <1>5 DEF InOrder
<1>6. CASE queue' = Append(queue, e)
  <2>1. queue' \in Seq(Event) /\ Ascending(queue') /\ Within(queue', coordinates, writes)
    BY <1>2, <1>3, <1>4, <1>6, AppendKeepsOrder DEF InOrder
  <2>2. Precedes(queue', binlog')
    BY <1>2, <1>3, <1>4, <1>6, AppendKeepsOrder
  <2>3. Precedes(applying, queue')
    BY <1>2, <1>4, <1>6, AppendKeepsOrder DEF InOrder
  <2> QED  BY <1>1, <1>3, <1>4, <2>1, <2>2, <2>3 DEF InOrder
<1> QED  BY <1>1, <1>5, <1>6

\* The events thread takes the head of the queue, a batch all of it.
LEMMA PoppedInOrder ==
    ASSUME OrderInv, PopFor \/ BeginBatch
    PROVE  OrderInv'
<1> USE DEF OrderInv, OnTheirWay
<1>1. queue # <<>> /\ applying = <<>> /\ UNCHANGED <<binlog, writes, coordinates>>
  BY DEF PopFor, BeginBatch, Processing, source
<1>2. CASE PopFor
  <2>1. applying' = <<Head(queue)>> /\ queue' = Tail(queue)
    BY <1>2 DEF PopFor
  <2>2. Head(queue) \in Event /\ applying' \in Seq(Event) /\ Len(applying') = 1
    BY <1>1, <2>1
  <2>3. /\ queue' \in Seq(Event) /\ Ascending(queue') /\ Within(queue', coordinates, writes)
        /\ Precedes(applying', queue') /\ Within(applying', coordinates, writes)
        /\ Precedes(queue', binlog) /\ Precedes(applying', binlog)
    BY <1>1, <2>1, TailKeepsOrder DEF InOrder
  <2>4. Ascending(applying')
    BY <2>2 DEF Ascending
  <2> QED  BY <1>1, <2>2, <2>3, <2>4 DEF InOrder
<1>3. CASE BeginBatch
  <2>1. /\ queue' = <<>>
        /\ \/ applying' = queue /\ batched'
           \/ applying' = <<>>
    BY <1>1, <1>3 DEF BeginBatch, events
  <2>2. <<>> \in Seq(Event) /\ Len(<<>>) = 0
    OBVIOUS
  <2>3. /\ Ascending(queue') /\ Within(queue', coordinates, writes)
        /\ Precedes(queue', binlog) /\ Precedes(applying', queue')
    BY <2>1, EmptyIsOrdered
  <2>4. CASE applying' = queue /\ batched'
    BY <1>1, <2>1, <2>2, <2>3, <2>4 DEF InOrder
  <2>5. CASE applying' = <<>>
    <3>1. Within(applying', coordinates, writes) /\ Precedes(applying', binlog)
      BY <2>5, EmptyIsOrdered
    <3> QED  BY <1>1, <2>1, <2>2, <2>3, <2>5, <3>1 DEF InOrder
  <2> QED  BY <2>1, <2>4, <2>5
<1> QED  BY <1>2, <1>3

\* One entry is done, or the batch is over.
LEMMA AppliedInOrder ==
    ASSUME OrderInv, ApplyDMLEvent \/ FinishBatchEntry \/ Commit \/ Rollback
    PROVE  OrderInv'
<1> USE DEF OrderInv, OnTheirWay
<1>1. /\ UNCHANGED <<binlog, writes, queue, coordinates, batched>>
      /\ \/ applying' = applying
         \/ applying' = <<>>
         \/ applying # <<>> /\ batched /\ applying' = Tail(applying)
  BY DEF ApplyDMLEvent, FinishBatchEntry, Commit, Rollback, Processing, source, stream
<1>2. CASE applying' = applying
  BY <1>1, <1>2 DEF InOrder
<1>3. CASE applying' = <<>>
  <2>1. applying' \in Seq(Event) /\ Len(applying') = 0
    BY <1>3
  <2> QED  BY <1>1, <1>3, <2>1, EmptyIsOrdered DEF InOrder
<1>4. CASE applying # <<>> /\ batched /\ applying' = Tail(applying)
  <2>1. /\ applying' \in Seq(Event) /\ Ascending(applying') /\ Within(applying', coordinates, writes)
        /\ Precedes(applying', queue) /\ Precedes(applying', binlog)
    BY <1>4, TailKeepsOrder DEF InOrder
  <2> QED  BY <1>1, <1>4, <2>1 DEF InOrder
<1> QED  BY <1>1, <1>2, <1>3, <1>4

\* The coordinates move on to an event behind which only later ones are left.
LEMMA FinishedInOrder ==
    ASSUME OrderInv, FinishEvent
    PROVE  OrderInv'
<1> USE DEF OrderInv, OnTheirWay
<1> DEFINE e == Head(applying)
<1>1. /\ applying # <<>> /\ applying' = <<>> /\ coordinates' = e.pos
      /\ UNCHANGED <<binlog, writes, queue>>
  BY DEF FinishEvent, Processing, source
<1>2. e = applying[1] /\ 1 \in 1..Len(applying) /\ e \in Event
  BY <1>1
<1>3. e.pos \in Nat /\ e.pos <= writes
  BY <1>2 DEF InOrder, Within, Event
<1>4. Within(queue, e.pos, writes) /\ Within(binlog, e.pos, writes)
  BY <1>2 DEF InOrder, Within, Precedes
<1>5. applying' \in Seq(Event) /\ Len(applying') = 0
  BY <1>1
<1> QED  BY <1>1, <1>3, <1>4, <1>5, EmptyIsOrdered DEF InOrder

LEMMA InitInOrder == Init => OrderInv
<1> SUFFICES ASSUME Init PROVE OrderInv
  OBVIOUS
<1>1. Len(<<>>) = 0 /\ <<>> \in Seq(Event)
  OBVIOUS
<1> QED  BY <1>1, EmptyIsOrdered DEF Init, OrderInv, OnTheirWay, InOrder

LEMMA NextInOrder == OrderInv /\ [Next]_vars => OrderInv'
<1> SUFFICES ASSUME OrderInv, [Next]_vars PROVE OrderInv'
  OBVIOUS
<1>1. ASSUME NEW s \in Statements, Write(s[1], s[2])
      PROVE  OrderInv'
  <2>1. writes' = writes + 1 /\ UNCHANGED <<stream, events>>
    BY <1>1 DEF Write
  <2> QED  BY <1>1, <2>1, WriteAppends, NewEventInOrder DEF OrderInv
<1>2. CASE WriteHeartbeat
  <2>1. writes' = writes + 1 /\ UNCHANGED <<stream, events>>
    BY <1>2 DEF WriteHeartbeat
  <2> QED  BY <1>2, <2>1, HeartbeatAppends, NewEventInOrder DEF OrderInv
<1>3. CASE HandleDMLEvent
  BY <1>3, HandledInOrder
<1>4. CASE PopFor \/ BeginBatch
  BY <1>4, PoppedInOrder
<1>5. CASE ApplyDMLEvent \/ FinishBatchEntry \/ Commit \/ Rollback
  BY <1>5, AppliedInOrder
<1>6. CASE FinishEvent
  BY <1>6, FinishedInOrder
<1>7. CASE StopStreamer \/ CopyRows \/ InsertRow \/ SessionLost \/ CutOver \/ UNCHANGED vars
  <2>1. UNCHANGED <<binlog, writes, queue, coordinates, applying, batched>>
    BY <1>7 DEF StopStreamer, CopyRows, InsertRow, SessionLost, CutOver, vars,
                source, stream, events
  <2> QED  BY <2>1 DEF OrderInv, OnTheirWay, InOrder, Within, Ascending, Precedes
<1> QED
  BY <1>1, <1>2, <1>3, <1>4, <1>5, <1>6, <1>7 DEF Next, RunEventsApply, ApplyBatch, RunRowCopy

(* The coordinates in the context are never ahead of an event that still   *)
(* waits in the binlog or the queue or is being applied.                   *)
THEOREM NothingIsBehind == Spec => []NothingBehindCoordinates
<1>1. OrderInv => NothingBehindCoordinates
  <2> SUFFICES ASSUME OrderInv, NEW s \in {binlog, queue, applying}, NEW e \in ToSet(s)
               PROVE  e.pos > coordinates
    BY DEF NothingBehindCoordinates
  <2>1. PICK i \in 1..Len(s) : e = s[i]
    BY DEF ToSet, OrderInv, OnTheirWay
  <2>2. s \in Seq(Event) /\ Within(s, coordinates, writes)
    BY DEF OrderInv, OnTheirWay, InOrder
  <2>3. s[i] \in Event
    BY <2>2
  <2>4. s[i].pos \in Nat
    BY <2>3 DEF Event
  <2> QED  BY <2>1, <2>2, <2>4 DEF Within, OrderInv, OnTheirWay
<1> QED  BY <1>1, InitInOrder, NextInOrder, PTL DEF Spec

-----------------------------------------------------------------------------
(* The transaction of a batch.                                             *)

\* Inductive only with the session: the end of a batch on a dead one leaves
\* what the server has rolled back already.
SessionInv ==
    /\ OnTheirWay
    /\ before # Autocommit => alive /\ ((Processing /\ batched) \/ unended)

LEMMA InitSession == Init => SessionInv
BY InitInOrder DEF Init, SessionInv, OrderInv

LEMMA NextSession == OrderInv /\ SessionInv /\ [Next]_vars => SessionInv'
<1> SUFFICES ASSUME OrderInv, SessionInv, [Next]_vars
             PROVE  before' # Autocommit => alive' /\ ((Processing' /\ batched') \/ unended')
  BY NextInOrder DEF OrderInv, SessionInv
<1>1. CASE BeginBatch
  <2>1. CASE alive /\ applying' = queue /\ batched' = TRUE /\ UNCHANGED alive
    BY <1>1, <2>1 DEF BeginBatch, Processing
  <2>2. CASE UNCHANGED <<before, alive, applying, batched, unended>>
    BY <2>2 DEF SessionInv, Processing
  <2> QED  BY <1>1, <2>1, <2>2 DEF BeginBatch
<1>2. CASE Commit \/ Rollback
  <2>1. UNCHANGED alive /\ \E good : Ended(good)
    BY <1>2 DEF Commit, Rollback
  <2> QED  BY <2>1 DEF Ended, Refused, session, SessionInv
<1>3. CASE FinishBatchEntry
  <2>1. applying \in Seq(Event) /\ applying # <<>> /\ applying' = Tail(applying) /\ Len(applying) > 1
    BY <1>3 DEF FinishBatchEntry, SessionInv, OnTheirWay, Processing
  <2>2. ~(Len(applying) <= 1)
    BY <2>1
  <2>3. applying' # <<>>
    BY <2>1, <2>2, TailLength
  <2> QED  BY <1>3, <2>3 DEF FinishBatchEntry, SessionInv, Processing, session
<1>4. CASE SessionLost
  BY <1>4 DEF SessionLost
<1>5. CASE PopFor \/ FinishEvent
  BY <1>5 DEF PopFor, FinishEvent, SessionInv, Processing, session
<1>6. CASE CutOver
  BY <1>6 DEF CutOver, SessionInv, Processing, events
<1>7. CASE \/ \E s \in Statements : Write(s[1], s[2])
           \/ WriteHeartbeat \/ HandleDMLEvent \/ StopStreamer \/ ApplyDMLEvent
           \/ CopyRows \/ InsertRow \/ UNCHANGED vars
  <2>1. UNCHANGED <<before, alive, applying, batched, unended>>
    BY <1>7 DEF Write, WriteHeartbeat, HandleDMLEvent, StopStreamer, ApplyDMLEvent, CopyRows,
                InsertRow, vars, session, events
  <2> QED  BY <2>1 DEF SessionInv, Processing
<1> QED
  BY <1>1, <1>2, <1>3, <1>4, <1>5, <1>6, <1>7 DEF Next, RunEventsApply, ApplyBatch, RunRowCopy

(* The shared connection is in a transaction only while ApplyBatch is      *)
(* applying its entries, or after the server has refused to end the last   *)
(* one: a statement, a session or a queue that fails leaves none open.     *)
THEOREM AutocommitIsKept == Spec => []AutocommitOutsideBatch
<1>1. SessionInv => AutocommitOutsideBatch
  BY DEF SessionInv, AutocommitOutsideBatch
<1> QED  BY <1>1, InitInOrder, NextInOrder, InitSession, NextSession, PTL DEF Spec

-----------------------------------------------------------------------------
(* Types.                                                                  *)

Copied == [key : Keys, value : Versions]

StoreTyped == original \in Table /\ ghost \in Table /\ before \in Table \union {Autocommit}
ChunkTyped == chunk \in Seq(Copied)
HistoryTyped == covered \subseteq Keys /\ spoiled \subseteq Keys
ControlTyped ==
    /\ Len(queue) <= QueueSize /\ row \in Nat \ {0}
    /\ streaming \in BOOLEAN /\ alive \in BOOLEAN /\ batched \in BOOLEAN
    /\ failed \in BOOLEAN /\ unended \in BOOLEAN /\ refusals \in Nat
    /\ cut_over \in {"no", "eventsDone", "swapped"}

TypeInv == OnTheirWay /\ StoreTyped /\ ChunkTyped /\ HistoryTyped /\ ControlTyped

LEMMA EventRows ==
    ASSUME NEW e \in Event
    PROVE  /\ e.rows \in Seq(Change) /\ Len(e.rows) \in Nat
           /\ \A i \in 1..Len(e.rows) : e.rows[i].key \in Keys /\ e.rows[i].value \in Versions \union {NoRow}
           /\ KeysOf(e) \subseteq Keys
<1>1. e.rows \in Seq(Change)
  BY DEF Event
<1>2. \A i \in 1..Len(e.rows) : e.rows[i] \in Change
  BY <1>1
<1>3. \A c \in Change : c.key \in Keys /\ c.value \in Versions \union {NoRow}
  BY DEF Change
<1>4. Len(e.rows) \in Nat
  BY <1>1
<1> QED  BY <1>1, <1>2, <1>3, <1>4 DEF KeysOf

LEMMA HeadsAreEvents ==
    ASSUME OnTheirWay
    PROVE  /\ binlog # <<>> => Head(binlog) \in Event
           /\ queue # <<>> => Head(queue) \in Event
           /\ applying # <<>> => Head(applying) \in Event
           /\ \A e \in ToSet(queue) \union ToSet(applying) : e \in Event
BY DEF OnTheirWay, ToSet

LEMMA KeysInTyped ==
    ASSUME OnTheirWay
    PROVE  KeysIn(queue) \subseteq Keys /\ KeysIn(applying) \subseteq Keys
BY HeadsAreEvents, EventRows DEF KeysIn

LEMMA StoreWrite ==
    ASSUME OnTheirWay, StoreTyped, NEW s \in Statements, Write(s[1], s[2])
    PROVE  StoreTyped'
<1>1. writes + 1 \in Versions
  BY LimitsAssumption DEF OnTheirWay, Write, Versions
<1> QED  BY <1>1 DEF Write, StoreTyped, Table, session

LEMMA UndoneTyped ==
    ASSUME StoreTyped
    PROVE  Undone \in Table /\ Kept \subseteq Table
BY DEF StoreTyped, Undone, Kept

\* What BEGIN, a statement that fails, or the end of the transaction leaves.
LEMMA SessionTyped ==
    ASSUME StoreTyped, UNCHANGED original,
           \/ ghost' \in Kept /\ UNCHANGED before
           \/ ghost' \in Kept /\ before' \in {Autocommit, ghost', Undone}
    PROVE  StoreTyped'
BY UndoneTyped DEF StoreTyped

LEMMA StoreApply ==
    ASSUME OnTheirWay, StoreTyped, ControlTyped, ApplyDMLEvent
    PROVE  StoreTyped'
<1> DEFINE e == Head(applying)
           r == e.rows[row]
<1>1. e \in Event /\ row \in 1..Len(e.rows)
  BY HeadsAreEvents, EventRows DEF ApplyDMLEvent, Processing, ControlTyped
<1>2. r.key \in Keys /\ r.value \in Versions \union {NoRow}
  BY <1>1, EventRows
<1>3. After(e, r) \in Table
  BY <1>2 DEF After, StoreTyped, Table
<1>4. /\ UNCHANGED <<original, before>>
      /\ ghost' = After(e, r) \/ ghost' = ghost \/ ghost' \in Kept
  BY DEF ApplyDMLEvent, source
<1> QED  BY <1>3, <1>4, UndoneTyped DEF StoreTyped

LEMMA StoreRest ==
    ASSUME StoreTyped, ChunkTyped,
           \/ InsertRow \/ BeginBatch \/ SessionLost \/ FinishBatchEntry
           \/ Commit \/ Rollback \/ CutOver
    PROVE  StoreTyped'
<1>1. CASE InsertRow
  <2>1. CASE ghost' \in Kept
    BY <1>1, <2>1, SessionTyped DEF InsertRow, source
  <2>2. CASE ghost' \notin Kept
    <3>1. chunk # <<>> /\ ghost' = [ghost EXCEPT ![Head(chunk).key] = Head(chunk).value]
      BY <1>1, <2>2 DEF InsertRow, Kept
    <3>2. Head(chunk) \in Copied
      BY <3>1 DEF ChunkTyped
    <3>3. Head(chunk).value \in Versions
      BY <3>2 DEF Copied
    <3>4. ghost' \in Table
      BY <3>1, <3>3 DEF StoreTyped, Table
    <3> QED  BY <1>1, <3>4 DEF InsertRow, StoreTyped, source
  <2> QED  BY <2>1, <2>2
<1>2. CASE BeginBatch
  BY <1>2, SessionTyped DEF BeginBatch, source, Kept
<1>3. CASE SessionLost
  BY <1>3, SessionTyped DEF SessionLost, source, Kept
<1>4. CASE FinishBatchEntry
  BY <1>4 DEF FinishBatchEntry, StoreTyped, source, session
<1>5. CASE Commit \/ Rollback
  <2>1. UNCHANGED original /\ \E good \in Kept : Ended(good)
    BY <1>5 DEF Commit, Rollback, source, Kept
  <2> QED  BY <2>1, SessionTyped DEF Ended, Kept, session
<1>6. CASE CutOver
  BY <1>6, SessionTyped DEF CutOver, source, Kept
<1> QED  BY <1>1, <1>2, <1>3, <1>4, <1>5, <1>6

\* The sequence of the keys selected is one of keys with rows.
LEMMA CopyChunk ==
    ASSUME NEW min, NEW max, NEW limit, NEW s \in [1..Cardinality(Selected(min, max, limit)) -> Selected(min, max, limit)]
    PROVE  /\ Cardinality(Selected(min, max, limit)) \in Nat
           /\ \A i \in DOMAIN s : s[i] \in Keys /\ original[s[i]] # NoRow
<1>1. Selected(min, max, limit) \subseteq {k \in Keys : original[k] # NoRow}
  BY DEF Selected
<1>2. IsFiniteSet(Selected(min, max, limit))
  BY <1>1, KeysAssumption, FS_Subset
<1> QED  BY <1>1, <1>2, FS_CardinalityType

LEMMA ChunkCopy ==
    ASSUME StoreTyped, ChunkTyped, CopyRows
    PROVE  ChunkTyped'
<1>1. PICK min \in Keys \union {0}, max \in Keys, limit \in ChunkSizes :
          \/ UNCHANGED chunk
          \/ \E s \in [1..Cardinality(Selected(min, max, limit)) -> Selected(min, max, limit)] :
                chunk' = [i \in DOMAIN s |-> [key |-> s[i], value |-> original[s[i]]]]
  BY DEF CopyRows
<1>2. CASE UNCHANGED chunk
  BY <1>2 DEF ChunkTyped
<1>3. ASSUME NEW s \in [1..Cardinality(Selected(min, max, limit)) -> Selected(min, max, limit)],
             chunk' = [i \in DOMAIN s |-> [key |-> s[i], value |-> original[s[i]]]]
      PROVE  ChunkTyped'
  <2> DEFINE n == Cardinality(Selected(min, max, limit))
  <2>1. n \in Nat /\ DOMAIN s = 1..n /\ \A i \in 1..n : s[i] \in Keys /\ original[s[i]] # NoRow
    BY CopyChunk
  <2>2. \A i \in 1..n : original[s[i]] \in Versions
    BY <2>1 DEF StoreTyped, Table
  <2>3. \A i \in 1..n : [key |-> s[i], value |-> original[s[i]]] \in Copied
    BY <2>1, <2>2 DEF Copied
  <2> HIDE DEF n
  <2>4. chunk' \in [1..n -> Copied]
    BY <1>3, <2>1, <2>3
  <2> QED  BY <2>1, <2>4 DEF ChunkTyped
<1> QED  BY <1>1, <1>2, <1>3

LEMMA ChunkInsert == ASSUME ChunkTyped, InsertRow PROVE ChunkTyped'
<1>1. chunk # <<>> /\ (chunk' = Tail(chunk) \/ chunk' = <<>>)
  BY DEF InsertRow
<1>2. \A s \in Seq(Copied) : s # <<>> => Tail(s) \in Seq(Copied)
  OBVIOUS
<1>3. <<>> \in Seq(Copied)
  OBVIOUS
<1> QED  BY <1>1, <1>2, <1>3 DEF ChunkTyped

LEMMA HistoryApply ==
    ASSUME OnTheirWay, StoreTyped, HistoryTyped, ControlTyped, ApplyDMLEvent
    PROVE  HistoryTyped'
<1> DEFINE now == Head(applying)
           r == now.rows[row]
           Left == {now.rows[i].key : i \in row + 1 .. Len(now.rows)}
<1>1. now \in Event /\ row \in 1..Len(now.rows) /\ row \in Nat
  BY HeadsAreEvents, EventRows DEF ApplyDMLEvent, Processing, ControlTyped
<1>2. r.key \in Keys
  BY <1>1, EventRows
<1>3. \A i \in row + 1 .. Len(now.rows) : i \in 1..Len(now.rows)
  BY <1>1, EventRows
<1>4. Left \subseteq Keys
  BY <1>1, <1>3, EventRows
<1>5. UNCHANGED covered /\ Changed(ghost') \subseteq Keys
  BY DEF ApplyDMLEvent, Changed
<1>6. \E lost \in {{}, {r.key} \intersect Pending, {r.key} \intersect Keys, {r.key}} :
          \/ spoiled' = spoiled \union lost
          \/ spoiled' = spoiled \union Changed(ghost') \union {}
          \/ spoiled' = spoiled \union Changed(ghost') \union (Left \union lost)
  BY DEF ApplyDMLEvent
<1> HIDE DEF now, r, Left
<1> QED  BY <1>2, <1>4, <1>5, <1>6 DEF HistoryTyped

LEMMA HistoryRest ==
    ASSUME OnTheirWay, ChunkTyped, HistoryTyped,
           \/ HandleDMLEvent \/ StopStreamer \/ BeginBatch \/ CopyRows \/ InsertRow
           \/ SessionLost \/ Commit \/ Rollback
    PROVE  HistoryTyped'
<1>1. CASE HandleDMLEvent
  <2>1. UNCHANGED covered /\ (spoiled' = spoiled \/ spoiled' = spoiled \union KeysOf(Head(binlog)))
    BY <1>1 DEF HandleDMLEvent
  <2>2. KeysOf(Head(binlog)) \subseteq Keys
    BY <1>1, HeadsAreEvents, EventRows DEF HandleDMLEvent
  <2> QED  BY <2>1, <2>2 DEF HistoryTyped
<1>2. CASE StopStreamer \/ BeginBatch
  <2>1. KeysIn(queue) \subseteq Keys
    BY KeysInTyped
  <2>2. UNCHANGED covered /\ (spoiled' = spoiled \/ spoiled' = spoiled \union KeysIn(queue))
    BY <1>2 DEF StopStreamer, BeginBatch
  <2> QED  BY <2>1, <2>2 DEF HistoryTyped
<1>3. CASE CopyRows
  <2>1. \E ks \in SUBSET Keys, js \in SUBSET Keys :
          (UNCHANGED covered \/ covered' = covered \union ks)
          /\ (UNCHANGED spoiled \/ spoiled' = spoiled \union js)
    <3>1. /\ \A min, max, limit : Selected(min, max, limit) \in SUBSET Keys
          /\ \A min, max : {k \in Keys : min < k /\ k <= max} \in SUBSET Keys
      BY DEF Selected
    <3> QED  BY <1>3, <3>1 DEF CopyRows
  <2> QED  BY <2>1 DEF HistoryTyped
<1>4. CASE InsertRow
  <2>1. /\ spoiled' = spoiled \/ spoiled' = spoiled \union Changed(ghost')
        /\ covered' = covered \/ covered' = covered \union {Head(chunk).key}
    BY <1>4 DEF InsertRow
  <2>2. Head(chunk) \in Copied
    BY <1>4 DEF InsertRow, ChunkTyped
  <2>3. Head(chunk).key \in Keys
    BY <2>2 DEF Copied
  <2>4. Changed(ghost') \subseteq Keys
    BY DEF Changed
  <2> QED  BY <2>1, <2>3, <2>4 DEF HistoryTyped
<1>5. CASE SessionLost \/ Commit \/ Rollback
  <2>1. KeysIn(applying) \subseteq Keys /\ \A t : Changed(t) \subseteq Keys
    BY KeysInTyped DEF Changed
  <2>2. UNCHANGED covered /\ \E t : \/ spoiled' = spoiled \union Changed(t)
                                    \/ spoiled' = spoiled \union KeysIn(applying) \union Changed(t)
    BY <1>5 DEF SessionLost, Commit, Rollback
  <2> QED  BY <2>1, <2>2 DEF HistoryTyped
<1> QED  BY <1>1, <1>2, <1>3, <1>4, <1>5

LEMMA QueueLength ==
    ASSUME OnTheirWay, Len(queue) <= QueueSize, HandleDMLEvent \/ PopFor \/ BeginBatch
    PROVE  Len(queue') <= QueueSize
<1>1. Len(queue) \in Nat /\ Len(<<>>) = 0
  BY DEF OnTheirWay
<1>2. queue # <<>> => Len(Tail(queue)) = Len(queue) - 1
  BY DEF OnTheirWay
<1>3. \A e : Len(Append(queue, e)) = Len(queue) + 1
  BY DEF OnTheirWay
<1>4. \/ queue' = queue
      \/ queue' = <<>>
      \/ queue # <<>> /\ queue' = Tail(queue)
      \/ Len(queue) < QueueSize /\ queue' = Append(queue, Head(binlog))
  BY DEF HandleDMLEvent, PopFor, BeginBatch
<1> QED  BY <1>1, <1>2, <1>3, <1>4, LimitsAssumption

LEMMA ControlSteps ==
    ASSUME OnTheirWay, ControlTyped, [Next]_vars
    PROVE  ControlTyped'
<1> USE DEF ControlTyped, source, stream, session, events, Refused
<1>1. ASSUME NEW s \in Statements, Write(s[1], s[2]) PROVE ControlTyped'
  BY <1>1 DEF Write
<1>2. CASE WriteHeartbeat \/ StopStreamer \/ SessionLost \/ CutOver \/ UNCHANGED vars
  BY <1>2 DEF WriteHeartbeat, StopStreamer, SessionLost, CutOver, vars
<1>3. CASE HandleDMLEvent
  BY <1>3, QueueLength DEF HandleDMLEvent
<1>4. CASE PopFor \/ BeginBatch
  <2>1. /\ UNCHANGED <<streaming, alive, failed, unended, cut_over>>
        /\ row' = row \/ row' = 1
        /\ refusals' = refusals \/ refusals' = refusals + 1
    BY <1>4 DEF PopFor, BeginBatch
  <2>2. batched' \in BOOLEAN
    BY <1>4 DEF PopFor, BeginBatch
  <2> QED  BY <1>4, <2>1, <2>2, QueueLength
<1>5. CASE ApplyDMLEvent
  <2>1. /\ row' \in {row, row + 1, Len(Head(applying).rows) + 1}
        /\ failed' = failed \/ failed' = batched
        /\ refusals' = refusals \/ refusals' = refusals + 1
    BY <1>5 DEF ApplyDMLEvent
  <2>2. Len(Head(applying).rows) \in Nat
    BY <1>5, HeadsAreEvents, EventRows DEF ApplyDMLEvent, Processing
  <2>3. UNCHANGED <<queue, streaming, alive, batched, unended, cut_over>>
    BY <1>5 DEF ApplyDMLEvent
  <2> QED  BY <2>1, <2>2, <2>3
<1>6. CASE FinishEvent \/ FinishBatchEntry
  BY <1>6 DEF FinishEvent, FinishBatchEntry
<1>7. CASE Commit \/ Rollback
  <2>1. /\ UNCHANGED <<queue, streaming, alive, batched, cut_over>> /\ row' = 1
        /\ failed' = failed \/ failed' = FALSE
        /\ \E good : Ended(good)
    BY <1>7 DEF Commit, Rollback
  <2>2. refusals' = refusals \/ refusals' = refusals + 1
    BY <2>1 DEF Ended
  <2>3. unended' = unended \/ unended' = TRUE \/ unended' = FALSE
    BY <2>1 DEF Ended
  <2>4. row' \in Nat \ {0} /\ refusals' \in Nat
    BY <2>1, <2>2
  <2>5. failed' \in BOOLEAN /\ unended' \in BOOLEAN
    BY <2>1, <2>3, Zenon
  <2> QED  BY <2>1, <2>4, <2>5
<1>8. CASE CopyRows \/ InsertRow
  <2>1. /\ UNCHANGED <<queue, row, streaming, alive, batched, failed, unended, cut_over>>
        /\ refusals' = refusals \/ refusals' = refusals + 1
    BY <1>8 DEF CopyRows, InsertRow
  <2> QED  BY <2>1
<1> QED
  BY <1>1, <1>2, <1>3, <1>4, <1>5, <1>6, <1>7, <1>8
     DEF Next, RunEventsApply, ApplyBatch, RunRowCopy

LEMMA InitTypes == Init => TypeInv
<1> SUFFICES ASSUME Init PROVE TypeInv
  OBVIOUS
<1>1. StoreTyped
  BY LimitsAssumption DEF Init, StoreTyped, Table, Empty, Versions
<1>2. ChunkTyped /\ HistoryTyped
  BY DEF Init, ChunkTyped, HistoryTyped
<1>3. Len(<<>>) = 0
  OBVIOUS
<1>4. ControlTyped
  <2>1. Len(queue) <= QueueSize /\ row \in Nat \ {0}
    BY <1>3, LimitsAssumption DEF Init
  <2> QED  BY <2>1 DEF Init, ControlTyped
<1> QED  BY <1>1, <1>2, <1>4, InitInOrder DEF TypeInv, OrderInv

LEMMA SameTypes ==
    /\ StoreTyped /\ UNCHANGED <<original, ghost, before>> => StoreTyped'
    /\ ChunkTyped /\ UNCHANGED chunk => ChunkTyped'
    /\ HistoryTyped /\ UNCHANGED <<covered, spoiled>> => HistoryTyped'
BY DEF StoreTyped, ChunkTyped, HistoryTyped

LEMMA NextTypes == OrderInv /\ TypeInv /\ [Next]_vars => TypeInv'
<1> SUFFICES ASSUME OrderInv, TypeInv, [Next]_vars PROVE TypeInv'
  OBVIOUS
<1> USE DEF TypeInv
<1>1. OnTheirWay' /\ ControlTyped'
  BY NextInOrder, ControlSteps DEF OrderInv
<1>2. ASSUME NEW s \in Statements, Write(s[1], s[2])
      PROVE  StoreTyped' /\ ChunkTyped' /\ HistoryTyped'
  BY <1>2, StoreWrite DEF Write, ChunkTyped, HistoryTyped
<1>3. CASE HandleDMLEvent
  <2>1. UNCHANGED <<original, ghost, before, chunk>>
    BY <1>3 DEF HandleDMLEvent, session
  <2> QED  BY <1>1, <1>3, <2>1, HistoryRest, SameTypes
<1>4. CASE ApplyDMLEvent
  <2>1. UNCHANGED chunk
    BY <1>4 DEF ApplyDMLEvent
  <2> QED  BY <1>1, <1>4, <2>1, StoreApply, HistoryApply, SameTypes
<1>5. CASE CopyRows
  <2>1. UNCHANGED <<original, ghost, before>>
    BY <1>5 DEF CopyRows, source
  <2> QED  BY <1>1, <1>5, <2>1, ChunkCopy, HistoryRest, SameTypes
<1>6. CASE InsertRow
  BY <1>1, <1>6, StoreRest, ChunkInsert, HistoryRest
<1>7. CASE BeginBatch \/ SessionLost \/ Commit \/ Rollback
  <2>1. UNCHANGED chunk
    BY <1>7 DEF BeginBatch, SessionLost, Commit, Rollback
  <2> QED  BY <1>1, <1>7, <2>1, StoreRest, HistoryRest, SameTypes
<1>8. CASE FinishBatchEntry \/ CutOver
  <2>1. UNCHANGED <<chunk, covered, spoiled>>
    BY <1>8 DEF FinishBatchEntry, CutOver
  <2> QED  BY <1>1, <1>8, <2>1, StoreRest, SameTypes
<1>9. CASE StopStreamer
  <2>1. UNCHANGED <<original, ghost, before, chunk>>
    BY <1>9 DEF StopStreamer, source, session
  <2> QED  BY <1>1, <1>9, <2>1, HistoryRest, SameTypes
<1>10. CASE WriteHeartbeat \/ PopFor \/ FinishEvent \/ UNCHANGED vars
  <2>1. UNCHANGED <<original, ghost, before, chunk, covered, spoiled>>
    BY <1>10 DEF WriteHeartbeat, PopFor, FinishEvent, vars, source, session
  <2> QED  BY <1>1, <2>1, SameTypes
<1> QED
  BY <1>1, <1>2, <1>3, <1>4, <1>5, <1>6, <1>7, <1>8, <1>9, <1>10
     DEF Next, RunEventsApply, ApplyBatch, RunRowCopy

(* Every variable has its type, and the streamer's queue is never longer   *)
(* than its limit.                                                         *)
THEOREM TypeCorrect == Spec => []TypeOK
<1>1. TypeInv => TypeOK
  BY DEF TypeInv, OnTheirWay, StoreTyped, ChunkTyped, HistoryTyped, ControlTyped, TypeOK, Copied
<1> QED  BY <1>1, InitInOrder, NextInOrder, InitTypes, NextTypes, PTL DEF Spec

-----------------------------------------------------------------------------
(* The row copy and the events converge: GhostAgrees of Applier, whatever  *)
(* the keys, the application's writes, the chunks and the faults.  Each    *)
(* key is looked at for itself: its changes on their way are a set of      *)
(* events ordered by their positions, of which the first is taken away     *)
(* when it is applied and to which a last is added when the key is written.*)

-----------------------------------------------------------------------------
(* One key: its row in the tables and the changes on their way to it.      *)

\* What a row event writes: an INSERT or UPDATE the version its position is.
Value(e) == IF e.dml = "delete" THEN NoRow ELSE e.pos

First(e, C) == e \in C /\ \A d \in C : e.pos <= d.pos
Final(e, C) == e \in C /\ \A d \in C : d.pos <= e.pos

\* The changes of a key follow each other as rows can: an INSERT comes after
\* a DELETE, and nothing else does.
Consistent(C) ==
    \A d, e \in C :
        d.pos < e.pos /\ ~(\E x \in C : d.pos < x.pos /\ x.pos < e.pos) =>
            (e.dml = "insert" <=> d.dml = "delete")

\* Nothing will be written over a row that is there: no change waits, or
\* only an INSERT, which fails on it.
Settled(C) == C = {} \/ \E e \in C : C = {e} /\ e.dml = "insert"

\* A key whose row is g in the ghost table and o in the original, with the
\* changes C on their way and the copies R that were selected and are not
\* inserted: applied one after the other they end at o.
Converges(C, k, g, o, copied, R) ==
    /\ Consistent(C)
    /\ \A e \in C : Final(e, C) => Value(e) = o
    /\ Settled(C) => (g = NoRow \/ g = o) /\ \A v \in R : v = o
    /\ k \in copied /\ g = NoRow =>
          /\ C = {} => o = NoRow
          /\ \A e \in C : First(e, C) => e.dml = "insert"

\* The row after the statement of e.
Outcome(e, g) ==
    IF (e.dml = "insert" /\ g # NoRow) \/ (e.dml = "update" /\ g = NoRow)
    THEN g ELSE Value(e)

LEMMA EventFields ==
    \A e \in Event : /\ e.pos \in Nat /\ e.pos # NoRow
                     /\ e.dml \in {"insert", "update", "delete"}
                     /\ e.table \in {"original", "changelog"}
BY NoRowAssumption DEF Event

\* The application writes the key.
LEMMA WrittenConverges ==
    ASSUME NEW C \in SUBSET Event, NEW k, NEW g, NEW o, NEW copied, NEW R,
           Converges(C, k, g, o, copied, R), NoRow \notin R,
           NEW e \in Event, \A d \in C : d.pos < e.pos,
           e.dml = "insert" <=> o = NoRow
    PROVE  Converges(C \union {e}, k, g, Value(e), copied, R)
<1> DEFINE D == C \union {e}
<1>1. e.pos \in Nat /\ \A d \in C : d.pos \in Nat /\ d.pos # NoRow
  BY EventFields
<1>2. e \notin C
  BY <1>1
<1>3. Consistent(D)
  <2> SUFFICES ASSUME NEW d \in D, NEW f \in D, d.pos < f.pos,
                      \A x \in D : ~(d.pos < x.pos /\ x.pos < f.pos)
               PROVE  f.dml = "insert" <=> d.dml = "delete"
    BY DEF Consistent
  <2>1. d # e
    BY <1>1
  <2>2. CASE f # e
    BY <2>1, <2>2 DEF Converges, Consistent
  <2>3. CASE f = e
    <3>1. Final(d, C)
      BY <1>1, <2>1, <2>3 DEF Final
    <3>2. Value(d) = o
      BY <2>1, <3>1 DEF Converges
    <3>3. d.dml = "delete" <=> o = NoRow
      BY <1>1, <2>1, <3>2 DEF Value
    <3> QED  BY <2>3, <3>3
  <2> QED  BY <2>2, <2>3
<1>4. ASSUME NEW f \in D, Final(f, D) PROVE Value(f) = Value(e)
  BY <1>1, <1>4 DEF Final
<1>5. ASSUME Settled(D) PROVE (g = NoRow \/ g = Value(e)) /\ \A v \in R : v = Value(e)
  <2>1. C = {} /\ e.dml = "insert"
    BY <1>2, <1>5 DEF Settled
  <2>2. o = NoRow /\ Settled(C)
    BY <2>1 DEF Settled
  <2> QED  BY <2>2 DEF Converges
<1>6. ASSUME k \in copied, g = NoRow, NEW f \in D, First(f, D) PROVE f.dml = "insert"
  <2>1. CASE f \in C
    <3>1. First(f, C)
      BY <1>6, <2>1 DEF First
    <3> QED  BY <1>6, <2>1, <3>1 DEF Converges
  <2>2. CASE f \notin C
    <3>1. f = e /\ C = {}
      BY <1>1, <1>6, <2>2 DEF First
    <3> QED  BY <1>6, <3>1 DEF Converges
  <2> QED  BY <2>1, <2>2
<1>7. D # {}
  OBVIOUS
<1> HIDE DEF D
<1> QED  BY <1>3, <1>4, <1>5, <1>6, <1>7 DEF Converges, D

\* The first change is applied; no copy of the row is on its way.
LEMMA AppliedConverges ==
    ASSUME NEW C \in SUBSET Event, NEW k, NEW g, NEW o, NEW copied, NEW R,
           Converges(C, k, g, o, copied, R), NEW e, First(e, C),
           \A d \in C : d.pos = e.pos => d = e
    PROVE  Converges(C \ {e}, k, Outcome(e, g), o, copied, {})
<1> DEFINE D == C \ {e}
           h == Outcome(e, g)
<1>1. e \in C /\ \A d \in C : d.pos \in Nat /\ d.pos # NoRow /\ d.dml \in {"insert", "update", "delete"}
  BY EventFields DEF First
<1>2. \A d \in D : e.pos < d.pos
  BY <1>1 DEF First
<1>3. Consistent(D)
  <2> SUFFICES ASSUME NEW d \in D, NEW f \in D, d.pos < f.pos,
                      \A x \in D : ~(d.pos < x.pos /\ x.pos < f.pos)
               PROVE  f.dml = "insert" <=> d.dml = "delete"
    BY DEF Consistent
  <2>1. ~(d.pos < e.pos)
    BY <1>1, <1>2
  <2>2. \A x \in C : ~(d.pos < x.pos /\ x.pos < f.pos)
    BY <2>1
  <2> QED  BY <2>2 DEF Converges, Consistent
<1>4. ASSUME NEW f \in D, Final(f, D) PROVE Value(f) = o
  <2>1. Final(f, C)
    BY <1>1, <1>2, <1>4 DEF Final
  <2> QED  BY <2>1 DEF Converges
\* What is first now came next to e.
<1>5. ASSUME NEW f \in D, First(f, D) PROVE f.dml = "insert" <=> e.dml = "delete"
  <2>1. e.pos < f.pos /\ \A x \in C : ~(e.pos < x.pos /\ x.pos < f.pos)
    BY <1>1, <1>2, <1>5 DEF First
  <2> QED  BY <1>1, <2>1 DEF Converges, Consistent
<1>6. D = {} => Settled(C) \/ e.dml # "insert"
  BY <1>1 DEF Settled
<1>7. D = {} => Value(e) = o
  <2>1. D = {} => Final(e, C)
    BY <1>1 DEF Final
  <2> QED  BY <1>1, <2>1 DEF Converges
<1>8. ASSUME Settled(D) PROVE h = NoRow \/ h = o
  <2>1. CASE D = {}
    <3>1. CASE e.dml = "insert"
      BY <1>6, <1>7, <2>1, <3>1 DEF Converges, Outcome
    <3>2. CASE e.dml # "insert"
      BY <1>7, <2>1, <3>2 DEF Outcome
    <3> QED  BY <3>1, <3>2
  <2>2. CASE D # {}
    <3>1. PICK f \in D : D = {f} /\ f.dml = "insert"
      BY <1>8, <2>2 DEF Settled
    <3>2. First(f, D)
      BY <1>1, <3>1 DEF First
    <3>3. e.dml = "delete"
      BY <1>5, <3>1, <3>2
    <3> QED  BY <3>3 DEF Outcome, Value
  <2> QED  BY <2>1, <2>2
<1>9. ASSUME k \in copied, h = NoRow PROVE e.dml = "delete"
  <2>1. CASE g = NoRow
    <3>1. e.dml = "insert"
      BY <1>1, <1>9, <2>1 DEF Converges
    <3> QED  BY <1>1, <1>9, <2>1, <3>1 DEF Outcome, Value
  <2>2. CASE g # NoRow
    BY <1>1, <1>9, <2>2 DEF Outcome, Value
  <2> QED  BY <2>1, <2>2
<1>10. e.dml = "delete" => Value(e) = NoRow
  BY DEF Value
<1> HIDE DEF D, h
<1>11. Converges(D, k, h, o, copied, {})
  BY <1>3, <1>4, <1>5, <1>7, <1>8, <1>9, <1>10 DEF Converges
<1> QED  BY <1>11 DEF D, h

\* A copy is inserted where there was no row, whatever copies are left.
LEMMA InsertedConverges ==
    ASSUME NEW C, NEW k, NEW g, NEW o, NEW copied, NEW R,
           Converges(C, k, g, o, copied, R), NEW v \in R, v # NoRow,
           NEW covering, NEW S \in SUBSET R
    PROVE  Converges(C, k, v, o, covering, S)
BY DEF Converges

\* Copies are given up, or taken of the row that the original has.
LEMMA SelectedConverges ==
    ASSUME NEW C, NEW k, NEW g, NEW o, NEW copied, NEW R,
           Converges(C, k, g, o, copied, R), NEW S \in SUBSET (R \union {o}),
           NEW covering, k \in covering => k \in copied
    PROVE  Converges(C, k, g, o, covering, S)
BY DEF Converges

-----------------------------------------------------------------------------
(* The changes on their way.                                               *)

Underway == ToSet(binlog) \union ToSet(queue) \union ToSet(applying)

\* The rows of e that have not been applied to the ghost table yet.
RowsLeft(e) == (IF Processing /\ e = Head(applying) THEN row ELSE 1)..Len(e.rows)

Waits(e, k) == \E i \in RowsLeft(e) : e.rows[i].key = k

Changes(k) == {e \in Underway : e.table = "original" /\ Waits(e, k)}

\* The rows of an event of the original are of different keys, and all hold
\* what it writes.
Faithful(e) ==
    e.table = "original" =>
        /\ \A i \in 1..Len(e.rows) : e.rows[i].value = Value(e)
        /\ \A i, j \in 1..Len(e.rows) : e.rows[i].key = e.rows[j].key => i = j

AllFaithful == \A e \in Underway : Faithful(e)

Copies(k) == {chunk[i].value : i \in {j \in 1..Len(chunk) : chunk[j].key = k}}

Local(k) == Converges(Changes(k), k, ghost[k], original[k], covered, Copies(k))

GhostInv == \A k \in Keys \ spoiled : Local(k)

LEMMA SetsOfSequences ==
    /\ ToSet(<<>>) = {}
    /\ \A s \in Seq(Event) : s # <<>> => ToSet(s) = {Head(s)} \union ToSet(Tail(s))
    /\ \A s \in Seq(Event), e \in Event : ToSet(Append(s, e)) = ToSet(s) \union {e}
    /\ \A e \in Event : ToSet(<<e>>) = {e}
<1>1. ToSet(<<>>) = {} /\ \A e \in Event : ToSet(<<e>>) = {e}
  BY DEF ToSet
<1>2. ASSUME NEW s \in Seq(Event), s # <<>> PROVE ToSet(s) = {Head(s)} \union ToSet(Tail(s))
  <2>1. /\ Head(s) = s[1] /\ 1 \in 1..Len(s) /\ DOMAIN s = 1..Len(s)
        /\ DOMAIN Tail(s) = 1..Len(Tail(s))
        /\ \A i \in 1..Len(Tail(s)) : i + 1 \in 1..Len(s) /\ Tail(s)[i] = s[i + 1]
        /\ \A i \in 1..Len(s) : i # 1 => i - 1 \in 1..Len(Tail(s)) /\ Tail(s)[i - 1] = s[i]
    BY <1>2
  <2>2. ASSUME NEW x \in ToSet(s) PROVE x = Head(s) \/ x \in ToSet(Tail(s))
    <3>1. PICK i \in 1..Len(s) : x = s[i]
      BY <2>1 DEF ToSet
    <3>2. i # 1 => i - 1 \in DOMAIN Tail(s) /\ Tail(s)[i - 1] = x
      BY <2>1, <3>1
    <3> QED  BY <2>1, <3>1, <3>2 DEF ToSet
  <2>3. ASSUME NEW x \in ToSet(Tail(s)) PROVE x \in ToSet(s)
    BY <2>1, <2>3 DEF ToSet
  <2>4. Head(s) \in ToSet(s)
    BY <2>1 DEF ToSet
  <2> QED  BY <2>2, <2>3, <2>4
<1>3. ASSUME NEW s \in Seq(Event), NEW e \in Event PROVE ToSet(Append(s, e)) = ToSet(s) \union {e}
  <2>1. /\ DOMAIN s = 1..Len(s) /\ Len(s) \in Nat /\ DOMAIN Append(s, e) = 1..(Len(s) + 1)
        /\ Append(s, e)[Len(s) + 1] = e
        /\ \A i \in 1..Len(s) : Append(s, e)[i] = s[i]
    OBVIOUS
  <2>2. ASSUME NEW x \in ToSet(Append(s, e)) PROVE x = e \/ x \in ToSet(s)
    BY <2>1, <2>2 DEF ToSet
  <2>3. ASSUME NEW x \in ToSet(s) PROVE x \in ToSet(Append(s, e))
    BY <2>1, <2>3 DEF ToSet
  <2>4. e \in ToSet(Append(s, e))
    BY <2>1 DEF ToSet
  <2> QED  BY <2>2, <2>3, <2>4
<1> QED  BY <1>1, <1>2, <1>3

\* The event that is being applied is the first of those underway.
LEMMA AppliedInTurn ==
    ASSUME OrderInv
    PROVE  /\ \A e \in Underway : e \in Event /\ e.pos \in Nat /\ e.pos <= writes
           /\ Processing => /\ Head(applying) \in Underway
                            /\ \A e \in ToSet(Tail(applying)) \union ToSet(queue) \union ToSet(binlog) :
                                  Head(applying).pos < e.pos
                            /\ \A e \in Underway : \/ e = Head(applying)
                                                   \/ Head(applying).pos < e.pos
<1> USE DEF OrderInv, OnTheirWay
<1>1. ASSUME NEW s \in Seq(Event), Within(s, coordinates, writes), NEW e \in ToSet(s)
      PROVE  e \in Event /\ e.pos \in Nat /\ e.pos <= writes
  <2>1. PICK i \in 1..Len(s) : e = s[i]
    BY SMTT(20) DEF ToSet
  <2>2. e \in Event
    BY <2>1
  <2> QED  BY <1>1, <2>1, <2>2, EventFields DEF Within
<1>2. ASSUME NEW e \in Underway PROVE e \in Event /\ e.pos \in Nat /\ e.pos <= writes
  <2>1. \E s \in {binlog, queue, applying} : e \in ToSet(s)
    BY DEF Underway
  <2> QED  BY <1>1, <2>1 DEF InOrder
<1>3. ASSUME Processing
      PROVE  /\ ToSet(applying) = {Head(applying)} \union ToSet(Tail(applying))
             /\ \A e \in ToSet(Tail(applying)) \union ToSet(queue) \union ToSet(binlog) :
                   Head(applying).pos < e.pos
  <2>1. Head(applying) = applying[1] /\ 1 \in 1..Len(applying)
    BY <1>3 DEF Processing
  <2>2. ASSUME NEW e \in ToSet(queue) \union ToSet(binlog) PROVE Head(applying).pos < e.pos
    <3>1. CASE e \in ToSet(queue)
      <4>1. PICK i \in 1..Len(queue) : e = queue[i]
        BY <3>1 DEF ToSet
      <4> QED  BY <2>1, <4>1 DEF InOrder, Precedes
    <3>2. CASE e \in ToSet(binlog)
      <4>1. PICK i \in 1..Len(binlog) : e = binlog[i]
        BY <3>2 DEF ToSet
      <4> QED  BY <2>1, <4>1 DEF InOrder, Precedes
    <3> QED  BY <3>1, <3>2
  <2>3. ASSUME NEW e \in ToSet(Tail(applying)) PROVE Head(applying).pos < e.pos
    <3>1. PICK i \in 1..Len(Tail(applying)) : e = Tail(applying)[i]
      BY <1>3, <2>3 DEF ToSet, Processing
    <3>2. i + 1 \in 1..Len(applying) /\ 1 < i + 1 /\ e = applying[i + 1]
      BY <1>3, <3>1 DEF Processing
    <3> QED  BY <2>1, <3>2 DEF InOrder, Ascending
  <2> QED  BY <1>3, <2>2, <2>3, SetsOfSequences DEF Processing
<1> QED  BY <1>2, <1>3 DEF Underway

\* A step that takes nothing of key k from what is underway, or adds to it.
LEMMA SameChanges ==
    ASSUME NEW k, Underway' \subseteq Underway,
           \A e \in Underway : e \in Underway' \/ e.table # "original" \/ ~Waits(e, k),
           \A e \in Underway' : e.table = "original" => (Waits(e, k)' <=> Waits(e, k))
    PROVE  Changes(k)' = Changes(k)
BY DEF Changes

LEMMA WaitingKeys ==
    ASSUME OrderInv, row \in Nat \ {0}, NEW e \in Underway, NEW k, Waits(e, k)
    PROVE  k \in KeysOf(e)
<1>1. e.rows \in Seq(Change) /\ Len(e.rows) \in Nat
  BY AppliedInTurn, EventRows
<1>2. \A i \in RowsLeft(e) : i \in 1..Len(e.rows)
  BY <1>1 DEF RowsLeft
<1> QED  BY <1>2 DEF Waits, KeysOf

-----------------------------------------------------------------------------
(* What each step does to the changes underway.                            *)

ChangesInv == OrderInv /\ TypeInv /\ AllFaithful

LEMMA HandledChanges ==
    ASSUME ChangesInv, HandleDMLEvent, NEW k, k \notin spoiled'
    PROVE  Changes(k)' = Changes(k) /\ Underway' \subseteq Underway
<1> USE DEF ChangesInv, OrderInv, OnTheirWay
<1> DEFINE h == Head(binlog)
<1>1. /\ binlog # <<>> /\ binlog' = Tail(binlog) /\ UNCHANGED <<applying, row>>
      /\ queue' = Append(queue, h) \/ (queue' = queue /\ spoiled' = spoiled \union KeysOf(h))
  BY DEF HandleDMLEvent, events
<1>2. h \in Event /\ ToSet(binlog) = {h} \union ToSet(binlog')
  BY <1>1, SetsOfSequences
<1>3. \A e : RowsLeft(e)' = RowsLeft(e)
  BY <1>1 DEF RowsLeft, Processing
<1>4. Underway' \subseteq Underway /\ (Underway' = Underway \/ (Underway = Underway' \union {h} /\ k \notin KeysOf(h)))
  <2>1. CASE queue' = Append(queue, h)
    <3>1. ToSet(queue') = ToSet(queue) \union {h}
      BY <1>2, <2>1, SetsOfSequences
    <3> QED  BY <1>1, <1>2, <3>1 DEF Underway
  <2>2. CASE queue' = queue /\ spoiled' = spoiled \union KeysOf(h)
    BY <1>1, <1>2, <2>2 DEF Underway
  <2> QED  BY <1>1, <2>1, <2>2
<1>5. \A e \in Underway : e \in Underway' \/ ~Waits(e, k)
  BY <1>4, WaitingKeys DEF TypeInv, ControlTyped
<1>6. \A e : Waits(e, k)' <=> Waits(e, k)
  BY <1>3 DEF Waits
<1> HIDE DEF h
<1> QED  BY <1>4, <1>5, <1>6, SameChanges

LEMMA PoppedChanges ==
    ASSUME ChangesInv, PopFor \/ BeginBatch, NEW k, k \notin spoiled'
    PROVE  Changes(k)' = Changes(k) /\ Underway' \subseteq Underway
<1> USE DEF ChangesInv, OrderInv, OnTheirWay
<1>1. applying = <<>> /\ queue # <<>> /\ UNCHANGED binlog
  BY DEF PopFor, BeginBatch, Processing, source
<1>2. \/ applying' = <<Head(queue)>> /\ queue' = Tail(queue) /\ row' = 1
      \/ applying' = queue /\ queue' = <<>> /\ row' = 1
      \/ applying' = <<>> /\ queue' = <<>> /\ spoiled' = spoiled \union KeysIn(queue)
  BY <1>1 DEF PopFor, BeginBatch, events
<1>3. \A e : RowsLeft(e)' = RowsLeft(e)
  BY <1>1, <1>2 DEF RowsLeft, Processing
<1>4. Underway = ToSet(binlog) \union ToSet(queue)
  BY <1>1, SetsOfSequences DEF Underway
<1>5. \/ Underway' = Underway
      \/ Underway' = ToSet(binlog) /\ spoiled' = spoiled \union KeysIn(queue)
  <2>1. CASE applying' = <<Head(queue)>> /\ queue' = Tail(queue)
    <3>1. Head(queue) \in Event
      BY <1>1
    <3> QED  BY <1>1, <1>4, <2>1, <3>1, SetsOfSequences DEF Underway
  <2>2. CASE applying' = queue /\ queue' = <<>>
    BY <1>1, <1>4, <2>2, SetsOfSequences DEF Underway
  <2>3. CASE applying' = <<>> /\ queue' = <<>> /\ spoiled' = spoiled \union KeysIn(queue)
    BY <1>1, <2>3, SetsOfSequences DEF Underway
  <2> QED  BY <1>2, <2>1, <2>2, <2>3
<1>6. \A e \in Underway : e \in Underway' \/ ~Waits(e, k)
  <2>1. \A e \in ToSet(queue) : KeysOf(e) \subseteq KeysIn(queue)
    BY DEF KeysIn
  <2> QED  BY <1>4, <1>5, <2>1, WaitingKeys DEF TypeInv, ControlTyped
<1>7. \A e : Waits(e, k)' <=> Waits(e, k)
  BY <1>3 DEF Waits
<1> QED  BY <1>4, <1>5, <1>6, <1>7, SameChanges

\* FinishEvent, FinishBatchEntry and Commit: no row of the event is left.
LEMMA FinishedChanges ==
    ASSUME ChangesInv, FinishEvent \/ FinishBatchEntry \/ Commit, NEW k
    PROVE  Changes(k)' = Changes(k) /\ Underway' \subseteq Underway
<1> USE DEF ChangesInv, OrderInv, OnTheirWay
<1> DEFINE h == Head(applying)
<1>1. /\ Processing /\ UNCHANGED <<binlog, queue>> /\ row' = 1
      /\ row > Len(h.rows) \/ h.table # "original"
      /\ \/ (~batched \/ Len(applying) = 1) /\ applying' = <<>>
         \/ applying' = Tail(applying)
  BY DEF FinishEvent, FinishBatchEntry, Commit, source, stream
<1>2. applying' = Tail(applying)
  <2>1. applying # <<>> /\ (~batched => Len(applying) <= 1)
    BY <1>1 DEF InOrder, Processing
  <2>2. Len(applying) = 1 => Len(applying) <= 1
    OBVIOUS
  <2>3. ~batched \/ Len(applying) = 1 => Tail(applying) = <<>>
    BY <2>1, <2>2, TailLength
  <2>4. \/ (~batched \/ Len(applying) = 1) /\ applying' = <<>>
        \/ applying' = Tail(applying)
    BY <1>1
  <2> QED  BY <2>3, <2>4, Zenon
<1>3. ToSet(applying) = {h} \union ToSet(applying')
  BY <1>1, <1>2, SetsOfSequences DEF Processing
<1>4. Underway = Underway' \union {h}
  BY <1>1, <1>3 DEF Underway
<1>5. h \notin Underway'
  BY <1>1, <1>2, AppliedInTurn DEF Underway
<1>6. h.table # "original" \/ ~Waits(h, k)
  <2>1. Len(h.rows) \in Nat /\ row \in Nat
    BY <1>1, AppliedInTurn, EventRows DEF TypeInv, ControlTyped
  <2> QED  BY <1>1, <2>1 DEF Waits, RowsLeft
<1>7. \A e \in Underway' : Waits(e, k)' <=> Waits(e, k)
  <2>1. \A e \in Underway' : RowsLeft(e)' = RowsLeft(e)
    BY <1>1, <1>5 DEF RowsLeft
  <2> QED  BY <2>1 DEF Waits
<1> HIDE DEF h
<1> QED  BY <1>4, <1>6, <1>7, SameChanges

\* A failed batch is given up.
LEMMA RolledBackChanges ==
    ASSUME ChangesInv, Rollback, NEW k, k \notin spoiled'
    PROVE  Changes(k)' = Changes(k) /\ Underway' \subseteq Underway
<1> USE DEF ChangesInv, OrderInv, OnTheirWay
<1>1. /\ UNCHANGED <<binlog, queue>> /\ applying' = <<>> /\ Processing
      /\ k \notin KeysIn(applying)
  BY DEF Rollback, source, stream
<1>2. Underway' = ToSet(binlog) \union ToSet(queue)
  BY <1>1, SetsOfSequences DEF Underway
<1>3. \A e \in ToSet(applying) : ~Waits(e, k)
  <2>1. \A e \in ToSet(applying) : e \in Underway /\ KeysOf(e) \subseteq KeysIn(applying)
    BY DEF Underway, KeysIn
  <2> QED  BY <1>1, <2>1, WaitingKeys DEF TypeInv, ControlTyped
<1>4. \A e \in Underway' : e # Head(applying)
  BY <1>1, <1>2, AppliedInTurn
<1>5. \A e \in Underway' : RowsLeft(e)' = RowsLeft(e)
  BY <1>1, <1>4 DEF RowsLeft, Processing
<1>6. \A e \in Underway' : Waits(e, k)' <=> Waits(e, k)
  BY <1>5 DEF Waits
<1>7. Underway = Underway' \union ToSet(applying)
  BY <1>2 DEF Underway
<1> QED  BY <1>3, <1>6, <1>7, SameChanges

\* A row of the event that is being applied is done; or its statement has
\* failed, and with it the rows behind it are given up.
LEMMA AppliedChanges ==
    ASSUME ChangesInv, Processing, UNCHANGED <<binlog, queue, applying>>,
           row \in 1..Len(Head(applying).rows), Head(applying).table = "original",
           NEW k,
           \/ row' = row + 1
           \/ /\ row' = Len(Head(applying).rows) + 1
              /\ \A i \in row + 1 .. Len(Head(applying).rows) : Head(applying).rows[i].key # k
    PROVE  /\ Underway' = Underway
           /\ Head(applying).rows[row].key = k =>
                  /\ Changes(k)' = Changes(k) \ {Head(applying)}
                  /\ First(Head(applying), Changes(k))
           /\ Head(applying).rows[row].key # k => Changes(k)' = Changes(k)
<1> USE DEF ChangesInv, OrderInv, OnTheirWay
<1> DEFINE h == Head(applying)
<1>1. h \in Underway /\ h \in Event /\ Len(h.rows) \in Nat /\ row \in Nat
  BY AppliedInTurn, EventRows DEF TypeInv, ControlTyped
<1>2. Underway' = Underway
  BY DEF Underway
<1>3. \A e : e # h => (Waits(e, k)' <=> Waits(e, k))
  BY DEF Waits, RowsLeft, Processing
<1>4. Waits(h, k) <=> \E i \in row..Len(h.rows) : h.rows[i].key = k
  BY DEF Waits, RowsLeft
<1>5. Waits(h, k)' <=> \E i \in row'..Len(h.rows) : h.rows[i].key = k
  BY DEF Waits, RowsLeft, Processing
<1>6. \A i \in row..Len(h.rows) : i = row \/ i \in row + 1 .. Len(h.rows)
  BY <1>1
<1>7. CASE h.rows[row].key = k
  <2>1. Waits(h, k)
    BY <1>1, <1>4, <1>7
  <2>2. \A i \in row + 1 .. Len(h.rows) : h.rows[i].key # k
    <3>1. Faithful(h)
      BY <1>1 DEF AllFaithful
    <3>2. \A i \in row + 1 .. Len(h.rows) : i \in 1..Len(h.rows) /\ i # row
      BY <1>1
    <3> QED  BY <1>7, <3>1, <3>2 DEF Faithful
  <2>3. ~Waits(h, k)'
    BY <1>1, <1>5, <2>2
  <2>4. Changes(k)' = Changes(k) \ {h}
    BY <1>2, <1>3, <2>3 DEF Changes
  <2>5. h \in Changes(k)
    BY <1>1, <2>1 DEF Changes
  <2>6. \A e \in Changes(k) : h.pos <= e.pos
    BY <1>1, AppliedInTurn DEF Changes
  <2> QED  BY <1>2, <1>7, <2>4, <2>5, <2>6 DEF First
<1>8. CASE h.rows[row].key # k
  <2>1. Waits(h, k) <=> \E i \in row + 1 .. Len(h.rows) : h.rows[i].key = k
    BY <1>1, <1>4, <1>6, <1>8
  <2>2. Waits(h, k)' <=> Waits(h, k)
    BY <1>1, <1>5, <2>1
  <2> QED  BY <1>2, <1>3, <1>8, <2>2 DEF Changes
<1> QED  BY <1>7, <1>8

\* A new event is the last of those underway.
LEMMA AddedChanges ==
    ASSUME ChangesInv, NEW e \in Event, e.pos = writes + 1, binlog' = Append(binlog, e),
           UNCHANGED <<queue, applying, row>>
    PROVE  /\ Underway' = Underway \union {e}
           /\ \A d \in Underway : d.pos < e.pos
           /\ \A k : Changes(k)' = IF e.table = "original" /\ k \in KeysOf(e)
                                   THEN Changes(k) \union {e} ELSE Changes(k)
<1> USE DEF ChangesInv, OrderInv, OnTheirWay
<1>1. Underway' = Underway \union {e}
  BY SetsOfSequences DEF Underway
<1>2. \A d \in Underway : d.pos < e.pos
  BY AppliedInTurn
<1>3. \A d, k : Waits(d, k)' <=> Waits(d, k)
  BY DEF Waits, RowsLeft, Processing
<1>4. \A k : Waits(e, k) <=> k \in KeysOf(e)
  <2>1. ~(Processing /\ e = Head(applying))
    BY <1>2, AppliedInTurn
  <2> QED  BY <2>1 DEF Waits, RowsLeft, KeysOf
<1> QED  BY <1>1, <1>2, <1>3, <1>4 DEF Changes

-----------------------------------------------------------------------------
(* Each step keeps the invariant.                                          *)

LEMMA NextFaithful ==
    ASSUME ChangesInv, [Next]_vars
    PROVE  AllFaithful'
<1>1. ASSUME NEW s \in Statements, Write(s[1], s[2]) PROVE AllFaithful'
  <2>1. PICK e \in Event :
            /\ e.pos = writes + 1 /\ binlog' = Append(binlog, e)
            /\ e.table = "original" /\ e.dml = s[1] /\ Len(e.rows) = Len(s[2])
            /\ \A i \in 1..Len(s[2]) :
                  /\ e.rows[i].key = s[2][i]
                  /\ e.rows[i].value = IF s[1] = "delete" THEN NoRow ELSE writes + 1
    BY <1>1, WriteAppends DEF ChangesInv, OrderInv
  <2>2. Underway' = Underway \union {e}
    BY <1>1, <2>1, AddedChanges DEF Write, stream, events
  <2>3. DOMAIN s[2] = 1..Len(s[2]) /\ IsInjective(s[2])
    BY StatementsAssumption
  <2>4. Faithful(e)
    BY <2>1, <2>3 DEF Faithful, Value, IsInjective
  <2> QED  BY <2>2, <2>4 DEF AllFaithful, ChangesInv
<1>2. CASE WriteHeartbeat
  <2>1. PICK e \in Event :
            e.pos = writes + 1 /\ binlog' = Append(binlog, e) /\ e.table = "changelog"
    BY <1>2, HeartbeatAppends DEF ChangesInv, OrderInv
  <2>2. Underway' = Underway \union {e}
    BY <1>2, <2>1, AddedChanges DEF WriteHeartbeat, stream, events
  <2> QED  BY <2>1, <2>2 DEF AllFaithful, Faithful, ChangesInv
<1>3. ASSUME Underway' \subseteq Underway PROVE AllFaithful'
  BY <1>3 DEF AllFaithful, ChangesInv
<1>4. 0 \notin spoiled'
  BY NextTypes, KeysAssumption DEF ChangesInv, TypeInv, HistoryTyped
<1>5. CASE Rollback
  BY <1>3, <1>4, <1>5, RolledBackChanges
<1>6. CASE \/ StopStreamer \/ ApplyDMLEvent \/ CopyRows \/ InsertRow \/ SessionLost \/ CutOver
           \/ UNCHANGED vars
  <2>1. UNCHANGED <<binlog, queue, applying>>
    BY <1>6 DEF StopStreamer, ApplyDMLEvent, CopyRows, InsertRow, SessionLost, CutOver, vars,
                source, stream, events
  <2> QED  BY <1>3, <2>1 DEF Underway
<1> QED
  BY <1>1, <1>2, <1>3, <1>4, <1>5, <1>6, HandledChanges, PoppedChanges, FinishedChanges
     DEF Next, RunEventsApply, ApplyBatch, RunRowCopy

LEMMA CopiesTyped ==
    ASSUME ChunkTyped
    PROVE  /\ \A k : NoRow \notin Copies(k)
           /\ \A k \in Keys : k \notin Pending => Copies(k) = {}
           /\ chunk # <<>> => /\ Head(chunk).key \in Keys
                              /\ Head(chunk).value \in Copies(Head(chunk).key)
                              /\ \A k : chunk' = Tail(chunk) => Copies(k)' \subseteq Copies(k)
           /\ \A k : chunk' = <<>> => Copies(k)' = {}
<1> USE DEF ChunkTyped
<1>1. \A i \in 1..Len(chunk) : chunk[i] \in Copied /\ chunk[i].key \in Keys /\ chunk[i].value # NoRow
  <2>1. \A c \in Copied : c.key \in Keys /\ c.value # NoRow
    BY NoRowAssumption DEF Copied, Versions
  <2> QED  BY <2>1
<1>2. \A k : NoRow \notin Copies(k)
  BY <1>1 DEF Copies
<1>3. \A k \in Keys : k \notin Pending => Copies(k) = {}
  BY DEF Copies, Pending
<1>4. ASSUME chunk # <<>>
      PROVE  /\ Head(chunk) = chunk[1] /\ 1 \in 1..Len(chunk)
             /\ \A i \in 1..Len(Tail(chunk)) : i + 1 \in 1..Len(chunk) /\ Tail(chunk)[i] = chunk[i + 1]
  BY <1>4
<1>5. ASSUME chunk # <<>>
      PROVE  Head(chunk).key \in Keys /\ Head(chunk).value \in Copies(Head(chunk).key)
  BY <1>1, <1>4, <1>5 DEF Copies
<1>6. ASSUME chunk # <<>>, NEW k, chunk' = Tail(chunk) PROVE Copies(k)' \subseteq Copies(k)
  <2> SUFFICES ASSUME NEW v \in Copies(k)' PROVE v \in Copies(k)
    OBVIOUS
  <2>1. PICK i \in 1..Len(Tail(chunk)) : Tail(chunk)[i].key = k /\ v = Tail(chunk)[i].value
    BY <1>6 DEF Copies
  <2>2. i + 1 \in 1..Len(chunk) /\ chunk[i + 1].key = k /\ v = chunk[i + 1].value
    BY <1>4, <1>6, <2>1
  <2> QED  BY <2>2 DEF Copies
<1>7. ASSUME NEW k, chunk' = <<>> PROVE Copies(k)' = {}
  BY <1>7 DEF Copies
<1> QED  BY <1>2, <1>3, <1>5, <1>6, <1>7

\* Nothing happens to the rows of k, or the ghost is not told, or the
\* original's row is selected.
LEMMA LocalKept ==
    ASSUME NEW k, Local(k), Changes(k)' = Changes(k),
           ghost'[k] = ghost[k], original'[k] = original[k], k \in covered' => k \in covered,
           Copies(k)' \subseteq Copies(k) \union {original[k]}
    PROVE  Local(k)'
BY SelectedConverges DEF Local

LEMMA LocalWrite ==
    ASSUME ChangesInv, NEW k \in Keys, Local(k), NEW s \in Statements, Write(s[1], s[2])
    PROVE  Local(k)'
<1>1. PICK e \in Event :
          /\ e.pos = writes + 1 /\ binlog' = Append(binlog, e)
          /\ e.table = "original" /\ e.dml = s[1] /\ Len(e.rows) = Len(s[2])
          /\ \A i \in 1..Len(s[2]) :
                /\ e.rows[i].key = s[2][i]
                /\ e.rows[i].value = IF s[1] = "delete" THEN NoRow ELSE writes + 1
  BY WriteAppends DEF ChangesInv, OrderInv
<1>2. /\ \A d \in Underway : d.pos < e.pos
      /\ Changes(k)' = IF k \in KeysOf(e) THEN Changes(k) \union {e} ELSE Changes(k)
  BY <1>1, AddedChanges DEF Write, stream, events
<1>3. DOMAIN s[2] = 1..Len(s[2])
  BY StatementsAssumption
<1>4. k \in KeysOf(e) <=> k \in ToSet(s[2])
  BY <1>1, <1>3 DEF KeysOf, ToSet
<1>5. /\ UNCHANGED <<ghost, covered, chunk>>
      /\ original' = [x \in Keys |-> IF x \in ToSet(s[2])
                                     THEN IF s[1] = "delete" THEN NoRow ELSE writes + 1
                                     ELSE original[x]]
      /\ \A i \in 1..Len(s[2]) : (s[1] = "insert") <=> (original[s[2][i]] = NoRow)
  BY DEF Write
<1>6. Copies(k)' = Copies(k)
  BY <1>5 DEF Copies
<1>7. CASE k \notin KeysOf(e)
  BY <1>2, <1>4, <1>5, <1>6, <1>7, LocalKept
<1>8. CASE k \in KeysOf(e)
  <2>1. original'[k] = Value(e)
    BY <1>1, <1>4, <1>5, <1>8 DEF Value
  <2>2. e.dml = "insert" <=> original[k] = NoRow
    BY <1>1, <1>3, <1>4, <1>5, <1>8 DEF ToSet
  <2>3. Changes(k) \subseteq Underway /\ Changes(k) \subseteq Event
    BY AppliedInTurn DEF Changes, ChangesInv
  <2>4. NoRow \notin Copies(k)
    BY CopiesTyped DEF ChangesInv, TypeInv
  <2>5. Converges(Changes(k) \union {e}, k, ghost[k], Value(e), covered, Copies(k))
    BY <1>2, <2>2, <2>3, <2>4, WrittenConverges DEF Local
  <2> QED  BY <1>2, <1>5, <1>6, <1>8, <2>1, <2>5 DEF Local
<1> QED  BY <1>7, <1>8

LEMMA LocalApply ==
    ASSUME ChangesInv, NEW k \in Keys, Local(k), ApplyDMLEvent, k \notin spoiled'
    PROVE  Local(k)'
<1> DEFINE e == Head(applying)
           r == e.rows[row]
<1>1. /\ Processing /\ row <= Len(e.rows)
      /\ batched \/ e.table = "original"
      /\ UNCHANGED <<binlog, queue, original, alive, chunk, covered>>
  BY DEF ApplyDMLEvent, source, stream
<1>2. e \in Underway /\ e \in Event /\ row \in 1..Len(e.rows) /\ Faithful(e)
  <2>1. e \in Underway /\ e \in Event
    BY <1>1, AppliedInTurn DEF ChangesInv
  <2> QED  BY <1>1, <2>1, EventRows DEF ChangesInv, TypeInv, ControlTyped, AllFaithful
<1>3. Copies(k)' = Copies(k)
  BY <1>1 DEF Copies
<1>4. ASSUME UNCHANGED <<applying, row>>, ghost'[k] = ghost[k]
      PROVE  Local(k)'
  <2>1. Changes(k)' = Changes(k)
    BY <1>1, <1>4 DEF Changes, Underway, Waits, RowsLeft, Processing
  <2> QED  BY <1>1, <1>3, <1>4, <2>1, LocalKept
<1>5. ASSUME /\ UNCHANGED applying /\ e.table = "original"
             /\ \/ row' = row + 1
                \/ row' = Len(e.rows) + 1 /\ \A i \in row + 1 .. Len(e.rows) : e.rows[i].key # k
             /\ r.key # k => ghost'[k] = ghost[k]
             /\ r.key = k => ghost'[k] = Outcome(e, ghost[k]) /\ k \notin Pending
      PROVE  Local(k)'
  <2>1. /\ r.key = k => /\ Changes(k)' = Changes(k) \ {e}
                        /\ First(e, Changes(k))
        /\ r.key # k => Changes(k)' = Changes(k)
    BY <1>1, <1>2, <1>5, AppliedChanges
  <2>2. CASE r.key # k
    BY <1>1, <1>3, <1>5, <2>1, <2>2, LocalKept
  <2>3. CASE r.key = k
    <3>1. Copies(k) = {}
      BY <1>5, <2>3, CopiesTyped DEF ChangesInv, TypeInv
    <3>2. Changes(k) \subseteq Event /\ \A d \in Changes(k) : d.pos = e.pos => d = e
      BY <1>1, AppliedInTurn DEF Changes, ChangesInv
    <3>3. Converges(Changes(k) \ {e}, k, Outcome(e, ghost[k]), original[k], covered, {})
      BY <2>1, <2>3, <3>2, AppliedConverges DEF Local
    <3> QED  BY <1>1, <1>3, <1>5, <2>1, <2>3, <3>1, <3>3 DEF Local
  <2> QED  BY <2>2, <2>3
<1> DEFINE Left == {e.rows[i].key : i \in row + 1 .. Len(e.rows)}
           Failed(lost) ==
               /\ row' = IF batched THEN row ELSE Len(e.rows) + 1
               /\ spoiled' = spoiled \union Changed(ghost')
                                \union (IF batched THEN {} ELSE Left \union lost)
<1>6. /\ UNCHANGED applying
      /\ \/ /\ Succeeds(e, r) /\ ghost' = After(e, r) /\ row' = row + 1
            /\ spoiled' = spoiled \union ({r.key} \intersect Pending)
         \/ ~Succeeds(e, r) /\ ghost' = ghost /\ Failed({r.key} \intersect (IF alive THEN Pending ELSE Keys))
         \/ Failed({r.key})
  BY DEF ApplyDMLEvent
<1>7. CASE Succeeds(e, r) /\ ghost' = After(e, r) /\ row' = row + 1
           /\ spoiled' = spoiled \union ({r.key} \intersect Pending)
  <2>1. e.table = "original" /\ (e.dml = "insert" => ghost[r.key] = NoRow)
    BY <1>7 DEF Succeeds
  <2>2. r.value = Value(e)
    BY <1>2, <2>1 DEF Faithful
  <2>3. ghost \in [Keys -> Versions \union {NoRow}]
    BY DEF ChangesInv, TypeInv, StoreTyped, Table
  <2>4. r.key # k => ghost'[k] = ghost[k]
    BY <1>7, <2>3 DEF After
  <2>5. r.key = k => ghost'[k] = Outcome(e, ghost[k])
    BY <1>7, <2>1, <2>2, <2>3 DEF After, Outcome
  <2>6. r.key = k => k \notin Pending
    BY <1>7
  <2> QED  BY <1>5, <1>6, <1>7, <2>1, <2>4, <2>5, <2>6
<1>8. ASSUME NEW lost, Failed(lost),
             ~batched /\ r.key = k => k \in lost \/ (ghost[k] = Outcome(e, ghost[k]) /\ k \notin Pending)
      PROVE  Local(k)'
  <2>1. ghost'[k] = ghost[k]
    BY <1>8 DEF Changed
  <2>2. CASE batched
    BY <1>4, <1>6, <1>8, <2>1, <2>2
  <2>3. CASE ~batched
    <3>1. row' = Len(e.rows) + 1 /\ k \notin Left /\ k \notin lost
      BY <1>8, <2>3
    <3>2. \A i \in row + 1 .. Len(e.rows) : e.rows[i].key # k
      BY <3>1
    <3>3. r.key = k => ghost'[k] = Outcome(e, ghost[k]) /\ k \notin Pending
      BY <1>8, <2>1, <2>3, <3>1
    <3> QED  BY <1>1, <1>5, <1>6, <2>1, <2>3, <3>1, <3>2, <3>3
  <2> QED  BY <2>2, <2>3
<1>9. CASE ~Succeeds(e, r) /\ Failed({r.key} \intersect (IF alive THEN Pending ELSE Keys))
  <2>1. ~batched /\ alive /\ r.key = k => e.dml = "insert" /\ ghost[k] # NoRow
    BY <1>1, <1>9 DEF Succeeds
  <2>2. ~batched /\ alive /\ r.key = k => ghost[k] = Outcome(e, ghost[k])
    BY <2>1 DEF Outcome
  <2>3. r.key = k => \/ k \in {r.key} \intersect (IF alive THEN Pending ELSE Keys)
                     \/ alive /\ k \notin Pending
    OBVIOUS
  <2> QED  BY <1>8, <1>9, <2>2, <2>3
<1>10. CASE Failed({r.key})
  BY <1>8, <1>10
<1> HIDE DEF Failed
<1> QED  BY <1>6, <1>7, <1>9, <1>10

LEMMA LocalCopy ==
    ASSUME ChangesInv, NEW k \in Keys, Local(k), CopyRows \/ InsertRow, k \notin spoiled'
    PROVE  Local(k)'
<1>1. Changes(k)' = Changes(k)
  <2>1. UNCHANGED <<binlog, queue, applying, row>>
    BY DEF CopyRows, InsertRow, source, stream, events
  <2> QED  BY <2>1 DEF Changes, Underway, Waits, RowsLeft, Processing
<1>2. CASE CopyRows
  <2>1. PICK min \in Keys \union {0}, max \in Keys, limit \in ChunkSizes :
          \/ /\ \E s \in [1..Cardinality(Selected(min, max, limit)) -> Selected(min, max, limit)] :
                  chunk' = [i \in DOMAIN s |-> [key |-> s[i], value |-> original[s[i]]]]
             /\ UNCHANGED covered
          \/ /\ covered' = covered \union Selected(min, max, limit)
             /\ spoiled' = spoiled \union Selected(min, max, limit)
             /\ UNCHANGED chunk
    BY <1>2 DEF CopyRows
  <2>2. UNCHANGED <<ghost, original>>
    BY <1>2 DEF CopyRows, source
  <2>3. CASE UNCHANGED chunk
    <3>1. Copies(k)' = Copies(k)
      BY <2>3 DEF Copies
    <3>2. k \in covered' => k \in covered
      BY <2>1
    <3> QED  BY <1>1, <2>2, <3>1, <3>2, LocalKept
  <2>4. ASSUME NEW s \in [1..Cardinality(Selected(min, max, limit)) -> Selected(min, max, limit)],
               chunk' = [i \in DOMAIN s |-> [key |-> s[i], value |-> original[s[i]]]],
               UNCHANGED covered
        PROVE  Local(k)'
    <3> DEFINE n == Cardinality(Selected(min, max, limit))
    <3>1. n \in Nat /\ DOMAIN s = 1..n
      BY CopyChunk
    <3> HIDE DEF n
    <3>2. Len(chunk') = n
      BY <2>4, <3>1
    <3>3. \A i \in 1..Len(chunk') : chunk'[i].key = k => chunk'[i].value = original[k]
      BY <2>4, <3>1, <3>2
    <3>4. Copies(k)' \subseteq {original[k]}
      BY <3>3 DEF Copies
    <3> QED  BY <1>1, <2>2, <2>4, <3>4, LocalKept
  <2> QED  BY <2>1, <2>3, <2>4
<1>3. CASE InsertRow
  <2>1. chunk # <<>> /\ UNCHANGED original
    BY <1>3 DEF InsertRow, source
  <2>2. CASE /\ UNCHANGED covered /\ chunk' = <<>>
             /\ ghost' = ghost \/ spoiled' = spoiled \union Changed(ghost')
    <3>1. Copies(k)' = {}
      BY <2>2, CopiesTyped DEF ChangesInv, TypeInv
    <3>2. ghost'[k] = ghost[k]
      BY <2>2 DEF Changed
    <3> QED  BY <1>1, <2>1, <2>2, <3>1, <3>2, LocalKept
  <2>3. ASSUME /\ ghost[Head(chunk).key] = NoRow
               /\ ghost' = [ghost EXCEPT ![Head(chunk).key] = Head(chunk).value]
               /\ covered' = covered \union {Head(chunk).key} /\ chunk' = Tail(chunk)
        PROVE  Local(k)'
    <3>1. /\ Copies(k)' \subseteq Copies(k) /\ NoRow \notin Copies(k)
          /\ Head(chunk).value \in Copies(Head(chunk).key)
      BY <2>1, <2>3, CopiesTyped DEF ChangesInv, TypeInv
    <3>2. ghost \in [Keys -> Versions \union {NoRow}]
      BY DEF ChangesInv, TypeInv, StoreTyped, Table
    <3>3. CASE k # Head(chunk).key
      <4>1. ghost'[k] = ghost[k] /\ (k \in covered' => k \in covered)
        BY <2>3, <3>2, <3>3
      <4> QED  BY <1>1, <2>1, <3>1, <4>1, LocalKept
    <3>4. CASE k = Head(chunk).key
      <4>1. ghost'[k] = Head(chunk).value
        BY <2>3, <3>2, <3>4
      <4>2. Converges(Changes(k), k, Head(chunk).value, original[k], covered', Copies(k)')
        BY <3>1, <3>4, InsertedConverges DEF Local
      <4> QED  BY <1>1, <2>1, <4>1, <4>2 DEF Local
    <3> QED  BY <3>3, <3>4
  <2> QED  BY <1>3, <2>2, <2>3 DEF InsertRow
<1> QED  BY <1>2, <1>3

LEMMA NextGhost ==
    ASSUME ChangesInv, GhostInv, [Next]_vars
    PROVE  GhostInv'
<1> SUFFICES ASSUME NEW k \in Keys, k \notin spoiled' PROVE Local(k)'
  BY DEF GhostInv
<1>1. spoiled \subseteq spoiled'
  BY DEF Next, Write, WriteHeartbeat, HandleDMLEvent, StopStreamer, RunEventsApply, PopFor,
     ApplyDMLEvent, FinishEvent, ApplyBatch, BeginBatch, FinishBatchEntry, Commit, Rollback,
     RunRowCopy, CopyRows, InsertRow, SessionLost, CutOver, vars
<1>2. Local(k)
  BY <1>1 DEF GhostInv
<1>3. ASSUME Changes(k)' = Changes(k), UNCHANGED <<original, chunk, covered>>, ghost'[k] = ghost[k]
      PROVE  Local(k)'
  <2>1. Copies(k)' = Copies(k)
    BY <1>3 DEF Copies
  <2> QED  BY <1>2, <1>3, <2>1, LocalKept
<1>4. CASE WriteHeartbeat
  <2>1. PICK e \in Event :
            e.pos = writes + 1 /\ binlog' = Append(binlog, e) /\ e.table = "changelog"
    BY <1>4, HeartbeatAppends DEF ChangesInv, OrderInv
  <2>2. Changes(k)' = Changes(k)
    BY <1>4, <2>1, AddedChanges DEF WriteHeartbeat, stream, events
  <2> QED  BY <1>3, <1>4, <2>2 DEF WriteHeartbeat
<1>5. CASE HandleDMLEvent
  <2>1. UNCHANGED <<original, chunk, covered, ghost>>
    BY <1>5 DEF HandleDMLEvent
  <2> QED  BY <1>3, <1>5, <2>1, HandledChanges
<1>6. CASE PopFor \/ BeginBatch
  <2>1. UNCHANGED <<original, chunk, covered, ghost>>
    BY <1>6 DEF PopFor, BeginBatch, source
  <2> QED  BY <1>3, <1>6, <2>1, PoppedChanges
<1>7. CASE FinishEvent \/ FinishBatchEntry \/ Commit \/ Rollback
  <2>1. UNCHANGED <<original, chunk, covered>>
    BY <1>7 DEF FinishEvent, FinishBatchEntry, Commit, Rollback, source
  <2>2. ghost'[k] = ghost[k]
    BY <1>7 DEF FinishEvent, FinishBatchEntry, Commit, Rollback, Changed
  <2> QED  BY <1>3, <1>7, <2>1, <2>2, FinishedChanges, RolledBackChanges
<1>8. CASE SessionLost \/ StopStreamer \/ CutOver \/ UNCHANGED vars
  <2>1. UNCHANGED <<binlog, queue, applying, row, original, chunk, covered>>
    BY <1>8 DEF SessionLost, StopStreamer, CutOver, vars, source, stream, events
  <2>2. ghost'[k] = ghost[k]
    BY <1>8 DEF SessionLost, StopStreamer, CutOver, vars, Changed
  <2>3. Changes(k)' = Changes(k)
    BY <2>1 DEF Changes, Underway, Waits, RowsLeft, Processing
  <2> QED  BY <1>3, <2>1, <2>2, <2>3
<1> QED
  BY <1>2, <1>4, <1>5, <1>6, <1>7, <1>8, LocalWrite, LocalApply, LocalCopy
     DEF Next, RunEventsApply, ApplyBatch, RunRowCopy

\* What a stopped queue holds has been given up.
StoppedInv == ~streaming => KeysIn(queue) \subseteq spoiled

LEMMA NextStopped == StoppedInv /\ [Next]_vars => StoppedInv'
<1> SUFFICES ASSUME StoppedInv, [Next]_vars PROVE StoppedInv'
  OBVIOUS
<1> USE DEF StoppedInv, stream, KeysIn
<1>1. CASE UNCHANGED <<queue, streaming>> /\ spoiled \subseteq spoiled'
  BY <1>1
<1>2. CASE HandleDMLEvent \/ PopFor \/ BeginBatch
  BY <1>2 DEF HandleDMLEvent, PopFor, BeginBatch
<1>3. CASE StopStreamer
  BY <1>3 DEF StopStreamer
<1>4. CASE \/ \E s \in Statements : Write(s[1], s[2])
           \/ WriteHeartbeat \/ ApplyDMLEvent \/ FinishEvent \/ FinishBatchEntry \/ Commit
           \/ Rollback \/ CopyRows \/ InsertRow \/ SessionLost \/ CutOver \/ UNCHANGED vars
  <2>1. UNCHANGED <<queue, streaming>>
    BY <1>4 DEF Write, WriteHeartbeat, ApplyDMLEvent, FinishEvent, FinishBatchEntry, Commit,
                Rollback, CopyRows, InsertRow, SessionLost, CutOver, vars
  <2>2. spoiled \subseteq spoiled'
    BY <1>4 DEF Write, WriteHeartbeat, ApplyDMLEvent, FinishEvent, FinishBatchEntry, Commit,
                Rollback, CopyRows, InsertRow, SessionLost, CutOver, vars
  <2> QED  BY <1>1, <2>1, <2>2
<1> QED  BY <1>2, <1>3, <1>4 DEF Next, RunEventsApply, ApplyBatch, RunRowCopy

LEMMA InitGhost == Init => AllFaithful /\ GhostInv
<1> SUFFICES ASSUME Init PROVE AllFaithful /\ GhostInv
  OBVIOUS
<1>1. Underway = {}
  BY SetsOfSequences DEF Init, Underway
<1>2. \A k : Changes(k) = {} /\ Copies(k) = {}
  BY <1>1 DEF Init, Changes, Copies
<1>3. \A k \in Keys : ghost[k] = NoRow /\ k \notin covered
  BY DEF Init, Empty
<1>4. \A k \in Keys : Local(k)
  BY <1>2, <1>3 DEF Local, Converges, Consistent
<1> QED  BY <1>1, <1>4 DEF AllFaithful, GhostInv

(* Row copy and events converge although they meet in any order: when all  *)
(* events are through, a key that was copied holds the original's row, and *)
(* one that was not holds it or nothing, but for the keys of which a       *)
(* change was lost in a way that Applier names.                            *)
THEOREM GhostConverges == Spec => []GhostAgrees
<1>1. OrderInv /\ TypeInv /\ GhostInv /\ StoppedInv => GhostAgrees
  <2> SUFFICES ASSUME OrderInv, TypeInv, GhostInv, StoppedInv, Drained, NEW k \in Keys \ spoiled
               PROVE  ghost[k] = original[k] \/ (k \notin covered /\ ghost[k] = NoRow)
    BY DEF GhostAgrees
  <2>1. Underway = ToSet(queue) /\ (queue = <<>> \/ ~streaming)
    BY SetsOfSequences DEF Drained, Processing, Underway
  <2>2. \A e \in ToSet(queue) : ~Waits(e, k)
    <3>1. CASE queue = <<>>
      BY <3>1, SetsOfSequences
    <3>2. CASE ~streaming
      <4>1. \A e \in ToSet(queue) : k \notin KeysOf(e)
        BY <3>2 DEF StoppedInv, KeysIn
      <4> QED  BY <2>1, <4>1, WaitingKeys DEF TypeInv, ControlTyped
    <3> QED  BY <2>1, <3>1, <3>2
  <2>3. Changes(k) = {}
    BY <2>1, <2>2 DEF Changes
  <2> QED  BY <2>3 DEF GhostInv, Local, Converges, Settled
<1>2. OrderInv /\ TypeInv /\ AllFaithful /\ GhostInv /\ [Next]_vars => AllFaithful' /\ GhostInv'
  BY NextFaithful, NextGhost DEF ChangesInv
<1>3. Init => StoppedInv
  BY DEF Init, StoppedInv
<1> QED
  BY <1>1, <1>2, <1>3, NextStopped, InitGhost, InitInOrder, NextInOrder, InitTypes, NextTypes, PTL
     DEF Spec
=============================================================================
