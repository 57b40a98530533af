---------------------------- MODULE ValuesProofs ----------------------------
(* Theorems about Checkpoint and Timers, whatever the coordinates, rows    *)
(* and restarts, the intervals and the times the clock is set to; about    *)
(* the functions of Times, Coordinates, Options, RowEvents and Schema, for *)
(* every input; and about Spec of Values, for whatever inputs its          *)
(* assumptions admit.                                                      *)
EXTENDS Values, TextProofs

-----------------------------------------------------------------------------
(* The objects.  A behaviour of Values is one of each of them, of which at *)
(* most one takes steps.                                                   *)

LEMMA ObjectsStep == Spec => Check!Spec /\ Timer!Spec
<1>1. Init => Check!Init /\ Timer!Init
  BY DEF Init
<1>2. [Next]_vars => [Check!Next]_Check!vars
  BY DEF Next, vars, checkpoint, Check!vars
<1>3. [Next]_vars => [Timer!Next]_Timer!vars
  BY DEF Next, vars, timers, Timer!vars, Timer!time, Timer!limiter, Timer!timer, Timer!file
<1> QED  BY <1>1, <1>2, <1>3, PTL DEF Spec, Check!Spec, Timer!Spec

-----------------------------------------------------------------------------
(* Checkpoint.                                                             *)

\* Inductive with the coordinates that the state holds, which a row that
\* cannot be parsed leaves as they are.
ReadInv ==
    /\ coordinates \in (seen \intersect Coordinates) \union {Check!Invalid}
    /\ state.coordinates \in (seen \intersect Coordinates) \union {Check!Invalid}

LEMMA InitRead == Check!Init => ReadInv
<1>1. Check!NoState.coordinates = Check!Invalid
  BY DEF Check!NoState
<1> QED  BY <1>1 DEF Check!Init, ReadInv

LEMMA NextRead == ReadInv /\ [Check!Next]_Check!vars => ReadInv'
<1> SUFFICES ASSUME ReadInv, [Check!Next]_Check!vars PROVE ReadInv'
  OBVIOUS
<1>1. ASSUME NEW hint, NEW value, Check!WriteHint(hint, value)
      PROVE  ReadInv'
  BY <1>1 DEF Check!WriteHint, ReadInv
<1>2. CASE Check!ClearCheckpoint \/ Check!ConnectionChanges \/ UNCHANGED Check!vars
  BY <1>2 DEF Check!ClearCheckpoint, Check!ConnectionChanges, Check!vars, ReadInv
<1>3. CASE Check!ReadCheckpoint
  <2> DEFINE value == changelog[Len(changelog)].value
  <2>1. /\ seen' = seen \union {value} /\ coordinates' = coordinates
        /\ state'.coordinates = Check!Parse(value)
    BY <1>3 DEF Check!ReadCheckpoint
  <2>2. Check!Parse(value) \in (seen' \intersect Coordinates) \union {Check!Invalid}
    BY <2>1 DEF Check!Parse, ReadInv
  <2> QED  BY <2>1, <2>2 DEF ReadInv
<1>4. CASE Check!ResumeFromCheckpoint
  BY <1>4 DEF Check!ResumeFromCheckpoint, ReadInv
<1>5. CASE Check!Restart
  BY <1>5 DEF Check!Restart, Check!NoState, ReadInv
<1> QED
  BY <1>1, <1>2, <1>3, <1>4, <1>5 DEF Check!Next, Check!WriteCheckpoint

(* A process resumes only at coordinates that stood in a row it has read   *)
(* itself, or at the invalid ones.                                         *)
THEOREM ResumesAtARow == Spec => []ResumesFromARow
<1>1. ReadInv => ResumesFromARow
  BY DEF ReadInv, ResumesFromARow, Check!ResumesFromARow
<1> QED  BY <1>1, InitRead, NextRead, ObjectsStep, PTL DEF Check!Spec

-----------------------------------------------------------------------------
(* Timers.                                                                 *)

\* As long as nobody has set the clock, the times that have been taken from
\* it are as long ago as it says; and who waits for the limiter waits until
\* the interval is over.
ClockInv ==
    /\ now \in Nat /\ clock \in Int /\ Timer!Out = -1
    /\ proceeded \in Nat \union {Timer!Out} /\ began \in Nat
    /\ "limiter" \notin adjusted /\ proceeded # Timer!Out =>
          /\ last_execution \in Int /\ proceeded <= now
          /\ clock - last_execution = now - proceeded
          /\ wait # Timer!Out => wait \in Int /\ wait - proceeded >= Interval
    /\ "timer" \notin adjusted =>
          /\ deadline \in Int /\ started \in Nat
          /\ deadline - clock = Timeout - (now - started)

LEMMA InitClock == Timer!Init => ClockInv
BY TimesAssumption DEF Timer!Init, Timer!Out, ClockInv

LEMMA NextClock == ClockInv /\ [Timer!Next]_Timer!vars => ClockInv'
<1> SUFFICES ASSUME ClockInv, [Timer!Next]_Timer!vars PROVE ClockInv'
  OBVIOUS
<1> USE TimesAssumption DEF ClockInv, Timer!time, Timer!limiter, Timer!timer, Timer!file, Timer!Out
<1>1. CASE Timer!ShouldProceed
  BY <1>1 DEF Timer!ShouldProceed
<1>2. CASE Timer!BeginWait
  BY <1>2 DEF Timer!BeginWait, Timer!Elapsed
<1>3. CASE Timer!EndWait
  BY <1>3 DEF Timer!EndWait
<1>4. CASE Timer!Reset
  BY <1>4 DEF Timer!Reset
<1>5. CASE Timer!BeginFlagWait \/ Timer!PollFlag \/ Timer!FlagChanges \/ UNCHANGED Timer!vars
  BY <1>5 DEF Timer!BeginFlagWait, Timer!PollFlag, Timer!FlagChanges, Timer!vars
<1>6. CASE Timer!Tick
  BY <1>6 DEF Timer!Tick
<1>7. CASE Timer!SetClock
  BY <1>7 DEF Timer!SetClock
<1> QED  BY <1>1, <1>2, <1>3, <1>4, <1>5, <1>6, <1>7 DEF Timer!Next

\* Who is let through when the clock has not been set since the last one.
LEMMA LimiterLetsThrough ==
    ASSUME ClockInv, Timer!Next, proceeded' # proceeded, proceeded # Timer!Out,
           "limiter" \notin adjusted
    PROVE  proceeded' - proceeded >= Interval
<1> USE TimesAssumption DEF ClockInv, Timer!time, Timer!limiter, Timer!timer, Timer!file, Timer!Out
<1>1. CASE Timer!ShouldProceed
  BY <1>1 DEF Timer!ShouldProceed, Timer!Elapsed
<1>2. CASE Timer!EndWait
  BY <1>2 DEF Timer!EndWait
<1> QED
  BY <1>1, <1>2 DEF Timer!Next, Timer!BeginWait, Timer!Reset, Timer!BeginFlagWait,
     Timer!PollFlag, Timer!FlagChanges, Timer!Tick, Timer!SetClock

LEMMA DeadlineIsRight ==
    ASSUME ClockInv, "timer" \notin adjusted
    PROVE  /\ Timer!IsExpired <=> now - started >= Timeout
           /\ ~Timer!IsExpired => Timer!Remaining = Timeout - (now - started)
BY TimesAssumption DEF ClockInv, Timer!IsExpired, Timer!Remaining

LEMMA FlagWaitGivesUp ==
    ASSUME ClockInv, Timer!Next, poll # Timer!Out, given_up', poll' = Timer!Out
    PROVE  now - began >= Timeout
<1> USE DEF Timer!time, Timer!limiter, Timer!timer, Timer!file
<1>1. CASE Timer!PollFlag
  BY <1>1 DEF Timer!PollFlag
<1> QED
  BY <1>1 DEF Timer!Next, Timer!ShouldProceed, Timer!BeginWait, Timer!EndWait, Timer!Reset,
     Timer!BeginFlagWait, Timer!FlagChanges, Timer!Tick, Timer!SetClock

(* While nobody sets the clock, the limiter keeps its interval between two *)
(* calls that it lets through, the deadline is over exactly when its time  *)
(* is, and the wait for a file gives up only after its time: for every     *)
(* interval and timeout.                                                   *)
THEOREM TimesAreKept == Spec => TimersKeepTime
<1> DEFINE Keeps ==
        /\ proceeded' # proceeded /\ proceeded # Timer!Out /\ "limiter" \notin adjusted
             => proceeded' - proceeded >= Interval
        /\ "timer" \notin adjusted =>
             /\ Timer!IsExpired <=> now - started >= Timeout
             /\ ~Timer!IsExpired => Timer!Remaining = Timeout - (now - started)
        /\ poll # Timer!Out /\ given_up' /\ poll' = Timer!Out => now - began >= Timeout
<1>1. ClockInv /\ [Timer!Next]_Timer!vars => [Keeps]_Timer!vars
  BY LimiterLetsThrough, DeadlineIsRight, FlagWaitGivesUp
<1>2. []ClockInv /\ [][Timer!Next]_Timer!vars => [][Keeps]_Timer!vars
  BY <1>1, PTL
<1>3. Timer!Spec => []ClockInv
  BY InitClock, NextClock, PTL DEF Timer!Spec
<1> QED  BY <1>2, <1>3, ObjectsStep DEF Timer!Spec, TimersKeepTime, Timer!TimersKeepTime

-----------------------------------------------------------------------------
(* Times.                                                                  *)

(* Every time comes back from its texts as far as they hold it, in every   *)
(* zone, but later by what daylight saving added to the local time, and    *)
(* from ISO 8601 in UTC only where standard time is UTC.                   *)
THEOREM TimesComeBack ==
    ASSUME NEW time \in [seconds : Nat, micros : Tim!Micros], NEW zone \in Int, NEW saving \in Int
    PROVE  Tim!TimesReadBack(time, zone, saving)
<1>3. 10^6 = 1000000
  BY SMT
<1>1. /\ time.seconds \in Nat /\ time.micros \in Nat /\ time.micros < 1000000
      /\ time = [seconds |-> time.seconds, micros |-> time.micros]
  <2>1. /\ time.seconds \in Nat /\ time.micros \in Tim!Micros
        /\ time = [seconds |-> time.seconds, micros |-> time.micros]
    OBVIOUS
  <2>2. \A n \in Tim!Micros : n \in Nat /\ n < 1000000
    BY <1>3, SMT DEF Tim!Micros
  <2> QED  BY <2>1, <2>2, SMT
<1> DEFINE whole == [seconds |-> time.seconds, micros |-> 0]
           Later(t) == [t EXCEPT !.seconds = @ + saving]
<1>2. /\ [time EXCEPT !.micros = 0] = whole
      /\ Later(whole) = [seconds |-> time.seconds + saving, micros |-> 0]
      /\ Later(time) = [seconds |-> time.seconds + saving, micros |-> time.micros]
  BY <1>1, SMT
<1>4. /\ time.micros \div 10^6 = 0 /\ time.micros % 10^6 = time.micros
      /\ 0 \div 10^6 = 0 /\ 0 % 10^6 = 0
  BY <1>1, <1>3, SMT
<1> USE DEF Tim!Stamp, Tim!Fraction, Tim!NoFraction, Tim!Local
<1>5. Tim!ParseMySQLDateTime(Tim!FormatMySQLTimestampWithMicros(time, zone, saving), zone) = Later(time)
  BY <1>1, <1>2, <1>4 DEF Tim!ParseMySQLDateTime, Tim!FormatMySQLTimestampWithMicros
<1>6. Tim!ParseMySQLDateTime(Tim!FormatMySQLTimestamp(time, zone, saving), zone) = Later(whole)
  BY <1>1, <1>2, <1>4 DEF Tim!ParseMySQLDateTime, Tim!FormatMySQLTimestamp
<1>7. /\ Tim!ParseISO8601(Tim!FormatISO8601(time, zone, saving), zone) = Later(whole)
      /\ Tim!ParseISO8601(Tim!FormatISO8601WithMillis(time, zone, saving), zone) = Later(whole)
  BY <1>1, <1>2 DEF Tim!ParseISO8601, Tim!FormatISO8601, Tim!FormatISO8601WithMillis
<1>8. Tim!ParseISO8601(Tim!FormatISO8601UTC(time), zone) = whole <=> zone = 0
  BY <1>1 DEF Tim!ParseISO8601, Tim!FormatISO8601UTC
<1> QED
  BY <1>2, <1>5, <1>6, <1>7, <1>8, Zenon DEF Tim!TimesReadBack

-----------------------------------------------------------------------------
(* Coordinates.                                                            *)

LEMMA ParsedIsANumber ==
    ASSUME NEW s
    PROVE  Place!OrZero(Place!ParseUInt(s, Wide)) \in Nat
<1>1. \A d : d \in DOMAIN Value => Value[d] \in Nat
  BY NumeralsAssumption
<1>2. \A d : d \in DOMAIN Value =>
        Value[d] % Wide \in Nat /\ ((Wide - Value[d]) % Wide) % Wide \in Nat
  BY <1>1, NumeralsAssumption
<1>3. Place!ParseUInt(s, Wide) \in Nat \union {Place!None}
  BY <1>2 DEF Place!ParseUInt
<1> QED
  BY <1>3 DEF Place!OrZero, Place!None

LEMMA SequenceIsANumber ==
    ASSUME NEW file
    PROVE  Place!ParseSequence(file) \in Nat
BY ParsedIsANumber DEF Place!ParseSequence

(* For coordinates of one server, whose files are told apart by their      *)
(* numbers, the operators are one total order, that of the files first:    *)
(* whatever the names, numbers and positions.                              *)
THEOREM CoordinatesAreATotalOrder ==
    ASSUME NEW Files, NEW a \in [file : Files, position : Nat],
           NEW b \in [file : Files, position : Nat], NEW c \in [file : Files, position : Nat],
           \A f, g \in Files : Place!ParseSequence(f) = Place!ParseSequence(g) => f = g
    PROVE  Place!CoordinatesAreOrdered(a, b, c)
<1> DEFINE seq(x) == Place!ParseSequence(x.file)
<1>1. /\ seq(a) \in Nat /\ seq(b) \in Nat /\ seq(c) \in Nat
      /\ a.position \in Nat /\ b.position \in Nat /\ c.position \in Nat
  BY SequenceIsANumber
<1>2. a = b <=> seq(a) = seq(b) /\ a.position = b.position
  <2>1. a = [file |-> a.file, position |-> a.position]
        /\ b = [file |-> b.file, position |-> b.position]
    OBVIOUS
  <2>2. a.file \in Files /\ b.file \in Files
    OBVIOUS
  <2> QED  BY <2>1, <2>2
<1>3. /\ ~Place!Less(a, a)
      /\ Place!Less(a, b) /\ Place!Less(b, c) => Place!Less(a, c)
  BY <1>1 DEF Place!Less
<1>4. Place!Less(a, b) <=> ~Place!Less(b, a) /\ a # b
  BY <1>1, <1>2 DEF Place!Less
<1>5. Place!IsLaterFile(a, b) => Place!Greater(a, b)
  BY <1>1, <1>2 DEF Place!Less, Place!LessEqual, Place!Greater, Place!IsLaterFile
<1>6. ASSUME Place!LessEqual(a, b)
      PROVE  Place!LessEqual(Place!GetCurrentBinlogCoordinates(a, b), b)
  <2>1. CASE seq(a) = seq(b)
    <3>1. a.file = b.file /\ b = [file |-> b.file, position |-> b.position]
      BY <2>1
    <3> QED  BY <3>1 DEF Place!GetCurrentBinlogCoordinates, Place!At, Place!LessEqual
  <2>2. CASE seq(a) # seq(b)
    <3>1. seq(a) < seq(b)
      BY <1>1, <1>2, <1>6, <2>2 DEF Place!Less, Place!LessEqual
    <3> QED  BY <1>1, <3>1
                DEF Place!GetCurrentBinlogCoordinates, Place!At, Place!Less, Place!LessEqual
  <2> QED  BY <2>1, <2>2
<1> QED
  BY <1>3, <1>4, <1>5, <1>6
     DEF Place!CoordinatesAreOrdered, Place!LessEqual, Place!Greater, Place!GreaterEqual

-----------------------------------------------------------------------------
(* Sets of GTIDs.                                                          *)

GTIDs(Domains) == [domain : Domains, sequence : Nat]

\* The sequences that hold one GTID of a domain, each a valid one.
OneOfEach(gtids) ==
    /\ \A i \in 1..Len(gtids) : Place!IsValidGTID(gtids[i])
    /\ \A i, j \in 1..Len(gtids) : gtids[i].domain = gtids[j].domain => i = j

LEMMA AddKeepsNewest ==
    ASSUME NEW Domains, NEW gtids \in Seq(GTIDs(Domains)),
           OneOfEach(gtids), NEW g \in GTIDs(Domains)
    PROVE  /\ Place!Add(gtids, g) \in Seq(GTIDs(Domains))
           /\ OneOfEach(Place!Add(gtids, g))
           /\ \A h \in GTIDs(Domains) :
                Place!Contains(Place!Add(gtids, g), h) <=>
                    \/ Place!Contains(gtids, h)
                    \/ Place!IsValidGTID(g) /\ g.domain = h.domain /\ g.sequence >= h.sequence
<1> DEFINE G == GTIDs(Domains)
           at == {i \in 1..Len(gtids) : gtids[i].domain = g.domain}
<1>1. /\ \A i \in 1..Len(gtids) : gtids[i] \in G /\ gtids[i].sequence \in Nat
      /\ g.sequence \in Nat
  <2>1. \A h \in G : h.sequence \in Nat
    BY DEF GTIDs
  <2> QED  BY <2>1
<1>2. CASE ~Place!IsValidGTID(g)
  BY <1>2 DEF Place!Add
<1>3. CASE Place!IsValidGTID(g) /\ at = {}
  <2> DEFINE new == Append(gtids, g)
  <2>1. Place!Add(gtids, g) = new
    BY <1>3 DEF Place!Add
  <2>2. /\ new \in Seq(G) /\ Len(new) = Len(gtids) + 1 /\ new[Len(gtids) + 1] = g
        /\ \A i \in 1..Len(gtids) : new[i] = gtids[i] /\ new[i].domain # g.domain
    BY <1>3
  <2>3. OneOfEach(new)
    <3> HIDE DEF new
    <3>1. 1..Len(new) = 1..Len(gtids) \union {Len(gtids) + 1}
      BY <2>2
    <3>2. Len(gtids) + 1 \notin 1..Len(gtids)
      OBVIOUS
    <3> QED  BY <1>3, <2>2, <3>1, <3>2 DEF OneOfEach
  <2>4. ASSUME NEW h \in G
        PROVE  Place!Contains(new, h) <=>
                 Place!Contains(gtids, h) \/ (g.domain = h.domain /\ g.sequence >= h.sequence)
    <3> HIDE DEF new
    <3>1. 1..Len(new) = 1..Len(gtids) \union {Len(gtids) + 1}
      BY <2>2
    <3> QED  BY <2>2, <3>1 DEF Place!Contains
  <2> QED  BY <1>3, <2>1, <2>2, <2>3, <2>4
<1>4. CASE Place!IsValidGTID(g) /\ at # {}
  <2>1. PICK k \in 1..Len(gtids) : gtids[k].domain = g.domain
    BY <1>4
  <2>2. at = {k}
    BY <2>1 DEF OneOfEach
  <2>3. Place!Least(at) = k
    BY <2>2 DEF Place!Least
  <2>4. CASE gtids[k].sequence < g.sequence
    <3> DEFINE new == [gtids EXCEPT ![k] = g]
    <3>1. Place!Add(gtids, g) = new
      BY <1>4, <2>3, <2>4 DEF Place!Add
    <3>2. /\ new \in Seq(G) /\ Len(new) = Len(gtids) /\ new[k] = g
          /\ \A i \in 1..Len(gtids) : i # k => new[i] = gtids[i]
      OBVIOUS
    <3> HIDE DEF new
    <3>3. OneOfEach(new)
      BY <1>4, <2>1, <3>2 DEF OneOfEach
    <3>4. ASSUME NEW h \in G
          PROVE  Place!Contains(new, h) <=>
                   Place!Contains(gtids, h) \/ (g.domain = h.domain /\ g.sequence >= h.sequence)
      <4>1. h.sequence \in Nat
        BY DEF GTIDs
      <4>2. ASSUME Place!Contains(gtids, h)
            PROVE  Place!Contains(new, h)
        <5>1. PICK i \in 1..Len(gtids) : gtids[i].domain = h.domain /\ gtids[i].sequence >= h.sequence
          BY <4>2 DEF Place!Contains
        <5>2. i = k => new[i].domain = h.domain /\ new[i].sequence >= h.sequence
          BY <1>1, <2>1, <2>4, <3>2, <4>1, <5>1
        <5> QED  BY <3>2, <5>1, <5>2 DEF Place!Contains
      <4>3. ASSUME g.domain = h.domain, g.sequence >= h.sequence
            PROVE  Place!Contains(new, h)
        BY <3>2, <4>3 DEF Place!Contains
      <4>4. ASSUME Place!Contains(new, h)
            PROVE  Place!Contains(gtids, h) \/ (g.domain = h.domain /\ g.sequence >= h.sequence)
        BY <3>2, <4>4 DEF Place!Contains
      <4> QED  BY <4>2, <4>3, <4>4
    <3> QED  BY <1>4, <3>1, <3>2, <3>3, <3>4
  <2>5. CASE ~(gtids[k].sequence < g.sequence)
    <3>1. Place!Add(gtids, g) = gtids
      BY <1>4, <2>3, <2>5 DEF Place!Add
    <3>2. ASSUME NEW h \in G, g.domain = h.domain, g.sequence >= h.sequence
          PROVE  Place!Contains(gtids, h)
      <4>1. h.sequence \in Nat
        BY DEF GTIDs
      <4>2. gtids[k].sequence >= h.sequence
        BY <1>1, <2>5, <3>2, <4>1
      <4> QED  BY <2>1, <3>2, <4>2 DEF Place!Contains
    <3> QED  BY <3>1, <3>2
  <2> QED  BY <2>4, <2>5
<1> QED  BY <1>2, <1>3, <1>4

\* Adding one after the other, as a function of how many.
LEMMA AddedOneByOne ==
    ASSUME NEW X, <<>> \in X, NEW gs, NEW n \in Nat, n = Len(gs),
           \A i \in 1..n : \A s \in X : Place!Add(s, gs[i]) \in X
    PROVE  \E F \in [0..n -> X] :
              F[0] = <<>> /\ \A i \in 1..n : F[i] = Place!Add(F[i - 1], gs[i])
<1>1. PICK step : step = [i \in 1..n |-> [s \in X |-> Place!Add(s, gs[i])]]
  OBVIOUS
<1>2. step \in [1..n -> [X -> X]]
  BY <1>1
<1>3. PICK F \in [0..n -> X] : F[0] = <<>> /\ \A i \in 1..n : F[i] = step[i][F[i - 1]]
  <2>1. PICK first \in X : first = <<>>
    OBVIOUS
  <2>2. \E F \in [0..n -> X] : F[0] = first /\ \A i \in 1..n : F[i] = step[i][F[i - 1]]
    <3>1. first \in X /\ n \in Nat
      OBVIOUS
    <3> QED  BY ONLY <1>2, <3>1, Iteration
  <2> QED  BY <2>1, <2>2
<1>4. ASSUME NEW i \in 1..n PROVE F[i] = Place!Add(F[i - 1], gs[i])
  <2>1. F[i - 1] \in X
    OBVIOUS
  <2> QED  BY <1>1, <1>3, <2>1
<1> QED  BY <1>3, <1>4

LEMMA AddAllIsThat ==
    ASSUME NEW added, NEW n \in Nat, n = Len(added), NEW H, H = [i \in 0..n |-> H[i]],
           H[0] = <<>>, \A i \in 1..n : H[i] = Place!Add(H[i - 1], added[i])
    PROVE  \E F : /\ F[0] = <<>> /\ \A i \in 1..n : F[i] = Place!Add(F[i - 1], added[i])
                  /\ Place!AddAll(<<>>, added) = F[n]
<1> DEFINE F == CHOOSE F : F = [i \in 0..n |-> IF i = 0 THEN <<>> ELSE Place!Add(F[i - 1], added[i])]
<1>1. H = [i \in 0..n |-> IF i = 0 THEN <<>> ELSE Place!Add(H[i - 1], added[i])]
  <2>1. \A i \in 0..n : H[i] = IF i = 0 THEN <<>> ELSE Place!Add(H[i - 1], added[i])
    OBVIOUS
  <2> QED  BY <2>1
<1>2. F = [i \in 0..n |-> IF i = 0 THEN <<>> ELSE Place!Add(F[i - 1], added[i])]
  BY <1>1
<1>3. Place!AddAll(<<>>, added) = F[n]
  BY DEF Place!AddAll
<1> HIDE DEF F
<1>4. F[0] = <<>> /\ \A i \in 1..n : F[i] = Place!Add(F[i - 1], added[i])
  BY <1>2
<1> QED  BY <1>3, <1>4

(* However many GTIDs are added to a set, of whatever domains and in       *)
(* whatever order, it contains afterwards exactly what is no newer than a  *)
(* valid one of the same domain among them: GTIDSet::Add replaces only by  *)
(* a newer one and keeps one of each domain.                               *)
THEOREM SetContainsTheNewest ==
    ASSUME NEW Domains, NEW added \in Seq(GTIDs(Domains)),
           NEW g \in GTIDs(Domains)
    PROVE  Place!ContainsNewest(added, g)
<1> DEFINE G == GTIDs(Domains)
           X == {s \in Seq(G) : OneOfEach(s)}
           Has(i, h) == \E j \in 1..i : /\ Place!IsValidGTID(added[j]) /\ added[j].domain = h.domain
                                        /\ added[j].sequence >= h.sequence
<1>1. PICK n \in Nat : n = Len(added)
  OBVIOUS
<1>2. \A i \in 1..n : added[i] \in G
  BY <1>1
<1>3. <<>> \in X
  BY DEF OneOfEach
<1>4. \A i \in 1..n : \A s \in X : Place!Add(s, added[i]) \in X
  <2> SUFFICES ASSUME NEW i \in 1..n, NEW s \in X PROVE Place!Add(s, added[i]) \in X
    OBVIOUS
  <2>1. added[i] \in G /\ s \in Seq(G) /\ OneOfEach(s)
    BY <1>2
  <2> QED  BY <2>1, AddKeepsNewest
<1>5. PICK F : /\ F[0] = <<>> /\ \A i \in 1..n : F[i] = Place!Add(F[i - 1], added[i])
               /\ Place!AddAll(<<>>, added) = F[n]
  <2> HIDE DEF X
  <2>1. PICK H \in [0..n -> X] :
            H[0] = <<>> /\ \A i \in 1..n : H[i] = Place!Add(H[i - 1], added[i])
    <3>1. PICK Y : Y = X
      OBVIOUS
    <3>2. /\ <<>> \in Y /\ n \in Nat /\ n = Len(added)
          /\ \A i \in 1..n : \A s \in Y : Place!Add(s, added[i]) \in Y
      BY <1>1, <1>3, <1>4, <3>1
    <3>3. \E H \in [0..n -> Y] :
            H[0] = <<>> /\ \A i \in 1..n : H[i] = Place!Add(H[i - 1], added[i])
      BY ONLY <3>2, AddedOneByOne, SMTT(20)
    <3> QED  BY <3>1, <3>3
  <2>2. H = [i \in 0..n |-> H[i]]
    OBVIOUS
  <2> QED  BY <1>1, <2>1, <2>2, AddAllIsThat
<1> DEFINE P == {i \in 0..n : F[i] \in X /\ \A h \in G : Place!Contains(F[i], h) <=> Has(i, h)}
<1>6. 0 \in P
  <2>1. \A h \in G : ~Place!Contains(<<>>, h) /\ ~Has(0, h)
    BY DEF Place!Contains
  <2> HIDE DEF X, Has
  <2> QED  BY <1>3, <1>5, <2>1
<1>7. ASSUME NEW i \in 1..n, i - 1 \in P
      PROVE  i \in P
  <2>1. F[i] = Place!Add(F[i - 1], added[i]) /\ added[i] \in G
    BY <1>2, <1>5
  <2>2. F[i - 1] \in Seq(G) /\ OneOfEach(F[i - 1])
    BY <1>7
  <2>3. F[i] \in X
    <3> HIDE DEF P
    <3> QED  BY <2>1, <2>2, AddKeepsNewest
  <2>4. PICK s \in Seq(G) : s = F[i - 1]
    BY <2>2
  <2>5. \A h \in G : Place!Contains(Place!Add(s, added[i]), h) <=>
            \/ Place!Contains(s, h)
            \/ Place!IsValidGTID(added[i]) /\ added[i].domain = h.domain
                 /\ added[i].sequence >= h.sequence
    BY <2>1, <2>2, <2>4, AddKeepsNewest
  <2>6. \A h \in G : Place!Contains(s, h) <=> Has(i - 1, h)
    BY <1>7, <2>4
  <2>7. \A h \in G : Has(i, h) <=>
            \/ Has(i - 1, h)
            \/ Place!IsValidGTID(added[i]) /\ added[i].domain = h.domain
                 /\ added[i].sequence >= h.sequence
    <3>1. 1..i = 1..(i - 1) \union {i}
      OBVIOUS
    <3> QED  BY <3>1
  <2>8. \A h \in G : Place!Contains(F[i], h) <=> Has(i, h)
    <3> HIDE DEF Has, X, P, G
    <3> QED  BY <2>1, <2>4, <2>5, <2>6, <2>7
  <2> HIDE DEF Has, X, G
  <2> QED  BY <2>3, <2>8
<1>8. n \in P
  <2> HIDE DEF P
  <2>1. 0..n \subseteq P
    BY <1>6, <1>7, Induction
  <2> QED  BY <2>1
<1>9. Place!Contains(F[n], g) <=> Has(n, g)
  BY <1>8
<1> QED  BY <1>1, <1>5, <1>9 DEF Place!ContainsNewest

-----------------------------------------------------------------------------
(* The command line.                                                       *)

ConfigOf(args) ==
    [connections |-> Opt!Connections(args), mode |-> Opt!Mode(args), flags |-> Opt!Flags(args),
     tables |-> Opt!TableOptions(args), throttle |-> Opt!ThrottleOptions(args),
     cut_over |-> Opt!CutOverOptions(args), hooks |-> Opt!HookOptions(args),
     output |-> Opt!OutputOptions(args)]
Refused(args) ==
    args["unknown"] # "absent" \/ Opt!Counted(args, "help") \/ Opt!Counted(args, "version")

\* What is parsed, and what main makes of it.
LEMMA ParsedConfig ==
    ASSUME NEW args
    PROVE  /\ Opt!ParseCommandLine(args) = {} <=> Refused(args)
           /\ ~Refused(args) => (CHOOSE c \in Opt!ParseCommandLine(args) : TRUE) = ConfigOf(args)
BY DEF Opt!ParseCommandLine, Refused, ConfigOf

LEMMA ConfigFields ==
    ASSUME NEW args
    PROVE  /\ ConfigOf(args).mode = Opt!Mode(args)
           /\ ConfigOf(args).flags.execute = Opt!Given(args, "execute", "false")
           /\ ConfigOf(args).flags.allow_on_master = Opt!Given(args, "allow-on-master", "false")
           /\ ConfigOf(args).connections.master.host = Opt!Given(args, "host", "")
           /\ ConfigOf(args).connections.replica.host = Opt!Given(args, "replica-host", "")
           /\ ConfigOf(args).tables.database = Opt!Given(args, "database", "")
           /\ ConfigOf(args).tables.table = Opt!Given(args, "table", "")
           /\ ConfigOf(args).tables.alter = Opt!Given(args, "alter", "")
BY DEF ConfigOf, Opt!Flags, Opt!Connections, Opt!TableOptions

LEMMA ErrorsOf ==
    ASSUME NEW args
    PROVE  Opt!Errors(ConfigOf(args)) # {} <=>
             \/ Opt!Given(args, "host", "") = "" /\ Opt!Given(args, "replica-host", "") = ""
             \/ \E option \in {"database", "table", "alter"} : Opt!Given(args, option, "") = ""
<1> DEFINE config == ConfigOf(args)
<1>1. \A option \in {"database", "table", "alter"} : config.tables[option] = Opt!Given(args, option, "")
  BY ConfigFields
<1> HIDE DEF config
<1>2. Opt!Errors(config) # {} <=>
             \/ config.connections.master.host = "" /\ config.connections.replica.host = ""
             \/ \E option \in {"database", "table", "alter"} : config.tables[option] = ""
  BY DEF Opt!Errors
<1> QED  BY <1>1, <1>2, ConfigFields DEF config

LEMMA MainOf ==
    ASSUME NEW args
    PROVE  /\ Opt!Main(args).started <=>
                /\ ~Refused(args) /\ Opt!Errors(ConfigOf(args)) = {}
                /\ Opt!Given(args, "execute", "false") = "true"
           /\ Opt!Main(args).started \in BOOLEAN
           /\ Opt!Main(args).code = 1 => ~Refused(args)
<1> HIDE DEF ConfigOf, Refused
<1>1. CASE Refused(args)
  <2>1. Opt!Main(args) = [code |-> 0, started |-> FALSE]
    BY <1>1, ParsedConfig DEF Opt!Main
  <2> QED  BY <1>1, <2>1
<1>2. CASE ~Refused(args) /\ Opt!Errors(ConfigOf(args)) # {}
  <2>1. Opt!Main(args) = [code |-> 1, started |-> FALSE]
    BY <1>2, ParsedConfig DEF Opt!Main
  <2> QED  BY <1>2, <2>1
<1>3. CASE ~Refused(args) /\ Opt!Errors(ConfigOf(args)) = {}
  <2>1. Opt!Main(args) = [code |-> 0, started |-> Opt!Given(args, "execute", "false") = "true"]
    BY <1>3, ParsedConfig, ConfigFields DEF Opt!Main
  <2>2. /\ Opt!Main(args).code = 0
        /\ Opt!Main(args).started = (Opt!Given(args, "execute", "false") = "true")
    <3>1. PICK goes : goes = (Opt!Given(args, "execute", "false") = "true")
      OBVIOUS
    <3>2. Opt!Main(args) = [code |-> 0, started |-> goes]
      BY <2>1, <3>1
    <3> QED  BY <3>1, <3>2
  <2>3. Opt!Main(args).code # 1
    BY <2>2, 0 # 1, Zenon
  <2> QED  BY <1>3, <2>2, <2>3, Zenon
<1> QED  BY <1>1, <1>2, <1>3

(* For every command line, with any further options and any texts as       *)
(* values: main starts a migration only when --execute, a database, a      *)
(* table, an ALTER and a host were given and nothing was refused, on the   *)
(* master only with --allow-on-master and no replica, and --noop makes no  *)
(* difference.                                                             *)
THEOREM ModesAreFollowed ==
    ASSUME NEW Options, {"noop", "execute", "unknown", "help", "version", "host", "replica-host",
                         "database", "table", "alter", "allow-on-master"} \subseteq Options,
           NEW args \in [Options -> STRING]
    PROVE  Opt!ModesFollowOptions(args)
<1> DEFINE noop == [args EXCEPT !["noop"] = "true"]
           main == Opt!Main(args)
           Used == {"execute", "unknown", "help", "version", "host", "replica-host",
                         "database", "table", "alter"}
<1>1. main.started =>
        /\ args["execute"] = "true"
        /\ \A option \in {"database", "table", "alter"} : args[option] \notin {"absent", ""}
        /\ {args["host"], args["replica-host"]} \ {"absent", ""} # {}
        /\ ~Refused(args)
  BY MainOf, ErrorsOf DEF Opt!Given, Opt!Counted
<1>2. ASSUME ~Refused(args)
      PROVE  LET config == CHOOSE c \in Opt!ParseCommandLine(args) : TRUE IN
             /\ config.mode = "OnMaster" =>
                /\ config.connections.replica.host = "" /\ Opt!Counted(args, "allow-on-master")
                /\ Opt!Warned(config) <=> args["allow-on-master"] = "false"
             /\ config.mode = "TestOnReplica" => ~Opt!Counted(args, "migrate-on-replica")
  <2> SUFFICES 
             /\ ConfigOf(args).mode = "OnMaster" =>
                /\ ConfigOf(args).connections.replica.host = "" /\ Opt!Counted(args, "allow-on-master")
                /\ Opt!Warned(ConfigOf(args)) <=> args["allow-on-master"] = "false"
             /\ ConfigOf(args).mode = "TestOnReplica" => ~Opt!Counted(args, "migrate-on-replica")
    BY <1>2, ParsedConfig
  <2> QED  BY ConfigFields DEF Opt!Mode, Opt!Warned, Opt!Given, Opt!Counted
<1>3. Opt!Main(noop).started = main.started
  <2>1. \A option \in Used : noop[option] = args[option]
    OBVIOUS
  <2> HIDE DEF noop, main
  <2>2. /\ Refused(noop) <=> Refused(args)
        /\ \A option \in Used : \A default :
              Opt!Given(noop, option, default) = Opt!Given(args, option, default)
    BY <2>1 DEF Refused, Opt!Counted, Opt!Given
  <2>3. Opt!Errors(ConfigOf(noop)) = {} <=> Opt!Errors(ConfigOf(args)) = {}
    <3>1. Opt!Errors(ConfigOf(noop)) # {} <=>
             \/ Opt!Given(args, "host", "") = "" /\ Opt!Given(args, "replica-host", "") = ""
             \/ \E option \in {"database", "table", "alter"} : Opt!Given(args, option, "") = ""
      <4>1. \A option \in {"host", "replica-host", "database", "table", "alter"} :
                Opt!Given(noop, option, "") = Opt!Given(args, option, "")
        BY <2>2
      <4>2. Opt!Errors(ConfigOf(noop)) # {} <=>
             \/ Opt!Given(noop, "host", "") = "" /\ Opt!Given(noop, "replica-host", "") = ""
             \/ \E option \in {"database", "table", "alter"} : Opt!Given(noop, option, "") = ""
        BY ErrorsOf
      <4> QED  BY <4>1, <4>2
    <3> QED  BY <3>1, ErrorsOf
  <2>4. Opt!Given(noop, "execute", "false") = Opt!Given(args, "execute", "false")
    BY <2>2
  <2>5. Opt!Main(noop).started <=> Opt!Main(args).started
    BY <2>2, <2>3, <2>4, MainOf, Zenon
  <2> QED  BY <2>5, MainOf, Zenon DEF main
<1>4. main.code = 1 => args["unknown"] = "absent"
  BY MainOf DEF Refused
<1> QED
  BY <1>1, <1>2, <1>3, <1>4 DEF Opt!ModesFollowOptions, Refused

-----------------------------------------------------------------------------
(* What becomes of each option.                                            *)

\* An option that is read and forgotten changes nothing.
LEMMA IgnoredIsForgotten ==
    ASSUME NEW args \in [Opt!AllOptions -> STRING], NEW option \in Opt!Ignored, NEW value
    PROVE  Opt!ParseCommandLine([args EXCEPT ![option] = value]) = Opt!ParseCommandLine(args)
<1> DEFINE new == [args EXCEPT ![option] = value]
<1>1. \A o \in Opt!AllOptions \ Opt!Ignored : new[o] = args[o]
  OBVIOUS
<1> HIDE DEF new
<1>2. \A o \in Opt!AllOptions \ Opt!Ignored :
        /\ Opt!Counted(new, o) <=> Opt!Counted(args, o)
        /\ \A d : Opt!Given(new, o, d) = Opt!Given(args, o, d)
  BY <1>1 DEF Opt!Counted, Opt!Given
<1>3. Opt!Connections(new) = Opt!Connections(args)
  <2>1. [file \in {"ssl-ca", "ssl-cert", "ssl-key"} |-> Opt!Given(new, file, "")]
          = [file \in {"ssl-ca", "ssl-cert", "ssl-key"} |-> Opt!Given(args, file, "")]
    BY <1>2, ZenonT(40) DEF Opt!AllOptions, Opt!Ignored
  <2>2. \A o \in {"host", "port", "user", "password", "ssl", "replica-host", "replica-port",
                  "replica-user", "replica-password"} :
          \A d : Opt!Given(new, o, d) = Opt!Given(args, o, d)
    BY <1>2 DEF Opt!AllOptions, Opt!Ignored
  <2> QED  BY <2>1, <2>2 DEF Opt!Connections
<1>4. Opt!Mode(new) = Opt!Mode(args)
  BY <1>2 DEF Opt!Mode, Opt!AllOptions, Opt!Ignored
<1>5. Opt!Flags(new) = Opt!Flags(args)
  BY <1>2 DEF Opt!Flags, Opt!AllOptions, Opt!Ignored
<1>6. Opt!TableOptions(new) = Opt!TableOptions(args)
  BY <1>2, ZenonT(40) DEF Opt!TableOptions, Opt!AllOptions, Opt!Ignored
<1>7. Opt!ThrottleOptions(new) = Opt!ThrottleOptions(args)
  BY <1>2 DEF Opt!ThrottleOptions, Opt!AllOptions, Opt!Ignored
<1>8. Opt!CutOverOptions(new) = Opt!CutOverOptions(args)
  <2>1. \A o \in {"cut-over", "cut-over-lock-timeout-seconds", "postpone-cut-over-flag-file",
                  "force-cut-over-flag-file", "graceful-cut-over"} :
          /\ new[o] = args[o] /\ Opt!Counted(new, o) = Opt!Counted(args, o)
          /\ \A d : Opt!Given(new, o, d) = Opt!Given(args, o, d)
    <3>1. \A o \in Opt!AllOptions \ Opt!Ignored : Opt!Counted(new, o) = Opt!Counted(args, o)
      BY <1>1 DEF Opt!Counted
    <3> QED  BY <1>1, <1>2, <3>1 DEF Opt!AllOptions, Opt!Ignored
  <2> QED  BY <2>1 DEF Opt!CutOverOptions
<1>9. Opt!HookOptions(new) = Opt!HookOptions(args)
  BY <1>2 DEF Opt!HookOptions, Opt!AllOptions, Opt!Ignored
<1>10. Opt!OutputOptions(new) = Opt!OutputOptions(args)
  BY <1>2 DEF Opt!OutputOptions, Opt!AllOptions, Opt!Ignored
<1>11. Refused(new) <=> Refused(args)
  BY <1>1, <1>2 DEF Refused, Opt!AllOptions, Opt!Ignored
<1>12. Opt!ParseCommandLine(new) = Opt!ParseCommandLine(args)
  BY <1>3, <1>4, <1>5, <1>6, <1>7, <1>8, <1>9, <1>10, <1>11 DEF Opt!ParseCommandLine, Refused
<1> QED  BY <1>12 DEF new

\* One configuration has each of its parts once.
LEMMA SameFields ==
    ASSUME NEW args, NEW new, ConfigOf(new) = ConfigOf(args)
    PROVE  /\ Opt!Connections(new) = Opt!Connections(args) /\ Opt!Mode(new) = Opt!Mode(args)
           /\ Opt!Flags(new) = Opt!Flags(args) /\ Opt!TableOptions(new) = Opt!TableOptions(args)
           /\ Opt!ThrottleOptions(new) = Opt!ThrottleOptions(args)
           /\ Opt!CutOverOptions(new) = Opt!CutOverOptions(args)
           /\ Opt!HookOptions(new) = Opt!HookOptions(args)
           /\ Opt!OutputOptions(new) = Opt!OutputOptions(args)
BY DEF ConfigOf

SameGiven(new, args, options, default) ==
    \A option \in options : Opt!Given(new, option, default) = Opt!Given(args, option, default)

\* Each option but those forgotten is read off the configuration again.
LEMMA SameOptions ==
    ASSUME NEW args, NEW new, ConfigOf(new) = ConfigOf(args)
    PROVE  /\ SameGiven(new, args, {"ssl-ca", "ssl-cert", "ssl-key", "host", "user", "password",
                                    "replica-host", "replica-user", "replica-password",
                                    "database", "table", "alter", "ghost-table", "changelog-table"}, "")
           /\ SameGiven(new, args, {"port", "replica-port"}, "3306")
           /\ SameGiven(new, args, {"ssl", "execute", "test-on-replica", "allow-on-master", "noop",
                                    "exact-rowcount", "quiet"}, "false")
           /\ SameGiven(new, args, {"drop-original-table", "drop-ghost-table", "graceful-cut-over",
                                    "progress"}, "true")
           /\ SameGiven(new, args, {"max-replication-lag"}, "60")
           /\ SameGiven(new, args, {"chunk-size"}, "1000")
           /\ SameGiven(new, args, {"cut-over-lock-timeout-seconds"}, "3")
           /\ SameGiven(new, args, {"hooks-timeout-seconds"}, "30")
           /\ SameGiven(new, args, {"heartbeat-interval"}, "100")
           /\ SameGiven(new, args, {"max-load", "critical-load", "throttle-query",
                                    "postpone-cut-over-flag-file", "force-cut-over-flag-file",
                                    "hooks-before-migration", "hooks-after-migration",
                                    "hooks-on-status", "hooks-on-throttle", "serve-status-http",
                                    "serve-status-socket", "log-file"}, "none")
           /\ Opt!Given(new, "debug", Opt!Given(new, "verbose", "false"))
                = Opt!Given(args, "debug", Opt!Given(args, "verbose", "false"))
           /\ new["cut-over"] = "lock-tables" <=> args["cut-over"] = "lock-tables"
           /\ Opt!Mode(new) = Opt!Mode(args)
<1> DEFINE same(option, default) == Opt!Given(new, option, default) = Opt!Given(args, option, default)
<1>1. /\ same("host", "") /\ same("user", "") /\ same("password", "") /\ same("replica-host", "")
      /\ same("replica-user", "") /\ same("replica-password", "")
      /\ same("port", "3306") /\ same("replica-port", "3306") /\ same("ssl", "false")
  BY SameFields DEF Opt!Connections
<1>2. same("ssl-ca", "") /\ same("ssl-cert", "") /\ same("ssl-key", "")
  <2>1. Opt!Connections(new).ssl_files = Opt!Connections(args).ssl_files
    BY SameFields
  <2>2. [file \in {"ssl-ca", "ssl-cert", "ssl-key"} |-> Opt!Given(new, file, "")]
          = [file \in {"ssl-ca", "ssl-cert", "ssl-key"} |-> Opt!Given(args, file, "")]
    BY <2>1 DEF Opt!Connections
  <2> QED  BY <2>2
<1>3. /\ same("execute", "false") /\ same("test-on-replica", "false") /\ same("allow-on-master", "false")
      /\ same("noop", "false")
  BY SameFields DEF Opt!Flags
<1>4. /\ same("database", "") /\ same("table", "") /\ same("alter", "") /\ same("ghost-table", "")
      /\ same("changelog-table", "") /\ same("drop-original-table", "true")
      /\ same("drop-ghost-table", "true")
  BY SameFields DEF Opt!TableOptions
<1>5. /\ same("max-replication-lag", "60") /\ same("max-load", "none") /\ same("critical-load", "none")
      /\ same("chunk-size", "1000") /\ same("throttle-query", "none")
  BY SameFields DEF Opt!ThrottleOptions
<1>6. /\ same("cut-over-lock-timeout-seconds", "3") /\ same("postpone-cut-over-flag-file", "none")
      /\ same("force-cut-over-flag-file", "none") /\ same("graceful-cut-over", "true")
      /\ new["cut-over"] = "lock-tables" <=> args["cut-over"] = "lock-tables"
  BY SameFields DEF Opt!CutOverOptions
<1>7. /\ same("hooks-before-migration", "none") /\ same("hooks-after-migration", "none")
      /\ same("hooks-on-status", "none") /\ same("hooks-on-throttle", "none")
      /\ same("hooks-timeout-seconds", "30")
  BY SameFields DEF Opt!HookOptions
<1>8. /\ same("serve-status-http", "none") /\ same("serve-status-socket", "none")
      /\ same("exact-rowcount", "false") /\ same("progress", "true") /\ same("heartbeat-interval", "100")
      /\ same("quiet", "false") /\ same("log-file", "none")
      /\ Opt!Given(new, "debug", Opt!Given(new, "verbose", "false"))
                = Opt!Given(args, "debug", Opt!Given(args, "verbose", "false"))
  BY SameFields DEF Opt!OutputOptions
<1> QED  BY <1>1, <1>2, <1>3, <1>4, <1>5, <1>6, <1>7, <1>8, SameFields DEF SameGiven

\* Any other option that says something else changes it.
LEMMA ElseIsKept ==
    ASSUME NEW args, NEW option, NEW value, Opt!SaysElse(args, option, value),
           option \notin Opt!Ignored
    PROVE  Opt!ParseCommandLine([args EXCEPT ![option] = value]) # Opt!ParseCommandLine(args)
<1> DEFINE new == [args EXCEPT ![option] = value]
<1>1. /\ args \in [Opt!AllOptions -> STRING] /\ ~Refused(args)
      /\ option \in Opt!AllOptions \ {"unknown", "help", "version"}
      /\ value \in STRING /\ value # "absent" /\ value # Opt!Given(args, option, Opt!Default(option))
      /\ option = "cut-over" => "lock-tables" \in {value, args[option]}
      /\ option = "migrate-on-replica" => ~Opt!Counted(args, option) /\ Opt!Mode(args) = "TestOnReplica"
      /\ option = "verbose" => ~Opt!Counted(args, "debug")
      /\ option = "debug" => value # Opt!Given(args, "verbose", "false")
  BY ParsedConfig DEF Opt!SaysElse
<1>2. new[option] = value /\ \A o \in Opt!AllOptions \ {option} : new[o] = args[o]
  BY <1>1
<1> HIDE DEF new
<1>3. /\ Opt!Counted(new, option) /\ \A d : Opt!Given(new, option, d) = value
      /\ \A o \in Opt!AllOptions \ {option} :
            /\ Opt!Counted(new, o) <=> Opt!Counted(args, o)
            /\ \A d : Opt!Given(new, o, d) = Opt!Given(args, o, d)
  BY <1>1, <1>2 DEF Opt!Counted, Opt!Given
<1>4. {"unknown", "help", "version", "debug", "verbose"} \subseteq Opt!AllOptions
  BY DEF Opt!AllOptions
<1>5. ~Refused(new)
  BY <1>1, <1>2, <1>3, <1>4 DEF Refused
<1>6. SUFFICES ASSUME ConfigOf(new) = ConfigOf(args)
               PROVE  FALSE
  <2>1. Opt!ParseCommandLine(new) = {ConfigOf(new)} /\ Opt!ParseCommandLine(args) = {ConfigOf(args)}
    BY <1>1, <1>5 DEF Opt!ParseCommandLine, Refused, ConfigOf
  <2>2. Opt!ParseCommandLine(new) = Opt!ParseCommandLine(args) => ConfigOf(new) = ConfigOf(args)
    <3> HIDE DEF ConfigOf
    <3> QED  BY <2>1
  <2> QED  BY <2>2 DEF new
<1>7. ASSUME NEW options, NEW default, SameGiven(new, args, options, default),
             \A o \in options : Opt!Default(o) = default
      PROVE  option \notin options
  <2>1. SUFFICES ASSUME option \in options PROVE FALSE
    OBVIOUS
  <2>2. Opt!Given(new, option, default) = Opt!Given(args, option, default)
    BY <1>7, <2>1 DEF SameGiven
  <2> QED  BY <1>1, <1>3, <1>7, <2>1, <2>2
<1>8. option \notin {"ssl-ca", "ssl-cert", "ssl-key", "host", "user", "password",
                                    "replica-host", "replica-user", "replica-password",
                                    "database", "table", "alter", "ghost-table", "changelog-table"}
  BY <1>6, <1>7, SameOptions, ZenonT(40) DEF Opt!Default
<1>9. option \notin {"port", "replica-port"}
  BY <1>6, <1>7, SameOptions DEF Opt!Default
<1>10. option \notin {"ssl", "execute", "test-on-replica", "allow-on-master", "noop",
                                    "exact-rowcount", "quiet"}
  BY <1>6, <1>7, SameOptions DEF Opt!Default
<1>11. option \notin {"drop-original-table", "drop-ghost-table", "graceful-cut-over",
                                    "progress"}
  BY <1>6, <1>7, SameOptions DEF Opt!Default
<1>12. /\ option \notin {"max-replication-lag"} /\ option \notin {"chunk-size"}
       /\ option \notin {"cut-over-lock-timeout-seconds"} /\ option \notin {"hooks-timeout-seconds"}
       /\ option \notin {"heartbeat-interval"}
  BY <1>6, <1>7, SameOptions DEF Opt!Default
<1>13. option \notin {"max-load", "critical-load", "throttle-query",
                                    "postpone-cut-over-flag-file", "force-cut-over-flag-file",
                                    "hooks-before-migration", "hooks-after-migration",
                                    "hooks-on-status", "hooks-on-throttle", "serve-status-http",
                                    "serve-status-socket", "log-file"}
  BY <1>6, <1>7, SameOptions DEF Opt!Default
<1>14. option # "debug"
  <2>1. SUFFICES ASSUME option = "debug" PROVE FALSE
    OBVIOUS
  <2>2. Opt!Given(args, "debug", Opt!Given(args, "verbose", "false")) = value
    <3>1. \A d : Opt!Given(new, "debug", d) = value
      BY <1>3, <2>1
    <3>2. Opt!Given(new, "debug", Opt!Given(new, "verbose", "false"))
            = Opt!Given(args, "debug", Opt!Given(args, "verbose", "false"))
      BY <1>6, SameOptions
    <3> QED  BY <3>1, <3>2
  <2>3. value # Opt!Given(args, "debug", "false") /\ value # Opt!Given(args, "verbose", "false")
    BY <1>1, <2>1 DEF Opt!Default
  <2> QED  BY <2>2, <2>3 DEF Opt!Given
<1>15. option # "verbose"
  <2>1. SUFFICES ASSUME option = "verbose" PROVE FALSE
    OBVIOUS
  <2>2. Opt!Given(new, "debug", Opt!Given(new, "verbose", "false"))
          = Opt!Given(args, "debug", Opt!Given(args, "verbose", "false"))
    BY <1>6, SameOptions
  <2>3. ~Opt!Counted(args, "debug") /\ ~Opt!Counted(new, "debug")
    BY <1>1, <1>3, <1>4, <2>1
  <2>4. Opt!Given(new, "verbose", "false") = Opt!Given(args, "verbose", "false")
    BY <2>2, <2>3 DEF Opt!Given
  <2>5. Opt!Default("verbose") = "false"
    BY DEF Opt!Default
  <2> QED  BY <1>1, <1>3, <2>1, <2>4, <2>5
<1>16. option # "cut-over"
  <2>1. SUFFICES ASSUME option = "cut-over" PROVE FALSE
    OBVIOUS
  <2>2. value = "lock-tables" <=> args["cut-over"] = "lock-tables"
    BY <1>2, <1>6, <2>1, SameOptions
  <2>3. Opt!Counted(args, "cut-over") => value # args["cut-over"]
    BY <1>1, <2>1 DEF Opt!Given
  <2> QED  BY <1>1, <2>1, <2>2, <2>3 DEF Opt!Counted
<1>17. option # "migrate-on-replica"
  <2>1. SUFFICES ASSUME option = "migrate-on-replica" PROVE FALSE
    OBVIOUS
  <2>2. Opt!Mode(new) = "TestOnReplica"
    BY <1>1, <1>6, <2>1, SameOptions
  <2>3. Opt!Counted(new, "migrate-on-replica")
    BY <1>3, <2>1
  <2> QED  BY <2>2, <2>3 DEF Opt!Mode
<1> QED
  BY <1>1, <1>8, <1>9, <1>10, <1>11, <1>12, <1>13, <1>14, <1>15, <1>16, <1>17 DEF Opt!AllOptions, Opt!Ignored

\* The two names that are made of a table's.
LEMMA NamesOf ==
    ASSUME NEW args, NEW config \in Opt!ParseCommandLine(args), NEW t, t = Opt!Given(args, "table", ""),
           ~Opt!Counted(args, "ghost-table"), ~Opt!Counted(args, "changelog-table")
    PROVE  /\ Opt!Dropped(config) = {"_gh_ost_" \o t, "_gh_ost_" \o t \o "_changelog"}
           /\ Opt!Dropped(Opt!Validated(config)) = {"_gh_ost_" \o t, "_gh_ost_" \o t \o "_changelog"}
<1> DEFINE ghost == "_gh_ost_" \o t
           change == ghost \o "_changelog"
<1>1. config = ConfigOf(args)
  BY DEF Opt!ParseCommandLine, ConfigOf
<1>2. config.tables.table = t /\ config.tables.ghost = "" /\ config.tables.changelog = ""
  BY <1>1 DEF ConfigOf, Opt!TableOptions, Opt!Given
<1>3. Opt!GhostTableName(config) = ghost /\ Opt!ChangelogTableName(config) = change
  BY <1>2 DEF Opt!GhostTableName, Opt!ChangelogTableName
<1>4. /\ Opt!Validated(config).tables.table = t /\ Opt!Validated(config).tables.ghost = ghost
      /\ Opt!Validated(config).tables.changelog = ""
  <2>1. /\ config = [config EXCEPT !.tables = config.tables]
        /\ DOMAIN config.tables = DOMAIN Opt!TableOptions(args)
    BY <1>1 DEF ConfigOf
  <2> QED  BY <1>1, <1>2, <1>3, <2>1 DEF Opt!Validated, ConfigOf, Opt!TableOptions
<1>5. Opt!GhostTableName(Opt!Validated(config)) = ghost /\ Opt!ChangelogTableName(Opt!Validated(config)) = change
  BY <1>4 DEF Opt!GhostTableName, Opt!ChangelogTableName
<1> QED  BY <1>3, <1>5 DEF Opt!Dropped

(* Whatever else an option is made to say, the configuration is another    *)
(* one exactly if it is none of those that are read and forgotten: of all  *)
(* others none is lost, mistaken for another or overwritten.               *)
THEOREM OptionsAreAllKept ==
    ASSUME NEW args, NEW option, NEW value, Opt!SaysElse(args, option, value)
    PROVE  Opt!OptionsAreKept(args, option, value)
<1>1. args \in [Opt!AllOptions -> STRING]
  BY DEF Opt!SaysElse
<1> QED  BY <1>1, IgnoredIsForgotten, ElseIsKept DEF Opt!OptionsAreKept

(* The ghost and changelog tables of a migration are not the table that it *)
(* migrates, nor of another migration of the same database, but for the    *)
(* names listed there: for all names of tables.                            *)
THEOREM NamesAreKeptApart ==
    ASSUME NEW i \in Inputs["names"]
    PROVE  Opt!NamesAreApart(i.args, i.other)
<1> DEFINE G(t) == "_gh_ost_" \o t
           C(t) == t \o "_changelog"
           tables == {Opt!Given(args, "table", "") :
                     args \in UNION {{k.args, k.other} : k \in Inputs["names"]}}
           written(a) == Opt!Counted(a, "ghost-table") \/ Opt!Counted(a, "changelog-table")
<1>1. /\ \A t, u \in tables \union {C(t) : t \in tables} : G(t) = G(u) => t = u
      /\ \A t, u \in tables : C(t) = C(u) => t = u
      /\ \A t \in tables : C(G(t)) = G(C(t)) /\ t \notin {G(t), G(C(t))}
  BY CommandLinesAssumption
<1>2. SUFFICES ASSUME NEW mine \in Opt!ParseCommandLine(i.args), NEW yours \in Opt!ParseCommandLine(i.other)
      PROVE  LET t == mine.tables.table
                 u == yours.tables.table IN
        /\ ~written(i.args) => t \notin Opt!Dropped(Opt!Validated(mine))
        /\ ~written(i.args) /\ ~written(i.other) /\ t # u =>
            (Opt!Dropped(mine) \intersect (Opt!Dropped(yours) \union {u}) = {}
                <=> /\ u \notin {"_gh_ost_" \o t, "_gh_ost_" \o t \o "_changelog"}
                    /\ u # t \o "_changelog" /\ t # u \o "_changelog")
  BY DEF Opt!NamesAreApart
<1> DEFINE t == mine.tables.table
           u == yours.tables.table
<1>3. t = Opt!Given(i.args, "table", "") /\ u = Opt!Given(i.other, "table", "")
  <2>1. mine = ConfigOf(i.args) /\ yours = ConfigOf(i.other)
    BY DEF Opt!ParseCommandLine, ConfigOf
  <2> QED  BY <2>1 DEF ConfigOf, Opt!TableOptions
<1>4. t \in tables /\ u \in tables
  <2>1. {i.args, i.other} \subseteq UNION {{k.args, k.other} : k \in Inputs["names"]}
    OBVIOUS
  <2> QED  BY <1>3, <2>1
<1>5. ~written(i.args) => /\ Opt!Dropped(mine) = {G(t), C(G(t))}
                          /\ Opt!Dropped(Opt!Validated(mine)) = {G(t), C(G(t))}
  BY <1>3, NamesOf
<1>6. ~written(i.other) => Opt!Dropped(yours) = {G(u), C(G(u))}
  BY <1>3, NamesOf
<1> HIDE DEF t, u, tables, G, C
<1>7. ~written(i.args) => t \notin Opt!Dropped(Opt!Validated(mine))
  BY <1>1, <1>4, <1>5
<1>8. ASSUME ~written(i.args), ~written(i.other), t # u
      PROVE  Opt!Dropped(mine) \intersect (Opt!Dropped(yours) \union {u}) = {}
                <=> u \notin {G(t), C(G(t))} /\ u # C(t) /\ t # C(u)
  <2>1. G(t) # G(u)
    BY <1>1, <1>4, <1>8
  <2>2. {t, u, C(t), C(u)} \subseteq tables \union {C(s) : s \in tables}
    BY <1>4
  <2>3. /\ G(t) = G(C(u)) => t = C(u)
        /\ G(u) = G(C(t)) => u = C(t)
        /\ G(C(t)) = G(C(u)) => C(t) = C(u)
    BY <1>1, <2>2
  <2>5. G(t) = C(G(u)) <=> t = C(u)
    BY <1>1, <1>4, <2>3
  <2>6. C(G(t)) = G(u) <=> u = C(t)
    BY <1>1, <1>4, <2>3
  <2>4. C(G(t)) # C(G(u))
    <3>1. C(t) # C(u)
      BY <1>1, <1>4, <1>8
    <3> QED  BY <1>1, <1>4, <2>3, <3>1
  <2> QED  BY <1>5, <1>6, <1>8, <2>1, <2>5, <2>6, <2>4
<1> QED  BY <1>7, <1>8 DEF t, u, G, C

-----------------------------------------------------------------------------
(* Replaying events.                                                       *)

\* What the binary log says of a table with these columns, the first of
\* them the key: values are any, "NULL" among them.
InTable(V, columns) ==
    [{columns[i] : i \in 1..Len(columns)} -> V]
AreColumns(columns) ==
    /\ columns \in Seq({columns[i] : i \in 1..Len(columns)})
    /\ Len(columns) > 1
    /\ \A i, j \in 1..Len(columns) : columns[i] = columns[j] => i = j

\* The row that an entry of the event describes.
RowOf(columns, after, pk_value) ==
    Rows!RowData(columns, [j \in 1..Len(columns) |-> after[columns[j]]], columns[1], pk_value)

LEMMA ColumnAt ==
    ASSUME NEW columns, AreColumns(columns), NEW k \in 1..Len(columns)
    PROVE  (CHOOSE i \in 1..Len(columns) : columns[i] = columns[k]) = k
BY DEF AreColumns

LEMMA ValuesOf ==
    ASSUME NEW columns, AreColumns(columns), NEW V, NEW a \in InTable(V, columns),
           NEW values, values = [j \in 1..Len(columns) |-> a[columns[j]]]
    PROVE  /\ Len(values) = Len(columns)
           /\ \A c \in DOMAIN a : /\ (CHOOSE i \in 1..Len(columns) : columns[i] = c) \in 1..Len(columns)
                                  /\ values[CHOOSE i \in 1..Len(columns) : columns[i] = c] = a[c]
<1>1. Len(values) = Len(columns)
  <2>1. PICK n \in Nat : n = Len(columns)
    BY DEF AreColumns
  <2>2. PICK S : S = {values[j] : j \in 1..n}
    OBVIOUS
  <2>3. values \in [1..n -> S]
    BY <2>1, <2>2
  <2>4. values \in Seq(S) /\ Len(values) = n
    BY <2>3
  <2> QED  BY <2>1, <2>4
<1>2. ASSUME NEW c \in DOMAIN a
      PROVE  /\ (CHOOSE i \in 1..Len(columns) : columns[i] = c) \in 1..Len(columns)
             /\ values[CHOOSE i \in 1..Len(columns) : columns[i] = c] = a[c]
  <2>1. PICK k \in 1..Len(columns) : columns[k] = c
    BY DEF InTable
  <2>2. (CHOOSE i \in 1..Len(columns) : columns[i] = c) = k
    BY <2>1, ColumnAt
  <2> QED  BY <2>1, <2>2
<1> QED  BY <1>1, <1>2

LEMMA InsertsTheRow ==
    ASSUME NEW columns, AreColumns(columns), NEW V, NEW a \in InTable(V, columns), NEW T, NEW k,
           \A r \in T : r[columns[1]] # a[columns[1]]
    PROVE  Rows!Execute(T, Rows!GenerateInsertSQL(RowOf(columns, a, k)), columns[1]) = {T \union {a}}
<1> DEFINE values == [j \in 1..Len(columns) |-> a[columns[j]]]
           sql == [kind |-> "insert", columns |-> columns, values |-> values]
           row == [c \in {columns[i] : i \in 1..Len(columns)} |->
                      values[CHOOSE i \in 1..Len(columns) : columns[i] = c]]
<1>1. Rows!GenerateInsertSQL(RowOf(columns, a, k)) = sql
  BY DEF Rows!GenerateInsertSQL, RowOf, Rows!RowData
<1>2. row = a
  <2>1. DOMAIN a = {columns[i] : i \in 1..Len(columns)} /\ a = [c \in DOMAIN a |-> a[c]]
    BY DEF InTable
  <2>2. \A c \in DOMAIN a : values[CHOOSE i \in 1..Len(columns) : columns[i] = c] = a[c]
    <3>1. PICK vs : vs = values
      OBVIOUS
    <3> QED  BY <3>1, ValuesOf
  <2> HIDE DEF values
  <2> QED  BY <2>1, <2>2
<1>3. Len(values) = Len(columns)
  BY ValuesOf
<1> HIDE DEF values
<1>4. Rows!Execute(T, sql, columns[1]) =
        IF Len(values) # Len(columns) THEN {}
        ELSE IF \E r \in T : r[columns[1]] = row[columns[1]] THEN {} ELSE {T \union {row}}
  BY DEF Rows!Execute
<1> QED  BY <1>1, <1>2, <1>3, <1>4

\* The row with this key has got another's values, but not its key.
Overwritten(T, key, k, a) == {IF r[key] = k THEN [a EXCEPT ![key] = k] ELSE r : r \in T}

LEMMA UpdatesTheRow ==
    ASSUME NEW columns, AreColumns(columns), NEW V, NEW a \in InTable(V, columns),
           NEW T \in SUBSET InTable(V, columns), NEW k, k # "NULL"
    PROVE  Rows!Execute(T, Rows!GenerateUpdateSQL(RowOf(columns, a, k)), columns[1]) =
             {Overwritten(T, columns[1], k, a)}
<1> DEFINE key == columns[1]
           C == {columns[i] : i \in 1..Len(columns)}
           values == [j \in 1..Len(columns) |-> a[columns[j]]]
           at(c) == CHOOSE i \in 1..Len(columns) : columns[i] = c
           set == [c \in C \ {key} |-> IF at(c) <= Len(values) THEN values[at(c)] ELSE "NULL"]
           sql == [kind |-> "update", set |-> set, where |-> [column |-> key, value |-> k]]
<1>1. Rows!GenerateUpdateSQL(RowOf(columns, a, k)) = sql
  BY DEF Rows!GenerateUpdateSQL, RowOf, Rows!RowData
<1>2. set = [c \in C \ {key} |-> a[c]]
  <2>1. ASSUME NEW c \in C \ {key} PROVE at(c) <= Len(values) /\ values[at(c)] = a[c]
    <3>1. c \in DOMAIN a /\ Len(columns) \in Nat
      BY DEF InTable, AreColumns
    <3>2. Len(values) = Len(columns) /\ at(c) \in 1..Len(columns) /\ values[at(c)] = a[c]
      BY <3>1, ValuesOf
    <3> HIDE DEF values, at
    <3> QED  BY <3>1, <3>2
  <2> HIDE DEF values, at
  <2> QED  BY <2>1
<1>3. set # <<>>
  <2>1. columns[2] \in C \ {key}
    BY DEF AreColumns
  <2>2. DOMAIN set # {}
    BY <2>1
  <2> QED  BY <2>2
<1>4. \A r \in T : r \in Rows!Where(T, sql.where) <=> r[key] = k
  BY DEF Rows!Where
<1>5. ASSUME NEW r \in T
      PROVE  [c \in DOMAIN r |-> IF c \in DOMAIN set THEN set[c] ELSE r[c]] =
                [a EXCEPT ![key] = r[key]]
  <2>1. DOMAIN r = C /\ DOMAIN a = C /\ r = [c \in C |-> r[c]]
    BY DEF InTable
  <2>2. key \in C
    BY DEF AreColumns
  <2>3. DOMAIN set = C \ {key} /\ \A c \in C \ {key} : set[c] = a[c]
    <3> HIDE DEF C, key
    <3> QED  BY <1>2
  <2> HIDE DEF set, C, key
  <2> QED  BY <2>1, <2>2, <2>3
<1>6. Rows!Execute(T, sql, key) =
        IF set = <<>> THEN {}
        ELSE {{IF r \in Rows!Where(T, sql.where)
                 THEN [c \in DOMAIN r |-> IF c \in DOMAIN set THEN set[c] ELSE r[c]]
                 ELSE r : r \in T}}
  <2> HIDE DEF set
  <2> QED  BY DEF Rows!Execute
<1>7. {IF r \in Rows!Where(T, sql.where)
         THEN [c \in DOMAIN r |-> IF c \in DOMAIN set THEN set[c] ELSE r[c]]
         ELSE r : r \in T} = Overwritten(T, key, k, a)
  <2>1. \A r \in T : (IF r \in Rows!Where(T, sql.where)
                        THEN [c \in DOMAIN r |-> IF c \in DOMAIN set THEN set[c] ELSE r[c]]
                        ELSE r) = (IF r[key] = k THEN [a EXCEPT ![key] = k] ELSE r)
    BY <1>4, <1>5
  <2> HIDE DEF set, sql, key
  <2> QED  BY <2>1 DEF Overwritten
<1> QED  BY <1>1, <1>3, <1>6, <1>7

LEMMA DeletesTheRow ==
    ASSUME NEW columns, NEW T, NEW a, NEW k, k # "NULL"
    PROVE  Rows!Execute(T, Rows!GenerateDeleteSQL(RowOf(columns, a, k)), columns[1]) =
             {{r \in T : r[columns[1]] # k}}
<1>1. Rows!GenerateDeleteSQL(RowOf(columns, a, k)) =
        [kind |-> "delete", where |-> [column |-> columns[1], value |-> k]]
  BY DEF Rows!GenerateDeleteSQL, RowOf, Rows!RowData
<1>2. T \ Rows!Where(T, [column |-> columns[1], value |-> k]) = {r \in T : r[columns[1]] # k}
  BY DEF Rows!Where
<1> QED  BY <1>1, <1>2 DEF Rows!Execute

\* Statements that each turn one table into the next.
Turns(statements, n, key, T) ==
    \A i \in 1..n : Rows!Execute(T[i - 1], statements[i], key) = {T[i]}

LEMMA OneAfterTheOther ==
    ASSUME NEW statements, NEW n \in Nat, n = Len(statements), NEW key, NEW T,
           Turns(statements, n, key, T)
    PROVE  Rows!ExecuteAll(T[0], statements, key) = {T[n]}
<1> DEFINE Is(F) == F = [i \in 0..n |-> IF i = 0 THEN {T[0]}
                           ELSE UNION {Rows!Execute(t, statements[i], key) : t \in F[i - 1]}]
           F == CHOOSE F : Is(F)
           G == [i \in 0..n |-> {T[i]}]
<1>1. ASSUME NEW i \in 1..n, NEW S, S = {T[i - 1]}
      PROVE  UNION {Rows!Execute(t, statements[i], key) : t \in S} = {T[i]}
  <2>1. Rows!Execute(T[i - 1], statements[i], key) = {T[i]}
    BY DEF Turns
  <2>2. {Rows!Execute(t, statements[i], key) : t \in S} = {Rows!Execute(T[i - 1], statements[i], key)}
    BY <1>1
  <2> QED  BY <2>1, <2>2
<1>2. Is(G)
  <2>1. ASSUME NEW i \in 1..n
        PROVE  UNION {Rows!Execute(t, statements[i], key) : t \in G[i - 1]} = {T[i]}
    <3>1. G[i - 1] = {T[i - 1]}
      OBVIOUS
    <3> HIDE DEF G
    <3> QED  BY <1>1, <3>1
  <2>2. \A i \in 0..n : G[i] = IF i = 0 THEN {T[0]}
                           ELSE UNION {Rows!Execute(t, statements[i], key) : t \in G[i - 1]}
    <3> SUFFICES ASSUME NEW i \in 0..n
                 PROVE  G[i] = IF i = 0 THEN {T[0]}
                           ELSE UNION {Rows!Execute(t, statements[i], key) : t \in G[i - 1]}
      OBVIOUS
    <3>1. CASE i = 0
      BY <3>1
    <3>2. CASE i # 0
      <4>1. i \in 1..n
        BY <3>2
      <4>2. G[i] = {T[i]}
        OBVIOUS
      <4> HIDE DEF G
      <4> QED  BY <2>1, <3>2, <4>1, <4>2
    <3> QED  BY <3>1, <3>2
  <2>3. G = [i \in 0..n |-> G[i]]
    OBVIOUS
  <2> HIDE DEF G
  <2> QED  BY <2>2, <2>3
<1>3. Is(F)
  <2> HIDE DEF Is, G
  <2> QED  BY <1>2
<1>4. Rows!ExecuteAll(T[0], statements, key) = F[n]
  BY DEF Rows!ExecuteAll
<1> HIDE DEF F, G
<1> DEFINE P == {i \in 0..n : F[i] = {T[i]}}
<1>5. 0 \in P
  BY <1>3
<1>6. ASSUME NEW i \in 1..n, i - 1 \in P
      PROVE  i \in P
  <2>1. i \in 0..n /\ i # 0
    OBVIOUS
  <2>2. F[i] = IF i = 0 THEN {T[0]}
               ELSE UNION {Rows!Execute(t, statements[i], key) : t \in F[i - 1]}
    BY <1>3, <2>1, Zenon
  <2>3. F[i] = UNION {Rows!Execute(t, statements[i], key) : t \in F[i - 1]}
    BY <2>1, <2>2, Zenon
  <2>4. F[i - 1] = {T[i - 1]}
    BY <1>6
  <2>5. F[i] = {T[i]}
    BY <1>1, <2>3, <2>4
  <2> HIDE DEF Is
  <2> QED  BY <2>1, <2>5
<1>7. n \in P
  <2> HIDE DEF P, Is
  <2>1. 0..n \subseteq P
    BY <1>5, <1>6, Induction
  <2> QED  BY <2>1
<1> QED  BY <1>4, <1>7

\* A change to rows of a table: before and after have as many, with keys of
\* their own, which are not NULL.
IsChange(V, dml_type, columns, rows, before, after, n) ==
    LET key == columns[1] IN
    /\ AreColumns(columns) /\ dml_type \in {"Insert", "Update", "Delete"}
    /\ rows \in SUBSET InTable(V, columns) /\ n \in Nat
    /\ before \in Seq(InTable(V, columns)) /\ Len(before) = n
    /\ after \in Seq(InTable(V, columns)) /\ Len(after) = n
    /\ dml_type = "Insert" =>
          /\ \A i, j \in 1..n : after[i][key] = after[j][key] => i = j
          /\ \A r \in rows, i \in 1..n : r[key] # after[i][key]
    /\ dml_type # "Insert" =>
          /\ \A i, j \in 1..n : before[i][key] = before[j][key] => i = j
          /\ \A r \in rows, i \in 1..n : r[key] # before[i][key]
          /\ \A i \in 1..n : before[i][key] # "NULL"

\* A row that is updated keeps its key.
NewRow(columns, before, after, j) == [after[j] EXCEPT ![columns[1]] = before[j][columns[1]]]

\* The table after the first i statements.
TableAfter(dml_type, columns, rows, before, after, n, i) ==
    rows \union (IF dml_type = "Insert" THEN {after[j] : j \in 1..i}
                 ELSE IF dml_type = "Update" THEN {NewRow(columns, before, after, j) : j \in 1..i}
                 ELSE {})
         \union (IF dml_type = "Insert" THEN {} ELSE {before[j] : j \in (i + 1)..n})

LEMMA Inserted ==
    ASSUME NEW V, NEW columns, NEW rows, NEW before, NEW after, NEW n,
           IsChange(V, "Insert", columns, rows, before, after, n), NEW i \in 1..n
    PROVE  Rows!Execute(TableAfter("Insert", columns, rows, before, after, n, i - 1),
                Rows!GenerateInsertSQL(RowOf(columns, after[i], after[i][columns[1]])), columns[1])
             = {TableAfter("Insert", columns, rows, before, after, n, i)}
<1> DEFINE T == rows \union {after[j] : j \in 1..(i - 1)}
<1> USE DEF IsChange
<1>1. AreColumns(columns) /\ after[i] \in InTable(V, columns)
  OBVIOUS
<1>2. \A r \in T : r[columns[1]] # after[i][columns[1]]
  <2>1. \A j \in 1..(i - 1) : j \in 1..n /\ j # i
    OBVIOUS
  <2> QED  BY <2>1
<1>3. T \union {after[i]} = rows \union {after[j] : j \in 1..i}
  <2>1. 1..i = 1..(i - 1) \union {i}
    OBVIOUS
  <2> QED  BY <2>1
<1> HIDE DEF T, IsChange
<1>4. Rows!Execute(T, Rows!GenerateInsertSQL(RowOf(columns, after[i], after[i][columns[1]])), columns[1])
        = {T \union {after[i]}}
  BY <1>1, <1>2, InsertsTheRow
<1>5. /\ TableAfter("Insert", columns, rows, before, after, n, i - 1) = T
      /\ TableAfter("Insert", columns, rows, before, after, n, i) = T \union {after[i]}
  BY <1>3 DEF T, TableAfter
<1> QED  BY <1>4, <1>5

LEMMA Deleted ==
    ASSUME NEW V, NEW columns, NEW rows, NEW before, NEW after, NEW n,
           IsChange(V, "Delete", columns, rows, before, after, n), NEW i \in 1..n
    PROVE  Rows!Execute(TableAfter("Delete", columns, rows, before, after, n, i - 1),
                Rows!GenerateDeleteSQL(RowOf(columns, after[i], before[i][columns[1]])), columns[1])
             = {TableAfter("Delete", columns, rows, before, after, n, i)}
<1> DEFINE T == rows \union {before[j] : j \in i..n}
           key == columns[1]
<1>1. {r \in T : r[key] # before[i][key]} = rows \union {before[j] : j \in (i + 1)..n}
  <2>1. i..n = {i} \union (i + 1)..n /\ \A j \in (i + 1)..n : j \in 1..n /\ j # i
    BY DEF IsChange
  <2>2. \A j \in (i + 1)..n : before[j][key] # before[i][key]
    BY <2>1 DEF IsChange
  <2>3. \A r \in rows : r[key] # before[i][key]
    BY DEF IsChange
  <2> HIDE DEF key
  <2> QED  BY <2>1, <2>2, <2>3
<1>2. before[i][key] # "NULL"
  BY DEF IsChange
<1>3. Rows!Execute(T, Rows!GenerateDeleteSQL(RowOf(columns, after[i], before[i][key])), key)
        = {{r \in T : r[key] # before[i][key]}}
  <2> HIDE DEF T
  <2> QED  BY <1>2, DeletesTheRow
<1>4. /\ TableAfter("Delete", columns, rows, before, after, n, i - 1) = T
      /\ TableAfter("Delete", columns, rows, before, after, n, i) = {r \in T : r[key] # before[i][key]}
  <2>1. (i - 1) + 1 = i
    OBVIOUS
  <2>2. /\ TableAfter("Delete", columns, rows, before, after, n, i - 1) = T
        /\ TableAfter("Delete", columns, rows, before, after, n, i) = rows \union {before[j] : j \in (i + 1)..n}
    BY <2>1 DEF TableAfter
  <2> QED  BY <1>1, <2>2
<1> QED  BY <1>3, <1>4

LEMMA Updated ==
    ASSUME NEW V, NEW columns, NEW rows, NEW before, NEW after, NEW n,
           IsChange(V, "Update", columns, rows, before, after, n), NEW i \in 1..n
    PROVE  Rows!Execute(TableAfter("Update", columns, rows, before, after, n, i - 1),
                Rows!GenerateUpdateSQL(RowOf(columns, after[i], before[i][columns[1]])), columns[1])
             = {TableAfter("Update", columns, rows, before, after, n, i)}
<1> DEFINE key == columns[1]
           New(j) == NewRow(columns, before, after, j)
           Rest == rows \union {New(j) : j \in 1..(i - 1)} \union {before[j] : j \in (i + 1)..n}
           T == Rest \union {before[i]}
<1>1. \A j \in 1..n : /\ before[j] \in InTable(V, columns) /\ after[j] \in InTable(V, columns)
                      /\ New(j) \in InTable(V, columns) /\ New(j)[key] = before[j][key]
  <2>1. \A j \in 1..n : before[j] \in InTable(V, columns) /\ after[j] \in InTable(V, columns)
    BY DEF IsChange
  <2>2. key \in {columns[j] : j \in 1..Len(columns)}
    BY DEF IsChange, AreColumns
  <2>3. \A j \in 1..n : New(j) \in InTable(V, columns) /\ New(j)[key] = before[j][key]
    <3> HIDE DEF key
    <3> QED  BY <2>1, <2>2 DEF InTable, NewRow, key
  <2> QED  BY <2>1, <2>3
<1>2. \A j \in 1..n : j # i => before[j][key] # before[i][key]
  BY DEF IsChange
<1>3. /\ 1..i = 1..(i - 1) \union {i} /\ i..n = (i + 1)..n \union {i}
      /\ \A j \in 1..(i - 1) \union (i + 1)..n : j \in 1..n /\ j # i
  BY DEF IsChange
<1>4. \A r \in Rest : r[key] # before[i][key] /\ r \in InTable(V, columns)
  <2>1. \A r \in rows : r[key] # before[i][key] /\ r \in InTable(V, columns)
    BY DEF IsChange
  <2> HIDE DEF New, key
  <2> QED  BY <1>1, <1>2, <1>3, <2>1
<1>5. T = rows \union {New(j) : j \in 1..(i - 1)} \union {before[j] : j \in i..n}
  <2> HIDE DEF New
  <2> QED  BY <1>3
<1>6. Rest \union {New(i)} = rows \union {New(j) : j \in 1..i} \union {before[j] : j \in (i + 1)..n}
  <2> HIDE DEF New
  <2> QED  BY <1>3
<1> HIDE DEF Rest
<1>7. Overwritten(T, key, before[i][key], after[i]) = Rest \union {New(i)}
  <2>1. New(i) = [after[i] EXCEPT ![key] = before[i][key]]
    BY DEF NewRow
  <2> HIDE DEF New, key
  <2> QED  BY <1>4, <2>1 DEF Overwritten
<1>8. Rows!Execute(T, Rows!GenerateUpdateSQL(RowOf(columns, after[i], before[i][key])), key)
        = {Rest \union {New(i)}}
  <2>1. T \in SUBSET InTable(V, columns)
    BY <1>1, <1>4
  <2>2. before[i][key] # "NULL" /\ AreColumns(columns)
    BY DEF IsChange
  <2> HIDE DEF T, New
  <2>3. Rows!Execute(T, Rows!GenerateUpdateSQL(RowOf(columns, after[i], before[i][key])), key)
          = {Overwritten(T, key, before[i][key], after[i])}
    <3>1. PICK a \in InTable(V, columns) : a = after[i]
      BY <1>1
    <3>2. PICK t \in SUBSET InTable(V, columns) : t = T
      BY <2>1
    <3>3. Rows!Execute(t, Rows!GenerateUpdateSQL(RowOf(columns, a, before[i][key])), columns[1])
            = {Overwritten(t, columns[1], before[i][key], a)}
      BY <2>2, UpdatesTheRow
    <3> QED  BY <3>1, <3>2, <3>3
  <2> QED  BY <1>7, <2>3
<1>9. /\ TableAfter("Update", columns, rows, before, after, n, i - 1) = T
      /\ TableAfter("Update", columns, rows, before, after, n, i) = Rest \union {New(i)}
  <2>1. (i - 1) + 1 = i
    OBVIOUS
  <2> HIDE DEF T
  <2> QED  BY <1>5, <1>6, <2>1 DEF TableAfter
<1> QED  BY <1>8, <1>9

\* The statements of a logged change, one for each row.
StatementAt(dml_type, columns, before, after, i) ==
    CASE dml_type = "Insert" ->
            Rows!GenerateInsertSQL(RowOf(columns, after[i], after[i][columns[1]]))
      [] dml_type = "Update" ->
            Rows!GenerateUpdateSQL(RowOf(columns, after[i], before[i][columns[1]]))
      [] dml_type = "Delete" ->
            Rows!GenerateDeleteSQL(RowOf(columns, after[i], before[i][columns[1]]))

LEMMA StatementsOf ==
    ASSUME NEW V, NEW dml_type, NEW columns, NEW rows, NEW before, NEW after, NEW n,
           IsChange(V, dml_type, columns, rows, before, after, n)
    PROVE  Rows!ToSQLStatements(Rows!Logged(dml_type, columns, columns[1], before, after))
             = [i \in 1..n |-> StatementAt(dml_type, columns, before, after, i)]
<1> DEFINE event == Rows!Logged(dml_type, columns, columns[1], before, after)
           RowAt(i) == RowOf(columns, after[i], IF dml_type = "Insert" THEN after[i][columns[1]]
                                                ELSE before[i][columns[1]])
           Sql(i) == CASE event.dml_type = "Insert" -> Rows!GenerateInsertSQL(event.rows[i])
                       [] event.dml_type = "Update" -> Rows!GenerateUpdateSQL(event.rows[i])
                       [] event.dml_type = "Delete" -> Rows!GenerateDeleteSQL(event.rows[i])
<1>1. event.dml_type = dml_type /\ event.rows = [i \in 1..n |-> RowAt(i)]
  BY DEF IsChange, Rows!Logged, Rows!Event, RowOf
<1>2. Len(event.rows) = n
  BY <1>1 DEF IsChange
<1>3. \A i \in 1..n : event.rows[i] = RowAt(i)
  BY <1>1
<1> HIDE DEF event
<1>4. Rows!ToSQLStatements(event) = [i \in 1..Len(event.rows) |-> Sql(i)]
  BY Zenon DEF Rows!ToSQLStatements
<1>5. ASSUME NEW i \in 1..n
      PROVE  Sql(i) = StatementAt(dml_type, columns, before, after, i)
  <2>1. CASE dml_type = "Insert"
    BY <1>1, <1>3, <2>1 DEF StatementAt
  <2>2. CASE dml_type = "Update"
    BY <1>1, <1>3, <2>2 DEF StatementAt
  <2>3. CASE dml_type = "Delete"
    BY <1>1, <1>3, <2>3 DEF StatementAt
  <2> QED  BY <2>1, <2>2, <2>3 DEF IsChange
<1> HIDE DEF Sql
<1> QED  BY <1>2, <1>4, <1>5 DEF event

(* The statements that an event's rows become (ToSQLStatements, and ToSQL  *)
(* for one row) do to the table what was logged, however many rows,        *)
(* columns and values: no other row is touched, none is lost, and an       *)
(* updated row has its new values but under its old key.                   *)
THEOREM ChangesAreReplayed ==
    ASSUME NEW V, NEW dml_type, NEW columns, NEW rows, NEW before, NEW after, NEW n,
           IsChange(V, dml_type, columns, rows, before, after, n)
    PROVE  Rows!ReplayFollowsTheTable(rows, dml_type, columns, before, after)
<1> DEFINE key == columns[1]
           event == Rows!Logged(dml_type, columns, key, before, after)
           statements == Rows!ToSQLStatements(event)
           T == [i \in 0..n |-> TableAfter(dml_type, columns, rows, before, after, n, i)]
           New(i) == [after[i] EXCEPT ![key] = IF dml_type = "Update" THEN before[i][key] ELSE @]
           table == rows \union (IF dml_type = "Insert" THEN {} ELSE {before[i] : i \in 1..n})
           left == IF dml_type = "Delete" THEN {} ELSE {New(i) : i \in 1..n}
<1>1. /\ n \in Nat /\ Len(statements) = n /\ statements = [i \in 1..n |-> statements[i]]
      /\ \A i \in 1..n : statements[i] = StatementAt(dml_type, columns, before, after, i)
  <2>1. n \in Nat
    BY DEF IsChange
  <2>2. statements = [i \in 1..n |-> StatementAt(dml_type, columns, before, after, i)]
    BY StatementsOf
  <2> HIDE DEF statements
  <2> QED  BY <2>1, <2>2
<1>2. ASSUME NEW i \in 1..n
      PROVE  Rows!Execute(T[i - 1], statements[i], key) = {T[i]}
  <2>1. /\ i \in 0..n /\ i - 1 \in 0..n /\ (i - 1) + 1 = i
    BY <1>1
  <2>2. /\ T[i] = TableAfter(dml_type, columns, rows, before, after, n, i)
        /\ T[i - 1] = TableAfter(dml_type, columns, rows, before, after, n, i - 1)
    BY <2>1
  <2> HIDE DEF T
  <2>3. CASE dml_type = "Insert"
    <3>1. statements[i] = Rows!GenerateInsertSQL(RowOf(columns, after[i], after[i][columns[1]]))
      BY <1>1, <2>3 DEF StatementAt
    <3> HIDE DEF statements
    <3> QED  BY <2>2, <2>3, <3>1, Inserted
  <2>4. CASE dml_type = "Update"
    <3>1. statements[i] = Rows!GenerateUpdateSQL(RowOf(columns, after[i], before[i][columns[1]]))
      BY <1>1, <2>4 DEF StatementAt
    <3> HIDE DEF statements
    <3> QED  BY <2>2, <2>4, <3>1, Updated
  <2>5. CASE dml_type = "Delete"
    <3>1. statements[i] = Rows!GenerateDeleteSQL(RowOf(columns, after[i], before[i][columns[1]]))
      BY <1>1, <2>5 DEF StatementAt
    <3> HIDE DEF statements
    <3> QED  BY <2>2, <2>5, <3>1, Deleted
  <2> QED  BY <2>3, <2>4, <2>5 DEF IsChange
<1>3. T[0] = table /\ T[n] = rows \union left
  <2>1. T[0] = TableAfter(dml_type, columns, rows, before, after, n, 0)
        /\ T[n] = TableAfter(dml_type, columns, rows, before, after, n, n)
    BY <1>1
  <2>2. 1..0 = {} /\ (n + 1)..n = {} /\ 0 + 1 = 1
    BY <1>1
  <2>3. ASSUME NEW i \in 1..n
        PROVE  New(i) = IF dml_type = "Update" THEN NewRow(columns, before, after, i) ELSE after[i]
    <3>1. after[i] \in InTable(V, columns)
      BY DEF IsChange
    <3> QED  BY <3>1 DEF NewRow, InTable
  <2> HIDE DEF T, New
  <2>4. CASE dml_type = "Insert"
    BY <2>1, <2>2, <2>3, <2>4 DEF TableAfter
  <2>5. CASE dml_type = "Update"
    BY <2>1, <2>2, <2>3, <2>5 DEF TableAfter
  <2>6. CASE dml_type = "Delete"
    BY <2>1, <2>2, <2>3, <2>6 DEF TableAfter
  <2> QED  BY <2>4, <2>5, <2>6 DEF IsChange
<1>4. Rows!ExecuteAll(table, statements, key) = {rows \union left}
  <2> HIDE DEF T, statements, table, left, key
  <2>1. Rows!ExecuteAll(T[0], statements, key) = {T[n]}
    <3>1. Turns(statements, n, key, T)
      BY <1>2 DEF Turns
    <3> QED  BY <1>1, <3>1, OneAfterTheOther, SMTT(20)
  <2> QED  BY <1>3, <2>1
<1>5. Len(before) = 1 => Rows!ToSQL(event) = statements
  <2> SUFFICES ASSUME Len(before) = 1 PROVE Rows!ToSQL(event) = statements
    OBVIOUS
  <2>1. n = 1
    BY DEF IsChange
  <2>2. Len(event.rows) = 1
    <3>1. event.rows = [i \in 1..n |-> event.rows[i]]
      BY DEF IsChange, Rows!Logged, Rows!Event
    <3> HIDE DEF event
    <3> QED  BY <2>1, <3>1
  <2>3. SubSeq(statements, 1, 1) = statements
    <3>1. statements = [i \in 1..1 |-> statements[i]]
      BY <1>1, <2>1
    <3> HIDE DEF statements
    <3>2. statements \in Seq({statements[1]})
      BY <3>1
    <3> QED  BY <1>1, <2>1, <3>2, SubSeqFull
  <2>4. event.rows # <<>>
    BY <2>2
  <2> HIDE DEF event
  <2> QED  BY <2>3, <2>4 DEF Rows!ToSQL
<1>6. n = Len(before) /\ n = Len(after)
  BY DEF IsChange
<1> QED  BY <1>4, <1>5, <1>6 DEF Rows!ReplayFollowsTheTable

-----------------------------------------------------------------------------
(* The row copy.                                                           *)

\* Rows with keys of their own, which are numbers.
AreRows(S, key) ==
    /\ IsFiniteSet(S)
    /\ \A r \in S : r[key] \in Int
    /\ \A r, s \in S : r[key] = s[key] => r = s
UpToRow(S, key, r) == {q \in S : q[key] <= r[key]}
Rank(S, key, r) == Cardinality(UpToRow(S, key, r))

LEMMA RankGrows ==
    ASSUME NEW S, NEW key, AreRows(S, key), NEW r \in S, NEW s \in S, r[key] < s[key]
    PROVE  Rank(S, key, r) < Rank(S, key, s)
<1>1. IsFiniteSet(UpToRow(S, key, r)) /\ IsFiniteSet(UpToRow(S, key, s))
  <2>1. UpToRow(S, key, r) \in SUBSET S /\ UpToRow(S, key, s) \in SUBSET S
    BY DEF UpToRow
  <2> QED  BY <2>1, FS_Subset DEF AreRows
<1>2. UpToRow(S, key, r) \in SUBSET UpToRow(S, key, s)
  BY DEF UpToRow, AreRows
<1>3. UpToRow(S, key, r) # UpToRow(S, key, s)
  BY DEF UpToRow, AreRows
<1>4. Cardinality(UpToRow(S, key, r)) \in Nat /\ Cardinality(UpToRow(S, key, s)) \in Nat
  BY <1>1, FS_CardinalityType
<1>5. /\ Cardinality(UpToRow(S, key, r)) <= Cardinality(UpToRow(S, key, s))
      /\ Cardinality(UpToRow(S, key, s)) # Cardinality(UpToRow(S, key, r))
  BY <1>1, <1>2, <1>3, FS_Subset
<1> QED  BY <1>4, <1>5 DEF Rank

LEMMA RankIs ==
    ASSUME NEW S, NEW key, AreRows(S, key), NEW r \in S
    PROVE  Rank(S, key, r) \in 1..Cardinality(S)
<1>1. UpToRow(S, key, r) \in SUBSET S /\ UpToRow(S, key, r) # {} /\ IsFiniteSet(S)
  BY DEF UpToRow, AreRows
<1>2. IsFiniteSet(UpToRow(S, key, r)) /\ Cardinality(UpToRow(S, key, r)) <= Cardinality(S)
  BY <1>1, FS_Subset
<1>3. Cardinality(UpToRow(S, key, r)) \in Nat /\ Cardinality(S) \in Nat
  BY <1>1, <1>2, FS_CardinalityType
<1>4. Cardinality(UpToRow(S, key, r)) # 0
  BY <1>1, <1>2, FS_EmptySet
<1> QED  BY <1>2, <1>3, <1>4 DEF Rank

LEMMA RanksDiffer ==
    ASSUME NEW S, NEW key, AreRows(S, key), NEW r \in S, NEW s \in S, Rank(S, key, r) = Rank(S, key, s)
    PROVE  r = s
<1>1. Rank(S, key, r) \in Int
  BY RankIs
<1>2. ~(r[key] < s[key]) /\ ~(s[key] < r[key])
  BY <1>1, RankGrows
<1>3. r[key] \in Int /\ s[key] \in Int
  BY DEF AreRows
<1>4. r[key] = s[key]
  BY <1>2, <1>3
<1> QED  BY <1>4 DEF AreRows

LEMMA RowOfRank ==
    ASSUME NEW S, NEW key, AreRows(S, key), NEW i \in 1..Cardinality(S)
    PROVE  \E r \in S : Rank(S, key, r) = i
<1> DEFINE n == Cardinality(S)
           f == [r \in S |-> Rank(S, key, r)]
<1>1. n \in Nat /\ IsFiniteSet(S)
  BY FS_CardinalityType DEF AreRows
<1>2. IsFiniteSet(1..n) /\ Cardinality(1..n) = n
  <2>1. IsFiniteSet(1..n) /\ Cardinality(1..n) = IF 1 > n THEN 0 ELSE n - 1 + 1
    BY <1>1, FS_Interval
  <2> HIDE DEF n
  <2> QED  BY <1>1, <2>1
<1>3. f \in Injection(S, 1..n)
  <2>1. f \in [S -> 1..n]
    BY RankIs
  <2>2. \A r, s \in S : f[r] = f[s] => r = s
    BY RanksDiffer
  <2> HIDE DEF f, n
  <2> QED  BY <2>1, <2>2 DEF Injection, IsInjective
<1>4. f \in Surjection(S, 1..n)
  <2> HIDE DEF f
  <2> QED  BY <1>2, <1>3, FS_Injection
<1>5. PICK r \in S : f[r] = i
  <2> HIDE DEF f
  <2> QED  BY <1>4 DEF Surjection
<1> QED  BY <1>5

LEMMA SameCardinality == ASSUME NEW T PROVE Rows!Cardinality(T) = Cardinality(T)
BY DEF Rows!Cardinality, Cardinality

\* ORDER BY puts each row at its rank.
LEMMA OrderedByKey ==
    ASSUME NEW S, NEW key, AreRows(S, key), NEW s, s = Rows!OrderBy(S, key), NEW n, n = Cardinality(S)
    PROVE  /\ n \in Nat /\ s \in [1..n -> S] /\ s \in Seq(S) /\ Len(s) = n
           /\ \A i \in 1..n : Rank(S, key, s[i]) = i
           /\ \A r \in S : Rank(S, key, r) \in 1..n /\ s[Rank(S, key, r)] = r
           /\ \A i, j \in 1..n : i < j => s[i][key] < s[j][key]
<1> DEFINE RowAt(i) == CHOOSE r \in S : Cardinality({q \in S : q[key] <= r[key]}) = i
<1>1. n \in Nat
  BY FS_CardinalityType DEF AreRows
<1>2. ASSUME NEW i \in 1..n PROVE RowAt(i) \in S /\ Rank(S, key, RowAt(i)) = i
  <2>1. \E r \in S : Cardinality({q \in S : q[key] <= r[key]}) = i
    BY RowOfRank DEF Rank, UpToRow
  <2>2. RowAt(i) \in S /\ Cardinality({q \in S : q[key] <= RowAt(i)[key]}) = i
    BY <2>1
  <2> HIDE DEF RowAt
  <2> QED  BY <2>2 DEF Rank, UpToRow
<1>3. s = [i \in 1..Cardinality(S) |-> RowAt(i)]
  <2>1. s = [i \in 1..Rows!Cardinality(S) |->
                CHOOSE r \in S : Rows!Cardinality({q \in S : q[key] <= r[key]}) = i]
    BY Zenon DEF Rows!OrderBy
  <2> QED  BY <2>1, SameCardinality, Zenon
<1> HIDE DEF RowAt
<1>4. s \in [1..n -> S] /\ \A i \in 1..n : Rank(S, key, s[i]) = i
  BY <1>2, <1>3
<1>5. s \in Seq(S) /\ Len(s) = n
  BY <1>1, <1>4
<1>6. ASSUME NEW r \in S PROVE Rank(S, key, r) \in 1..n /\ s[Rank(S, key, r)] = r
  <2>1. Rank(S, key, r) \in 1..n
    BY RankIs
  <2>2. s[Rank(S, key, r)] \in S /\ Rank(S, key, s[Rank(S, key, r)]) = Rank(S, key, r)
    BY <1>4, <2>1
  <2> QED  BY <2>1, <2>2, RanksDiffer
<1>7. ASSUME NEW i \in 1..n, NEW j \in 1..n, i < j PROVE s[i][key] < s[j][key]
  <2>1. s[i] \in S /\ s[j] \in S
    BY <1>4
  <2>2. s[i][key] \in Int /\ s[j][key] \in Int
    BY <2>1 DEF AreRows
  <2>3. ~(s[j][key] < s[i][key])
    <3>1. s[j][key] < s[i][key] => j < i
      BY <1>4, <2>1, RankGrows
    <3> QED  BY <1>7, <3>1
  <2>4. s[j][key] # s[i][key]
    <3>1. s[j][key] = s[i][key] => s[i] = s[j]
      BY <2>1 DEF AreRows
    <3>2. s[i] # s[j]
      BY <1>4, <1>7
    <3> QED  BY <3>1, <3>2
  <2> QED  BY <2>2, <2>3, <2>4
<1> QED  BY <1>1, <1>4, <1>5, <1>6, <1>7

\* A table of these columns, the first of them the key, of numbers.
IsTable(table, columns) ==
    /\ AreColumns(columns) /\ AreRows(table, columns[1])
    /\ \A r \in table : r = [c \in {columns[i] : i \in 1..Len(columns)} |-> r[c]]

\* The values that Query reads from a table.
Read(table, columns) ==
    {Rows!Query(r, columns[1])[c] : r \in table, c \in {columns[i] : i \in 1..Len(columns)}}

LEMMA QueryKeepsKeys ==
    ASSUME NEW table, NEW columns, IsTable(table, columns), NEW r \in table, NEW q, q = Rows!Query(r, columns[1])
    PROVE  q \in InTable(Read(table, columns), columns) /\ q[columns[1]] = r[columns[1]]
<1> DEFINE C == {columns[i] : i \in 1..Len(columns)}
<1>1. DOMAIN r = C
  <2>1. r = [c \in C |-> r[c]]
    BY DEF IsTable
  <2> HIDE DEF C
  <2> QED  BY <2>1
<1>2. columns[1] \in C
  BY DEF IsTable, AreColumns
<1>3. q = [c \in C |-> IF c # columns[1] /\ r[c] = "NULL" THEN "" ELSE r[c]]
  <2> HIDE DEF C
  <2> QED  BY <1>1 DEF Rows!Query
<1>4. \A c \in C : q[c] \in Read(table, columns)
  <2> HIDE DEF C
  <2>1. Read(table, columns) = {Rows!Query(p, columns[1])[c] : p \in table, c \in C}
    BY DEF Read, C
  <2> QED  BY <2>1
<1>5. InTable(Read(table, columns), columns) = [C -> Read(table, columns)]
  BY DEF InTable
<1> HIDE DEF C
<1>6. q \in [C -> Read(table, columns)]
  BY <1>3, <1>4
<1> QED  BY <1>2, <1>3, <1>5, <1>6

Ascend(rows, m, key) == \A i, j \in 1..m : i < j => rows[i][key] < rows[j][key]
AreNew(g, rows, m, key) == \A r \in g : \A i \in 1..m : r[key] # rows[i][key]
CopyOf(rows, m, key) == {Rows!Query(rows[i], key) : i \in 1..m}

\* What the INSERTs of rows add to a table that has none of their keys.
LEMMA CopiesRows ==
    ASSUME NEW table, NEW columns, IsTable(table, columns),
           NEW m \in Nat, NEW rows \in [1..m -> table], Len(rows) = m,
           Ascend(rows, m, columns[1]), NEW g, AreNew(g, rows, m, columns[1])
    PROVE  Rows!ExecuteAll(g, Rows!CopyRows(rows, columns), columns[1])
             = {g \union CopyOf(rows, m, columns[1])}
<1> DEFINE key == columns[1]
           New(i) == Rows!Query(rows[i], key)
           Copy(i) == [kind |-> "insert", columns |-> columns,
                       values |-> [j \in 1..Len(columns) |-> New(i)[columns[j]]]]
           statements == Rows!CopyRows(rows, columns)
           T == [i \in 0..m |-> g \union {New(j) : j \in 1..i}]
<1>1. statements = [i \in 1..m |-> Copy(i)]
  BY DEF Rows!CopyRows
<1>2. ASSUME NEW i \in 1..m
      PROVE  Copy(i) = Rows!GenerateInsertSQL(RowOf(columns, New(i), 0))
  BY DEF Rows!GenerateInsertSQL, RowOf, Rows!RowData
<1>3. ASSUME NEW i \in 1..m
      PROVE  New(i) \in InTable(Read(table, columns), columns) /\ New(i)[key] = rows[i][key]
  BY QueryKeepsKeys
<1> HIDE DEF New, Copy
<1>4. ASSUME NEW i \in 1..m
      PROVE  Rows!Execute(T[i - 1], statements[i], key) = {T[i]}
  <2>1. i \in 0..m /\ i - 1 \in 0..m /\ 1..i = 1..(i - 1) \union {i}
    OBVIOUS
  <2>2. T[i - 1] = g \union {New(j) : j \in 1..(i - 1)}
    BY <2>1
  <2>3. T[i] = T[i - 1] \union {New(i)}
    BY <2>1
  <2>4. statements[i] = Rows!GenerateInsertSQL(RowOf(columns, New(i), 0))
    BY <1>1, <1>2
  <2> HIDE DEF T, statements
  <2>5. \A r \in T[i - 1] : r[key] # New(i)[key]
    <3>1. ASSUME NEW r \in g PROVE r[key] # New(i)[key]
      BY <1>3 DEF AreNew
    <3>2. ASSUME NEW j \in 1..(i - 1) PROVE New(j)[key] # New(i)[key]
      <4>1. j \in 1..m /\ j < i
        OBVIOUS
      <4>2. rows[j][key] < rows[i][key] /\ rows[j][key] \in Int /\ rows[i][key] \in Int
        BY <4>1 DEF IsTable, AreRows, Ascend
      <4> QED  BY <1>3, <4>1, <4>2
    <3> HIDE DEF key
    <3> QED  BY <2>2, <3>1, <3>2
  <2>6. AreColumns(columns)
    BY DEF IsTable
  <2>7. Rows!Execute(T[i - 1], Rows!GenerateInsertSQL(RowOf(columns, New(i), 0)), columns[1])
          = {T[i - 1] \union {New(i)}}
    <3>1. PICK a \in InTable(Read(table, columns), columns) : a = New(i)
      BY <1>3
    <3> QED  BY <2>5, <2>6, <3>1, InsertsTheRow
  <2> QED  BY <2>3, <2>4, <2>7
<1>5. T[0] = g /\ T[m] = g \union {New(j) : j \in 1..m}
  OBVIOUS
<1>6. m = Len(statements)
  <2> HIDE DEF statements
  <2> QED  BY <1>1
<1> HIDE DEF T, statements, key
<1>7. Turns(statements, m, key, T)
  BY <1>4 DEF Turns
<1>8. Rows!ExecuteAll(T[0], statements, key) = {T[m]}
  BY <1>6, <1>7, OneAfterTheOther
<1>9. {New(j) : j \in 1..m} = CopyOf(rows, m, key)
  BY DEF New, CopyOf
<1> QED  BY <1>5, <1>8, <1>9 DEF statements, key

KeysIn(table, key, a, b) == {r \in table : a < r[key] /\ r[key] <= b}
Copied(table, key, a, b) == {Rows!Query(r, key) : r \in KeysIn(table, key, a, b)}
CopiedTo(table, key, a, b) == [last |-> b, ghosts |-> {Copied(table, key, a, b)}]

LEMMA BetweenAreRows ==
    ASSUME NEW table, NEW key, AreRows(table, key), NEW S \in SUBSET table
    PROVE  AreRows(S, key)
BY FS_Subset DEF AreRows

\* The first m rows by their key are those up to the m-th one.
AreFirst(rows, m, S, key) ==
    /\ Len(rows) = m /\ rows \in [1..m -> S]
    /\ \A i, j \in 1..m : i < j => rows[i][key] < rows[j][key]
    /\ m > 0 => {rows[i] : i \in 1..m} = {r \in S : r[key] <= rows[m][key]}

LEMMA FirstRows ==
    ASSUME NEW S, NEW key, AreRows(S, key), NEW found, found = Rows!OrderBy(S, key),
           NEW m \in Nat, m <= Len(found), NEW rows, rows = SubSeq(found, 1, m)
    PROVE  AreFirst(rows, m, S, key)
<1>1. PICK n : n = Cardinality(S)
  OBVIOUS
<1>2. /\ n \in Nat /\ found \in [1..n -> S] /\ found \in Seq(S) /\ Len(found) = n
      /\ \A i, j \in 1..n : i < j => found[i][key] < found[j][key]
      /\ \A r \in S : Rank(S, key, r) \in 1..n /\ found[Rank(S, key, r)] = r
  BY <1>1, OrderedByKey, SMTT(20)
<1>3. Len(rows) = m /\ \A i \in 1..m : rows[i] = found[i]
  BY <1>2
<1>4. rows \in [1..m -> S]
  <2>1. rows \in Seq(S)
    BY <1>2
  <2>2. rows \in [1..Len(rows) -> S]
    BY <2>1, LenProperties
  <2> QED  BY <1>3, <2>2
<1>5. \A i \in 1..m : i \in 1..n
  BY <1>2
<1>6. \A i, j \in 1..m : i < j => rows[i][key] < rows[j][key]
  BY <1>2, <1>3, <1>5
<1>7. ASSUME m > 0 PROVE {rows[i] : i \in 1..m} = {r \in S : r[key] <= rows[m][key]}
  <2>1. m \in 1..m
    BY <1>7
  <2>2. ASSUME NEW i \in 1..m PROVE rows[i] \in S /\ rows[i][key] <= rows[m][key]
    <3>1. rows[i] \in S /\ rows[m] \in S
      BY <1>4, <2>1
    <3>2. rows[i][key] \in Int /\ rows[m][key] \in Int
      BY <3>1 DEF AreRows
    <3>3. CASE i = m
      BY <3>1, <3>2, <3>3
    <3>4. CASE i < m
      BY <1>6, <2>1, <3>1, <3>2, <3>4
    <3> QED  BY <3>3, <3>4
  <2>3. ASSUME NEW r \in S, r[key] <= rows[m][key] PROVE \E i \in 1..m : rows[i] = r
    <3>1. PICK i \in 1..n : found[i] = r
      BY <1>2
    <3>2. rows[m] = found[m] /\ m \in 1..n
      BY <1>3, <1>5, <2>1
    <3>3. found[i][key] \in Int /\ found[m][key] \in Int
      BY <1>2, <3>2 DEF AreRows
    <3>4. ~(m < i)
      <4>1. m < i => found[m][key] < found[i][key]
        BY <1>2, <3>2
      <4>2. found[i][key] <= found[m][key]
        BY <2>3, <3>1, <3>2
      <4> QED  BY <3>3, <4>1, <4>2
    <3>5. i \in 1..m
      BY <1>2, <3>4
    <3> QED  BY <1>3, <3>1, <3>5
  <2> QED  BY <2>2, <2>3
<1> QED  BY <1>3, <1>4, <1>6, <1>7 DEF AreFirst

LEMMA FoundAre ==
    ASSUME NEW table, NEW key, AreRows(table, key), NEW k, NEW max, NEW S, S = KeysIn(table, key, k, max),
           NEW chunk_size \in Nat
    PROVE  \E m \in Nat : /\ m <= Len(Rows!OrderBy(S, key))
                          /\ Rows!BuildRowCopySQL(table, key, k, max, chunk_size) = SubSeq(Rows!OrderBy(S, key), 1, m)
                          /\ m = 0 <=> chunk_size = 0 \/ S = {}
<1>1. PICK found : found = Rows!OrderBy(S, key)
  OBVIOUS
<1>2. AreRows(S, key)
  <2>1. S \in SUBSET table
    BY DEF KeysIn
  <2> QED  BY <2>1, BetweenAreRows
<1>3. Len(found) = Cardinality(S) /\ Len(found) \in Nat
  <2>1. PICK n : n = Cardinality(S)
    OBVIOUS
  <2> QED  BY <1>1, <1>2, <2>1, OrderedByKey
<1>4. Len(found) = 0 <=> S = {}
  BY <1>2, <1>3, FS_EmptySet DEF AreRows
<1>5. PICK m : m = IF chunk_size < Len(found) THEN chunk_size ELSE Len(found)
  OBVIOUS
<1>6. Rows!BuildRowCopySQL(table, key, k, max, chunk_size) = SubSeq(found, 1, m)
  BY <1>1, <1>5 DEF Rows!BuildRowCopySQL, KeysIn
<1>7. m \in Nat /\ m <= Len(found) /\ (m = 0 <=> chunk_size = 0 \/ Len(found) = 0)
  BY <1>3, <1>5
<1> QED  BY <1>1, <1>4, <1>6, <1>7

\* Nothing to copy: the chunks are over.
LEMMA NoRowsFound ==
    ASSUME NEW table, NEW columns, IsTable(table, columns), NEW chunk_size \in Nat, NEW max, NEW done,
           chunk_size = 0 \/ KeysIn(table, columns[1], done.last, max) = {}
    PROVE  Rows!CopyChunk(done, table, columns, chunk_size, max) = done
<1> DEFINE key == columns[1]
           S == KeysIn(table, key, done.last, max)
<1>1. AreRows(table, key)
  BY DEF IsTable
<1>2. PICK m \in Nat : /\ m <= Len(Rows!OrderBy(S, key))
                       /\ Rows!BuildRowCopySQL(table, key, done.last, max, chunk_size) = SubSeq(Rows!OrderBy(S, key), 1, m)
                       /\ m = 0 <=> chunk_size = 0 \/ S = {}
  <2> HIDE DEF S, key
  <2>1. S = KeysIn(table, key, done.last, max)
    BY DEF S
  <2> QED  BY <1>1, <2>1, FoundAre
<1>3. m = 0
  BY <1>2
<1>4. PICK rows : rows = Rows!BuildRowCopySQL(table, key, done.last, max, chunk_size)
  OBVIOUS
<1>5. rows = <<>>
  <2>1. AreRows(S, key)
    <3>1. S \in SUBSET table
      BY DEF KeysIn
    <3> HIDE DEF S, key
    <3> QED  BY <1>1, <3>1, BetweenAreRows
  <2>2. PICK found : found = Rows!OrderBy(S, key)
    OBVIOUS
  <2>3. found \in Seq(S)
    <3>1. PICK n : n = Cardinality(S)
      OBVIOUS
    <3> HIDE DEF S, key
    <3> QED  BY <2>1, <2>2, <3>1, OrderedByKey
  <2> HIDE DEF S, key
  <2>4. rows = SubSeq(found, 1, 0)
    BY <1>2, <1>3, <1>4, <2>2
  <2>5. rows \in Seq(S) /\ Len(rows) = 0
    BY <2>3, <2>4
  <2> QED  BY <2>5, EmptySeq
<1> HIDE DEF S
<1> QED  BY <1>4, <1>5 DEF Rows!CopyChunk

\* A chunk goes on to the key of a later row, and copies what is up to it.
GoesOnTo(l, table, key, min, k, max, next) ==
    /\ k < l /\ l <= max /\ \E r \in table : r[key] = l
    /\ next = CopiedTo(table, key, min, l)

LEMMA ChunkGoesOn ==
    ASSUME NEW table, NEW columns, IsTable(table, columns), NEW chunk_size \in Nat, chunk_size # 0,
           NEW min \in Int, NEW k \in Int, min <= k, NEW max \in Int,
           KeysIn(table, columns[1], k, max) # {},
           NEW done, done = CopiedTo(table, columns[1], min, k)
    PROVE  \E l \in Int : GoesOnTo(l, table, columns[1], min, k, max,
                                   Rows!CopyChunk(done, table, columns, chunk_size, max))
<1> DEFINE key == columns[1]
           S == KeysIn(table, key, k, max)
           g == Copied(table, key, min, k)
<1>1. AreRows(table, key) /\ S \in SUBSET table
  BY DEF IsTable, KeysIn
<1>2. AreRows(S, key)
  <2> HIDE DEF S, key
  <2> QED  BY <1>1, BetweenAreRows
<1>3. PICK found : found = Rows!OrderBy(S, key)
  OBVIOUS
<1>4. PICK m \in Nat : /\ m <= Len(found) /\ m # 0
                       /\ Rows!BuildRowCopySQL(table, key, k, max, chunk_size) = SubSeq(found, 1, m)
  <2> HIDE DEF S, key
  <2>1. S = KeysIn(table, key, k, max) /\ S # {}
    BY DEF S, key
  <2> QED  BY <1>1, <1>3, <2>1, FoundAre
<1>5. PICK rows : rows = SubSeq(found, 1, m)
  OBVIOUS
<1>6. /\ Len(rows) = m /\ rows \in [1..m -> S]
      /\ \A i, j \in 1..m : i < j => rows[i][key] < rows[j][key]
      /\ {rows[i] : i \in 1..m} = {r \in S : r[key] <= rows[m][key]}
  <2>1. m > 0
    BY <1>4
  <2> HIDE DEF S, key
  <2>2. AreFirst(rows, m, S, key)
    BY <1>2, <1>3, <1>4, <1>5, FirstRows
  <2> QED  BY <2>1, <2>2 DEF AreFirst
<1>7. PICK l : l = rows[m][key]
  OBVIOUS
<1>8. l \in Int /\ k < l /\ l <= max /\ \E r \in table : r[key] = l
  <2>1. m \in 1..m
    BY <1>4
  <2>2. rows[m] \in S
    BY <1>6, <2>1
  <2>3. rows[m] \in table /\ k < rows[m][key] /\ rows[m][key] <= max
    BY <2>2 DEF KeysIn
  <2> QED  BY <1>1, <1>7, <2>3 DEF AreRows
<1>9. Rows!ExecuteAll(g, Rows!CopyRows(rows, columns), key) = {g \union CopyOf(rows, m, key)}
  <2>1. rows \in [1..m -> table]
    BY <1>1, <1>6
  <2>2. ASSUME NEW q \in g, NEW i \in 1..m PROVE q[key] # rows[i][key]
    <3>1. PICK r \in table : r[key] <= k /\ q = Rows!Query(r, key)
      BY DEF Copied, KeysIn
    <3>2. q[key] = r[key]
      BY <3>1, QueryKeepsKeys
    <3>3. rows[i] \in S
      BY <1>6
    <3>4. rows[i] \in table /\ k < rows[i][key]
      BY <3>3 DEF KeysIn
    <3>5. r[key] \in Int /\ rows[i][key] \in Int
      BY <1>1, <3>4 DEF AreRows
    <3> HIDE DEF key
    <3> QED  BY <3>1, <3>2, <3>4, <3>5
  <2>3. AreNew(g, rows, m, columns[1])
    BY <2>2 DEF AreNew
  <2>4. Ascend(rows, m, columns[1])
    BY <1>6 DEF Ascend
  <2>5. Len(rows) = m
    BY <1>6
  <2> HIDE DEF S, g, key
  <2>6. Rows!ExecuteAll(g, Rows!CopyRows(rows, columns), columns[1]) = {g \union CopyOf(rows, m, columns[1])}
    BY <2>1, <2>3, <2>4, <2>5, CopiesRows
  <2> QED  BY <2>6 DEF key
<1>10. g \union CopyOf(rows, m, key) = Copied(table, key, min, l)
  <2>1. CopyOf(rows, m, key) = {Rows!Query(r, key) : r \in {q \in S : q[key] <= l}}
    <3>1. CopyOf(rows, m, key) = {Rows!Query(r, key) : r \in {rows[i] : i \in 1..m}}
      BY DEF CopyOf
    <3> HIDE DEF S, key
    <3> QED  BY <1>6, <1>7, <3>1
  <2>2. {q \in S : q[key] <= l} = KeysIn(table, key, k, l)
    <3>1. \A q \in table : q[key] \in Int
      BY <1>1 DEF AreRows
    <3> HIDE DEF key
    <3> QED  BY <1>8, <3>1 DEF KeysIn
  <2>3. KeysIn(table, key, min, k) \union KeysIn(table, key, k, l) = KeysIn(table, key, min, l)
    <3>1. \A q \in table : q[key] \in Int
      BY <1>1 DEF AreRows
    <3> HIDE DEF key
    <3> QED  BY <1>8, <3>1 DEF KeysIn
  <2> HIDE DEF S, key
  <2> QED  BY <2>1, <2>2, <2>3 DEF Copied
<1>11. Rows!CopyChunk(done, table, columns, chunk_size, max) = CopiedTo(table, key, min, l)
  <2>1. done.last = k /\ done.ghosts = {g}
    BY DEF CopiedTo
  <2>2. rows = Rows!BuildRowCopySQL(table, key, done.last, max, chunk_size)
    BY <1>4, <1>5, <2>1
  <2>3. rows # <<>>
    BY <1>4, <1>6
  <2> HIDE DEF g, key, S
  <2>4. UNION {Rows!ExecuteAll(h, Rows!CopyRows(rows, columns), key) : h \in done.ghosts}
          = {Copied(table, key, min, l)}
    <3>1. {Rows!ExecuteAll(h, Rows!CopyRows(rows, columns), key) : h \in done.ghosts}
            = {Rows!ExecuteAll(g, Rows!CopyRows(rows, columns), key)}
      BY <2>1
    <3>2. Rows!ExecuteAll(g, Rows!CopyRows(rows, columns), key) = {Copied(table, key, min, l)}
      BY <1>9, <1>10, Zenon
    <3> QED  BY <3>1, <3>2
  <2>5. Rows!CopyChunk(done, table, columns, chunk_size, max) =
          IF rows = <<>> THEN done
          ELSE [last   |-> rows[Len(rows)][key],
                ghosts |-> UNION {Rows!ExecuteAll(h, Rows!CopyRows(rows, columns), key) : h \in done.ghosts}]
    BY <2>2, Zenon DEF Rows!CopyChunk, key
  <2> QED  BY <1>6, <1>7, <2>3, <2>4, <2>5 DEF CopiedTo
<1> QED  BY <1>8, <1>11 DEF GoesOnTo

LEMMA RangeOf ==
    ASSUME NEW table, NEW key, AreRows(table, key), table # {}
    PROVE  \E min, max \in Int :
              /\ Rows!ReadRowRange(table, key) = <<min, max>>
              /\ \E r \in table : r[key] = min
              /\ \A r \in table : min <= r[key] /\ r[key] <= max
<1>1. PICK n : n = Cardinality(table)
  OBVIOUS
<1>2. n \in Nat /\ n # 0
  BY <1>1, FS_CardinalityType, FS_EmptySet DEF AreRows
<1>3. PICK p \in table, q \in table : Rank(table, key, p) = 1 /\ Rank(table, key, q) = n
  <2>1. 1 \in 1..n /\ n \in 1..n
    BY <1>2
  <2> QED  BY <1>1, <2>1, RowOfRank
<1>4. ASSUME NEW r \in table PROVE p[key] <= r[key] /\ r[key] <= q[key] /\ r[key] \in Int
  <2>1. Rank(table, key, r) \in 1..n
    BY <1>1, RankIs
  <2>2. ~(r[key] < p[key]) /\ ~(q[key] < r[key])
    BY <1>2, <1>3, <2>1, RankGrows
  <2> QED  BY <2>2 DEF AreRows
<1> DEFINE min == CHOOSE k \in {r[key] : r \in table} : \A r \in table : k <= r[key]
           max == CHOOSE k \in {r[key] : r \in table} : \A r \in table : r[key] <= k
<1>5. min \in {r[key] : r \in table} /\ \A r \in table : min <= r[key]
  <2>1. \E k \in {r[key] : r \in table} : \A r \in table : k <= r[key]
    BY <1>4
  <2> QED  BY <2>1
<1>6. max \in {r[key] : r \in table} /\ \A r \in table : r[key] <= max
  <2>1. \E k \in {r[key] : r \in table} : \A r \in table : r[key] <= k
    BY <1>4
  <2> QED  BY <2>1
<1>7. Rows!ReadRowRange(table, key) = <<min, max>>
  BY DEF Rows!ReadRowRange, Rows!MinKey, Rows!MaxKey
<1> HIDE DEF min, max
<1>8. min \in Int /\ max \in Int
  BY <1>4, <1>5, <1>6
<1> QED  BY <1>5, <1>6, <1>7, <1>8

\* What the chunks do, as a function of how many.
AreChunks(F, start, table, columns, chunk_size, max, n) ==
    /\ F[0] = start
    /\ \A i \in 1..n : F[i] = Rows!CopyChunk(F[i - 1], table, columns, chunk_size, max)
    /\ Rows!CopyAll(table, columns, chunk_size, n) = F[n].ghosts

LEMMA ChunksAre ==
    ASSUME NEW table, NEW columns, NEW chunk_size, NEW n \in Nat,
           NEW range, range = Rows!ReadRowRange(table, columns[1]), NEW H, H = [i \in 0..n |-> H[i]],
           H[0] = [last |-> range[1], ghosts |-> {{}}],
           \A i \in 1..n : H[i] = Rows!CopyChunk(H[i - 1], table, columns, chunk_size, range[2])
    PROVE  \E F : AreChunks(F, H[0], table, columns, chunk_size, range[2], n)
<1> DEFINE Is(F) == F = [i \in 0..n |-> IF i = 0 THEN [last |-> range[1], ghosts |-> {{}}]
                           ELSE Rows!CopyChunk(F[i - 1], table, columns, chunk_size, range[2])]
           F == CHOOSE F : Is(F)
<1>1. Is(H)
  <2>1. \A i \in 0..n : H[i] = IF i = 0 THEN [last |-> range[1], ghosts |-> {{}}]
                           ELSE Rows!CopyChunk(H[i - 1], table, columns, chunk_size, range[2])
    OBVIOUS
  <2> QED  BY <2>1
<1>2. Is(F)
  <2> HIDE DEF Is
  <2> QED  BY <1>1
<1>3. Rows!CopyAll(table, columns, chunk_size, n) = F[n].ghosts
  BY DEF Rows!CopyAll
<1> HIDE DEF F
<1>4. /\ F[0] = [last |-> range[1], ghosts |-> {{}}]
      /\ \A i \in 1..n : F[i] = Rows!CopyChunk(F[i - 1], table, columns, chunk_size, range[2])
  <2>1. 0 \in 0..n /\ \A i \in 1..n : i \in 0..n /\ i # 0
    OBVIOUS
  <2>2. ASSUME NEW i \in 0..n
        PROVE  F[i] = IF i = 0 THEN [last |-> range[1], ghosts |-> {{}}]
                      ELSE Rows!CopyChunk(F[i - 1], table, columns, chunk_size, range[2])
    BY <1>2, Zenon
  <2> HIDE DEF Is
  <2>3. F[0] = [last |-> range[1], ghosts |-> {{}}]
    BY <2>1, <2>2, Zenon
  <2>4. ASSUME NEW i \in 1..n
        PROVE  F[i] = Rows!CopyChunk(F[i - 1], table, columns, chunk_size, range[2])
    BY <2>1, <2>2, Zenon
  <2> QED  BY <2>3, <2>4
<1> QED  BY <1>3, <1>4 DEF AreChunks

LEMMA NothingCopied ==
    ASSUME NEW table, NEW columns, IsTable(table, columns), NEW chunk_size \in Nat,
           chunk_size = 0 \/ table = {}, NEW n \in Nat
    PROVE  Rows!CopyAll(table, columns, chunk_size, n) = {{}}
<1>1. PICK range : range = Rows!ReadRowRange(table, columns[1])
  OBVIOUS
<1>2. PICK start : start = [last |-> range[1], ghosts |-> {{}}]
  OBVIOUS
<1>3. Rows!CopyChunk(start, table, columns, chunk_size, range[2]) = start
  <2>1. chunk_size = 0 \/ KeysIn(table, columns[1], start.last, range[2]) = {}
    BY DEF KeysIn
  <2> QED  BY <2>1, NoRowsFound
<1>4. PICK H : H = [i \in 0..n |-> start]
  OBVIOUS
<1>5. H = [i \in 0..n |-> H[i]] /\ H[0] = start /\ \A i \in 1..n : H[i - 1] = start /\ H[i] = start
  BY <1>4
<1>6. \A i \in 1..n : H[i] = Rows!CopyChunk(H[i - 1], table, columns, chunk_size, range[2])
  BY <1>3, <1>5
<1>7. PICK F : /\ F[0] = start
               /\ \A i \in 1..n : F[i] = Rows!CopyChunk(F[i - 1], table, columns, chunk_size, range[2])
               /\ Rows!CopyAll(table, columns, chunk_size, n) = F[n].ghosts
  <2>1. PICK F : AreChunks(F, H[0], table, columns, chunk_size, range[2], n)
    BY <1>1, <1>2, <1>5, <1>6, ChunksAre
  <2> QED  BY <1>5, <2>1 DEF AreChunks
<1> DEFINE P == {i \in 0..n : F[i] = start}
<1>8. 0 \in P
  BY <1>7
<1>9. ASSUME NEW i \in 1..n, i - 1 \in P PROVE i \in P
  BY <1>3, <1>7, <1>9
<1>10. n \in P
  <2> HIDE DEF P
  <2>1. 0..n \subseteq P
    BY <1>8, <1>9, Induction
  <2> QED  BY <2>1
<1>11. F[n] = start
  BY <1>10
<1> QED  BY <1>2, <1>7, <1>11

\* After i chunks all is copied, or at least i rows.
Covers(table, key, min, max, i, x) ==
    \E k \in Int : /\ min <= k /\ k <= max /\ x = CopiedTo(table, key, min, k)
                   /\ KeysIn(table, key, k, max) = {} \/ i <= Cardinality(KeysIn(table, key, min, k))

LEMMA CoversMore ==
    ASSUME NEW table, NEW columns, IsTable(table, columns), NEW chunk_size \in Nat, chunk_size # 0,
           NEW min \in Int, NEW max \in Int, NEW i \in Nat, i > 0, NEW x, Covers(table, columns[1], min, max, i - 1, x)
    PROVE  Covers(table, columns[1], min, max, i, Rows!CopyChunk(x, table, columns, chunk_size, max))
<1> DEFINE key == columns[1]
<1>1. PICK k \in Int : /\ min <= k /\ k <= max /\ x = CopiedTo(table, key, min, k)
                       /\ KeysIn(table, key, k, max) = {} \/ i - 1 <= Cardinality(KeysIn(table, key, min, k))
  BY DEF Covers
<1>2. CASE KeysIn(table, key, k, max) = {}
  <2>1. Rows!CopyChunk(x, table, columns, chunk_size, max) = x
    <3>1. x.last = k
      BY <1>1 DEF CopiedTo
    <3> QED  BY <1>2, <3>1, NoRowsFound
  <2> QED  BY <1>1, <1>2, <2>1 DEF Covers
<1>3. CASE KeysIn(table, key, k, max) # {}
  <2>1. PICK l \in Int : /\ k < l /\ l <= max /\ \E r \in table : r[key] = l
                         /\ Rows!CopyChunk(x, table, columns, chunk_size, max) = CopiedTo(table, key, min, l)
    <3>1. PICK l \in Int : GoesOnTo(l, table, columns[1], min, k, max,
                                   Rows!CopyChunk(x, table, columns, chunk_size, max))
      BY <1>1, <1>3, ChunkGoesOn
    <3> QED  BY <3>1 DEF GoesOnTo
  <2>2. KeysIn(table, key, min, k) \in SUBSET KeysIn(table, key, min, l)
    BY <2>1 DEF KeysIn, IsTable, AreRows
  <2>3. KeysIn(table, key, min, k) # KeysIn(table, key, min, l)
    <3>1. PICK r \in table : r[key] = l
      BY <2>1
    <3>2. r \in KeysIn(table, key, min, l) /\ r \notin KeysIn(table, key, min, k)
      BY <1>1, <2>1, <3>1 DEF KeysIn
    <3> QED  BY <3>2
  <2>4. IsFiniteSet(KeysIn(table, key, min, l)) /\ IsFiniteSet(KeysIn(table, key, min, k))
    <3>1. KeysIn(table, key, min, l) \in SUBSET table /\ KeysIn(table, key, min, k) \in SUBSET table
      BY DEF KeysIn
    <3> QED  BY <3>1, FS_Subset DEF IsTable, AreRows
  <2>5. Cardinality(KeysIn(table, key, min, l)) \in Nat /\ Cardinality(KeysIn(table, key, min, k)) \in Nat
    BY <2>4, FS_CardinalityType
  <2>6. /\ Cardinality(KeysIn(table, key, min, k)) <= Cardinality(KeysIn(table, key, min, l))
        /\ Cardinality(KeysIn(table, key, min, l)) # Cardinality(KeysIn(table, key, min, k))
    BY <2>2, <2>3, <2>4, FS_Subset
  <2>7. i <= Cardinality(KeysIn(table, key, min, l))
    BY <1>1, <1>3, <2>5, <2>6
  <2>8. min <= l
    BY <1>1, <2>1
  <2> QED  BY <2>1, <2>7, <2>8 DEF Covers
<1> QED  BY <1>2, <1>3

(* Whatever the size of the chunks, above 0, and whatever the table: the   *)
(* chunks that Migrator::RunRowCopy and Applier::CopyRows copy one after   *)
(* the other give each row but the one with the least key, once, with the  *)
(* empty text for each NULL; chunks of size 0 copy nothing.                *)
THEOREM ChunksCover ==
    ASSUME NEW table, NEW columns, IsTable(table, columns), NEW chunk_size \in Nat
    PROVE  Rows!ChunksCoverTheTable(table, columns, chunk_size)
<1> DEFINE key == columns[1]
           later == {r \in table : \E q \in table : q[key] < r[key]}
           read == {Rows!Query(r, key) : r \in later}
<1>1. AreRows(table, key)
  BY DEF IsTable
<1>2. PICK n : n = Cardinality(table)
  OBVIOUS
<1>3. n \in Nat
  BY <1>1, <1>2, FS_CardinalityType DEF AreRows
<1> SUFFICES Rows!CopyAll(table, columns, chunk_size, n) = {IF chunk_size = 0 THEN {} ELSE read}
  BY <1>2, SameCardinality DEF Rows!ChunksCoverTheTable
<1>4. CASE chunk_size = 0 \/ table = {}
  <2>1. Rows!CopyAll(table, columns, chunk_size, n) = {{}}
    BY <1>3, <1>4, NothingCopied
  <2>2. table = {} => read = {}
    OBVIOUS
  <2> HIDE DEF read
  <2> QED  BY <1>4, <2>1, <2>2
<1>5. CASE chunk_size # 0 /\ table # {}
  <2>1. PICK range : range = Rows!ReadRowRange(table, key)
    OBVIOUS
  <2>2. PICK min, max \in Int : /\ range = <<min, max>>
                                /\ \E r \in table : r[key] = min
                                /\ \A r \in table : min <= r[key] /\ r[key] <= max
    <3> HIDE DEF key
    <3> QED  BY <1>1, <1>5, <2>1, RangeOf
  <2>3. min <= max /\ range[1] = min /\ range[2] = max
    BY <2>2
  <2> DEFINE X == {CopiedTo(table, key, min, k) : k \in {l \in Int : min <= l /\ l <= max}}
  <2>4. PICK start : start = [last |-> range[1], ghosts |-> {{}}]
    OBVIOUS
  <2>5. start = CopiedTo(table, key, min, min)
    <3>1. KeysIn(table, key, min, min) = {}
      BY <1>1, <2>2 DEF KeysIn, AreRows
    <3>2. Copied(table, key, min, min) = {}
      BY <3>1 DEF Copied
    <3> QED  BY <2>3, <2>4, <3>2 DEF CopiedTo
  <2>6. Covers(table, key, min, max, 0, start)
    <3>1. KeysIn(table, key, min, min) = {}
      BY <1>1, <2>2 DEF KeysIn, AreRows
    <3>2. Cardinality(KeysIn(table, key, min, min)) = 0
      BY <3>1, FS_EmptySet
    <3> QED  BY <2>2, <2>3, <2>5, <3>2 DEF Covers
  <2>7. ASSUME NEW x \in X PROVE Rows!CopyChunk(x, table, columns, chunk_size, max) \in X
    <3>1. PICK k \in Int : min <= k /\ k <= max /\ x = CopiedTo(table, key, min, k)
      OBVIOUS
    <3>2. CASE KeysIn(table, key, k, max) = {}
      <4>1. x.last = k
        BY <3>1 DEF CopiedTo
      <4>2. Rows!CopyChunk(x, table, columns, chunk_size, max) = x
        BY <3>2, <4>1, NoRowsFound
      <4> HIDE DEF X
      <4> QED  BY <4>2
    <3>3. CASE KeysIn(table, key, k, max) # {}
      <4>1. PICK l \in Int : /\ k < l /\ l <= max
                             /\ Rows!CopyChunk(x, table, columns, chunk_size, max) = CopiedTo(table, key, min, l)
        <5>1. min \in Int /\ max \in Int /\ x = CopiedTo(table, columns[1], min, k)
          BY <3>1
        <5> HIDE DEF X, later, read
        <5>2. PICK l \in Int : GoesOnTo(l, table, columns[1], min, k, max,
                                       Rows!CopyChunk(x, table, columns, chunk_size, max))
          BY <1>5, <3>1, <3>3, <5>1, ChunkGoesOn
        <5> QED  BY <5>2 DEF GoesOnTo
      <4>2. min <= l
        BY <3>1, <4>1
      <4> QED  BY <4>1, <4>2
    <3> QED  BY <3>2, <3>3
  <2>8. start \in X
    BY <2>2, <2>3, <2>5
  <2> HIDE DEF X
  <2>9. PICK step : step = [i \in 1..n |-> [x \in X |-> Rows!CopyChunk(x, table, columns, chunk_size, max)]]
    OBVIOUS
  <2>10. step \in [1..n -> [X -> X]]
    BY <2>7, <2>9
  <2>11. PICK H \in [0..n -> X] : H[0] = start /\ \A i \in 1..n : H[i] = step[i][H[i - 1]]
    BY ONLY <1>3, <2>8, <2>10, Iteration
  <2>12. \A i \in 1..n : H[i] = Rows!CopyChunk(H[i - 1], table, columns, chunk_size, range[2])
    <3> SUFFICES ASSUME NEW i \in 1..n
                 PROVE  H[i] = Rows!CopyChunk(H[i - 1], table, columns, chunk_size, range[2])
      OBVIOUS
    <3>1. H[i - 1] \in X
      BY <1>3
    <3> QED  BY <2>3, <2>9, <2>11, <3>1
  <2>13. PICK F : /\ F[0] = start
                  /\ \A i \in 1..n : F[i] = Rows!CopyChunk(F[i - 1], table, columns, chunk_size, range[2])
                  /\ Rows!CopyAll(table, columns, chunk_size, n) = F[n].ghosts
    <3>1. H = [i \in 0..n |-> H[i]] /\ H[0] = start
      BY <2>11
    <3> HIDE DEF key
    <3>2. range = Rows!ReadRowRange(table, columns[1])
      BY <2>1 DEF key
    <3>3. PICK F : AreChunks(F, H[0], table, columns, chunk_size, range[2], n)
      BY <1>3, <2>4, <2>12, <3>1, <3>2, ChunksAre
    <3> QED  BY <3>1, <3>3 DEF AreChunks
  <2> DEFINE P == {i \in 0..n : Covers(table, key, min, max, i, F[i])}
  <2>14. 0 \in P
    BY <1>3, <2>6, <2>13
  <2>15. ASSUME NEW i \in 1..n, i - 1 \in P PROVE i \in P
    <3>1. Covers(table, key, min, max, i - 1, F[i - 1])
      BY <2>15
    <3>2. i \in Nat /\ i > 0 /\ i \in 0..n
      BY <1>3
    <3>3. Covers(table, key, min, max, i, Rows!CopyChunk(F[i - 1], table, columns, chunk_size, max))
      BY <1>5, <3>1, <3>2, CoversMore
    <3> QED  BY <2>3, <2>13, <3>2, <3>3
  <2>16. n \in P
    <3> HIDE DEF P
    <3>1. 0..n \subseteq P
      BY <1>3, <2>14, <2>15, Induction
    <3> QED  BY <1>3, <3>1
  <2>17. PICK k \in Int : /\ min <= k /\ k <= max /\ F[n] = CopiedTo(table, key, min, k)
                          /\ KeysIn(table, key, k, max) = {} \/ n <= Cardinality(KeysIn(table, key, min, k))
    BY <2>16 DEF Covers
  <2> HIDE DEF P
  <2>18. KeysIn(table, key, k, max) = {}
    <3>1. KeysIn(table, key, min, k) \in SUBSET table /\ KeysIn(table, key, min, k) # table
      BY <2>2 DEF KeysIn
    <3>2. IsFiniteSet(table) /\ IsFiniteSet(KeysIn(table, key, min, k))
      BY <1>1, <3>1, FS_Subset DEF AreRows
    <3>3. Cardinality(KeysIn(table, key, min, k)) <= n /\ Cardinality(KeysIn(table, key, min, k)) # n
      BY <1>2, <3>1, <3>2, FS_Subset
    <3>4. Cardinality(KeysIn(table, key, min, k)) \in Nat
      BY <3>2, FS_CardinalityType
    <3> QED  BY <1>3, <2>17, <3>3, <3>4
  <2>19. KeysIn(table, key, min, k) = later
    <3>1. \A r \in table : r[key] \in Int
      BY <1>1 DEF AreRows
    <3>2. ASSUME NEW r \in table PROVE r[key] <= k
      BY <2>2, <2>18, <3>1 DEF KeysIn
    <3>3. ASSUME NEW r \in table PROVE min < r[key] <=> \E q \in table : q[key] < r[key]
      <4>1. \A q \in table : min <= q[key] /\ q[key] \in Int
        BY <2>2, <3>1
      <4> HIDE DEF key
      <4> QED  BY <2>2, <4>1
    <3> QED  BY <3>2, <3>3 DEF KeysIn
  <2>20. F[n].ghosts = {read}
    <3>1. F[n].ghosts = {Copied(table, key, min, k)}
      BY <2>17 DEF CopiedTo
    <3>2. Copied(table, key, min, k) = read
      <4> HIDE DEF later
      <4> QED  BY <2>19 DEF Copied
    <3> QED  BY <3>1, <3>2
  <2> HIDE DEF read, later
  <2> QED  BY <1>5, <2>13, <2>20
<1> QED  BY <1>4, <1>5

-----------------------------------------------------------------------------
(* The ALTER: induction over its operations, and over the columns of each. *)

\* Losing names from a sequence.
\* One name after the other is kept or lost.
LoseNext(s, names, i, q) == IF s[i] \in names THEN q ELSE Append(q, s[i])

\* X has every sequence that members of s make.
HasAll(X, s) == <<>> \in X /\ \A i \in 1..Len(s) : \A q \in X : Append(q, s[i]) \in X

LoseIs(F, s, names, n) ==
    /\ F[0] = <<>> /\ Tab!Lose(s, names) = F[n]
    /\ \A i \in 1..n : F[i] = LoseNext(s, names, i, F[i - 1])

LEMMA LostOneByOne ==
    ASSUME NEW X, NEW s, HasAll(X, s), NEW names, NEW n \in Nat, n = Len(s)
    PROVE  \E F \in [0..n -> X] : LoseIs(F, s, names, n)
<1> USE DEF HasAll
<1> DEFINE Is(F) == F = [i \in 0..n |-> IF i = 0 THEN <<>>
                           ELSE IF s[i] \in names THEN F[i - 1] ELSE Append(F[i - 1], s[i])]
           G == CHOOSE F : Is(F)
<1>1. PICK step : step = [i \in 1..n |-> [q \in X |-> LoseNext(s, names, i, q)]]
  OBVIOUS
<1>2. step \in [1..n -> [X -> X]]
  BY <1>1 DEF LoseNext
<1>3. PICK F \in [0..n -> X] : F[0] = <<>> /\ \A i \in 1..n : F[i] = step[i][F[i - 1]]
  <2>1. PICK first \in X : first = <<>>
    OBVIOUS
  <2>2. \E F \in [0..n -> X] : F[0] = first /\ \A i \in 1..n : F[i] = step[i][F[i - 1]]
    <3>1. first \in X /\ n \in Nat
      OBVIOUS
    <3> QED  BY ONLY <1>2, <3>1, Iteration
  <2> QED  BY <2>1, <2>2
<1>4. ASSUME NEW i \in 1..n PROVE F[i] = LoseNext(s, names, i, F[i - 1])
  <2>1. F[i - 1] \in X
    OBVIOUS
  <2> QED  BY <1>1, <1>3, <2>1
<1>5. Is(F)
  <2>1. \A i \in 0..n : F[i] = IF i = 0 THEN <<>>
                           ELSE IF s[i] \in names THEN F[i - 1] ELSE Append(F[i - 1], s[i])
    <3> SUFFICES ASSUME NEW i \in 0..n, i # 0
                 PROVE  F[i] = IF s[i] \in names THEN F[i - 1] ELSE Append(F[i - 1], s[i])
      BY <1>3
    <3>1. i \in 1..n
      OBVIOUS
    <3> QED  BY <1>4, <3>1, Zenon DEF LoseNext
  <2> QED  BY <2>1
<1>6. Is(G)
  <2> HIDE DEF Is
  <2> QED  BY <1>5
<1>7. Tab!Lose(s, names) = G[n]
  BY DEF Tab!Lose
<1> HIDE DEF G
<1>8. G[0] = <<>> /\ G \in [0..n -> X] /\ \A i \in 1..n : G[i] = LoseNext(s, names, i, G[i - 1])
  <2>1. G[0] = <<>> /\ \A i \in 1..n : G[i] = LoseNext(s, names, i, G[i - 1])
    <3>1. G[0] = <<>>
      BY <1>6
    <3>2. ASSUME NEW i \in 1..n PROVE G[i] = LoseNext(s, names, i, G[i - 1])
      <4>1. i \in 0..n /\ i # 0
        OBVIOUS
      <4> QED  BY <1>6, <4>1, Zenon DEF LoseNext
    <3> QED  BY <3>1, <3>2
  <2>2. \A i \in 1..n : G[i - 1] \in X => G[i] \in X
    BY <2>1 DEF LoseNext
  <2>3. 0..n \subseteq {i \in 0..n : G[i] \in X}
    <3> DEFINE P == {i \in 0..n : G[i] \in X}
    <3>1. 0 \in P /\ \A i \in 1..n : i - 1 \in P => i \in P
      BY <2>1, <2>2
    <3> HIDE DEF P
    <3>2. 0..n \subseteq P
      BY <3>1, Induction
    <3> QED  BY <3>2 DEF P
  <2> QED  BY <1>6, <2>1, <2>3
<1> QED  BY <1>7, <1>8 DEF LoseIs

LEMMA LoseKeeps ==
    ASSUME NEW S, NEW s \in Seq(S), NEW names
    PROVE  /\ Tab!Lose(s, names) \in Seq(S)
           /\ Tab!In(Tab!Lose(s, names)) = Tab!In(s) \ names
<1>1. PICK n \in Nat : n = Len(s)
  OBVIOUS
<1>2. PICK F \in [0..n -> Seq(S)] : LoseIs(F, s, names, n)
  <2>1. PICK X : X = Seq(S)
    OBVIOUS
  <2>2. HasAll(X, s)
    BY <2>1 DEF HasAll
  <2>3. \E F \in [0..n -> X] : LoseIs(F, s, names, n)
    BY <1>1, <2>2, LostOneByOne
  <2> QED  BY <2>1, <2>3
<1> DEFINE P == {i \in 0..n : Tab!In(F[i]) = {s[j] : j \in 1..i} \ names}
<1>3. 0 \in P
  BY <1>2 DEF Tab!In, LoseIs
<1>4. ASSUME NEW i \in 1..n, i - 1 \in P
      PROVE  i \in P
  <2>1. F[i - 1] \in Seq(S) /\ s[i] \in S
    BY <1>1
  <2>2. Tab!In(F[i - 1]) = {s[j] : j \in 1..(i - 1)} \ names /\ i \in 0..n
    BY <1>4
  <2>3. 1..i = 1..(i - 1) \union {i}
    OBVIOUS
  <2>4. CASE s[i] \in names
    BY <1>2, <2>2, <2>3, <2>4 DEF LoseIs, LoseNext
  <2>5. CASE s[i] \notin names
    <3>1. F[i] = Append(F[i - 1], s[i])
      BY <1>2, <2>5 DEF LoseIs, LoseNext
    <3>2. Tab!In(Append(F[i - 1], s[i])) = Tab!In(F[i - 1]) \union {s[i]}
      <4>1. PICK q \in Seq(S) : q = F[i - 1]
        BY <2>1
      <4>2. PICK m \in Nat : m = Len(q)
        OBVIOUS
      <4>3. /\ Len(Append(q, s[i])) = m + 1
            /\ Append(q, s[i])[m + 1] = s[i]
            /\ \A j \in 1..m : Append(q, s[i])[j] = q[j]
        <5>1. PICK x \in S : x = s[i]
          BY <2>1
        <5>2. /\ Append(q, x) \in Seq(S) /\ Len(Append(q, x)) = Len(q) + 1
              /\ \A j \in 1..Len(q) : Append(q, x)[j] = q[j]
              /\ Append(q, x)[Len(q) + 1] = x
          BY AppendProperties
        <5> QED  BY <4>2, <5>1, <5>2
      <4>4. 1..(m + 1) = 1..m \union {m + 1}
        OBVIOUS
      <4> QED  BY <4>1, <4>2, <4>3, <4>4 DEF Tab!In
    <3> QED  BY <2>2, <2>3, <2>5, <3>1, <3>2
  <2> QED  BY <2>4, <2>5
<1>5. n \in P
  <2> HIDE DEF P
  <2>1. 0..n \subseteq P
    BY <1>3, <1>4, Induction
  <2> QED  BY <2>1
<1> QED  BY <1>1, <1>2, <1>5 DEF Tab!In, LoseIs

Renamed(C, from, to) == {IF c = from THEN to ELSE c : c \in C}

LEMMA RenameKeeps ==
    ASSUME NEW S, NEW s \in Seq(S), NEW from \in S, NEW to \in S
    PROVE  /\ Tab!Rename(s, from, to) \in Seq(S)
           /\ Tab!In(Tab!Rename(s, from, to)) = Renamed(Tab!In(s), from, to)
<1>1. PICK n \in Nat : n = Len(s)
  OBVIOUS
<1>2. \A i \in 1..n : s[i] \in S
  BY <1>1
<1>3. PICK r : r = Tab!Rename(s, from, to)
  OBVIOUS
<1>4. r = [i \in 1..n |-> IF s[i] = from THEN to ELSE s[i]]
  BY <1>1, <1>3 DEF Tab!Rename
<1>5. r \in [1..n -> S]
  BY <1>2, <1>4
<1>6. r \in Seq(S) /\ Len(r) = n
  BY <1>5
<1>7. Tab!In(r) = Renamed(Tab!In(s), from, to)
  BY <1>1, <1>4, <1>6 DEF Tab!In, Renamed
<1> QED  BY <1>3, <1>6, <1>7

-----------------------------------------------------------------------------
KeyTypes == {"Primary", "Unique", "None"}
KeysOf(Words) == [name : Words \union {"PRIMARY"}, type : KeyTypes, columns : Seq(Words)]
TablesOf(Words) == [columns : Seq(Words), keys : SUBSET KeysOf(Words)]
Operations(Words) == [type : STRING, name : Words, old_name : Words, columns : Seq(Words)]

\* Every key is one of columns that the table has.
Keyed(t) == \A k \in t.keys : Tab!In(k.columns) \subseteq Tab!Columns(t)

DroppedBy(op) == IF op.type = "DropColumn" THEN {op.name} ELSE {}
AddedBy(op) == IF op.type = "AddColumn" THEN {op.name} ELSE {}
Renames(op) == op.type = "ChangeColumn" /\ op.name # op.old_name
Takes(op) == op.type \in {"DropColumn", "DropIndex", "DropPrimaryKey", "ChangeColumn"}

\* What an operation does to a table's columns and keys.
Effect(Words, op, t, u) ==
    /\ u \in TablesOf(Words) /\ Keyed(u)
    /\ ~Renames(op) => Tab!Columns(u) = (Tab!Columns(t) \ DroppedBy(op)) \union AddedBy(op)
    /\ ~Takes(op) => t.keys \subseteq u.keys

LEMMA ColumnAdded ==
    ASSUME NEW Words, NEW t \in TablesOf(Words), Keyed(t), NEW op \in Operations(Words),
           op.type = "AddColumn", NEW u \in Tab!Altered(t, op)
    PROVE  Effect(Words, op, t, u)
<1>1. u = Tab!Table(Append(t.columns, op.name), t.keys)
  BY DEF Tab!Altered
<1>2. u.columns = Append(t.columns, op.name) /\ u.keys = t.keys
      /\ u = [columns |-> Append(t.columns, op.name), keys |-> t.keys]
  BY <1>1 DEF Tab!Table
<1>3. t.columns \in Seq(Words) /\ t.keys \in SUBSET KeysOf(Words) /\ op.name \in Words
  BY DEF TablesOf, Operations
<1>4. u \in TablesOf(Words)
  BY <1>2, <1>3 DEF TablesOf
<1>5. Tab!Columns(u) = Tab!Columns(t) \union {op.name}
  <2>1. PICK s \in Seq(Words) : s = t.columns
    BY <1>3
  <2>2. PICK m \in Nat : m = Len(s)
    OBVIOUS
  <2>3. /\ Len(Append(s, op.name)) = m + 1
        /\ \A i \in 1..m : Append(s, op.name)[i] = s[i]
        /\ Append(s, op.name)[m + 1] = op.name
    BY <1>3, <2>2, AppendProperties
  <2>4. 1..(m + 1) = 1..m \union {m + 1}
    OBVIOUS
  <2> QED  BY <1>2, <2>1, <2>2, <2>3, <2>4 DEF Tab!Columns, Tab!In
<1> QED  BY <1>2, <1>4, <1>5 DEF Effect, Keyed, DroppedBy, AddedBy

LEMMA ColumnDropped ==
    ASSUME NEW Words, NEW t \in TablesOf(Words), Keyed(t), NEW op \in Operations(Words),
           op.type = "DropColumn", NEW u \in Tab!Altered(t, op)
    PROVE  Effect(Words, op, t, u)
<1> DEFINE New(k) == [k EXCEPT !.columns = Tab!Lose(@, {op.name})]
           Left == {k \in t.keys : Tab!In(k.columns) # {op.name}}
<1>1. u = Tab!Table(Tab!Lose(t.columns, {op.name}), {New(k) : k \in Left})
  BY DEF Tab!Altered
<1>2. u.columns = Tab!Lose(t.columns, {op.name}) /\ u.keys = {New(k) : k \in Left}
      /\ u = [columns |-> Tab!Lose(t.columns, {op.name}), keys |-> {New(k) : k \in Left}]
  BY <1>1 DEF Tab!Table
<1>3. t.columns \in Seq(Words) /\ t.keys \in SUBSET KeysOf(Words) /\ op.name \in Words
  BY DEF TablesOf, Operations
<1>4. Tab!Columns(u) = Tab!Columns(t) \ {op.name} /\ u.columns \in Seq(Words)
  BY <1>2, <1>3, LoseKeeps DEF Tab!Columns
<1>5. ASSUME NEW k \in t.keys
      PROVE  New(k) \in KeysOf(Words) /\ Tab!In(New(k).columns) = Tab!In(k.columns) \ {op.name}
  <2>1. k \in KeysOf(Words) /\ k.columns \in Seq(Words)
    BY <1>3 DEF KeysOf
  <2>2. PICK s : s = Tab!Lose(k.columns, {op.name})
    OBVIOUS
  <2>3. s \in Seq(Words) /\ Tab!In(s) = Tab!In(k.columns) \ {op.name}
    BY <2>1, <2>2, LoseKeeps
  <2>4. New(k) = [k EXCEPT !.columns = s]
    BY <2>2
  <2>5. [k EXCEPT !.columns = s] \in KeysOf(Words) /\ [k EXCEPT !.columns = s].columns = s
    BY <2>1, <2>3 DEF KeysOf
  <2> HIDE DEF New
  <2> QED  BY <2>3, <2>4, <2>5
<1> HIDE DEF New
<1>6. u \in TablesOf(Words)
  BY <1>2, <1>4, <1>5 DEF TablesOf
<1>7. Keyed(u)
  BY <1>2, <1>4, <1>5 DEF Keyed
<1> QED  BY <1>4, <1>6, <1>7 DEF Effect, DroppedBy, AddedBy, Takes

LEMMA ColumnChanged ==
    ASSUME NEW Words, NEW t \in TablesOf(Words), Keyed(t), NEW op \in Operations(Words),
           op.type = "ChangeColumn", NEW u \in Tab!Altered(t, op)
    PROVE  Effect(Words, op, t, u)
<1> DEFINE New(k) == [k EXCEPT !.columns = Tab!Rename(@, op.old_name, op.name)]
           To(C) == Renamed(C, op.old_name, op.name)
<1>1. u = Tab!Table(Tab!Rename(t.columns, op.old_name, op.name), {New(k) : k \in t.keys})
  BY DEF Tab!Altered
<1>2. u.columns = Tab!Rename(t.columns, op.old_name, op.name) /\ u.keys = {New(k) : k \in t.keys}
      /\ u = [columns |-> Tab!Rename(t.columns, op.old_name, op.name), keys |-> {New(k) : k \in t.keys}]
  BY <1>1 DEF Tab!Table
<1>3. /\ t.columns \in Seq(Words) /\ t.keys \in SUBSET KeysOf(Words)
      /\ op.name \in Words /\ op.old_name \in Words
  BY DEF TablesOf, Operations
<1>4. Tab!Columns(u) = To(Tab!Columns(t)) /\ u.columns \in Seq(Words)
  BY <1>2, <1>3, RenameKeeps DEF Tab!Columns
<1>5. ASSUME NEW k \in t.keys
      PROVE  New(k) \in KeysOf(Words) /\ Tab!In(New(k).columns) = To(Tab!In(k.columns))
  <2>1. k \in KeysOf(Words) /\ k.columns \in Seq(Words)
    BY <1>3 DEF KeysOf
  <2>2. PICK s : s = Tab!Rename(k.columns, op.old_name, op.name)
    OBVIOUS
  <2>3. s \in Seq(Words) /\ Tab!In(s) = To(Tab!In(k.columns))
    BY <1>3, <2>1, <2>2, RenameKeeps
  <2>4. New(k) = [k EXCEPT !.columns = s]
    BY <2>2
  <2>5. [k EXCEPT !.columns = s] \in KeysOf(Words) /\ [k EXCEPT !.columns = s].columns = s
    BY <2>1, <2>3 DEF KeysOf
  <2> HIDE DEF New, To
  <2> QED  BY <2>3, <2>4, <2>5
<1> HIDE DEF New
<1>6. u \in TablesOf(Words)
  BY <1>2, <1>4, <1>5 DEF TablesOf
<1>7. Keyed(u)
  <2>1. \A C, D : C \subseteq D => To(C) \subseteq To(D)
    BY DEF Renamed
  <2> HIDE DEF To
  <2> QED  BY <1>2, <1>4, <1>5, <2>1 DEF Keyed
<1>8. ~Renames(op) => Tab!Columns(u) = Tab!Columns(t)
  <2> SUFFICES ASSUME op.name = op.old_name PROVE Tab!Columns(u) = Tab!Columns(t)
    BY DEF Renames
  <2> QED  BY <1>4 DEF Renamed
<1> QED  BY <1>6, <1>7, <1>8 DEF Effect, DroppedBy, AddedBy, Takes

LEMMA KeyAdded ==
    ASSUME NEW Words, NEW t \in TablesOf(Words), Keyed(t), NEW op \in Operations(Words),
           op.type \in {"AddIndex", "AddUniqueKey", "AddPrimaryKey"}, NEW u \in Tab!Altered(t, op)
    PROVE  Effect(Words, op, t, u)
<1>1. PICK k \in KeysOf(Words) :
        Tab!In(k.columns) \subseteq Tab!Columns(t) /\ u = Tab!Table(t.columns, t.keys \union {k})
  <2>1. \A type \in KeyTypes, name \in Words \union {"PRIMARY"} :
            LET k == Tab!Key(name, type, op.columns) IN
            k \in KeysOf(Words) /\ k.columns = op.columns
    BY DEF Tab!Key, KeysOf, Operations
  <2>2. op.name \in Words \union {"PRIMARY"}
    BY DEF Operations
  <2>3. \E type \in KeyTypes, name \in Words \union {"PRIMARY"} :
            /\ Tab!In(Tab!Key(name, type, op.columns).columns) \subseteq Tab!Columns(t)
            /\ u = Tab!Table(t.columns, t.keys \union {Tab!Key(name, type, op.columns)})
    <3>1. CASE op.type = "AddIndex"
      BY <2>2, <3>1 DEF Tab!Altered, KeyTypes
    <3>2. CASE op.type = "AddUniqueKey"
      BY <2>2, <3>2 DEF Tab!Altered, KeyTypes
    <3>3. CASE op.type = "AddPrimaryKey"
      BY <2>2, <3>3 DEF Tab!Altered, KeyTypes
    <3> QED  BY <3>1, <3>2, <3>3
  <2> QED  BY <2>1, <2>3
<1>2. /\ u.columns = t.columns /\ u.keys = t.keys \union {k}
      /\ u = [columns |-> t.columns, keys |-> t.keys \union {k}]
  BY <1>1 DEF Tab!Table
<1>3. u \in TablesOf(Words)
  BY <1>2 DEF TablesOf
<1>4. Tab!Columns(u) = Tab!Columns(t)
  BY <1>2 DEF Tab!Columns
<1> QED  BY <1>1, <1>2, <1>3, <1>4 DEF Effect, Keyed, DroppedBy, AddedBy

LEMMA KeyDropped ==
    ASSUME NEW Words, NEW t \in TablesOf(Words), Keyed(t), NEW op \in Operations(Words),
           op.type \in {"ModifyColumn", "DropIndex", "DropPrimaryKey"}, NEW u \in Tab!Altered(t, op)
    PROVE  Effect(Words, op, t, u)
<1>1. CASE op.type = "ModifyColumn"
  BY <1>1 DEF Tab!Altered, Effect, DroppedBy, AddedBy
<1>2. CASE op.type # "ModifyColumn"
  <2>1. PICK K \in SUBSET t.keys : u = Tab!Table(t.columns, K)
    <3>1. CASE op.type = "DropIndex"
      BY <3>1 DEF Tab!Altered
    <3>2. CASE op.type = "DropPrimaryKey"
      BY <3>2 DEF Tab!Altered
    <3> QED  BY <1>2, <3>1, <3>2
  <2>2. u.columns = t.columns /\ u.keys = K /\ u = [columns |-> t.columns, keys |-> K]
    BY <2>1 DEF Tab!Table
  <2>3. u \in TablesOf(Words) /\ Tab!Columns(u) = Tab!Columns(t)
    BY <2>2 DEF TablesOf, Tab!Columns
  <2> QED  BY <1>2, <2>2, <2>3 DEF Effect, Keyed, DroppedBy, AddedBy, Takes
<1> QED  BY <1>1, <1>2

LEMMA OneOperation ==
    ASSUME NEW Words, NEW t \in TablesOf(Words), Keyed(t), NEW op \in Operations(Words),
           NEW u \in Tab!Altered(t, op)
    PROVE  Effect(Words, op, t, u)
<1>1. op.type \in {"AddColumn", "DropColumn", "ChangeColumn", "AddIndex", "AddUniqueKey",
                   "AddPrimaryKey", "ModifyColumn", "DropIndex", "DropPrimaryKey"}
  <2> SUFFICES ASSUME op.type \notin {"AddColumn", "DropColumn", "ChangeColumn", "AddIndex",
                 "AddUniqueKey", "AddPrimaryKey", "ModifyColumn", "DropIndex", "DropPrimaryKey"}
               PROVE  FALSE
    OBVIOUS
  <2> QED  BY DEF Tab!Altered
<1> QED  BY <1>1, ColumnAdded, ColumnDropped, ColumnChanged, KeyAdded, KeyDropped

AlteredAll(S, op) == UNION {Tab!Altered(t, op) : t \in S}

\* F gives the tables after each number of operations.
AltersIs(F, table, ops, n) ==
    /\ F[0] = {table} /\ Tab!AlterTable(table, ops) = F[n]
    /\ \A i \in 1..n : F[i] = AlteredAll(F[i - 1], ops[i])

\* X has every set of tables that the operations make.
Closed(X, table, ops) ==
    /\ {table} \in X /\ \A i \in 1..Len(ops) : \A S \in X : AlteredAll(S, ops[i]) \in X

LEMMA AlteredOneByOne ==
    ASSUME NEW X, NEW table, NEW ops, Closed(X, table, ops), NEW n \in Nat, n = Len(ops)
    PROVE  \E F : AltersIs(F, table, ops, n)
<1> DEFINE Is(F) == F = [i \in 0..n |-> IF i = 0 THEN {table}
                           ELSE UNION {Tab!Altered(t, ops[i]) : t \in F[i - 1]}]
           G == CHOOSE F : Is(F)
<1>1. PICK step : step = [i \in 1..n |-> [S \in X |-> AlteredAll(S, ops[i])]]
  OBVIOUS
<1>2. step \in [1..n -> [X -> X]]
  BY <1>1 DEF Closed
<1>3. PICK F \in [0..n -> X] : F[0] = {table} /\ \A i \in 1..n : F[i] = step[i][F[i - 1]]
  <2>1. PICK first \in X : first = {table}
    BY DEF Closed
  <2>2. \E F \in [0..n -> X] : F[0] = first /\ \A i \in 1..n : F[i] = step[i][F[i - 1]]
    <3>1. first \in X /\ n \in Nat
      OBVIOUS
    <3> QED  BY ONLY <1>2, <3>1, Iteration
  <2> QED  BY <2>1, <2>2
<1>4. ASSUME NEW i \in 1..n PROVE F[i] = AlteredAll(F[i - 1], ops[i])
  <2>1. F[i - 1] \in X
    OBVIOUS
  <2> QED  BY <1>1, <1>3, <2>1
<1>5. Is(F)
  <2>1. \A i \in 0..n : F[i] = IF i = 0 THEN {table}
                           ELSE UNION {Tab!Altered(t, ops[i]) : t \in F[i - 1]}
    <3> SUFFICES ASSUME NEW i \in 0..n, i # 0
                 PROVE  F[i] = UNION {Tab!Altered(t, ops[i]) : t \in F[i - 1]}
      BY <1>3
    <3>1. i \in 1..n
      OBVIOUS
    <3> QED  BY <1>4, <3>1, Zenon DEF AlteredAll
  <2> QED  BY <2>1
<1>6. Is(G)
  <2> HIDE DEF Is
  <2> QED  BY <1>5
<1>7. Tab!AlterTable(table, ops) = G[n]
  BY DEF Tab!AlterTable
<1> HIDE DEF G
<1>8. G[0] = {table}
  BY <1>6
<1>9. ASSUME NEW i \in 1..n PROVE G[i] = AlteredAll(G[i - 1], ops[i])
  <2>1. i \in 0..n /\ i # 0
    OBVIOUS
  <2> QED  BY <1>6, <2>1, Zenon DEF AlteredAll
<1> QED  BY <1>7, <1>8, <1>9 DEF AltersIs

\* The names of operations of a type among the first i.
NamesUpTo(ops, type, i) == {ops[j].name : j \in {k \in 1..i : ops[k].type = type}}

\* A table after the first i operations.
AfterSome(Words, original, ops, n, i, u) ==
    /\ u \in TablesOf(Words) /\ Keyed(u)
    /\ /\ \A j \in 1..i : ~Renames(ops[j])
       /\ Tab!NamesOf(ops, "DropColumn") \intersect Tab!NamesOf(ops, "AddColumn") = {}
       => Tab!Columns(u) = (Tab!Columns(original) \ NamesUpTo(ops, "DropColumn", i))
                              \union NamesUpTo(ops, "AddColumn", i)
    /\ (\A j \in 1..i : ~Takes(ops[j])) => original.keys \subseteq u.keys

LEMMA AfterOneMore ==
    ASSUME NEW Words, NEW original, NEW ops \in Seq(Operations(Words)), NEW n \in Nat, n = Len(ops),
           NEW i \in 1..n, NEW t, AfterSome(Words, original, ops, n, i - 1, t),
           NEW u \in Tab!Altered(t, ops[i])
    PROVE  AfterSome(Words, original, ops, n, i, u)
<1>1. ops[i] \in Operations(Words) /\ t \in TablesOf(Words) /\ Keyed(t)
  BY DEF AfterSome
<1>2. Effect(Words, ops[i], t, u)
  BY <1>1, OneOperation
<1>3. 1..i = 1..(i - 1) \union {i} /\ i \in 1..Len(ops) /\ \A j \in 1..i : j \in 1..Len(ops)
  OBVIOUS
<1>4. /\ NamesUpTo(ops, "DropColumn", i) = NamesUpTo(ops, "DropColumn", i - 1) \union DroppedBy(ops[i])
      /\ NamesUpTo(ops, "AddColumn", i) = NamesUpTo(ops, "AddColumn", i - 1) \union AddedBy(ops[i])
      /\ NamesUpTo(ops, "AddColumn", i) \subseteq Tab!NamesOf(ops, "AddColumn")
      /\ DroppedBy(ops[i]) \subseteq Tab!NamesOf(ops, "DropColumn")
  BY <1>3 DEF NamesUpTo, DroppedBy, AddedBy, Tab!NamesOf
<1>5. ASSUME \A j \in 1..i : ~Renames(ops[j]),
             Tab!NamesOf(ops, "DropColumn") \intersect Tab!NamesOf(ops, "AddColumn") = {}
      PROVE  Tab!Columns(u) = (Tab!Columns(original) \ NamesUpTo(ops, "DropColumn", i))
                                 \union NamesUpTo(ops, "AddColumn", i)
  <2>1. Tab!Columns(t) = (Tab!Columns(original) \ NamesUpTo(ops, "DropColumn", i - 1))
                            \union NamesUpTo(ops, "AddColumn", i - 1)
    BY <1>3, <1>5 DEF AfterSome
  <2>2. Tab!Columns(u) = (Tab!Columns(t) \ DroppedBy(ops[i])) \union AddedBy(ops[i])
    BY <1>2, <1>3, <1>5 DEF Effect
  <2>3. DroppedBy(ops[i]) = {} \/ AddedBy(ops[i]) = {}
    BY DEF DroppedBy, AddedBy
  <2> QED  BY <1>4, <1>5, <2>1, <2>2, <2>3
<1>6. ASSUME \A j \in 1..i : ~Takes(ops[j]) PROVE original.keys \subseteq u.keys
  BY <1>2, <1>3, <1>6 DEF Effect, AfterSome
<1> QED  BY <1>2, <1>5, <1>6 DEF AfterSome, Effect

LEMMA AfterAll ==
    ASSUME NEW Words, NEW original \in TablesOf(Words), Keyed(original),
           NEW ops \in Seq(Operations(Words)), NEW n \in Nat, n = Len(ops),
           NEW ghost \in Tab!AlterTable(original, ops)
    PROVE  AfterSome(Words, original, ops, n, n, ghost)
<1>1. PICK X : X = SUBSET {t \in TablesOf(Words) : Keyed(t)}
  OBVIOUS
<1>2. Closed(X, original, ops)
  <2>1. ASSUME NEW i \in 1..Len(ops), NEW S \in X PROVE AlteredAll(S, ops[i]) \in X
    <3>1. ops[i] \in Operations(Words)
      OBVIOUS
    <3>2. ASSUME NEW t \in S, NEW u \in Tab!Altered(t, ops[i])
          PROVE  u \in TablesOf(Words) /\ Keyed(u)
      <4>1. t \in TablesOf(Words) /\ Keyed(t)
        BY <1>1
      <4> QED  BY <3>1, <4>1, OneOperation DEF Effect
    <3> QED  BY <1>1, <3>2 DEF AlteredAll
  <2> QED  BY <1>1, <2>1 DEF Closed
<1>3. PICK F : AltersIs(F, original, ops, n)
  BY <1>2, AlteredOneByOne
<1> DEFINE P == {i \in 0..n : \A u \in F[i] : AfterSome(Words, original, ops, n, i, u)}
<1>4. 0 \in P
  <2>1. NamesUpTo(ops, "DropColumn", 0) = {} /\ NamesUpTo(ops, "AddColumn", 0) = {}
    BY DEF NamesUpTo
  <2> QED  BY <1>3, <2>1 DEF AltersIs, AfterSome
<1>5. ASSUME NEW i \in 1..n, i - 1 \in P
      PROVE  i \in P
  <2>1. ASSUME NEW u \in F[i] PROVE AfterSome(Words, original, ops, n, i, u)
    <3>1. PICK t \in F[i - 1] : u \in Tab!Altered(t, ops[i])
      BY <1>3 DEF AltersIs, AlteredAll
    <3>2. AfterSome(Words, original, ops, n, i - 1, t)
      BY <1>5
    <3> QED  BY <3>1, <3>2, AfterOneMore
  <2> QED  BY <2>1
<1>6. n \in P
  <2> HIDE DEF P
  <2>1. 0..n \subseteq P
    BY <1>4, <1>5, Induction
  <2> QED  BY <2>1
<1> QED  BY <1>3, <1>6 DEF AltersIs

(* What the inspector takes for shared is in the table and in its copy,    *)
(* and the key it chooses has the same columns in both, whatever the table *)
(* and the operations: no operation that FindBestUniqueKey does not look   *)
(* at takes a column or a key from under it.                               *)
THEOREM SharedColumnsAreThere ==
    ASSUME NEW Words, NEW original \in TablesOf(Words), Keyed(original),
           NEW ops \in Seq(Operations(Words))
    PROVE  Tab!SharedColumnsFit(original, ops)
<1> SUFFICES ASSUME NEW ghost \in Tab!AlterTable(original, ops)
    PROVE LET pairs == Tab!DetermineColumnPairs(original, ops)
              chosen == Tab!FindBestUniqueKey(original, ghost)
              renames == \E i \in 1..Len(ops) : ops[i].type = "ChangeColumn" /\ ops[i].name # ops[i].old_name
              keeps == \A i \in 1..Len(ops) : ops[i].type \notin
                        {"DropColumn", "DropIndex", "DropPrimaryKey", "ChangeColumn"}
        IN /\ ~renames /\ pairs.dropped \intersect pairs.added = {} =>
                /\ Tab!In(pairs.shared) \subseteq Tab!Columns(original) \intersect Tab!Columns(ghost)
                /\ Tab!Columns(ghost) = Tab!In(pairs.shared) \union pairs.added
           /\ \A k \in chosen :
                /\ k \in original.keys /\ k.type \in {"Primary", "Unique"}
                /\ Tab!In(k.columns) \subseteq Tab!Columns(original) \intersect Tab!Columns(ghost)
                /\ \E g \in ghost.keys : g.columns = k.columns
                                            /\ (k.type = "Primary" => g.type = "Primary")
           /\ Tab!ValidateMigration(original, ops) /\ keeps => chosen # {}
  BY DEF Tab!SharedColumnsFit
<1> DEFINE pairs == Tab!DetermineColumnPairs(original, ops)
           chosen == Tab!FindBestUniqueKey(original, ghost)
<1>1. PICK n \in Nat : n = Len(ops)
  OBVIOUS
<1>2. AfterSome(Words, original, ops, n, n, ghost)
  BY <1>1, AfterAll
<1>3. ASSUME \A i \in 1..Len(ops) : ~(ops[i].type = "ChangeColumn" /\ ops[i].name # ops[i].old_name),
             pairs.dropped \intersect pairs.added = {}
      PROVE  /\ Tab!In(pairs.shared) \subseteq Tab!Columns(original) \intersect Tab!Columns(ghost)
             /\ Tab!Columns(ghost) = Tab!In(pairs.shared) \union pairs.added
  <2>1. /\ pairs.dropped = Tab!NamesOf(ops, "DropColumn") /\ pairs.added = Tab!NamesOf(ops, "AddColumn")
        /\ pairs.shared = Tab!Lose(original.columns, Tab!NamesOf(ops, "DropColumn"))
    BY DEF Tab!DetermineColumnPairs
  <2>2. Tab!In(pairs.shared) = Tab!Columns(original) \ pairs.dropped
    <3>1. original.columns \in Seq(Words)
      BY DEF TablesOf
    <3> QED  BY <2>1, <3>1, LoseKeeps DEF Tab!Columns
  <2>3. /\ NamesUpTo(ops, "DropColumn", n) = Tab!NamesOf(ops, "DropColumn")
        /\ NamesUpTo(ops, "AddColumn", n) = Tab!NamesOf(ops, "AddColumn")
    BY <1>1 DEF NamesUpTo, Tab!NamesOf
  <2>4. \A j \in 1..n : ~Renames(ops[j])
    BY <1>1, <1>3 DEF Renames
  <2>5. Tab!Columns(ghost) = (Tab!Columns(original) \ pairs.dropped) \union pairs.added
    <3> HIDE DEF pairs
    <3> QED  BY <1>2, <1>3, <2>1, <2>3, <2>4 DEF AfterSome
  <2> HIDE DEF pairs
  <2> QED  BY <2>2, <2>5
<1>4. ASSUME NEW k \in chosen
      PROVE  /\ k \in original.keys /\ k.type \in {"Primary", "Unique"}
             /\ Tab!In(k.columns) \subseteq Tab!Columns(original) \intersect Tab!Columns(ghost)
             /\ \E g \in ghost.keys : g.columns = k.columns
                                         /\ (k.type = "Primary" => g.type = "Primary")
  <2>1. /\ k \in original.keys /\ k.type \in {"Primary", "Unique"}
        /\ \E g \in ghost.keys : g.columns = k.columns /\ (k.type = "Primary" => g.type = "Primary")
    BY DEF Tab!FindBestUniqueKey, Tab!OfType
  <2> HIDE DEF chosen
  <2> QED  BY <1>2, <2>1 DEF Keyed, AfterSome
<1>5. ASSUME Tab!ValidateMigration(original, ops),
             \A i \in 1..Len(ops) : ops[i].type \notin
                        {"DropColumn", "DropIndex", "DropPrimaryKey", "ChangeColumn"}
      PROVE  chosen # {}
  <2>1. original.keys \subseteq ghost.keys
    BY <1>1, <1>2, <1>5 DEF AfterSome, Takes
  <2>2. PICK k \in original.keys : k.type = "Unique"
    BY <1>5 DEF Tab!ValidateMigration, Tab!HasUniqueKey, Tab!OfType
  <2> QED  BY <2>1, <2>2 DEF Tab!FindBestUniqueKey, Tab!OfType
<1> HIDE DEF pairs, chosen
<1> QED  BY <1>3, <1>4, <1>5 DEF pairs, chosen

-----------------------------------------------------------------------------
(* The CREATE of the ghost table: what stands before the additions, and    *)
(* the additions and keys, each with its comma before it.                  *)

\* Begins with no comma, and has no two in a row; ends with none.
Headed(t) ==
    /\ t # <<>> => t[1] # Tab!Comma
    /\ \A i \in 2..Len(t) : ~(t[i] = Tab!Comma /\ t[i - 1] = Tab!Comma)
Ends(t) == t # <<>> /\ t[Len(t)] # Tab!Comma
\* Nothing, or a comma and something else.
Trails(t) ==
    \/ t = <<>>
    \/ /\ Len(t) > 0 /\ t[1] = Tab!Comma /\ t[Len(t)] # Tab!Comma
       /\ \A i \in 2..Len(t) : ~(t[i] = Tab!Comma /\ t[i - 1] = Tab!Comma)

LEMMA TrailsGoOn ==
    ASSUME NEW T, NEW s \in Seq(T), NEW t \in Seq(T), Trails(s), Trails(t)
    PROVE  s \o t \in Seq(T) /\ Trails(s \o t)
<1>1. CASE s = <<>> \/ t = <<>>
  <2>1. s \o t = IF s = <<>> THEN t ELSE s
    BY <1>1
  <2> QED  BY <2>1
<1>2. CASE s # <<>> /\ t # <<>>
  <2>1. PICK m \in Nat : m = Len(s)
    OBVIOUS
  <2>2. PICK n \in Nat : n = Len(t)
    OBVIOUS
  <2>3. PICK u : u = s \o t
    OBVIOUS
  <2>4. /\ u \in Seq(T) /\ Len(u) = m + n
        /\ \A i \in 1..(m + n) : u[i] = IF i <= m THEN s[i] ELSE t[i - m]
    BY <2>1, <2>2, <2>3, ConcatProperties
  <2>5. m > 0 /\ n > 0
    BY <1>2, <2>1, <2>2
  <2>6. u[1] = Tab!Comma /\ u[m + n] # Tab!Comma
    <3>1. u[1] = s[1]
      BY <2>4, <2>5
    <3>2. u[m + n] = t[n]
      <4>1. m + n \in 1..(m + n) /\ ~(m + n <= m) /\ (m + n) - m = n
        BY <2>5
      <4> QED  BY <2>4, <4>1
    <3> QED  BY <1>2, <2>1, <2>2, <3>1, <3>2 DEF Trails
  <2>7. ASSUME NEW i \in 2..(m + n), u[i] = Tab!Comma, u[i - 1] = Tab!Comma
        PROVE  FALSE
    <3>1. CASE i <= m
      <4>1. u[i] = s[i] /\ u[i - 1] = s[i - 1]
        BY <2>4, <3>1
      <4> QED  BY <1>2, <2>1, <2>7, <3>1, <4>1 DEF Trails
    <3>2. CASE i = m + 1
      <4>1. u[i - 1] = s[m]
        BY <2>4, <2>5, <3>2
      <4> QED  BY <1>2, <2>1, <2>7, <4>1 DEF Trails
    <3>3. CASE i > m + 1
      <4>1. PICK j \in 2..n : i = m + j
        <5>1. i - m \in 2..n /\ i = m + (i - m)
          BY <3>3
        <5> QED  BY <5>1
      <4>2. u[i] = t[j] /\ u[i - 1] = t[j - 1]
        BY <2>4, <4>1
      <4> QED  BY <1>2, <2>2, <2>7, <4>1, <4>2 DEF Trails
    <3> QED  BY <3>1, <3>2, <3>3
  <2>8. Trails(u)
    <3>1. Len(u) = m + n /\ m + n > 0
      BY <2>4, <2>5
    <3> QED  BY <2>6, <2>7, <3>1 DEF Trails
  <2> QED  BY <2>3, <2>4, <2>8
<1> QED  BY <1>1, <1>2

LEMMA TrailsOn ==
    ASSUME NEW T, NEW piece, NEW n, Pieces(T, piece, n), \A i \in 1..n : Trails(piece[i]),
           NEW F, Joins(T, F, piece, n)
    PROVE  F[n] \in Seq(T) /\ Trails(F[n])
<1>1. n \in Nat /\ \A i \in 1..n : piece[i] \in Seq(T)
  BY DEF Pieces
<1>2. F \in [0..n -> Seq(T)] /\ F[0] = <<>> /\ \A i \in 1..n : F[i] = F[i - 1] \o piece[i]
  BY DEF Joins
<1> DEFINE P == {i \in 0..n : Trails(F[i])}
<1>3. 0 \in P
  BY <1>1, <1>2 DEF Trails
<1>4. ASSUME NEW i \in 1..n, i - 1 \in P
      PROVE  i \in P
  <2>1. F[i - 1] \in Seq(T) /\ piece[i] \in Seq(T) /\ Trails(F[i - 1]) /\ Trails(piece[i])
    BY <1>1, <1>2, <1>4
  <2>2. Trails(F[i - 1] \o piece[i])
    BY <2>1, TrailsGoOn
  <2>3. Trails(F[i])
    BY <1>2, <2>2
  <2>4. i \in 0..n
    BY <1>1
  <2> QED  BY <2>3, <2>4
<1>5. n \in P
  <2> HIDE DEF P
  <2>1. 0..n \subseteq P
    BY <1>1, <1>3, <1>4, Induction
  <2> QED  BY <1>1, <2>1
<1> QED  BY <1>1, <1>2, <1>5

\* A head with a piece of the columns behind it: a column, with a comma or
\* without.
LEMMA HeadGoesOn ==
    ASSUME NEW T, NEW s \in Seq(T), Headed(s), s = <<>> \/ s[Len(s)] = Tab!Comma,
           NEW t \in Seq(T), Len(t) \in 1..2, t[1] # Tab!Comma, Len(t) = 2 => t[2] = Tab!Comma
    PROVE  /\ s \o t \in Seq(T) /\ Headed(s \o t) /\ s \o t # <<>>
           /\ (s \o t)[Len(s \o t)] = t[Len(t)]
<1>1. PICK m \in Nat : m = Len(s)
  OBVIOUS
<1>2. PICK n \in 1..2 : n = Len(t)
  OBVIOUS
<1>3. PICK u : u = s \o t
  OBVIOUS
<1>4. /\ u \in Seq(T) /\ Len(u) = m + n
      /\ \A i \in 1..(m + n) : u[i] = IF i <= m THEN s[i] ELSE t[i - m]
  BY <1>1, <1>2, <1>3, ConcatProperties
<1>5. u[1] # Tab!Comma
  <2>1. CASE m = 0
    BY <1>4, <2>1
  <2>2. CASE m > 0
    <3>1. u[1] = s[1]
      BY <1>4, <2>2
    <3> QED  BY <1>1, <2>2, <3>1 DEF Headed
  <2> QED  BY <2>1, <2>2
<1>6. u # <<>> /\ u[m + n] = t[n]
  BY <1>4
<1>7. ASSUME NEW i \in 2..(m + n), u[i] = Tab!Comma, u[i - 1] = Tab!Comma
      PROVE  FALSE
  <2>1. CASE i <= m
    <3>1. u[i] = s[i] /\ u[i - 1] = s[i - 1]
      BY <1>4, <2>1
    <3> QED  BY <1>1, <1>7, <2>1, <3>1 DEF Headed
  <2>2. CASE i = m + 1
    BY <1>4, <1>7, <2>2
  <2>3. CASE i = m + 2
    BY <1>4, <1>7, <2>3
  <2> QED  BY <2>1, <2>2, <2>3
<1> QED  BY <1>2, <1>3, <1>4, <1>5, <1>6, <1>7 DEF Headed

LEMMA WholeFits ==
    ASSUME NEW T, NEW s \in Seq(T), Headed(s), NEW t \in Seq(T), Trails(t), s = <<>> \/ s[Len(s)] = Tab!Comma \/ Ends(s)
    PROVE  Tab!WellFormed(s \o t) <=> Ends(s)
<1>1. PICK m \in Nat : m = Len(s)
  OBVIOUS
<1>2. PICK n \in Nat : n = Len(t)
  OBVIOUS
<1>3. PICK u : u = s \o t
  OBVIOUS
<1>4. /\ u \in Seq(T) /\ Len(u) = m + n
      /\ \A i \in 1..(m + n) : u[i] = IF i <= m THEN s[i] ELSE t[i - m]
  BY <1>1, <1>2, <1>3, ConcatProperties
<1>5. CASE Ends(s)
  <2>1. m > 0 /\ s[m] # Tab!Comma /\ s[1] # Tab!Comma
    BY <1>1, <1>5 DEF Ends, Headed
  <2>2. u # <<>> /\ u[1] # Tab!Comma
    BY <1>4, <2>1
  <2>3. u[m + n] # Tab!Comma
    <3>1. CASE n = 0
      BY <1>4, <2>1, <3>1
    <3>2. CASE n > 0
      <4>1. u[m + n] = t[n]
        BY <1>4, <3>2
      <4> QED  BY <1>2, <3>2, <4>1 DEF Trails
    <3> QED  BY <3>1, <3>2
  <2>4. ASSUME NEW i \in 2..(m + n), u[i] = Tab!Comma, u[i - 1] = Tab!Comma
        PROVE  FALSE
    <3>1. CASE i <= m
      <4>1. u[i] = s[i] /\ u[i - 1] = s[i - 1]
        BY <1>4, <3>1
      <4> QED  BY <1>1, <2>4, <3>1, <4>1 DEF Headed
    <3>2. CASE i = m + 1
      <4>1. u[i - 1] = s[m]
        BY <1>4, <2>1, <3>2
      <4> QED  BY <2>1, <2>4, <4>1
    <3>3. CASE i > m + 1
      <4>1. PICK j \in 2..n : i = m + j
        <5>1. i - m \in 2..n /\ i = m + (i - m)
          BY <3>3
        <5> QED  BY <5>1
      <4>2. u[i] = t[j] /\ u[i - 1] = t[j - 1]
        BY <1>4, <4>1
      <4> QED  BY <1>2, <2>4, <4>1, <4>2 DEF Trails
    <3> QED  BY <3>1, <3>2, <3>3
  <2> QED  BY <1>3, <1>4, <1>5, <2>2, <2>3, <2>4 DEF Tab!WellFormed
<1>6. CASE ~Ends(s)
  <2> SUFFICES ASSUME Tab!WellFormed(u) PROVE FALSE
    BY <1>3, <1>6
  <2>1. /\ m + n > 0 /\ u[1] # Tab!Comma /\ u[m + n] # Tab!Comma
        /\ \A i \in 2..(m + n) : ~(u[i] = Tab!Comma /\ u[i - 1] = Tab!Comma)
    BY <1>4 DEF Tab!WellFormed
  <2>2. CASE m = 0
    <3>1. n > 0 /\ u[1] = t[1]
      BY <1>4, <2>1, <2>2
    <3> QED  BY <1>2, <2>1, <3>1 DEF Trails
  <2>3. CASE m > 0 /\ n = 0
    <3>1. s[m] = Tab!Comma /\ u[m + n] = s[m]
      BY <1>1, <1>4, <1>6, <2>3
    <3> QED  BY <2>1, <3>1
  <2>4. CASE m > 0 /\ n > 0
    <3>1. s[m] = Tab!Comma /\ t[1] = Tab!Comma
      BY <1>1, <1>2, <1>6, <2>4 DEF Trails
    <3>2. u[m] = s[m] /\ u[m + 1] = t[1] /\ m + 1 \in 2..(m + n)
      BY <1>4, <2>4
    <3> QED  BY <2>1, <3>1, <3>2
  <2> QED  BY <2>2, <2>3, <2>4
<1> QED  BY <1>5, <1>6

LEMMA FlatIs ==
    ASSUME NEW T, NEW n \in Nat, NEW pieces \in [1..n -> Seq(T)]
    PROVE  \E F : Joins(T, F, pieces, n) /\ Tab!FlattenSeq(pieces) = F[n]
<1>1. Len(pieces) = n /\ \A i \in 1..n : pieces[i] \in Seq(T)
  OBVIOUS
<1>2. Pieces(T, pieces, n)
  BY <1>1 DEF Pieces
<1>3. PICK F : Joins(T, F, pieces, n)
  BY <1>2, Joined
<1>4. F \in [0..n -> Seq(T)] /\ F[0] = <<>> /\ \A i \in 1..n : F[i] = F[i - 1] \o pieces[i]
  BY <1>3 DEF Joins
<1>5. CASE n = 0
  <2>1. Tab!FlattenSeq(pieces) = pieces
    BY <1>1, <1>5 DEF Tab!FlattenSeq
  <2>2. pieces = <<>>
    BY <1>1, <1>5
  <2>3. F[n] = <<>>
    BY <1>4, <1>5
  <2> QED  BY <1>3, <2>1, <2>2, <2>3
<1>6. CASE n > 0
  <2> DEFINE Is(H) == H = [i \in 1..Len(pieces) |-> IF i = 1 THEN pieces[i] ELSE H[i - 1] \o pieces[i]]
             G == CHOOSE H : Is(H)
             E == [i \in 1..n |-> F[i]]
  <2>1. Tab!FlattenSeq(pieces) = G[n]
    BY <1>1, <1>6 DEF Tab!FlattenSeq
  <2>2. Is(E)
    <3>1. ASSUME NEW i \in 1..n
          PROVE  E[i] = IF i = 1 THEN pieces[i] ELSE E[i - 1] \o pieces[i]
      <4>1. CASE i = 1
        <5>1. F[1] = <<>> \o pieces[1]
          <6>1. 1 \in 1..n /\ 1 - 1 = 0
            BY <1>6
          <6>2. F[1] = F[1 - 1] \o pieces[1]
            BY <1>4, <6>1
          <6> QED  BY <1>4, <6>1, <6>2
        <5>2. <<>> \o pieces[1] = pieces[1]
          BY <1>1, <4>1
        <5> QED  BY <4>1, <5>1, <5>2
      <4>2. CASE i # 1
        <5>1. i - 1 \in 1..n
          BY <4>2
        <5> QED  BY <1>4, <4>2, <5>1
      <4> QED  BY <4>1, <4>2
    <3>2. E = [i \in 1..n |-> IF i = 1 THEN pieces[i] ELSE E[i - 1] \o pieces[i]]
      <4>1. \A i \in 1..n : E[i] = IF i = 1 THEN pieces[i] ELSE E[i - 1] \o pieces[i]
        BY <3>1
      <4>2. E = [i \in 1..n |-> E[i]]
        OBVIOUS
      <4> HIDE DEF E
      <4> QED  BY <4>1, <4>2
    <3> HIDE DEF E
    <3> QED  BY <1>1, <3>2
  <2>3. Is(G)
    <3> HIDE DEF Is, E
    <3> QED  BY <2>2
  <2> HIDE DEF G
  <2>4. G = [i \in 1..n |-> IF i = 1 THEN pieces[i] ELSE G[i - 1] \o pieces[i]]
    BY <1>1, <2>3
  <2> DEFINE P == {i \in 0..n : i > 0 => G[i] = F[i]}
  <2>5. 0 \in P
    OBVIOUS
  <2>6. ASSUME NEW i \in 1..n, i - 1 \in P PROVE i \in P
    <3>1. G[i] = IF i = 1 THEN pieces[i] ELSE G[i - 1] \o pieces[i]
      BY <2>4, Zenon
    <3>2. E[i] = IF i = 1 THEN pieces[i] ELSE E[i - 1] \o pieces[i]
      <4>1. i \in 1..Len(pieces)
        BY <1>1
      <4>2. E = [k \in 1..Len(pieces) |-> IF k = 1 THEN pieces[k] ELSE E[k - 1] \o pieces[k]]
        BY <2>2
      <4> HIDE DEF E
      <4> QED  BY <4>1, <4>2, Zenon
    <3>3. CASE i = 1
      BY <3>1, <3>2, <3>3
    <3>4. CASE i # 1
      <4>1. i - 1 \in 1..n /\ i - 1 > 0
        BY <3>4
      <4>2. G[i - 1] = E[i - 1]
        BY <2>6, <4>1
      <4> HIDE DEF E
      <4>3. G[i] = E[i]
        BY <3>1, <3>2, <3>4, <4>2
      <4> QED  BY <4>3 DEF E
    <3> QED  BY <3>3, <3>4
  <2>7. n \in P
    <3> HIDE DEF P
    <3>1. 0..n \subseteq P
      BY <2>5, <2>6, Induction
    <3> QED  BY <3>1
  <2> QED  BY <1>3, <1>6, <2>1, <2>7
<1> QED  BY <1>5, <1>6

LEMMA KeysWritten ==
    ASSUME NEW T, Tab!Comma \in T, "key" \in T, NEW n \in Nat
    PROVE  Tab!WrittenKeys(n) \in Seq(T) /\ Trails(Tab!WrittenKeys(n))
<1>1. PICK pieces : pieces = [i \in 1..n |-> <<Tab!Comma, "key">>]
  OBVIOUS
<1>2. ASSUME NEW i \in 1..n PROVE pieces[i] \in Seq(T) /\ Trails(pieces[i])
  <2>1. PICK c \in T, d \in T : c = Tab!Comma /\ d = "key"
    OBVIOUS
  <2>2. d # c
    BY <2>1, Zenon DEF Tab!Comma
  <2>3. <<c, d>> \in Seq(T) /\ Trails(<<c, d>>)
    BY <2>1, <2>2 DEF Trails
  <2> QED  BY <1>1, <2>1, <2>3
<1>3. pieces \in [1..n -> Seq(T)]
  BY <1>1, <1>2
<1>4. PICK F : Joins(T, F, pieces, n) /\ Tab!FlattenSeq(pieces) = F[n]
  BY <1>3, FlatIs
<1>5. Pieces(T, pieces, n)
  BY <1>2 DEF Pieces
<1>6. F[n] \in Seq(T) /\ Trails(F[n])
  BY <1>2, <1>4, <1>5, TrailsOn
<1> QED  BY <1>1, <1>4, <1>6 DEF Tab!WrittenKeys

LEMMA AdditionsWritten ==
    ASSUME NEW Words, Tab!Comma \notin Words, NEW T, T = Words \union {Tab!Comma, "key"},
           NEW ops, NEW n \in Nat, n = Len(ops), \A i \in 1..n : ops[i].name \in Words
    PROVE  Tab!AddedColumns(ops) \in Seq(T) /\ Trails(Tab!AddedColumns(ops))
<1>1. PICK pieces : pieces = [i \in 1..n |->
            IF ops[i].type = "AddColumn" THEN <<Tab!Comma, ops[i].name>> ELSE <<>>]
  OBVIOUS
<1>2. ASSUME NEW i \in 1..n PROVE pieces[i] \in Seq(T) /\ Trails(pieces[i])
  <2>1. PICK c \in T, d \in T : c = Tab!Comma /\ d = ops[i].name /\ d # c
    OBVIOUS
  <2>2. <<c, d>> \in Seq(T) /\ Trails(<<c, d>>)
    BY <2>1 DEF Trails
  <2>3. <<>> \in Seq(T) /\ Trails(<<>>)
    BY DEF Trails
  <2>4. pieces[i] = <<c, d>> \/ pieces[i] = <<>>
    BY <1>1, <2>1
  <2> QED  BY <2>2, <2>3, <2>4
<1>3. pieces \in [1..n -> Seq(T)]
  BY <1>1, <1>2
<1>4. PICK F : Joins(T, F, pieces, n) /\ Tab!FlattenSeq(pieces) = F[n]
  BY <1>3, FlatIs
<1>5. Pieces(T, pieces, n)
  BY <1>2 DEF Pieces
<1>6. F[n] \in Seq(T) /\ Trails(F[n])
  BY <1>2, <1>4, <1>5, TrailsOn
<1>7. Tab!AddedColumns(ops) = Tab!FlattenSeq(pieces)
  BY <1>1 DEF Tab!AddedColumns
<1> QED  BY <1>4, <1>6, <1>7

LEMMA ColumnsWritten ==
    ASSUME NEW Words, Tab!Comma \notin Words, NEW T, T = Words \union {Tab!Comma, "key"},
           NEW columns \in Seq(Words), columns # <<>>, NEW dropped
    PROVE  LET kept == Tab!KeptColumns(columns, dropped) IN
           /\ kept \in Seq(T) /\ Headed(kept)
           /\ kept = <<>> \/ kept[Len(kept)] = Tab!Comma \/ Ends(kept)
           /\ Ends(kept) <=> columns[Len(columns)] \notin dropped
<1>1. PICK n \in Nat \ {0} : n = Len(columns)
  OBVIOUS
<1>2. PICK pieces : pieces = [i \in 1..n |->
        IF columns[i] \in dropped THEN <<>>
        ELSE IF i < n THEN <<columns[i], Tab!Comma>> ELSE <<columns[i]>>]
  OBVIOUS
<1>3. ASSUME NEW i \in 1..n
      PROVE  /\ pieces[i] \in Seq(T)
             /\ IF columns[i] \in dropped THEN pieces[i] = <<>>
                ELSE /\ Len(pieces[i]) \in 1..2 /\ pieces[i][1] # Tab!Comma
                     /\ (Len(pieces[i]) = 2 => pieces[i][2] = Tab!Comma)
                     /\ Len(pieces[i]) = (IF i < n THEN 2 ELSE 1)
  <2>1. PICK c \in T, d \in T : c = columns[i] /\ d = Tab!Comma /\ c # d
    <3>1. columns[i] \in Words
      BY <1>1
    <3> QED  BY <3>1
  <2>2. /\ <<c, d>> \in Seq(T) /\ Len(<<c, d>>) = 2 /\ <<c, d>>[1] = c /\ <<c, d>>[2] = d
        /\ <<c>> \in Seq(T) /\ Len(<<c>>) = 1 /\ <<c>>[1] = c /\ <<>> \in Seq(T)
    OBVIOUS
  <2>3. pieces[i] = IF columns[i] \in dropped THEN <<>> ELSE IF i < n THEN <<c, d>> ELSE <<c>>
    BY <1>2, <2>1
  <2>4. CASE columns[i] \in dropped
    BY <2>2, <2>3, <2>4
  <2>5. CASE columns[i] \notin dropped /\ i < n
    <3>1. pieces[i] = <<c, d>>
      BY <2>3, <2>5
    <3> QED  BY <2>1, <2>2, <2>5, <3>1
  <2>6. CASE columns[i] \notin dropped /\ ~(i < n)
    <3>1. pieces[i] = <<c>>
      BY <2>3, <2>6
    <3> QED  BY <2>1, <2>2, <2>6, <3>1
  <2> QED  BY <2>4, <2>5, <2>6
<1>4. pieces \in [1..n -> Seq(T)]
  BY <1>2, <1>3
<1>5. PICK F : Joins(T, F, pieces, n) /\ Tab!FlattenSeq(pieces) = F[n]
  BY <1>4, FlatIs
<1>6. F \in [0..n -> Seq(T)] /\ F[0] = <<>> /\ \A i \in 1..n : F[i] = F[i - 1] \o pieces[i]
  BY <1>5 DEF Joins
<1> DEFINE Good(i) == Headed(F[i]) /\ (F[i] = <<>> \/ F[i][Len(F[i])] = Tab!Comma)
           P == {i \in 0..n : i < n => Good(i)}
<1>7. 0 \in P
  BY <1>6 DEF Headed
<1>8. ASSUME NEW i \in 1..n, Good(i - 1), columns[i] \notin dropped
      PROVE  /\ Headed(F[i]) /\ F[i] # <<>>
             /\ F[i][Len(F[i])] = pieces[i][Len(pieces[i])]
  <2>1. PICK s \in Seq(T) : s = F[i - 1]
    BY <1>6
  <2>2. PICK t \in Seq(T) : t = pieces[i]
    BY <1>3
  <2>3. /\ Len(t) \in 1..2 /\ t[1] # Tab!Comma /\ (Len(t) = 2 => t[2] = Tab!Comma)
        /\ Headed(s) /\ (s = <<>> \/ s[Len(s)] = Tab!Comma)
    BY <1>3, <1>8, <2>1, <2>2
  <2>4. F[i] = s \o t
    BY <1>6, <2>1, <2>2
  <2>5. Headed(s \o t) /\ s \o t # <<>> /\ (s \o t)[Len(s \o t)] = t[Len(t)]
    BY <2>3, HeadGoesOn
  <2> QED  BY <2>2, <2>4, <2>5
<1>9. ASSUME NEW i \in 1..n, columns[i] \in dropped
      PROVE  F[i] = F[i - 1]
  <2>1. PICK s \in Seq(T) : s = F[i - 1]
    BY <1>6
  <2>2. F[i] = s \o <<>>
    BY <1>3, <1>6, <1>9, <2>1
  <2> QED  BY <2>1, <2>2
<1>10. ASSUME NEW i \in 1..n, i - 1 \in P
       PROVE  i \in P
  <2>1. SUFFICES ASSUME i < n PROVE Good(i)
    BY <1>1
  <2>2. Good(i - 1)
    BY <1>10, <2>1
  <2>3. CASE columns[i] \in dropped
    BY <1>9, <2>2, <2>3
  <2>4. CASE columns[i] \notin dropped
    <3>1. /\ Headed(F[i]) /\ F[i] # <<>>
          /\ F[i][Len(F[i])] = pieces[i][Len(pieces[i])]
      <4> HIDE DEF Good
      <4> QED  BY <1>8, <2>2, <2>4
    <3>2. pieces[i][Len(pieces[i])] = Tab!Comma
      BY <1>3, <2>1, <2>4
    <3> QED  BY <3>1, <3>2
  <2> QED  BY <2>3, <2>4
<1>11. Good(n - 1)
  <2>1. 0..n \subseteq P
    <3> HIDE DEF P
    <3> QED  BY <1>7, <1>10, Induction
  <2>2. n - 1 \in P /\ n - 1 < n
    BY <1>1, <2>1
  <2> QED  BY <2>2
<1>12. PICK kept \in Seq(T) : kept = F[n]
  BY <1>6
<1>13. Tab!KeptColumns(columns, dropped) = kept
  <2>1. Tab!KeptColumns(columns, dropped) = Tab!FlattenSeq(pieces)
    BY <1>1, <1>2 DEF Tab!KeptColumns
  <2> QED  BY <1>5, <1>12, <2>1
<1>14. n \in 1..n
  BY <1>1
<1>15. CASE columns[n] \in dropped
  <2>1. F[n] = F[n - 1]
    BY <1>9, <1>14, <1>15
  <2>2. Headed(kept) /\ (kept = <<>> \/ kept[Len(kept)] = Tab!Comma)
    BY <1>11, <1>12, <2>1
  <2> QED  BY <1>1, <1>12, <1>13, <1>15, <2>2 DEF Ends
<1>16. CASE columns[n] \notin dropped
  <2>1. /\ Headed(F[n]) /\ F[n] # <<>>
        /\ F[n][Len(F[n])] = pieces[n][Len(pieces[n])]
    <3> HIDE DEF Good
    <3> QED  BY <1>8, <1>11, <1>14, <1>16
  <2>2. pieces[n][Len(pieces[n])] # Tab!Comma
    BY <1>3, <1>14, <1>16
  <2>3. Headed(kept) /\ kept # <<>> /\ kept[Len(kept)] # Tab!Comma
    BY <1>12, <2>1, <2>2
  <2> QED  BY <1>1, <1>12, <1>13, <1>16, <2>3 DEF Ends
<1> QED  BY <1>15, <1>16

(* The CREATE of the ghost table is one as far as its commas go exactly if *)
(* the table's last column is not dropped, whatever is dropped, added and  *)
(* indexed besides: SQLBuilder::BuildCreateGhostTableSQL leaves the comma  *)
(* before a last column that it does not write.                            *)
THEOREM CreateFitsKeptLast ==
    ASSUME NEW Words, Tab!Comma \notin Words, NEW original,
           original.columns \in Seq(Words), original.columns # <<>>, IsFiniteSet(original.keys),
           NEW ops \in Seq(Operations(Words))
    PROVE  Tab!CreateFits(original, ops)
<1>1. PICK T : T = Words \union {Tab!Comma, "key"}
  OBVIOUS
<1>2. PICK columns \in Seq(Words) : columns = original.columns
  OBVIOUS
<1>3. PICK dropped : dropped = Tab!NamesOf(ops, "DropColumn")
  OBVIOUS
<1>4. PICK kept \in Seq(T) :
        /\ kept = Tab!KeptColumns(columns, dropped) /\ Headed(kept)
        /\ kept = <<>> \/ kept[Len(kept)] = Tab!Comma \/ Ends(kept)
        /\ Ends(kept) <=> columns[Len(columns)] \notin dropped
  BY <1>1, <1>2, ColumnsWritten
<1>5. PICK added \in Seq(T) : added = Tab!AddedColumns(ops) /\ Trails(added)
  <2>1. PICK n \in Nat : n = Len(ops)
    OBVIOUS
  <2>2. ASSUME NEW i \in 1..n PROVE ops[i].name \in Words
    <3>1. PICK R : R = Operations(Words)
      OBVIOUS
    <3>2. ops \in Seq(R)
      BY <3>1
    <3>3. ops[i] \in R
      BY <2>1, <3>2
    <3> QED  BY <3>1, <3>3 DEF Operations
  <2> QED  BY <1>1, <2>1, <2>2, AdditionsWritten
<1>6. PICK keys \in Seq(T) : keys = Tab!WrittenKeys(Cardinality(original.keys)) /\ Trails(keys)
  <2>1. Cardinality(original.keys) \in Nat
    BY FS_CardinalityType
  <2> QED  BY <1>1, <2>1, KeysWritten
<1>7. added \o keys \in Seq(T) /\ Trails(added \o keys)
  BY <1>5, <1>6, TrailsGoOn
<1>8. Tab!BuildCreateGhostTableSQL(original, ops) = kept \o (added \o keys)
  <2>1. Tab!BuildCreateGhostTableSQL(original, ops) = kept \o added \o keys
    <3>1. Tab!BuildCreateGhostTableSQL(original, ops)
            = Tab!KeptColumns(columns, dropped) \o Tab!AddedColumns(ops)
                 \o Tab!WrittenKeys(Cardinality(original.keys))
      <4>1. Tab!BuildCreateGhostTableSQL(original, ops)
              = Tab!KeptColumns(original.columns, Tab!NamesOf(ops, "DropColumn"))
                   \o Tab!AddedColumns(ops) \o Tab!WrittenKeys(Tab!Cardinality(original.keys))
        BY DEF Tab!BuildCreateGhostTableSQL
      <4>2. Tab!Cardinality(original.keys) = Cardinality(original.keys)
        BY DEF Tab!Cardinality, Cardinality
      <4> QED  BY <1>2, <1>3, <4>1, <4>2
    <3> QED  BY <1>4, <1>5, <1>6, <3>1
  <2>2. kept \o added \o keys = kept \o (added \o keys)
    BY ConcatAssociative
  <2> QED  BY <2>1, <2>2
<1>9. Tab!WellFormed(kept \o (added \o keys)) <=> Ends(kept)
  BY <1>4, <1>7, WholeFits
<1> QED  BY <1>2, <1>3, <1>4, <1>8, <1>9 DEF Tab!CreateFits

-----------------------------------------------------------------------------
(* The texts of durations: at most four parts.                             *)

\* What the parts of a text amount to.
Amount(text, i) == text[i].n * Tim!Unit[text[i].unit]
Amounts(text) == \A i \in 1..Len(text) : Amount(text, i) \in Nat

LEMMA Sums ==
    ASSUME NEW text, NEW n \in 1..4, n = Len(text), Amounts(text)
    PROVE  /\ n = 1 => Tim!ReadDuration(text) = Amount(text, 1)
           /\ n = 2 => Tim!ReadDuration(text) = Amount(text, 1) + Amount(text, 2)
           /\ n = 3 => Tim!ReadDuration(text) = Amount(text, 1) + Amount(text, 2) + Amount(text, 3)
           /\ n = 4 => Tim!ReadDuration(text) =
                         Amount(text, 1) + Amount(text, 2) + Amount(text, 3) + Amount(text, 4)
<1> DEFINE at(i) == Amount(text, i)
           Is(S) == S = [i \in 0..n |-> IF i = 0 THEN 0 ELSE S[i - 1] + at(i)]
           G == CHOOSE S : Is(S)
           F == [i \in 0..n |-> CASE i = 0 -> 0
               [] i = 1 -> at(1)
               [] i = 2 -> at(1) + at(2)
               [] i = 3 -> at(1) + at(2) + at(3)
               [] i = 4 -> at(1) + at(2) + at(3) + at(4)]
<1>0. \A j \in 1..n : at(j) \in Nat
  BY DEF Amounts
<1> HIDE DEF at
<1>1. Is(F)
  <2>1. \A i \in 0..n : F[i] = IF i = 0 THEN 0 ELSE F[i - 1] + at(i)
    <3> SUFFICES ASSUME NEW i \in 0..n PROVE F[i] = IF i = 0 THEN 0 ELSE F[i - 1] + at(i)
      OBVIOUS
    <3>1. i \in {0, 1, 2, 3, 4} /\ (i # 0 => i - 1 \in 0..n)
      BY ONLY n \in 1..4, i \in 0..n
    <3> QED  BY <1>0, <3>1, SMT
  <2> QED  BY <2>1
<1>2. Is(G)
  <2> HIDE DEF Is, F
  <2> QED  BY <1>1
<1>3. Tim!ReadDuration(text) = G[n]
  BY DEF Tim!ReadDuration, at, Amount
<1> HIDE DEF G, F
<1>4. G[0] = 0 /\ \A i \in 1..n : G[i] = G[i - 1] + at(i)
  <2>1. G[0] = 0
    BY <1>2
  <2>2. ASSUME NEW i \in 1..n PROVE G[i] = G[i - 1] + at(i)
    <3>1. i \in 0..n /\ i # 0
      OBVIOUS
    <3> QED  BY <1>2, <3>1, Zenon
  <2> QED  BY <2>1, <2>2
<1>5. CASE n = 1
  BY <1>0, <1>3, <1>4, <1>5 DEF at
<1>6. CASE n = 2
  BY <1>0, <1>3, <1>4, <1>6 DEF at
<1>7. CASE n = 3
  BY <1>0, <1>3, <1>4, <1>7 DEF at
<1>8. CASE n = 4
  BY <1>0, <1>3, <1>4, <1>8 DEF at
<1>9. n \in {1, 2, 3, 4}
  OBVIOUS
<1> QED  BY <1>5, <1>6, <1>7, <1>8, <1>9

\* t is s with d behind it.
IsWith(t, s, d) ==
    Len(t) = Len(s) + 1 /\ t[Len(s) + 1] = d /\ \A i \in 1..Len(s) : t[i] = s[i]

LEMMA OneMore ==
    ASSUME NEW S, NEW s \in Seq(S), NEW d \in S, NEW t \in Seq(S), IsWith(t, s, d)
    PROVE  s \o <<d>> = t
<1> USE DEF IsWith
<1>1. s \o <<d>> = Append(s, d)
  BY AppendIsConcat
<1>2. PICK n \in Nat : n = Len(s)
  OBVIOUS
<1>3. PICK u \in Seq(S) : u = Append(s, d)
  BY AppendProperties
<1>4. Len(u) = n + 1 /\ \A i \in 1..(n + 1) : u[i] = t[i]
  BY <1>2, <1>3, AppendProperties
<1>5. Len(t) = n + 1
  BY <1>2
<1>6. u = t
  BY <1>4, <1>5, SeqEqual
<1> QED  BY <1>1, <1>3, <1>6

LEMMA Parts ==
    ASSUME NEW b, NEW c, NEW d
    PROVE  /\ <<>> \o <<>> = <<>> /\ <<>> \o <<d>> = <<d>>
           /\ <<c>> \o <<d>> = <<c, d>> /\ <<b, c>> \o <<d>> = <<b, c, d>>
<1> DEFINE S == {b, c, d}
<1>1. /\ <<>> \in Seq(S) /\ <<c>> \in Seq(S) /\ <<b, c>> \in Seq(S)
      /\ <<d>> \in Seq(S) /\ <<c, d>> \in Seq(S) /\ <<b, c, d>> \in Seq(S) /\ d \in S
  OBVIOUS
<1> HIDE DEF S
<1>2. IsWith(<<d>>, <<>>, d) /\ IsWith(<<c, d>>, <<c>>, d) /\ IsWith(<<b, c, d>>, <<b, c>>, d)
  BY DEF IsWith
<1>3. <<>> \o <<>> = <<>>
  BY ConcatEmptySeq
<1> QED  BY <1>1, <1>2, <1>3, OneMore

LEMMA LastPart ==
    ASSUME NEW a, NEW b, NEW c, NEW d
    PROVE  <<a, b, c>> \o <<d>> = <<a, b, c, d>>
<1> DEFINE S == {a, b, c, d}
<1>1. <<a, b, c>> \in Seq(S) /\ <<a, b, c, d>> \in Seq(S) /\ d \in S
  OBVIOUS
<1> HIDE DEF S
<1>2. IsWith(<<a, b, c, d>>, <<a, b, c>>, d)
  BY DEF IsWith
<1> QED  BY <1>1, <1>2, OneMore

\* A text that says so many seconds, none of its parts as long as the unit
\* before it.
Says(text, total) ==
    /\ Tim!ReadDuration(text) = 1000 * total
    /\ \A i \in 2..Len(text) : text[i].n * Tim!Unit[text[i].unit] < Tim!Unit[text[i - 1].unit]

Part(n, unit) == [n |-> n, unit |-> unit]

LEMMA Units ==
    /\ Tim!Unit["d"] = 86400000 /\ Tim!Unit["h"] = 3600000 /\ Tim!Unit["m"] = 60000
    /\ Tim!Unit["s"] = 1000 /\ Tim!Unit["ms"] = 1
BY SMT DEF Tim!Unit

\* A text of four parts, and so on.
FourIn(text, d, h, m, s) == text = <<Part(d, "d"), Part(h, "h"), Part(m, "m"), Part(s, "s")>>
ThreeIn(text, h, m, s) == text = <<Part(h, "h"), Part(m, "m"), Part(s, "s")>>
TwoIn(text, m, s) == text = <<Part(m, "m"), Part(s, "s")>>
OneIn(text, s) == text = <<Part(s, "s")>>

\* What so many days, hours, minutes and seconds amount to.
Adds(total, d, h, m, s) == total = 86400 * d + 3600 * h + 60 * m + s

LEMMA FourParts ==
    ASSUME NEW d \in Nat, NEW h \in 0..23, NEW m \in 0..59, NEW s \in 0..59, NEW text, FourIn(text, d, h, m, s),
           NEW total, Adds(total, d, h, m, s)
    PROVE  Says(text, total)
<1>1. /\ Len(text) = 4
      /\ text[1].unit = "d" /\ text[2].unit = "h" /\ text[3].unit = "m" /\ text[4].unit = "s"
      /\ Amount(text, 1) = 86400000 * d /\ Amount(text, 2) = 3600000 * h
      /\ Amount(text, 3) = 60000 * m /\ Amount(text, 4) = 1000 * s
  BY Units, SMT DEF Part, Amount, FourIn
<1>2. Amounts(text)
  BY <1>1, SMT DEF Amounts
<1>3. \A i \in 2..4 : Amount(text, i) < Tim!Unit[text[i - 1].unit]
  <2>1. \A i \in 2..4 : i \in {2, 3, 4}
    OBVIOUS
  <2>2. Amount(text, 2) < Tim!Unit[text[2 - 1].unit] /\ Amount(text, 3) < Tim!Unit[text[3 - 1].unit]
        /\ Amount(text, 4) < Tim!Unit[text[4 - 1].unit]
    BY <1>1, Units, SMT
  <2> QED  BY <2>1, <2>2, SMT
<1>4. Tim!ReadDuration(text) = 86400000 * d + 3600000 * h + 60000 * m + 1000 * s
  <2>1. Tim!ReadDuration(text) =
          Amount(text, 1) + Amount(text, 2) + Amount(text, 3) + Amount(text, 4)
    <3>1. PICK n \in 1..4 : n = Len(text) /\ n = 4
      BY <1>1
    <3> QED  BY ONLY <1>2, <3>1, Sums
  <2> QED  BY <1>1, <2>1, SMT
<1>5. total = 86400 * d + 3600 * h + 60 * m + s
  BY SMT DEF Adds
<1> QED  BY <1>1, <1>3, <1>4, <1>5, SMT DEF Says, Amount

LEMMA ThreeParts ==
    ASSUME NEW h \in Nat, NEW m \in 0..59, NEW s \in 0..59, NEW text, ThreeIn(text, h, m, s),
           NEW total, Adds(total, 0, h, m, s)
    PROVE  Says(text, total)
<1>1. /\ Len(text) = 3 /\ text[1].unit = "h" /\ text[2].unit = "m" /\ text[3].unit = "s"
      /\ Amount(text, 1) = 3600000 * h /\ Amount(text, 2) = 60000 * m /\ Amount(text, 3) = 1000 * s
  BY Units, SMT DEF Part, Amount, ThreeIn
<1>2. Amounts(text)
  BY <1>1, SMT DEF Amounts
<1>3. \A i \in 2..3 : Amount(text, i) < Tim!Unit[text[i - 1].unit]
  <2>1. \A i \in 2..3 : i \in {2, 3}
    OBVIOUS
  <2>2. Amount(text, 2) < Tim!Unit[text[2 - 1].unit] /\ Amount(text, 3) < Tim!Unit[text[3 - 1].unit]
    BY <1>1, Units, SMT
  <2> QED  BY <2>1, <2>2, SMT
<1>4. Tim!ReadDuration(text) = 3600000 * h + 60000 * m + 1000 * s
  <2>1. Tim!ReadDuration(text) = Amount(text, 1) + Amount(text, 2) + Amount(text, 3)
    <3>1. PICK n \in 1..4 : n = Len(text) /\ n = 3
      BY <1>1
    <3> QED  BY ONLY <1>2, <3>1, Sums
  <2> QED  BY <1>1, <2>1, SMT
<1>5. total = 3600 * h + 60 * m + s
  BY SMT DEF Adds
<1> QED  BY <1>1, <1>3, <1>4, <1>5, SMT DEF Says, Amount

LEMMA TwoParts ==
    ASSUME NEW m \in Nat, NEW s \in 0..59, NEW text, TwoIn(text, m, s),
           NEW total, Adds(total, 0, 0, m, s)
    PROVE  Says(text, total)
<1>1. /\ Len(text) = 2 /\ text[1].unit = "m" /\ text[2].unit = "s"
      /\ Amount(text, 1) = 60000 * m /\ Amount(text, 2) = 1000 * s
  BY Units, SMT DEF Part, Amount, TwoIn
<1>2. Amounts(text)
  BY <1>1, SMT DEF Amounts
<1>3. \A i \in 2..2 : Amount(text, i) < Tim!Unit[text[i - 1].unit]
  BY <1>1, Units, SMT
<1>4. Tim!ReadDuration(text) = 60000 * m + 1000 * s
  <2>1. Tim!ReadDuration(text) = Amount(text, 1) + Amount(text, 2)
    <3>1. PICK n \in 1..4 : n = Len(text) /\ n = 2
      BY <1>1
    <3> QED  BY ONLY <1>2, <3>1, Sums
  <2> QED  BY <1>1, <2>1, SMT
<1>5. total = 60 * m + s
  BY SMT DEF Adds
<1> QED  BY <1>1, <1>3, <1>4, <1>5, SMT DEF Says, Amount

LEMMA OneParts ==
    ASSUME NEW s \in Nat, NEW text, OneIn(text, s),
           NEW total, Adds(total, 0, 0, 0, s)
    PROVE  Says(text, total)
<1>1. Len(text) = 1 /\ Amount(text, 1) = 1000 * s
  BY Units, SMT DEF Part, Amount, OneIn
<1>2. Amounts(text)
  BY <1>1, SMT DEF Amounts
<1>3. Tim!ReadDuration(text) = 1000 * s
  <2>1. PICK n \in 1..4 : n = Len(text) /\ n = 1
    BY <1>1
  <2> QED  BY <1>1, <1>2, <2>1, Sums
<1>5. total = s
  BY SMT DEF Adds
<1> QED  BY <1>1, <1>3, <1>5, SMT DEF Says

\* FormatDurationHuman of the numbers it shows.
HumanText(duration, days, hours, minutes, seconds) ==
    IF duration \in 0..999 THEN Tim!Shown(duration, "ms", TRUE)
    ELSE Tim!Shown(days, "d", FALSE) \o Tim!Shown(hours, "h", days > 0)
             \o Tim!Shown(minutes, "m", days + hours > 0) \o Tim!Shown(seconds, "s", TRUE)

\* What FormatDurationHuman writes, with the numbers taken apart; and below a
\* second.
LEMMA HumanIsText ==
    ASSUME NEW duration
    PROVE  Tim!FormatDurationHuman(duration) =
             HumanText(duration, Tim!WholeSeconds(duration) \div 86400,
                       (Tim!WholeSeconds(duration) % 86400) \div 3600,
                       (Tim!WholeSeconds(duration) % 3600) \div 60, Tim!WholeSeconds(duration) % 60)
BY SMTT(30) DEF Tim!FormatDurationHuman, HumanText

LEMMA BelowASecond ==
    ASSUME NEW duration \in 0..999, NEW days, NEW hours, NEW minutes, NEW seconds
    PROVE  HumanText(duration, days, hours, minutes, seconds) = <<[n |-> duration, unit |-> "ms"]>>
BY SMTT(20) DEF HumanText, Tim!Shown

(* Both texts of a duration say its whole seconds, whatever it is, but for *)
(* the milliseconds that FormatDurationHuman says below a second: no unit  *)
(* is left out between two that are written and none is more than the next *)
(* larger one.                                                             *)
THEOREM DurationsComeBack ==
    ASSUME NEW duration \in Int
    PROVE  Tim!DurationsReadBack(duration)
<1>0. PICK total \in Nat : total = Tim!WholeSeconds(duration)
  BY SMT DEF Tim!WholeSeconds
<1>1. PICK hours \in Nat : hours = total \div 3600
  BY SMT
<1>2. PICK minutes \in 0..59 : minutes = (total % 3600) \div 60
  BY SMT
<1>3. PICK seconds \in 0..59 : seconds = total % 60
  BY SMT
<1>4. Adds(total, 0, hours, minutes, seconds)
  BY <1>1, <1>2, <1>3, SMT DEF Adds
<1>5. PICK days \in Nat : days = total \div 86400
  BY SMT
<1>6. PICK rest \in 0..23 : rest = (total % 86400) \div 3600
  BY SMT
<1>7. Adds(total, days, rest, minutes, seconds) /\ {rest, minutes, seconds} \subseteq Nat
  BY <1>2, <1>3, <1>5, <1>6, SMT DEF Adds
<1>8. PICK d, h, m, s, r : d = Part(days, "d") /\ h = Part(hours, "h") /\ m = Part(minutes, "m")
                            /\ s = Part(seconds, "s") /\ r = Part(rest, "h")
  OBVIOUS
<1>9. /\ \A also \in BOOLEAN :
            /\ Tim!Shown(seconds, "s", TRUE) = <<s>>
            /\ minutes > 0 \/ also => Tim!Shown(minutes, "m", also) = <<m>>
            /\ ~(minutes > 0 \/ also) => Tim!Shown(minutes, "m", also) = <<>>
            /\ rest > 0 \/ also => Tim!Shown(rest, "h", also) = <<r>>
            /\ ~(rest > 0 \/ also) => Tim!Shown(rest, "h", also) = <<>>
      /\ hours > 0 => Tim!Shown(hours, "h", FALSE) = <<h>>
      /\ hours = 0 => Tim!Shown(hours, "h", FALSE) = <<>>
      /\ days > 0 => Tim!Shown(days, "d", FALSE) = <<d>>
      /\ days = 0 => Tim!Shown(days, "d", FALSE) = <<>>
  BY <1>8, SMT DEF Tim!Shown, Part
<1>10. ASSUME NEW text, text = Tim!FormatDuration(duration)
       PROVE  Says(text, total)
  <2>1. text = Tim!Shown(hours, "h", FALSE) \o Tim!Shown(minutes, "m", hours > 0)
                 \o Tim!Shown(seconds, "s", TRUE)
    BY <1>0, <1>1, <1>2, <1>3, <1>10 DEF Tim!FormatDuration
  <2>2. CASE hours > 0
    <3>1. (hours > 0) = TRUE
      BY <2>2
    <3>2. text = <<h>> \o <<m>> \o <<s>>
      BY <1>9, <2>1, <2>2, <3>1
    <3>3. <<h>> \o <<m>> = <<h, m>> /\ <<h, m>> \o <<s>> = <<h, m, s>>
      BY Parts
    <3>4. ThreeIn(text, hours, minutes, seconds)
      BY <1>8, <3>2, <3>3 DEF ThreeIn
    <3> QED  BY <1>7, <1>4, <3>4, ThreeParts
  <2>3. CASE hours = 0 /\ minutes > 0
    <3>1. (hours > 0) = FALSE
      BY <2>3
    <3>2. text = <<>> \o <<m>> \o <<s>>
      BY <1>9, <2>1, <2>3, <3>1
    <3>3. TwoIn(text, minutes, seconds)
      BY <1>8, <3>2, Parts DEF TwoIn
    <3>4. Adds(total, 0, 0, minutes, seconds)
      BY <1>4, <2>3
    <3> QED  BY <1>7, <3>3, <3>4, TwoParts
  <2>4. CASE hours = 0 /\ minutes = 0
    <3>1. (hours > 0) = FALSE
      BY <2>4
    <3>2. text = <<>> \o <<>> \o <<s>>
      BY <1>9, <2>1, <2>4, <3>1
    <3>3. OneIn(text, seconds)
      BY <1>8, <3>2, Parts DEF OneIn
    <3>4. Adds(total, 0, 0, 0, seconds)
      BY <1>4, <2>4
    <3> QED  BY <1>7, <3>3, <3>4, OneParts
  <2> QED  BY <2>2, <2>3, <2>4, SMT
<1>11. ASSUME duration \notin 0..999, NEW text, text = Tim!FormatDurationHuman(duration)
       PROVE  Says(text, total)
  <2>1. text = Tim!Shown(days, "d", FALSE) \o Tim!Shown(rest, "h", days > 0)
                 \o Tim!Shown(minutes, "m", days + rest > 0) \o Tim!Shown(seconds, "s", TRUE)
    <3>1. Tim!FormatDurationHuman(duration) =
            HumanText(duration, Tim!WholeSeconds(duration) \div 86400,
                      (Tim!WholeSeconds(duration) % 86400) \div 3600,
                      (Tim!WholeSeconds(duration) % 3600) \div 60, Tim!WholeSeconds(duration) % 60)
      BY ONLY HumanIsText, SMT
    <3>2. /\ Tim!WholeSeconds(duration) \div 86400 = days
          /\ (Tim!WholeSeconds(duration) % 86400) \div 3600 = rest
          /\ (Tim!WholeSeconds(duration) % 3600) \div 60 = minutes
          /\ Tim!WholeSeconds(duration) % 60 = seconds
      BY <1>0, <1>2, <1>3, <1>5, <1>6
    <3>3. Tim!FormatDurationHuman(duration) = HumanText(duration, days, rest, minutes, seconds)
      BY <3>1, <3>2
    <3> QED  BY ONLY <1>11, <3>3, Zenon DEF HumanText
  <2>2. CASE days > 0
    <3>1. (days > 0) = TRUE /\ (days + rest > 0) = TRUE
      BY <2>2
    <3>2. text = <<d>> \o <<r>> \o <<m>> \o <<s>>
      BY <1>9, <2>1, <2>2, <3>1
    <3>3. <<d>> \o <<r>> = <<d, r>> /\ <<d, r>> \o <<m>> = <<d, r, m>>
          /\ <<d, r, m>> \o <<s>> = <<d, r, m, s>>
      <4>1. <<d>> \o <<r>> = <<d, r>>
        BY Parts
      <4>2. <<d, r>> \o <<m>> = <<d, r, m>>
        BY Parts
      <4>3. <<d, r, m>> \o <<s>> = <<d, r, m, s>>
        BY LastPart
      <4> QED  BY <4>1, <4>2, <4>3
    <3>4. FourIn(text, days, rest, minutes, seconds)
      BY <1>8, <3>2, <3>3 DEF FourIn
    <3> QED  BY <1>7, <3>4, FourParts
  <2>3. CASE days = 0 /\ rest > 0
    <3>1. (days > 0) = FALSE /\ (days + rest > 0) = TRUE
      BY <2>3
    <3>2. text = <<>> \o <<r>> \o <<m>> \o <<s>>
      BY <1>9, <2>1, <2>3, <3>1
    <3>3. <<>> \o <<r>> = <<r>> /\ <<r>> \o <<m>> = <<r, m>> /\ <<r, m>> \o <<s>> = <<r, m, s>>
      BY Parts
    <3>4. ThreeIn(text, rest, minutes, seconds)
      BY <1>8, <3>2, <3>3 DEF ThreeIn
    <3>5. Adds(total, 0, rest, minutes, seconds)
      BY <1>7, <2>3
    <3> QED  BY <1>7, <3>4, <3>5, ThreeParts
  <2>4. CASE days = 0 /\ rest = 0
    <3>1. (days > 0) = FALSE /\ (days + rest > 0) = FALSE
      BY <2>4
    <3>2. CASE minutes > 0
      <4>1. text = <<>> \o <<>> \o <<m>> \o <<s>>
        BY <1>9, <2>1, <2>4, <3>1, <3>2
      <4>2. TwoIn(text, minutes, seconds)
        BY <1>8, <4>1, Parts DEF TwoIn
      <4>3. Adds(total, 0, 0, minutes, seconds)
        BY <1>7, <2>4
      <4> QED  BY <1>7, <4>2, <4>3, TwoParts
    <3>3. CASE minutes = 0
      <4>1. text = <<>> \o <<>> \o <<>> \o <<s>>
        BY <1>9, <2>1, <2>4, <3>1, <3>3
      <4>2. OneIn(text, seconds)
        BY <1>8, <4>1, Parts DEF OneIn
      <4>3. Adds(total, 0, 0, 0, seconds)
        BY <1>7, <2>4, <3>3
      <4> QED  BY <1>7, <4>2, <4>3, OneParts
    <3> QED  BY <3>2, <3>3, SMT
  <2> QED  BY <2>2, <2>3, <2>4, SMT
<1>12. PICK f, g : f = Tim!FormatDuration(duration) /\ g = Tim!FormatDurationHuman(duration)
  OBVIOUS
<1>13. Says(f, total) /\ (duration \notin 0..999 => Says(g, total))
  BY <1>10, <1>11, <1>12
<1>14. ASSUME duration \in 0..999
       PROVE  Len(g) = 1 /\ Tim!ReadDuration(g) = duration
  <2>1. g = <<Part(duration, "ms")>>
    <3>1. PICK a, b, c, e : Tim!FormatDurationHuman(duration) = HumanText(duration, a, b, c, e)
      BY ONLY HumanIsText, SMT
    <3>2. HumanText(duration, a, b, c, e) = <<[n |-> duration, unit |-> "ms"]>>
      BY ONLY <1>14, BelowASecond, Zenon
    <3> QED  BY <1>12, <3>1, <3>2, Zenon DEF Part
  <2>2. Len(g) = 1 /\ Amount(g, 1) = duration
    BY <2>1, Units, SMT DEF Part, Amount
  <2>3. Amounts(g)
    BY <1>14, <2>2, SMT DEF Amounts
  <2>4. Tim!ReadDuration(g) = Amount(g, 1)
    <3>1. PICK n \in 1..4 : n = Len(g) /\ n = 1
      BY <2>2
    <3> QED  BY <2>3, <3>1, Sums
  <2> QED  BY <2>2, <2>4
<1>15. Tim!ReadDuration(f) = 1000 * total
       /\ Tim!ReadDuration(g) = IF duration \in 0..999 THEN duration ELSE 1000 * total
  BY <1>13, <1>14 DEF Says
<1>16. ASSUME NEW text \in {f, g}, NEW i \in 2..Len(text)
       PROVE  text[i].n * Tim!Unit[text[i].unit] < Tim!Unit[text[i - 1].unit]
  <2>1. CASE text = g /\ duration \in 0..999
    <3>1. Len(text) = 1
      BY <1>14, <2>1
    <3> QED  BY <1>16, <3>1, SMT
  <2>2. CASE ~(text = g /\ duration \in 0..999)
    <3>1. Says(text, total)
      BY <1>13, <1>16, <2>2
    <3> QED  BY <1>16, <3>1, Zenon DEF Says
  <2> QED  BY <2>1, <2>2
<1>17. /\ Tim!ReadDuration(Tim!FormatDuration(duration)) = 1000 * Tim!WholeSeconds(duration)
       /\ Tim!ReadDuration(Tim!FormatDurationHuman(duration)) =
            IF duration \in 0..999 THEN duration ELSE 1000 * Tim!WholeSeconds(duration)
  BY <1>0, <1>12, <1>15
<1>18. \A text \in {Tim!FormatDuration(duration), Tim!FormatDurationHuman(duration)} :
          \A i \in 2..Len(text) :
             text[i].n * Tim!Unit[text[i].unit] < Tim!Unit[text[i - 1].unit]
  BY <1>12, <1>16, Zenon
<1> QED  BY <1>17, <1>18, Zenon DEF Tim!DurationsReadBack

-----------------------------------------------------------------------------
(* Texts of tokens: what Split makes of them.                              *)

Nothing == [parts |-> <<>>, rest |-> <<>>]
Partings(T) == [parts : Seq(Seq(T)), rest : Seq(T)]
PartsOf(F, T, s, separator) ==
    /\ F \in [0..Len(s) -> Partings(T)] /\ F[0] = Nothing
    /\ \A i \in 1..Len(s) : F[i] = Place!ReadOn(F[i - 1], s[i], separator)

LEMMA ReadsOnIn ==
    ASSUME NEW T, NEW separator, NEW q \in Partings(T), NEW c \in T
    PROVE  Place!ReadOn(q, c, separator) \in Partings(T)
<1>1. PICK parts \in Seq(Seq(T)), rest \in Seq(T) : q = [parts |-> parts, rest |-> rest]
  BY DEF Partings
<1>2. Append(parts, rest) \in Seq(Seq(T)) /\ Append(rest, c) \in Seq(T) /\ <<>> \in Seq(T)
  OBVIOUS
<1>3. q.parts = parts /\ q.rest = rest
  BY <1>1
<1> QED  BY <1>1, <1>2, <1>3 DEF Place!ReadOn, Partings

LEMMA NothingIn == ASSUME NEW T PROVE Nothing \in Partings(T)
<1>1. <<>> \in Seq(T) /\ <<>> \in Seq(Seq(T))
  BY EmptySeq
<1>2. PICK R, S : R = Seq(Seq(T)) /\ S = Seq(T)
  OBVIOUS
<1>3. PICK parts \in R, rest \in S : parts = <<>> /\ rest = <<>>
  BY <1>1, <1>2
<1>4. [parts |-> parts, rest |-> rest] \in [parts : R, rest : S]
  OBVIOUS
<1> QED  BY <1>2, <1>3, <1>4 DEF Nothing, Partings

LEMMA PartedIs ==
    ASSUME NEW T, NEW separator, NEW s \in Seq(T)
    PROVE  \E F : PartsOf(F, T, s, separator) /\ Place!Parted(s, separator) = F[Len(s)]
<1>1. PICK X : X = Partings(T)
  OBVIOUS
<1>2. PICK n \in Nat : n = Len(s)
  OBVIOUS
<1>3. PICK step : step = [i \in 1..n |-> [q \in X |-> Place!ReadOn(q, s[i], separator)]]
  OBVIOUS
<1>4. step \in [1..n -> [X -> X]]
  <2>1. ASSUME NEW i \in 1..n, NEW q \in X PROVE Place!ReadOn(q, s[i], separator) \in X
    <3>1. s[i] \in T
      BY <1>2
    <3> QED  BY <1>1, <3>1, ReadsOnIn
  <2> QED  BY <1>3, <2>1
<1>5. PICK first \in X : first = Nothing
  BY <1>1, NothingIn
<1>6. PICK H \in [0..n -> X] : H[0] = first /\ \A i \in 1..n : H[i] = step[i][H[i - 1]]
  <2>1. first \in X /\ n \in Nat
    OBVIOUS
  <2> QED  BY ONLY <1>4, <2>1, Iteration
<1>7. \A i \in 1..n : H[i] = Place!ReadOn(H[i - 1], s[i], separator)
  <2> SUFFICES ASSUME NEW i \in 1..n PROVE H[i] = Place!ReadOn(H[i - 1], s[i], separator)
    OBVIOUS
  <2>1. H[i - 1] \in X
    OBVIOUS
  <2> QED  BY <1>3, <1>6, <2>1
<1> DEFINE Is(F) == F = [i \in 0..Len(s) |-> IF i = 0 THEN [parts |-> <<>>, rest |-> <<>>]
                                             ELSE Place!ReadOn(F[i - 1], s[i], separator)]
           F == CHOOSE F : Is(F)
<1>8. Is(H)
  <2>1. \A i \in 0..n : H[i] = IF i = 0 THEN [parts |-> <<>>, rest |-> <<>>]
                               ELSE Place!ReadOn(H[i - 1], s[i], separator)
    BY <1>5, <1>6, <1>7 DEF Nothing
  <2>2. H = [i \in 0..n |-> H[i]]
    OBVIOUS
  <2> QED  BY <1>2, <2>1, <2>2
<1>9. Place!Parted(s, separator) = F[Len(s)]
  BY DEF Place!Parted
<1>10. Is(F)
  <2> HIDE DEF Is
  <2> QED  BY <1>8
<1> HIDE DEF F
<1>11. F[0] = Nothing /\ \A i \in 1..n : F[i] = Place!ReadOn(F[i - 1], s[i], separator)
  BY <1>2, <1>10 DEF Nothing
<1>12. F = H
  <2> DEFINE P == {i \in 0..n : F[i] = H[i]}
  <2>1. 0 \in P
    BY <1>5, <1>6, <1>11
  <2>2. ASSUME NEW i \in 1..n, i - 1 \in P PROVE i \in P
    BY <1>7, <1>11, <2>2
  <2> HIDE DEF P
  <2>3. 0..n \subseteq P
    BY <2>1, <2>2, Induction
  <2>4. \A i \in 0..n : F[i] = H[i]
    BY <2>3 DEF P
  <2>5. F = [i \in 0..n |-> F[i]] /\ H = [i \in 0..n |-> H[i]]
    BY <1>2, <1>10
  <2> QED  BY <2>4, <2>5
<1>13. PartsOf(H, T, s, separator)
  BY <1>1, <1>2, <1>5, <1>6, <1>7 DEF PartsOf
<1> QED  BY <1>9, <1>12, <1>13

LEMMA PartsOfNothing ==
    ASSUME NEW separator
    PROVE  Place!Parted(<<>>, separator) = Nothing
<1>1. PICK s \in Seq({}) : s = <<>>
  BY EmptySeq
<1>2. PICK F : PartsOf(F, {}, s, separator) /\ Place!Parted(s, separator) = F[Len(s)]
  BY PartedIs
<1> QED  BY <1>1, <1>2 DEF PartsOf

LEMMA PartedInParts ==
    ASSUME NEW T, NEW separator, NEW s \in Seq(T)
    PROVE  Place!Parted(s, separator) \in Partings(T)
<1>1. PICK F : PartsOf(F, T, s, separator) /\ Place!Parted(s, separator) = F[Len(s)]
  BY PartedIs
<1> QED  BY <1>1 DEF PartsOf

LEMMA PartsOfOneMore ==
    ASSUME NEW T, NEW separator, NEW s \in Seq(T), NEW c \in T
    PROVE  Place!Parted(Append(s, c), separator) = Place!ReadOn(Place!Parted(s, separator), c, separator)
<1>1. PICK t \in Seq(T) : t = Append(s, c)
  BY AppendProperties
<1>2. PICK n \in Nat : n = Len(s)
  OBVIOUS
<1>3. Len(t) = n + 1 /\ t[n + 1] = c /\ \A i \in 1..n : t[i] = s[i]
  BY <1>1, <1>2
<1>4. PICK F : PartsOf(F, T, s, separator) /\ Place!Parted(s, separator) = F[Len(s)]
  BY PartedIs
<1>5. PICK G : PartsOf(G, T, t, separator) /\ Place!Parted(t, separator) = G[Len(t)]
  BY PartedIs
<1> DEFINE P == {i \in 0..n : F[i] = G[i]}
<1>6. 0 \in P
  BY <1>4, <1>5 DEF PartsOf
<1>7. ASSUME NEW i \in 1..n, i - 1 \in P PROVE i \in P
  <2>1. i \in 1..Len(s) /\ i \in 1..Len(t)
    BY <1>2, <1>3
  <2>2. F[i] = Place!ReadOn(F[i - 1], s[i], separator) /\ G[i] = Place!ReadOn(G[i - 1], t[i], separator)
    BY <1>4, <1>5, <2>1 DEF PartsOf
  <2> QED  BY <1>3, <1>7, <2>2
<1>8. F[n] = G[n]
  <2> HIDE DEF P
  <2>1. 0..n \subseteq P
    BY <1>6, <1>7, Induction
  <2> QED  BY <2>1 DEF P
<1>9. G[n + 1] = Place!ReadOn(G[n], c, separator)
  <2>1. n + 1 \in 1..Len(t) /\ (n + 1) - 1 = n
    BY <1>3
  <2> QED  BY <1>3, <1>5, <2>1 DEF PartsOf
<1> QED  BY <1>1, <1>2, <1>3, <1>4, <1>5, <1>8, <1>9

Joint(s, t, c) == Append(s \o t, c) = s \o Append(t, c)

LEMMA AppendBehind ==
    ASSUME NEW T, NEW s \in Seq(T), NEW t \in Seq(T), NEW c \in T
    PROVE  Joint(s, t, c)
<1>1. s \o t \in Seq(T) /\ Append(t, c) \in Seq(T)
  OBVIOUS
<1>2. Append(s \o t, c) \in Seq(T) /\ s \o Append(t, c) \in Seq(T)
  BY <1>1
<1>3. Len(Append(s \o t, c)) = Len(s) + Len(t) + 1 /\ Len(s \o Append(t, c)) = Len(s) + Len(t) + 1
  BY <1>1
<1>4. \A i \in 1..(Len(s) + Len(t) + 1) : Append(s \o t, c)[i] = (s \o Append(t, c))[i]
  BY <1>1
<1> QED  BY <1>2, <1>3, <1>4, SeqEqual DEF Joint

Grows(s, i) == SubSeq(s, 1, i) = Append(SubSeq(s, 1, i - 1), s[i])

LEMMA PrefixGrows ==
    ASSUME NEW R, NEW s \in Seq(R), NEW i \in 1..Len(s)
    PROVE  Grows(s, i)
<1>1. PICK n \in Nat : n = Len(s)
  OBVIOUS
<1>2. SubSeq(s, 1, i - 1) \in Seq(R) /\ SubSeq(s, 1, i) \in Seq(R) /\ s[i] \in R
  BY <1>1
<1>3. Len(SubSeq(s, 1, i)) = i /\ Len(Append(SubSeq(s, 1, i - 1), s[i])) = i
  BY <1>1
<1>4. \A j \in 1..i : SubSeq(s, 1, i)[j] = Append(SubSeq(s, 1, i - 1), s[i])[j]
  BY <1>1
<1>5. Append(SubSeq(s, 1, i - 1), s[i]) \in Seq(R)
  BY <1>2
<1> QED  BY <1>2, <1>3, <1>4, <1>5, SeqEqual DEF Grows

\* What has no separator goes to the part that is read.
LEMMA PartGoesOn ==
    ASSUME NEW T, NEW separator, NEW s \in Seq(T), NEW t \in Seq(T),
           \A i \in 1..Len(t) : t[i] # separator
    PROVE  Place!Parted(s \o t, separator) =
             [parts |-> Place!Parted(s, separator).parts, rest |-> Place!Parted(s, separator).rest \o t]
<1>1. PICK n \in Nat : n = Len(t)
  OBVIOUS
<1>2. PICK parts \in Seq(Seq(T)), rest \in Seq(T) :
          Place!Parted(s, separator) = [parts |-> parts, rest |-> rest]
  BY PartedInParts DEF Partings
<1> DEFINE upto(i) == SubSeq(t, 1, i)
           P == {i \in 0..n : Place!Parted(s \o upto(i), separator) = [parts |-> parts, rest |-> rest \o upto(i)]}
<1>3. \A i \in 1..n : /\ upto(i - 1) \in Seq(T) /\ t[i] \in T /\ t[i] # separator
                      /\ upto(i) = Append(upto(i - 1), t[i])
  <2> SUFFICES ASSUME NEW i \in 1..n
               PROVE  /\ upto(i - 1) \in Seq(T) /\ t[i] \in T /\ t[i] # separator
                      /\ upto(i) = Append(upto(i - 1), t[i])
    OBVIOUS
  <2>1. upto(i - 1) \in Seq(T) /\ t[i] \in T /\ t[i] # separator
    BY <1>1
  <2>2. Grows(t, i)
    BY <1>1, PrefixGrows
  <2> QED  BY <2>1, <2>2 DEF Grows
<1>4. 0 \in P
  <2>1. upto(0) = <<>>
    OBVIOUS
  <2>2. s \o <<>> = s /\ rest \o <<>> = rest
    BY ConcatEmptySeq
  <2>3. s \o upto(0) = s /\ rest \o upto(0) = rest
    BY <2>1, <2>2
  <2>4. 0 \in 0..n /\ Place!Parted(s \o upto(0), separator) = [parts |-> parts, rest |-> rest \o upto(0)]
    <3>1. Place!Parted(s \o upto(0), separator) = Place!Parted(s, separator)
      BY <2>3
    <3>2. [parts |-> parts, rest |-> rest \o upto(0)] = [parts |-> parts, rest |-> rest]
      BY <2>3
    <3> HIDE DEF upto
    <3> QED  BY <1>2, <3>1, <3>2
  <2> HIDE DEF upto
  <2> QED  BY <2>4
<1>5. ASSUME NEW i \in 1..n, i - 1 \in P PROVE i \in P
  <2>1. PICK u \in Seq(T) : u = upto(i - 1)
    BY <1>3
  <2>2. PICK c \in T : c = t[i] /\ c # separator /\ upto(i) = Append(u, c)
    BY <1>3, <2>1
  <2>3. Place!Parted(s \o u, separator) = [parts |-> parts, rest |-> rest \o u]
    BY <1>5, <2>1
  <2>4. Append(s \o u, c) = s \o Append(u, c) /\ Append(rest \o u, c) = rest \o Append(u, c)
    <3>1. Joint(s, u, c) /\ Joint(rest, u, c)
      BY AppendBehind
    <3> QED  BY <3>1 DEF Joint
  <2>5. s \o u \in Seq(T)
    OBVIOUS
  <2>6. Place!Parted(Append(s \o u, c), separator) = [parts |-> parts, rest |-> Append(rest \o u, c)]
    <3>1. PICK v \in Seq(T) : v = s \o u
      BY <2>5
    <3>2. Place!Parted(Append(v, c), separator) = Place!ReadOn(Place!Parted(v, separator), c, separator)
      BY PartsOfOneMore
    <3>3. Place!Parted(v, separator).parts = parts /\ Place!Parted(v, separator).rest = rest \o u
      BY <2>3, <3>1
    <3> QED  BY <2>2, <3>1, <3>2, <3>3 DEF Place!ReadOn
  <2>7. Place!Parted(s \o upto(i), separator) = [parts |-> parts, rest |-> rest \o upto(i)]
    BY <2>2, <2>4, <2>6
  <2> HIDE DEF upto
  <2> QED  BY <2>7
<1>6. n \in P
  <2> HIDE DEF P
  <2>1. 0..n \subseteq P
    BY <1>4, <1>5, Induction
  <2> QED  BY <2>1
<1>7. upto(n) = t
  <2>1. upto(n) \in Seq(T) /\ Len(upto(n)) = Len(t) /\ \A j \in 1..Len(t) : upto(n)[j] = t[j]
    BY <1>1
  <2> HIDE DEF upto
  <2> QED  BY <2>1, SeqEqual
<1> HIDE DEF upto
<1> QED  BY <1>2, <1>6, <1>7

\* A separator, and a part behind it.
LEMMA PartEnds ==
    ASSUME NEW T, NEW separator \in T, NEW s \in Seq(T), NEW t \in Seq(T),
           \A i \in 1..Len(t) : t[i] # separator
    PROVE  Place!Parted(s \o <<separator>> \o t, separator) =
             [parts |-> Append(Place!Parted(s, separator).parts, Place!Parted(s, separator).rest), rest |-> t]
<1>1. PICK u \in Seq(T) : u = Append(s, separator)
  BY AppendProperties
<1>2. s \o <<separator>> = u
  BY <1>1
<1>3. PICK parts \in Seq(Seq(T)), rest \in Seq(T) :
          Place!Parted(s, separator) = [parts |-> parts, rest |-> rest]
  BY PartedInParts DEF Partings
<1>4. Place!Parted(u, separator) = [parts |-> Append(parts, rest), rest |-> <<>>]
  BY <1>1, <1>3, PartsOfOneMore DEF Place!ReadOn
<1>5. Place!Parted(u \o t, separator) =
        [parts |-> Place!Parted(u, separator).parts, rest |-> Place!Parted(u, separator).rest \o t]
  BY PartGoesOn
<1>6. <<>> \o t = t
  BY ConcatEmptySeq
<1>7. Place!Parted(u, separator).parts = Append(parts, rest) /\ Place!Parted(u, separator).rest = <<>>
  BY <1>4
<1>8. Place!Parted(s, separator).parts = parts /\ Place!Parted(s, separator).rest = rest
  BY <1>3
<1> QED  BY <1>2, <1>5, <1>6, <1>7, <1>8

LEMMA PartOfItsOwn ==
    ASSUME NEW T, NEW separator, NEW t \in Seq(T), \A i \in 1..Len(t) : t[i] # separator
    PROVE  Place!Parted(t, separator) = [parts |-> <<>>, rest |-> t]
<1>1. PICK s \in Seq(T) : s = <<>>
  BY EmptySeq
<1>2. Place!Parted(s \o t, separator) =
        [parts |-> Place!Parted(s, separator).parts, rest |-> Place!Parted(s, separator).rest \o t]
  BY PartGoesOn
<1>3. s \o t = t /\ <<>> \o t = t
  BY <1>1, ConcatEmptySeq
<1>4. Place!Parted(s, separator).parts = <<>> /\ Place!Parted(s, separator).rest = <<>>
  BY <1>1, PartsOfNothing DEF Nothing
<1> QED  BY <1>1, <1>2, <1>3, <1>4

InTwo(p, s, t) == Len(p) = 2 /\ p[1] = s /\ p[2] = t

LEMMA SplitsInTwo ==
    ASSUME NEW T, NEW separator \in T, NEW s \in Seq(T), NEW t \in Seq(T), t # <<>>,
           \A i \in 1..Len(s) : s[i] # separator, \A i \in 1..Len(t) : t[i] # separator
    PROVE  InTwo(Place!Split(s \o <<separator>> \o t, separator), s, t)
<1>1. Place!Parted(s, separator).parts = <<>> /\ Place!Parted(s, separator).rest = s
  BY PartOfItsOwn
<1>2. Place!Parted(s \o <<separator>> \o t, separator) = [parts |-> Append(<<>>, s), rest |-> t]
  BY <1>1, PartEnds
<1>3. Place!Parted(s \o <<separator>> \o t, separator).parts = Append(<<>>, s)
      /\ Place!Parted(s \o <<separator>> \o t, separator).rest = t
  BY <1>2
<1>4. Place!Split(s \o <<separator>> \o t, separator) = Append(Append(<<>>, s), t)
  BY <1>3 DEF Place!Split
<1>5. PICK R : R = Seq(T)
  OBVIOUS
<1>6. PICK none \in Seq(R) : none = <<>>
  BY EmptySeq
<1>7. PICK one \in Seq(R) : one = Append(none, s)
  BY <1>5, AppendProperties
<1>8. Len(one) = 1 /\ one[1] = s
  BY <1>5, <1>6, <1>7
<1>9. t \in R
  BY <1>5
<1>10. Len(Append(one, t)) = 2 /\ Append(one, t)[1] = s /\ Append(one, t)[2] = t
  <2>1. PICK x \in R : x = t
    BY <1>9
  <2>2. Len(Append(one, x)) = 2 /\ Append(one, x)[1] = s /\ Append(one, x)[2] = x
    <3>1. /\ Len(Append(one, x)) = Len(one) + 1 /\ Append(one, x)[Len(one) + 1] = x
          /\ \A i \in 1..Len(one) : Append(one, x)[i] = one[i]
      BY AppendProperties
    <3>2. Len(one) + 1 = 2 /\ 1 \in 1..Len(one) /\ one[1] = s
      BY <1>8
    <3> QED  BY <3>1, <3>2, Zenon
  <2> QED  BY <2>1, <2>2
<1> QED  BY <1>4, <1>6, <1>7, <1>10 DEF InTwo

-----------------------------------------------------------------------------
(* Numerals.                                                               *)

HasNumeral(n) == \E d \in DOMAIN Value : Value[d] = n

LEMMA NumeralIs ==
    ASSUME NEW n, HasNumeral(n)
    PROVE  Place!Numeral(n) \in DOMAIN Value /\ Value[Place!Numeral(n)] = n
BY DEF HasNumeral, Place!Numeral

LEMMA NumeralsAreNoMarks ==
    ASSUME NEW d \in DOMAIN Value
    PROVE  /\ d # ":" /\ d # "." /\ d # "-" /\ d # "name"
           /\ d # Place!Comma /\ d # Place!Blank
BY NumeralsAssumption

LEMMA MarksDiffer ==
    /\ Place!Comma # ":" /\ Place!Blank # ":" /\ Place!Comma # Place!Blank
    /\ Place!Blank # "." /\ Place!Blank # "-" /\ Place!Blank # "name" /\ Place!Blank # "host"
BY Zenon DEF Place!Comma, Place!Blank

LEMMA NoBlanks ==
    ASSUME NEW T, NEW s \in Seq(T), \A i \in 1..Len(s) : s[i] # Place!Blank
    PROVE  Place!Trim(s) = s
<1>1. PICK n \in Nat : n = Len(s)
  OBVIOUS
<1>2. 1..Len(s) \ Place!Places(s, Place!Blank) = 1..n
  BY <1>1 DEF Place!Places
<1>3. CASE n = 0
  <2>1. s = <<>>
    BY <1>1, <1>3, EmptySeq
  <2> QED  BY <1>2, <1>3, <2>1 DEF Place!Trim
<1>4. CASE n # 0
  <2>1. Place!Least(1..n) = 1
    BY <1>4 DEF Place!Least
  <2>2. Place!Greatest(1..n) = n
    BY <1>4 DEF Place!Greatest
  <2>3. 1 \in 1..n
    BY <1>4
  <2>4. SubSeq(s, 1, n) = s
    <3>1. PICK t \in Seq(T) : t = SubSeq(s, 1, n)
      BY <1>1
    <3>2. Len(t) = Len(s) /\ \A i \in 1..Len(s) : t[i] = s[i]
      BY <1>1, <3>1
    <3> QED  BY <3>1, <3>2, SeqEqual
  <2> QED  BY <1>2, <2>1, <2>2, <2>3, <2>4 DEF Place!Trim
<1> QED  BY <1>3, <1>4

LEMMA NumeralIsParsed ==
    ASSUME NEW n \in Nat, HasNumeral(n), NEW width \in Nat \ {0}, n < width
    PROVE  Place!ParseUInt(<<Place!Numeral(n)>>, width) = n
<1>1. PICK d \in DOMAIN Value : d = Place!Numeral(n) /\ Value[d] = n
  BY NumeralIs
<1>2. d # "-" /\ d # Place!Blank
  BY NumeralsAreNoMarks
<1>3. PICK t \in Seq(DOMAIN Value) : t = <<d>>
  <2>1. PICK S : S = DOMAIN Value
    OBVIOUS
  <2>2. d \in S
    BY <2>1
  <2>3. <<d>> \in Seq(S)
    BY <2>2
  <2> QED  BY <2>1, <2>3
<1>4. Len(t) = 1 /\ t[1] = d /\ t # <<>>
  BY <1>3
<1>5. Place!Trim(t) = t
  BY <1>2, <1>4, NoBlanks
<1>6. n % width = n
  OBVIOUS
<1>7. Place!ParseUInt(t, width) = Value[d] % width
  BY <1>2, <1>4, <1>5 DEF Place!ParseUInt
<1> QED  BY <1>1, <1>3, <1>6, <1>7

-----------------------------------------------------------------------------
(* A name, a colon and a number.                                           *)

Tokens(T) == ":" \in T /\ DOMAIN Value \subseteq T
Numbered(name, n) == name \o <<":", Place!Numeral(n)>>
Has(s, mark) == \E i \in 1..Len(s) : s[i] = mark

LEMMA One == ASSUME NEW S, NEW d \in S PROVE \E t \in Seq(S) : t = <<d>> /\ Len(t) = 1 /\ t[1] = d
<1>1. <<d>> \in Seq(S)
  OBVIOUS
<1>2. Len(<<d>>) = 1 /\ <<d>>[1] = d
  OBVIOUS
<1> QED  BY <1>1, <1>2

LEMMA Two ==
    ASSUME NEW S, NEW c \in S, NEW d \in S
    PROVE  \E t \in Seq(S) : t = <<c, d>> /\ Len(t) = 2 /\ t[1] = c /\ t[2] = d
<1>1. <<c, d>> \in Seq(S)
  OBVIOUS
<1>2. Len(<<c, d>>) = 2 /\ <<c, d>>[1] = c /\ <<c, d>>[2] = d
  OBVIOUS
<1> QED  BY <1>1, <1>2

Follow(u, s, t) ==
    /\ u = s \o t /\ Len(u) = Len(s) + Len(t)
    /\ \A i \in 1..Len(s) : u[i] = s[i]
    /\ \A i \in 1..Len(t) : u[Len(s) + i] = t[i]

LEMMA Behind ==
    ASSUME NEW T, NEW s \in Seq(T), NEW t \in Seq(T)
    PROVE  \E u \in Seq(T) : Follow(u, s, t)
<1>1. s \o t \in Seq(T) /\ Len(s \o t) = Len(s) + Len(t)
  OBVIOUS
<1>2. \A i \in 1..Len(s) : (s \o t)[i] = s[i]
  OBVIOUS
<1>3. \A i \in 1..Len(t) : (s \o t)[Len(s) + i] = t[i]
  OBVIOUS
<1> QED  BY <1>1, <1>2, <1>3 DEF Follow

LEMMA NumberIsOneToken ==
    ASSUME NEW T, Tokens(T), NEW n, HasNumeral(n)
    PROVE  \E t \in Seq(T) : /\ t = <<Place!Numeral(n)>> /\ Len(t) = 1 /\ t[1] = Place!Numeral(n)
                             /\ t # <<>>
<1>1. Place!Numeral(n) \in T
  BY NumeralIs DEF Tokens
<1>2. PICK d \in T : d = Place!Numeral(n)
  BY <1>1
<1>3. PICK t \in Seq(T) : t = <<d>> /\ Len(t) = 1 /\ t[1] = d
  BY One
<1>4. t # <<>>
  BY <1>3
<1> QED  BY <1>2, <1>3, <1>4

IsNumbered(t, name, n) ==
    /\ t = Numbered(name, n) /\ t = name \o <<":">> \o <<Place!Numeral(n)>>
    /\ Len(t) = Len(name) + 2 /\ \A i \in 1..Len(name) : t[i] = name[i]
    /\ t[Len(name) + 1] = ":" /\ t[Len(name) + 2] = Place!Numeral(n)

LEMMA NumberedIs ==
    ASSUME NEW T, Tokens(T), NEW name \in Seq(T), NEW n, HasNumeral(n)
    PROVE  \E t \in Seq(T) : IsNumbered(t, name, n)
<1>1. PICK d \in T : d = Place!Numeral(n)
  BY NumeralIs DEF Tokens
<1>2. PICK c \in T : c = ":"
  BY DEF Tokens
<1>3. PICK a \in Seq(T) : a = <<c>> /\ Len(a) = 1 /\ a[1] = c
  BY One
<1>4. PICK b \in Seq(T) : b = <<d>> /\ Len(b) = 1 /\ b[1] = d
  BY One
<1>5. PICK e \in Seq(T) : e = <<c, d>> /\ Len(e) = 2 /\ e[1] = c /\ e[2] = d
  BY Two
<1>6. Len(a) = 1 /\ a[1] = c /\ Len(b) = 1 /\ b[1] = d /\ Len(e) = 2 /\ e[1] = c /\ e[2] = d
  BY <1>3, <1>4, <1>5
<1>7. a \o b = e
  <2>1. PICK f \in Seq(T) : Follow(f, a, b)
    BY Behind
  <2>2. f = a \o b /\ Len(f) = Len(e) /\ f[1] = e[1] /\ f[2] = e[2]
    BY <1>6, <2>1 DEF Follow
  <2>3. \A i \in 1..Len(e) : f[i] = e[i]
    BY <1>6, <2>2
  <2> QED  BY <2>1, <2>2, <2>3, SeqEqual
<1>8. name \o e = (name \o a) \o b
  <2>1. (name \o a) \o b = name \o (a \o b)
    BY ConcatAssociative
  <2> QED  BY <1>7, <2>1
<1>9. PICK u \in Seq(T) : Follow(u, name, e)
  BY Behind
<1>10. /\ u = name \o e /\ Len(u) = Len(name) + 2 /\ \A i \in 1..Len(name) : u[i] = name[i]
       /\ u[Len(name) + 1] = c /\ u[Len(name) + 2] = d
  BY <1>6, <1>9 DEF Follow
<1>11. Numbered(name, n) = name \o e
  BY <1>1, <1>2, <1>5 DEF Numbered
<1> QED  BY <1>1, <1>2, <1>3, <1>4, <1>8, <1>9, <1>10, <1>11 DEF IsNumbered

LEMMA NumberComesBack ==
    ASSUME NEW T, Tokens(T), NEW name \in Seq(T), ~Has(name, ":"), NEW n, HasNumeral(n)
    PROVE  InTwo(Place!Split(Numbered(name, n), ":"), name, <<Place!Numeral(n)>>)
<1>1. PICK t \in Seq(T) : /\ t = <<Place!Numeral(n)>> /\ Len(t) = 1 /\ t[1] = Place!Numeral(n)
                          /\ t # <<>>
  BY NumberIsOneToken
<1>2. \A i \in 1..Len(t) : t[i] # ":"
  BY <1>1, NumeralIs, NumeralsAreNoMarks
<1>3. PICK c \in T : c = ":"
  BY DEF Tokens
<1>4. \A i \in 1..Len(name) : name[i] # c
  BY <1>3 DEF Has
<1>5. InTwo(Place!Split(name \o <<c>> \o t, c), name, t)
  BY <1>1, <1>2, <1>3, <1>4, SplitsInTwo
<1>6. Numbered(name, n) = name \o <<":">> \o <<Place!Numeral(n)>>
  <2>1. PICK u \in Seq(T) : IsNumbered(u, name, n)
    BY NumberedIs
  <2> QED  BY <2>1 DEF IsNumbered
<1> QED  BY <1>1, <1>3, <1>5, <1>6

LEMMA CoordinatesComeBack ==
    ASSUME NEW T, Tokens(T), NEW c, c.file \in Seq(T), ~Has(c.file, ":"), c = Place!At(c.file, c.position),
           c.position \in Nat, HasNumeral(c.position), c.position < Wide, Place!IsValid(c)
    PROVE  Place!Parse(Place!ToString(c)) = {c}
<1>1. PICK file, n, t : file = c.file /\ n = c.position /\ t = <<Place!Numeral(n)>>
  OBVIOUS
<1>2. PICK p : p = Place!Split(Numbered(file, n), ":") /\ InTwo(p, file, t)
  BY <1>1, NumberComesBack
<1>3. Place!ToString(c) = Numbered(file, n)
  BY <1>1 DEF Place!ToString, Numbered
<1>4. Place!ParseUInt(t, Wide) = n
  BY <1>1, NumeralIsParsed, NumeralsAssumption
<1>5. Len(p) = 2 /\ p[1] = file /\ p[2] = t /\ n # Place!None
  BY <1>1, <1>2 DEF InTwo, Place!None
<1>6. Place!Parse(Numbered(file, n)) = {Place!At(file, n)}
  BY <1>2, <1>4, <1>5 DEF Place!Parse
<1> QED  BY <1>1, <1>3, <1>6

LEMMA KeysComeBack ==
    ASSUME NEW port \in 1..(PortWidth - 1), HasNumeral(port)
    PROVE  LET k == Place!Key(<<"host">>, port) IN Place!ParseKey(Place!KeyToString(k)) = {k}
<1>1. PICK h, T : h = "host" /\ T = DOMAIN Value \union {":", h}
  OBVIOUS
<1>2. Tokens(T) /\ h \in T
  BY <1>1 DEF Tokens
<1>3. PICK host \in Seq(T) : host = <<h>> /\ Len(host) = 1 /\ host[1] = h
  BY <1>2, One
<1>4. Len(host) = 1 /\ host[1] = h /\ host # <<>>
  BY <1>3
<1>5. h # ":" /\ h # Place!Blank
  BY <1>1, MarksDiffer
<1>6. ~Has(host, ":")
  BY <1>4, <1>5 DEF Has
<1>7. PICK t : t = <<Place!Numeral(port)>>
  OBVIOUS
<1>8. PICK p : p = Place!Split(Numbered(host, port), ":") /\ InTwo(p, host, t)
  BY <1>2, <1>6, <1>7, NumberComesBack
<1>9. Place!ParseUInt(t, PortWidth) = port
  <2>1. port \in Nat /\ PortWidth \in Nat \ {0} /\ port < PortWidth
    BY NumeralsAssumption
  <2> QED  BY <1>7, <2>1, NumeralIsParsed
<1>10. Len(p) = 2 /\ p[1] = host /\ p[2] = t /\ port # Place!None
  <2>1. port > 0
    BY NumeralsAssumption
  <2> QED  BY <1>8, <2>1, NumeralsAssumption DEF InTwo, Place!None
<1>11. Place!Trim(host) = host
  <2>1. \A i \in 1..Len(host) : host[i] # Place!Blank
    BY <1>4, <1>5
  <2> QED  BY <2>1, NoBlanks
<1>12. Place!ParseKey(Numbered(host, port)) = {Place!Key(host, port)}
  BY <1>8, <1>9, <1>10, <1>11 DEF Place!ParseKey
<1>13. Place!KeyToString(Place!Key(host, port)) = Numbered(host, port)
  <2>1. port > 0
    BY NumeralsAssumption
  <2> QED  BY <1>4, <2>1 DEF Place!KeyToString, Place!Key, Numbered
<1> QED  BY <1>1, <1>3, <1>12, <1>13

-----------------------------------------------------------------------------
(* The map of instance keys.                                               *)

LEMMA FirstIsFound ==
    ASSUME NEW K, NEW keys \in Seq(K), Len(keys) # 0, NEW host, keys[1].host = host
    PROVE  Place!FindByHost(keys, host) = {keys[1]}
<1> DEFINE at == {i \in 1..Len(keys) : keys[i].host = host}
<1>1. 1 \in at /\ \A i \in at : 1 <= i /\ i \in Nat
  OBVIOUS
<1>2. Place!Least(at) = 1
  <2> HIDE DEF at
  <2> QED  BY <1>1 DEF Place!Least
<1>3. at # {}
  BY <1>1
<1> QED  BY <1>2, <1>3 DEF Place!FindByHost

RemovedBy(F, keys, k) ==
    F[0] = <<>> /\ \A i \in 1..Len(keys) : F[i] = Place!KeepOther(F[i - 1], k, keys[i])

\* The keys that are not removed, one after the other.
LEMMA RemovedOneByOne ==
    ASSUME NEW K, NEW k, NEW keys \in Seq(K)
    PROVE  \E F : RemovedBy(F, keys, k) /\ Place!Remove(keys, k) = F[Len(keys)]
<1>1. PICK X : X = Seq(K)
  OBVIOUS
<1>2. PICK n \in Nat : n = Len(keys)
  OBVIOUS
<1>3. PICK step : step = [i \in 1..n |-> [q \in X |-> Place!KeepOther(q, k, keys[i])]]
  OBVIOUS
<1>4. step \in [1..n -> [X -> X]]
  <2>1. ASSUME NEW i \in 1..n, NEW q \in X PROVE Place!KeepOther(q, k, keys[i]) \in X
    <3>1. keys[i] \in K
      BY <1>2
    <3>2. Append(q, keys[i]) \in Seq(K)
      BY <1>1, <3>1
    <3> QED  BY <1>1, <3>2 DEF Place!KeepOther
  <2> QED  BY <1>3, <2>1
<1>5. PICK first \in X : first = <<>>
  BY <1>1, EmptySeq
<1>6. PICK H \in [0..n -> X] : H[0] = first /\ \A i \in 1..n : H[i] = step[i][H[i - 1]]
  <2>1. first \in X /\ n \in Nat
    OBVIOUS
  <2> QED  BY ONLY <1>4, <2>1, Iteration
<1>7. \A i \in 1..n : H[i] = Place!KeepOther(H[i - 1], k, keys[i])
  <2> SUFFICES ASSUME NEW i \in 1..n PROVE H[i] = Place!KeepOther(H[i - 1], k, keys[i])
    OBVIOUS
  <2>1. H[i - 1] \in X
    OBVIOUS
  <2> QED  BY <1>3, <1>6, <2>1
<1> DEFINE Is(F) == F = [i \in 0..Len(keys) |->
                           IF i = 0 THEN <<>>
                           ELSE Place!KeepOther(F[i - 1], k, keys[i])]
           F == CHOOSE F : Is(F)
<1>8. Is(H)
  <2>1. \A i \in 0..n : H[i] = IF i = 0 THEN <<>>
                               ELSE Place!KeepOther(H[i - 1], k, keys[i])
    BY <1>5, <1>6, <1>7
  <2>2. H = [i \in 0..n |-> H[i]]
    OBVIOUS
  <2> QED  BY <1>2, <2>1, <2>2
<1>9. Place!Remove(keys, k) = F[Len(keys)]
  BY DEF Place!Remove
<1>10. Is(F)
  <2> HIDE DEF Is
  <2> QED  BY <1>8
<1> HIDE DEF F
<1>11. F[0] = <<>> /\ \A i \in 1..Len(keys) : F[i] = Place!KeepOther(F[i - 1], k, keys[i])
  BY <1>2, <1>10
<1> QED  BY <1>9, <1>11 DEF RemovedBy

LEMMA OnlyKeyIsRemoved ==
    ASSUME NEW K, NEW k, NEW keys \in Seq(K), Len(keys) = 1, keys[1] = k
    PROVE  Place!Remove(keys, k) = <<>>
<1>1. PICK F : RemovedBy(F, keys, k) /\ Place!Remove(keys, k) = F[Len(keys)]
  BY RemovedOneByOne
<1>2. F[1] = Place!KeepOther(F[0], k, keys[1])
  BY <1>1 DEF RemovedBy
<1> QED  BY <1>1, <1>2 DEF RemovedBy, Place!KeepOther

LEMMA OtherKeyStays ==
    ASSUME NEW K, NEW k, NEW keys \in Seq(K), Len(keys) = 2, keys[1] = k, keys[2] # k
    PROVE  Place!Remove(keys, k) = Append(<<>>, keys[2])
<1>1. PICK F : RemovedBy(F, keys, k) /\ Place!Remove(keys, k) = F[Len(keys)]
  BY RemovedOneByOne
<1>2. F[1] = Place!KeepOther(F[0], k, keys[1]) /\ F[2] = Place!KeepOther(F[1], k, keys[2])
  BY <1>1 DEF RemovedBy
<1> QED  BY <1>1, <1>2 DEF RemovedBy, Place!KeepOther

LEMMA KeysAreFound ==
    ASSUME NEW host, NEW port, NEW other
    PROVE  LET k == Place!Key(host, port)
               l == Place!Key(host, other)
               keys == Place!AddKey(Place!AddKey(<<>>, k), l) IN
           /\ Place!FindByHost(keys, host) = {k}
           /\ Place!FindByHost(Place!Remove(keys, k), host) = {l} \ {k}
<1>1. PICK k, l : k = Place!Key(host, port) /\ l = Place!Key(host, other)
  OBVIOUS
<1>2. k.host = host /\ l.host = host
  BY <1>1 DEF Place!Key
<1>3. PICK K : K = {k, l}
  OBVIOUS
<1>4. k \in K /\ l \in K
  BY <1>3
<1>5. PICK none \in Seq(K) : none = <<>> /\ Len(none) = 0
  BY EmptySeq
<1>6. PICK one \in Seq(K) : one = Append(none, k) /\ Len(one) = 1 /\ one[1] = k
  <2>1. Append(none, k) \in Seq(K) /\ Len(Append(none, k)) = 1 /\ Append(none, k)[1] = k
    BY <1>4, <1>5
  <2> QED  BY <2>1
<1>7. PICK two \in Seq(K) : two = Append(one, l) /\ Len(two) = 2 /\ two[1] = k /\ two[2] = l
  <2>1. /\ Append(one, l) \in Seq(K) /\ Len(Append(one, l)) = 2
        /\ Append(one, l)[1] = k /\ Append(one, l)[2] = l
    BY <1>4, <1>6
  <2> QED  BY <2>1
<1>8. PICK last \in Seq(K) : last = Append(none, l) /\ Len(last) = 1 /\ last[1] = l
  <2>1. Append(none, l) \in Seq(K) /\ Len(Append(none, l)) = 1 /\ Append(none, l)[1] = l
    BY <1>4, <1>5
  <2> QED  BY <2>1
<1>9. Place!AddKey(<<>>, k) = one
  <2>1. ~\E i \in 1..Len(none) : none[i] = k
    BY <1>5
  <2>2. Place!AddKey(none, k) = one
    BY <1>6, <2>1 DEF Place!AddKey
  <2> QED  BY <1>5, <2>2
<1>10. Place!AddKey(one, l) = IF k = l THEN one ELSE two
  <2>1. (\E i \in 1..Len(one) : one[i] = l) <=> k = l
    BY <1>6
  <2> QED  BY <1>7, <2>1 DEF Place!AddKey
<1>11. CASE k = l
  <2>1. Place!FindByHost(one, host) = {k}
    <3>1. Len(one) # 0 /\ one[1].host = host /\ one[1] = k
      BY <1>2, <1>6
    <3>2. Place!FindByHost(one, host) = {one[1]}
      BY <3>1, FirstIsFound
    <3> QED  BY <3>1, <3>2
  <2>2. Place!Remove(one, k) = <<>>
    BY <1>6, OnlyKeyIsRemoved
  <2>3. Place!FindByHost(none, host) = {}
    BY <1>5 DEF Place!FindByHost
  <2> QED  BY <1>1, <1>5, <1>9, <1>10, <1>11, <2>1, <2>2, <2>3
<1>12. CASE k # l
  <2>1. Place!FindByHost(two, host) = {k}
    <3>1. Len(two) # 0 /\ two[1].host = host /\ two[1] = k
      BY <1>2, <1>7
    <3>2. Place!FindByHost(two, host) = {two[1]}
      BY <3>1, FirstIsFound
    <3> QED  BY <3>1, <3>2
  <2>2. Place!Remove(two, k) = last
    BY <1>5, <1>7, <1>8, <1>12, OtherKeyStays
  <2>3. Place!FindByHost(last, host) = {l}
    <3>1. Len(last) # 0 /\ last[1].host = host /\ last[1] = l
      BY <1>2, <1>8
    <3>2. Place!FindByHost(last, host) = {last[1]}
      BY <3>1, FirstIsFound
    <3> QED  BY <3>1, <3>2
  <2> QED  BY <1>1, <1>9, <1>10, <1>12, <2>1, <2>2, <2>3
<1> QED  BY <1>11, <1>12

-----------------------------------------------------------------------------
(* Versions.                                                               *)

VersionText(d) == <<"10", ".", d, "-", "name">>

Five(t, a, b, c, d, e) ==
    /\ t = <<a, b, c, d, e>> /\ Len(t) = 5
    /\ t[1] = a /\ t[2] = b /\ t[3] = c /\ t[4] = d /\ t[5] = e

LEMMA FiveTokens ==
    ASSUME NEW S, NEW a \in S, NEW b \in S, NEW c \in S, NEW d \in S, NEW e \in S
    PROVE  \E t \in Seq(S) : Five(t, a, b, c, d, e)
<1>1. <<a, b, c, d, e>> \in Seq(S)
  OBVIOUS
<1>2. /\ Len(<<a, b, c, d, e>>) = 5 /\ <<a, b, c, d, e>>[1] = a /\ <<a, b, c, d, e>>[2] = b
      /\ <<a, b, c, d, e>>[3] = c /\ <<a, b, c, d, e>>[4] = d /\ <<a, b, c, d, e>>[5] = e
  OBVIOUS
<1> QED  BY <1>1, <1>2 DEF Five

LEMMA VersionIs ==
    ASSUME NEW n \in Nat, HasNumeral(n), n < Wide
    PROVE  Place!ParseVersion(VersionText(Place!Numeral(n)))
             = Place!OrZero(Place!ParseUInt(<<"10">>, Wide)) * 10000 + n * 100
<1>1. PICK d \in DOMAIN Value : d = Place!Numeral(n)
  BY NumeralIs
<1>2. PICK ten \in DOMAIN Value : ten = "10"
  BY NumeralsAssumption
<1>3. PICK dot, dash, word, T : /\ dot = "." /\ dash = "-" /\ word = "name"
                                /\ T = DOMAIN Value \union {dot, dash, word}
  OBVIOUS
<1>4. ten \in T /\ d \in T /\ dot \in T /\ dash \in T /\ word \in T
  BY <1>3
<1>0. PICK t \in Seq(T) : Five(t, ten, dot, d, dash, word)
  BY <1>4, FiveTokens
<1>5. /\ t = <<ten, dot, d, dash, word>> /\ Len(t) = 5
      /\ t[1] = ten /\ t[2] = dot /\ t[3] = d /\ t[4] = dash /\ t[5] = word
  BY <1>0 DEF Five
<1>6. /\ ten # Place!Blank /\ dot # Place!Blank /\ d # Place!Blank /\ dash # Place!Blank
      /\ word # Place!Blank /\ dot # dash /\ dot # word /\ ten # dot /\ d # dot
      /\ dash \notin DOMAIN Value /\ word \notin DOMAIN Value
  <2>1. dot # Place!Blank /\ dash # Place!Blank /\ word # Place!Blank
    BY <1>3, MarksDiffer
  <2>2. dot # dash /\ dot # word
    BY <1>3
  <2> QED  BY <1>3, <2>1, <2>2, NumeralsAreNoMarks
<1>7. Place!Trim(t) = t
  <2>1. \A i \in 1..Len(t) : t[i] # Place!Blank
    BY <1>5, <1>6
  <2> QED  BY <2>1, NoBlanks
<1> DEFINE Behinds == {i \in 1..Len(t) : t[i] \notin DOMAIN Value \union {"."}} \union {Len(t) + 1}
<1>8. Place!VersionEnd(t) = 4
  <2>1. 4 \in Behinds
    BY <1>3, <1>5, <1>6
  <2>2. \A i \in Behinds : i \in Nat /\ 4 <= i
    BY <1>3, <1>5
  <2>3. Place!VersionEnd(t) = Place!Least(Behinds)
    BY DEF Place!VersionEnd
  <2> HIDE DEF Behinds
  <2> QED  BY <2>1, <2>2, <2>3 DEF Place!Least
<1>9. PICK a \in Seq(T) : a = <<ten>> /\ Len(a) = 1 /\ a[1] = ten
  BY <1>4, One
<1>10. PICK b \in Seq(T) : b = <<d>> /\ Len(b) = 1 /\ b[1] = d
  BY <1>4, One
<1>11. PICK m \in Seq(T) : m = <<dot>> /\ Len(m) = 1 /\ m[1] = dot
  BY <1>4, One
<1>12. PICK u \in Seq(T) : Follow(u, a, m)
  BY Behind
<1>13. PICK v \in Seq(T) : Follow(v, u, b)
  BY Behind
<1>14. SubSeq(t, 1, 3) = v
  <2>1. PICK w \in Seq(T) : w = SubSeq(t, 1, 3) /\ Len(w) = 3 /\ \A i \in 1..3 : w[i] = t[i]
    <3>1. SubSeq(t, 1, 3) \in Seq(T) /\ Len(SubSeq(t, 1, 3)) = 3
          /\ \A i \in 1..3 : SubSeq(t, 1, 3)[i] = t[i]
      BY <1>5
    <3> QED  BY <3>1
  <2>2. Len(u) = 2 /\ u[1] = ten /\ u[2] = dot
    BY <1>9, <1>11, <1>12 DEF Follow
  <2>3. Len(v) = 3 /\ v[1] = ten /\ v[2] = dot /\ v[3] = d
    BY <1>10, <1>13, <2>2 DEF Follow
  <2>4. \A i \in 1..Len(w) : w[i] = v[i]
    BY <1>5, <2>1, <2>3
  <2>5. w = v
    BY <2>1, <2>3, <2>4, SeqEqual
  <2> QED  BY <2>1, <2>5
<1>15. PICK p : p = Place!Split(v, ".") /\ InTwo(p, a, b)
  <2>1. \A i \in 1..Len(a) : a[i] # dot
    BY <1>6, <1>9
  <2>2. \A i \in 1..Len(b) : b[i] # dot
    BY <1>6, <1>10
  <2>3. b # <<>>
    BY <1>10
  <2>4. InTwo(Place!Split(a \o <<dot>> \o b, dot), a, b)
    BY <1>4, <2>1, <2>2, <2>3, SplitsInTwo
  <2>5. v = a \o <<dot>> \o b
    BY <1>11, <1>12, <1>13 DEF Follow
  <2> QED  BY <1>3, <2>4, <2>5
<1>16. Len(p) = 2 /\ p[1] = a /\ p[2] = b /\ p # <<>>
  BY <1>15 DEF InTwo
<1>17. Place!ParseUInt(b, Wide) = n /\ n # Place!None
  BY <1>1, <1>10, NumeralIsParsed, NumeralsAssumption DEF Place!None
<1>18. Place!ParseVersion(t) =
         Place!OrZero(Place!ParseUInt(a, Wide)) * 10000 + Place!OrZero(Place!ParseUInt(b, Wide)) * 100 + 0
  <2>1. SubSeq(t, 1, Place!VersionEnd(t) - 1) = v
    BY <1>8, <1>14
  <2> DEFINE parts == Place!Split(SubSeq(Place!Trim(t), 1, Place!VersionEnd(Place!Trim(t)) - 1), ".")
             Number(i) == IF i <= Len(parts) THEN Place!OrZero(Place!ParseUInt(parts[i], Wide)) ELSE 0
  <2>2. Place!ParseVersion(t) =
          IF parts = <<>> THEN Place!None ELSE Number(1) * 10000 + Number(2) * 100 + Number(3)
    BY DEF Place!ParseVersion
  <2>3. parts = p
    BY <1>7, <1>15, <2>1
  <2> HIDE DEF parts
  <2>4. /\ Number(1) = Place!OrZero(Place!ParseUInt(a, Wide))
        /\ Number(2) = Place!OrZero(Place!ParseUInt(b, Wide)) /\ Number(3) = 0
    <3>1. Len(parts) = 2 /\ parts[1] = a /\ parts[2] = b
      BY <1>16, <2>3
    <3>2. Number(1) = Place!OrZero(Place!ParseUInt(a, Wide))
      BY <3>1
    <3>3. Number(2) = Place!OrZero(Place!ParseUInt(b, Wide))
      BY <3>1
    <3>4. Number(3) = 0
      BY <3>1
    <3> QED  BY <3>2, <3>3, <3>4
  <2> HIDE DEF Number
  <2> QED  BY <1>16, <2>2, <2>3, <2>4
<1>19. Place!OrZero(Place!ParseUInt(b, Wide)) = n
  BY <1>17 DEF Place!OrZero
<1>20. VersionText(Place!Numeral(n)) = t
  BY <1>1, <1>2, <1>3, <1>5 DEF VersionText
<1>21. Place!OrZero(Place!ParseUInt(a, Wide)) \in Nat
  BY ParsedIsANumber
<1> QED  BY <1>2, <1>9, <1>18, <1>19, <1>20, <1>21

(* Coordinates, instance keys and versions come back from their texts,     *)
(* whatever the file, the position and the ports, and a key from the map   *)
(* it is in: BinlogCoordinates::Parse takes the part behind its only colon *)
(* for the position, InstanceKey::Parse the port.                          *)
THEOREM PlacesComeBack ==
    ASSUME NEW T, Tokens(T), NEW c, c.file \in Seq(T), ~Has(c.file, ":"), c = Place!At(c.file, c.position),
           c.position \in Nat, HasNumeral(c.position), c.position < Wide,
           NEW port \in Nat, HasNumeral(port), port < Wide,
           NEW other \in Nat, HasNumeral(other), other < Wide
    PROVE  Place!PlacesReadBack(c, port, other)
<1>1. Place!IsValid(c) => Place!Parse(Place!ToString(c)) = {c}
  BY CoordinatesComeBack
<1>2. port \in 1..(PortWidth - 1) =>
        Place!ParseKey(Place!KeyToString(Place!Key(<<"host">>, port))) = {Place!Key(<<"host">>, port)}
  BY KeysComeBack
<1>3. LET keys == Place!AddKey(Place!AddKey(<<>>, Place!Key(<<"host">>, port)), Place!Key(<<"host">>, other)) IN
        /\ Place!FindByHost(keys, <<"host">>) = {Place!Key(<<"host">>, port)}
        /\ Place!FindByHost(Place!Remove(keys, Place!Key(<<"host">>, port)), <<"host">>)
             = {Place!Key(<<"host">>, other)} \ {Place!Key(<<"host">>, port)}
  <2>1. PICK host : host = <<"host">>
    OBVIOUS
  <2> QED  BY <2>1, KeysAreFound
<1>4. LET Version(n) == Place!ParseVersion(<<"10", ".", Place!Numeral(n), "-", "name">>) IN
        Version(port) < Version(other) <=> port < other
  <2>1. PICK p \in Nat : p = Place!OrZero(Place!ParseUInt(<<"10">>, Wide))
    BY ParsedIsANumber
  <2>2. Place!ParseVersion(VersionText(Place!Numeral(port))) = p * 10000 + port * 100
    BY <2>1, VersionIs
  <2>3. Place!ParseVersion(VersionText(Place!Numeral(other))) = p * 10000 + other * 100
    BY <2>1, VersionIs
  <2>4. p * 10000 + port * 100 < p * 10000 + other * 100 <=> port < other
    OBVIOUS
  <2> QED  BY <2>2, <2>3, <2>4 DEF VersionText
<1> QED  BY <1>1, <1>2, <1>3, <1>4 DEF Place!PlacesReadBack

-----------------------------------------------------------------------------
(* The text of a set of GTIDs.                                             *)

\* A GTID's domain and number, without the marks of a set's text.
Written(T, g) ==
    /\ g = Place!GTID(g.domain, g.sequence) /\ Place!IsValidGTID(g)
    /\ g.domain \in Seq(T) /\ ~Has(g.domain, ":") /\ ~Has(g.domain, Place!Comma) /\ ~Has(g.domain, Place!Blank)
    /\ g.sequence \in Nat /\ HasNumeral(g.sequence) /\ g.sequence < Wide

LEMMA GTIDIsText ==
    ASSUME NEW T, Tokens(T), NEW g, Written(T, g)
    PROVE  /\ Place!GTIDToString(g) \in Seq(T) /\ Place!GTIDToString(g) # <<>>
           /\ ~Has(Place!GTIDToString(g), Place!Comma) /\ ~Has(Place!GTIDToString(g), Place!Blank)
<1>1. PICK name \in Seq(T), n \in Nat : name = g.domain /\ n = g.sequence /\ HasNumeral(n)
  BY DEF Written
<1>2. PICK t \in Seq(T) : /\ t = Numbered(name, n) /\ Len(t) = Len(name) + 2
                          /\ \A i \in 1..Len(name) : t[i] = name[i]
                          /\ t[Len(name) + 1] = ":" /\ t[Len(name) + 2] = Place!Numeral(n)
  <2>1. PICK t \in Seq(T) : IsNumbered(t, name, n)
    BY <1>1, NumberedIs
  <2> QED  BY <2>1 DEF IsNumbered
<1>3. Place!GTIDToString(g) = t
  BY <1>1, <1>2 DEF Place!GTIDToString, Numbered
<1>4. ~Has(name, Place!Comma) /\ ~Has(name, Place!Blank)
  BY <1>1 DEF Written
<1>5. PICK l \in Nat : l = Len(name)
  OBVIOUS
<1>6. \A i \in 1..Len(t) : i \in 1..l \/ i = l + 1 \/ i = l + 2
  BY <1>2, <1>5
<1>7. PICK d \in DOMAIN Value : d = Place!Numeral(n)
  BY <1>1, NumeralIs
<1>8. \A mark : mark # ":" /\ mark # d /\ ~Has(name, mark) => ~Has(t, mark)
  BY <1>2, <1>5, <1>6, <1>7 DEF Has
<1>9. ~Has(t, Place!Comma)
  BY <1>4, <1>8, NumeralsAreNoMarks, MarksDiffer
<1>10. ~Has(t, Place!Blank)
  BY <1>4, <1>8, NumeralsAreNoMarks, MarksDiffer
<1>11. t # <<>>
  BY <1>2
<1> QED  BY <1>3, <1>9, <1>10, <1>11

LEMMA GTIDIsParsed ==
    ASSUME NEW T, Tokens(T), NEW g, Written(T, g)
    PROVE  Place!ParseGTID(Place!GTIDToString(g)) = {g}
<1>1. PICK name \in Seq(T), n \in Nat : /\ name = g.domain /\ n = g.sequence /\ HasNumeral(n) /\ n < Wide
                                        /\ ~Has(name, ":") /\ g = Place!GTID(name, n)
  BY DEF Written
<1>2. PICK t \in Seq(T) : /\ t = Numbered(name, n) /\ Len(t) = Len(name) + 2
                          /\ \A i \in 1..Len(name) : t[i] = name[i]
                          /\ t[Len(name) + 1] = ":" /\ t[Len(name) + 2] = Place!Numeral(n)
  <2>1. PICK t \in Seq(T) : IsNumbered(t, name, n)
    BY <1>1, NumberedIs
  <2> QED  BY <2>1 DEF IsNumbered
<1>3. Place!GTIDToString(g) = t
  BY <1>1, <1>2 DEF Place!GTIDToString, Numbered
<1>4. PICK l \in Nat : l = Len(name)
  OBVIOUS
<1>5. PICK d \in DOMAIN Value : d = Place!Numeral(n) /\ d # ":"
  BY <1>1, NumeralIs, NumeralsAreNoMarks
<1>6. Place!Places(t, ":") = {l + 1}
  <2>1. \A i \in 1..l : t[i] # ":"
    BY <1>1, <1>2, <1>4 DEF Has
  <2>2. 1..Len(t) = 1..(l + 2)
    BY <1>2, <1>4
  <2>3. \A i \in 1..(l + 2) : t[i] = ":" <=> i = l + 1
    BY <1>2, <1>4, <1>5, <2>1
  <2> QED  BY <2>2, <2>3 DEF Place!Places
<1>7. Place!Least({l + 1}) = l + 1
  BY DEF Place!Least
<1>8. PICK b \in Seq(T) : b = <<Place!Numeral(n)>> /\ Len(b) = 1 /\ b[1] = Place!Numeral(n) /\ b # <<>>
  BY <1>1, NumberIsOneToken
<1>9. Place!Drop(t, l + 1) = b
  <2>1. Place!Drop(t, l + 1) = SubSeq(t, l + 2, l + 2)
    BY <1>2, <1>4 DEF Place!Drop
  <2>2. PICK u \in Seq(T) : u = SubSeq(t, l + 2, l + 2) /\ Len(u) = 1 /\ u[1] = t[l + 2]
    <3>1. SubSeq(t, l + 2, l + 2) \in Seq(T)
      BY <1>2, <1>4
    <3>2. Len(SubSeq(t, l + 2, l + 2)) = 1
      BY <1>2, <1>4
    <3>3. SubSeq(t, l + 2, l + 2)[1] = t[l + 2]
      BY <1>2, <1>4
    <3> QED  BY <3>1, <3>2, <3>3
  <2>3. \A i \in 1..Len(b) : b[i] = u[i]
    BY <1>2, <1>4, <1>8, <2>2
  <2> QED  BY <1>8, <2>1, <2>2, <2>3, SeqEqual
<1>10. SubSeq(t, 1, l) = name
  <2>1. PICK u \in Seq(T) : u = SubSeq(t, 1, l) /\ Len(u) = l /\ \A i \in 1..l : u[i] = t[i]
    <3>1. SubSeq(t, 1, l) \in Seq(T)
      BY <1>2, <1>4
    <3>2. Len(SubSeq(t, 1, l)) = l
      BY <1>2, <1>4
    <3>3. \A i \in 1..l : SubSeq(t, 1, l)[i] = t[i]
      BY <1>2, <1>4
    <3> QED  BY <3>1, <3>2, <3>3
  <2>2. \A i \in 1..Len(name) : u[i] = name[i]
    BY <1>2, <1>4, <2>1
  <2> QED  BY <1>4, <2>1, <2>2, SeqEqual
<1>11. Place!ParseUInt(b, Wide) = n /\ n # Place!None
  BY <1>1, <1>8, NumeralIsParsed, NumeralsAssumption DEF Place!None
<1>12. Place!ParseGTID(t) = {Place!GTID(name, n)}
  <2>0. l + 1 \in Place!Places(t, ":") /\ (l + 1) - 1 = l
    BY <1>6
  <2>1. Place!Places(t, ":") # {} /\ Place!Least(Place!Places(t, ":")) = l + 1 /\ (l + 1) - 1 = l
    BY <1>6, <1>7, <2>0
  <2>2. /\ Place!Drop(t, Place!Least(Place!Places(t, ":"))) = b
        /\ SubSeq(t, 1, Place!Least(Place!Places(t, ":")) - 1) = name
    BY <1>9, <1>10, <2>1
  <2> QED  BY <1>11, <2>1, <2>2 DEF Place!ParseGTID
<1> QED  BY <1>1, <1>3, <1>12

-----------------------------------------------------------------------------
WrittenSet(T, gtids) ==
    /\ \A i \in 1..Len(gtids) : Written(T, gtids[i])
    /\ \A i, j \in 1..Len(gtids) : gtids[i].domain = gtids[j].domain => i = j

SetTextIs(F, T, gtids) ==
    /\ F \in [0..Len(gtids) -> Seq(T)] /\ F[0] = <<>>
    /\ \A i \in 1..Len(gtids) : F[i] = Place!WriteOn(F[i - 1], i, gtids[i])

LEMMA SetIsText ==
    ASSUME NEW T, Tokens(T), Place!Comma \in T, NEW G, NEW gtids \in Seq(G), WrittenSet(T, gtids)
    PROVE  \E F : SetTextIs(F, T, gtids) /\ Place!SetToString(gtids) = F[Len(gtids)]
<1>1. PICK X : X = Seq(T)
  OBVIOUS
<1>2. PICK n \in Nat : n = Len(gtids)
  OBVIOUS
<1>3. PICK step : step = [i \in 1..n |-> [q \in X |-> Place!WriteOn(q, i, gtids[i])]]
  OBVIOUS
<1>4. step \in [1..n -> [X -> X]]
  <2>1. ASSUME NEW i \in 1..n, NEW q \in X
        PROVE  Place!WriteOn(q, i, gtids[i]) \in X
    <3>1. PICK t \in Seq(T) : t = Place!GTIDToString(gtids[i])
      BY <1>2, GTIDIsText DEF WrittenSet
    <3>2. PICK j \in Seq(T) : j = IF i = 1 THEN <<>> ELSE <<Place!Comma>>
      <4>1. PICK comma \in Seq(T) : comma = <<Place!Comma>>
        BY One
      <4> QED  BY <4>1, EmptySeq
    <3>3. (q \o j) \o t \in Seq(T)
      BY <1>1
    <3> QED  BY <1>1, <3>1, <3>2, <3>3 DEF Place!WriteOn
  <2> QED  BY <1>3, <2>1
<1>5. PICK first \in X : first = <<>>
  BY <1>1, EmptySeq
<1>6. PICK H \in [0..n -> X] : H[0] = first /\ \A i \in 1..n : H[i] = step[i][H[i - 1]]
  <2>1. first \in X /\ n \in Nat
    OBVIOUS
  <2> QED  BY ONLY <1>4, <2>1, Iteration
<1>7. \A i \in 1..n : H[i] = Place!WriteOn(H[i - 1], i, gtids[i])
  <2> SUFFICES ASSUME NEW i \in 1..n
               PROVE  H[i] = Place!WriteOn(H[i - 1], i, gtids[i])
    OBVIOUS
  <2>1. H[i - 1] \in X
    OBVIOUS
  <2> QED  BY <1>3, <1>6, <2>1
<1> DEFINE Is(F) == F = [i \in 0..Len(gtids) |->
                           IF i = 0 THEN <<>>
                           ELSE Place!WriteOn(F[i - 1], i, gtids[i])]
           F == CHOOSE F : Is(F)
<1>8. Is(H)
  <2>1. \A i \in 0..n : H[i] = IF i = 0 THEN <<>> ELSE Place!WriteOn(H[i - 1], i, gtids[i])
    BY <1>5, <1>6, <1>7
  <2>2. H = [i \in 0..n |-> H[i]]
    OBVIOUS
  <2> QED  BY <1>2, <2>1, <2>2
<1>9. Place!SetToString(gtids) = F[Len(gtids)]
  BY DEF Place!SetToString
<1>10. Is(F)
  <2> HIDE DEF Is
  <2> QED  BY <1>8
<1> HIDE DEF F
<1>11. F[0] = <<>> /\ \A i \in 1..n : F[i] = Place!WriteOn(F[i - 1], i, gtids[i])
  BY <1>2, <1>10
<1>12. F[n] = H[n]
  <2> DEFINE P == {i \in 0..n : F[i] = H[i]}
  <2>1. 0 \in P
    BY <1>5, <1>6, <1>11
  <2>2. ASSUME NEW i \in 1..n, i - 1 \in P PROVE i \in P
    BY <1>7, <1>11, <2>2
  <2> HIDE DEF P
  <2>3. 0..n \subseteq P
    BY <2>1, <2>2, Induction
  <2> QED  BY <2>3 DEF P
<1>13. SetTextIs(H, T, gtids)
  BY <1>1, <1>2, <1>5, <1>6, <1>7 DEF SetTextIs
<1> QED  BY <1>2, <1>9, <1>12, <1>13

SplitsTo(p, gtids) ==
    Len(p) = Len(gtids) /\ \A i \in 1..Len(gtids) : p[i] = Place!GTIDToString(gtids[i])

LEMMA SetIsSplit ==
    ASSUME NEW T, Tokens(T), Place!Comma \in T, NEW G, NEW gtids \in Seq(G), WrittenSet(T, gtids)
    PROVE  SplitsTo(Place!Split(Place!SetToString(gtids), Place!Comma), gtids)
<1>1. PICK R : R = Seq(T)
  OBVIOUS
<1>2. PICK n \in Nat : n = Len(gtids)
  OBVIOUS
<1>3. PICK comma \in T : comma = Place!Comma
  OBVIOUS
<1>4. \A i \in 1..n : /\ Place!GTIDToString(gtids[i]) \in R /\ Place!GTIDToString(gtids[i]) # <<>>
                      /\ ~Has(Place!GTIDToString(gtids[i]), comma)
  BY <1>1, <1>2, <1>3, GTIDIsText DEF WrittenSet
<1>5. PICK whole \in Seq(R) : Len(whole) = n /\ \A i \in 1..n : whole[i] = Place!GTIDToString(gtids[i])
  <2>1. PICK w : w = [i \in 1..n |-> Place!GTIDToString(gtids[i])]
    OBVIOUS
  <2>2. w \in [1..n -> R]
    BY <1>4, <2>1
  <2>3. w \in Seq(R) /\ Len(w) = n
    BY <2>2
  <2> QED  BY <2>1, <2>3
<1>6. PICK F : SetTextIs(F, T, gtids) /\ Place!SetToString(gtids) = F[n]
  BY <1>2, SetIsText
<1>7. \A i \in 1..n : /\ whole[i] \in Seq(T) /\ \A j \in 1..Len(whole[i]) : whole[i][j] # comma
  BY <1>1, <1>4, <1>5 DEF Has
<1> DEFINE P == {i \in 0..n : i # 0 => /\ Place!Parted(F[i], comma).parts = SubSeq(whole, 1, i - 1)
                                       /\ Place!Parted(F[i], comma).rest = whole[i]}
<1>8. 0 \in P
  OBVIOUS
<1>9. ASSUME NEW i \in 1..n, i - 1 \in P PROVE i \in P
  <2>1. PICK before \in Seq(T) : before = F[i - 1]
    <3>1. F \in [0..n -> Seq(T)] /\ i - 1 \in 0..n
      BY <1>2, <1>6 DEF SetTextIs
    <3>2. F[i - 1] \in Seq(T)
      BY <3>1
    <3> QED  BY <3>2
  <2>2. F[i] = Place!WriteOn(before, i, gtids[i])
    BY <1>2, <1>6, <2>1 DEF SetTextIs
  <2>3. PICK t \in Seq(T) : t = whole[i] /\ \A j \in 1..Len(t) : t[j] # comma
    BY <1>7
  <2>4. CASE i = 1
    <3>1. before = <<>>
      BY <1>6, <2>1, <2>4 DEF SetTextIs
    <3>2. F[i] = (<<>> \o <<>>) \o t
      BY <1>5, <2>2, <2>3, <2>4, <3>1 DEF Place!WriteOn
    <3>3. <<>> \o t = t /\ <<>> \o <<>> = <<>>
      BY ConcatEmptySeq, EmptySeq
    <3>4. F[i] = t
      BY <3>2, <3>3
    <3>5. Place!Parted(t, comma) = [parts |-> <<>>, rest |-> t]
      BY <2>3, PartOfItsOwn
    <3>6. SubSeq(whole, 1, i - 1) = <<>>
      BY <2>4
    <3>7. Place!Parted(F[i], comma).parts = <<>> /\ Place!Parted(F[i], comma).rest = t
      BY <3>4, <3>5
    <3>8. Place!Parted(F[i], comma).parts = SubSeq(whole, 1, i - 1)
      BY <3>6, <3>7
    <3>9. Place!Parted(F[i], comma).rest = whole[i]
      BY <2>3, <3>7
    <3> QED  BY <3>8, <3>9
  <2>5. CASE i # 1
    <3>1. i - 1 \in 1..n /\ (i - 1) - 1 = i - 2 /\ i - 1 # 0
      BY <2>5
    <3>2. F[i] = before \o <<comma>> \o t
      BY <1>3, <1>5, <2>2, <2>3, <2>5 DEF Place!WriteOn
    <3>3. Place!Parted(before, comma).parts = SubSeq(whole, 1, i - 2)
          /\ Place!Parted(before, comma).rest = whole[i - 1]
      BY <1>9, <2>1, <3>1
    <3>4. Place!Parted(before \o <<comma>> \o t, comma) =
            [parts |-> Append(Place!Parted(before, comma).parts, Place!Parted(before, comma).rest), rest |-> t]
      BY <2>3, PartEnds
    <3>5. SubSeq(whole, 1, i - 1) = Append(SubSeq(whole, 1, i - 2), whole[i - 1])
      <4>1. Grows(whole, i - 1)
        BY <1>5, <3>1, PrefixGrows
      <4> QED  BY <3>1, <4>1 DEF Grows
    <3>6. Place!Parted(F[i], comma) = [parts |-> SubSeq(whole, 1, i - 1), rest |-> t]
      BY <3>2, <3>3, <3>4, <3>5
    <3>7. Place!Parted(F[i], comma).parts = SubSeq(whole, 1, i - 1) /\ Place!Parted(F[i], comma).rest = t
      BY <3>6
    <3> QED  BY <2>3, <3>7
  <2> QED  BY <2>4, <2>5
<1>10. 0..n \subseteq P
  <2> HIDE DEF P
  <2> QED  BY <1>8, <1>9, Induction
<1>11. CASE n = 0
  <2>1. F[n] = <<>>
    BY <1>6, <1>11 DEF SetTextIs
  <2>2. Place!Parted(<<>>, comma).parts = <<>> /\ Place!Parted(<<>>, comma).rest = <<>>
    BY PartsOfNothing DEF Nothing
  <2>3. Place!Split(F[n], comma) = <<>>
    BY <2>1, <2>2 DEF Place!Split
  <2>4. Len(<<>>) = 0
    BY EmptySeq
  <2> QED  BY <1>2, <1>3, <1>6, <1>11, <2>3, <2>4 DEF SplitsTo
<1>12. CASE n # 0
  <2>1. n \in P /\ n \in 1..n
    BY <1>10, <1>12
  <2>2. Place!Parted(F[n], comma).parts = SubSeq(whole, 1, n - 1) /\ Place!Parted(F[n], comma).rest = whole[n]
    BY <1>12, <2>1
  <2>3. whole[n] # <<>>
    BY <1>4, <1>5, <2>1
  <2>4. Place!Split(F[n], comma) = Append(SubSeq(whole, 1, n - 1), whole[n])
    BY <2>2, <2>3 DEF Place!Split
  <2>5. SubSeq(whole, 1, n) = Append(SubSeq(whole, 1, n - 1), whole[n])
    <3>1. Grows(whole, n)
      BY <1>5, <2>1, PrefixGrows
    <3> QED  BY <3>1 DEF Grows
  <2>6. SubSeq(whole, 1, n) = whole
    <3>1. PICK w \in Seq(R) : w = SubSeq(whole, 1, n) /\ Len(w) = n /\ \A i \in 1..n : w[i] = whole[i]
      <4>1. SubSeq(whole, 1, n) \in Seq(R)
        BY <1>5
      <4>2. Len(SubSeq(whole, 1, n)) = n
        BY <1>5
      <4>3. \A i \in 1..n : SubSeq(whole, 1, n)[i] = whole[i]
        BY <1>5
      <4> QED  BY <4>1, <4>2, <4>3
    <3> QED  BY <1>5, <3>1, SeqEqual
  <2> QED  BY <1>2, <1>3, <1>5, <1>6, <2>4, <2>5, <2>6 DEF SplitsTo
<1> QED  BY <1>11, <1>12

LEMMA SetComesBack ==
    ASSUME NEW T, Tokens(T), Place!Comma \in T, NEW G, NEW gtids \in Seq(G), WrittenSet(T, gtids)
    PROVE  Place!ParseSet(<<>>, Place!SetToString(gtids)) = gtids
<1>1. PICK n \in Nat : n = Len(gtids)
  OBVIOUS
<1>2. PICK s : s = Place!SetToString(gtids)
  OBVIOUS
<1> DEFINE parts == Place!Split(s, Place!Comma)
           Is(F) == F = [i \in 0..Len(parts) |->
                           IF i = 0 THEN <<>> ELSE Place!AddParsed(F[i - 1], Place!Trim(parts[i]))]
           F == CHOOSE F : Is(F)
<1>3. Len(parts) = n /\ \A i \in 1..n : parts[i] = Place!GTIDToString(gtids[i])
  BY <1>1, <1>2, SetIsSplit DEF SplitsTo
<1>4. Place!ParseSet(<<>>, s) = F[Len(parts)]
  BY DEF Place!ParseSet
<1> HIDE DEF parts
<1>5. PICK H : H = [i \in 0..n |-> SubSeq(gtids, 1, i)]
  OBVIOUS
<1>6. ASSUME NEW i \in 1..n
      PROVE  Place!AddParsed(SubSeq(gtids, 1, i - 1), Place!Trim(parts[i])) = SubSeq(gtids, 1, i)
  <2>1. PICK g : g = gtids[i] /\ Written(T, g)
    BY <1>1 DEF WrittenSet
  <2>2. PICK t \in Seq(T) : t = Place!GTIDToString(g) /\ ~Has(t, Place!Blank)
    BY <2>1, GTIDIsText
  <2>3. Place!Trim(parts[i]) = t
    <3>1. Place!Trim(t) = t
      BY <2>2, NoBlanks DEF Has
    <3> QED  BY <1>3, <2>1, <2>2, <3>1
  <2>4. Place!ParseGTID(t) = {g}
    BY <2>1, <2>2, GTIDIsParsed
  <2>5. PICK before \in Seq(G) : before = SubSeq(gtids, 1, i - 1) /\ Len(before) = i - 1
                                 /\ \A j \in 1..(i - 1) : before[j] = gtids[j]
    <3>1. SubSeq(gtids, 1, i - 1) \in Seq(G)
      BY <1>1
    <3>2. Len(SubSeq(gtids, 1, i - 1)) = i - 1
      BY <1>1
    <3>3. \A j \in 1..(i - 1) : SubSeq(gtids, 1, i - 1)[j] = gtids[j]
      BY <1>1
    <3> QED  BY <3>1, <3>2, <3>3
  <2>6. Place!AddParsed(before, t) = Place!Add(before, g)
    BY <2>4 DEF Place!AddParsed
  <2>7. Place!IsValidGTID(g)
    BY <2>1 DEF Written
  <2>8. {j \in 1..Len(before) : before[j].domain = g.domain} = {}
    <3>1. \A j \in 1..(i - 1) : j \in 1..Len(gtids) /\ i \in 1..Len(gtids) /\ j # i
      BY <1>1
    <3>2. \A j \in 1..(i - 1) : before[j].domain # g.domain
      BY <2>1, <2>5, <3>1 DEF WrittenSet
    <3> QED  BY <2>5, <3>2
  <2>9. Place!Add(before, g) = Append(before, g)
    BY <2>7, <2>8 DEF Place!Add
  <2>10. Grows(gtids, i)
    BY <1>1, PrefixGrows
  <2> QED  BY <2>1, <2>3, <2>5, <2>6, <2>9, <2>10 DEF Grows
<1>7. Is(H)
  <2>1. \A i \in 0..n : H[i] = IF i = 0 THEN <<>> ELSE Place!AddParsed(H[i - 1], Place!Trim(parts[i]))
    <3> SUFFICES ASSUME NEW i \in 0..n
                 PROVE  H[i] = IF i = 0 THEN <<>> ELSE Place!AddParsed(H[i - 1], Place!Trim(parts[i]))
      OBVIOUS
    <3>1. CASE i = 0
      BY <1>5, <3>1
    <3>2. CASE i # 0
      <4>1. i \in 1..n /\ i - 1 \in 0..n
        BY <3>2
      <4>2. H[i] = SubSeq(gtids, 1, i) /\ H[i - 1] = SubSeq(gtids, 1, i - 1)
        BY <1>5, <4>1
      <4> QED  BY <1>6, <3>2, <4>1, <4>2
    <3> QED  BY <3>1, <3>2
  <2>2. H = [i \in 0..n |-> H[i]]
    BY <1>5
  <2> QED  BY <1>3, <2>1, <2>2
<1>8. Is(F)
  <2> HIDE DEF Is
  <2> QED  BY <1>7
<1> HIDE DEF F
<1>9. F[n] = H[n]
  <2>1. \A i \in 0..n : F[i] = IF i = 0 THEN <<>> ELSE Place!AddParsed(F[i - 1], Place!Trim(parts[i]))
    BY <1>3, <1>8
  <2>2. \A i \in 0..n : H[i] = IF i = 0 THEN <<>> ELSE Place!AddParsed(H[i - 1], Place!Trim(parts[i]))
    BY <1>3, <1>7
  <2> DEFINE P == {i \in 0..n : F[i] = H[i]}
  <2>3. 0 \in P
    BY <2>1, <2>2
  <2>4. ASSUME NEW i \in 1..n, i - 1 \in P PROVE i \in P
    <3>1. i \in 0..n /\ i # 0 /\ F[i - 1] = H[i - 1]
      BY <2>4
    <3> QED  BY <2>1, <2>2, <3>1
  <2> HIDE DEF P, Is
  <2>5. 0..n \subseteq P
    BY <2>3, <2>4, Induction
  <2> QED  BY <2>5 DEF P
<1>10. SubSeq(gtids, 1, n) = gtids
  <2>1. PICK w \in Seq(G) : w = SubSeq(gtids, 1, n) /\ Len(w) = n /\ \A i \in 1..n : w[i] = gtids[i]
    <3>1. SubSeq(gtids, 1, n) \in Seq(G)
      BY <1>1
    <3>2. Len(SubSeq(gtids, 1, n)) = n
      BY <1>1
    <3>3. \A i \in 1..n : SubSeq(gtids, 1, n)[i] = gtids[i]
      BY <1>1
    <3> QED  BY <3>1, <3>2, <3>3
  <2> QED  BY <1>1, <2>1, SeqEqual
<1>11. H[n] = gtids
  BY <1>5, <1>10
<1> QED  BY <1>2, <1>3, <1>4, <1>9, <1>11

\* A set of what is added is made of its members, one of each domain.
LEMMA AddedStays ==
    ASSUME NEW G, NEW gtids \in Seq(G), NEW g \in G
    PROVE  Place!Add(gtids, g) \in Seq(G)
<1> DEFINE at == {i \in 1..Len(gtids) : gtids[i].domain = g.domain}
<1>1. CASE ~Place!IsValidGTID(g)
  BY <1>1 DEF Place!Add
<1>2. Append(gtids, g) \in Seq(G)
  OBVIOUS
<1>3. ASSUME NEW k \in 1..Len(gtids) PROVE [gtids EXCEPT ![k] = g] \in Seq(G)
  OBVIOUS
<1>4. ASSUME at # {} PROVE Place!Least(at) \in 1..Len(gtids)
  <2>1. PICK i \in at : \A j \in at : i <= j
    <3>1. at \in SUBSET Nat
      OBVIOUS
    <3> HIDE DEF at
    <3> QED  BY <1>4, <3>1, LeastNatural
  <2>2. Place!Least(at) \in at
    <3> HIDE DEF at
    <3> QED  BY <2>1 DEF Place!Least
  <2> QED  BY <2>2
<1>5. CASE Place!IsValidGTID(g) /\ at = {}
  BY <1>2, <1>5 DEF Place!Add
<1>6. CASE Place!IsValidGTID(g) /\ at # {}
  <2>1. PICK k \in 1..Len(gtids) : k = Place!Least(at)
    BY <1>4, <1>6
  <2>2. Place!Add(gtids, g) = IF gtids[k].sequence < g.sequence THEN [gtids EXCEPT ![k] = g] ELSE gtids
    BY <1>6, <2>1 DEF Place!Add
  <2> QED  BY <1>3, <2>2
<1> QED  BY <1>1, <1>5, <1>6

LEMMA AddAllStaysIn ==
    ASSUME NEW X, <<>> \in X, NEW G, NEW added \in Seq(G),
           \A i \in 1..Len(added) : \A s \in X : Place!Add(s, added[i]) \in X
    PROVE  Place!AddAll(<<>>, added) \in X
<1>1. PICK n \in Nat : n = Len(added)
  OBVIOUS
<1>2. PICK H \in [0..n -> X] : H[0] = <<>> /\ \A i \in 1..n : H[i] = Place!Add(H[i - 1], added[i])
  <2>1. /\ <<>> \in X /\ n \in Nat /\ n = Len(added)
        /\ \A i \in 1..n : \A s \in X : Place!Add(s, added[i]) \in X
    BY <1>1
  <2> QED  BY ONLY <2>1, AddedOneByOne
<1>3. H = [i \in 0..n |-> H[i]]
  OBVIOUS
<1>4. PICK F : /\ F[0] = <<>> /\ \A i \in 1..n : F[i] = Place!Add(F[i - 1], added[i])
               /\ Place!AddAll(<<>>, added) = F[n]
  BY <1>1, <1>2, <1>3, AddAllIsThat
<1> DEFINE P == {i \in 0..n : F[i] \in X}
<1>5. 0 \in P
  BY <1>4
<1>6. ASSUME NEW i \in 1..n, i - 1 \in P PROVE i \in P
  <2>1. F[i - 1] \in X /\ i \in 0..n
    BY <1>1, <1>6
  <2>2. F[i] \in X
    BY ONLY <1>1, <1>4, <1>6, <2>1, \A j \in 1..Len(added) : \A s \in X : Place!Add(s, added[j]) \in X
  <2> QED  BY <2>1, <2>2
<1>7. 0..n \subseteq P
  <2> HIDE DEF P
  <2> QED  BY <1>5, <1>6, Induction
<1> QED  BY <1>4, <1>7

(* The text of a GTID set, made and parsed with commas between the GTIDs   *)
(* and a colon before each number, gives the set that GTIDSet::Add made.   *)
THEOREM SetsComeBack ==
    ASSUME NEW T, Tokens(T), Place!Comma \in T, NEW G, NEW added \in Seq(G),
           \A g \in G : Place!IsValidGTID(g) => Written(T, g), NEW Domains, G \subseteq GTIDs(Domains)
    PROVE  LET gtids == Place!AddAll(<<>>, added) IN
           Place!ParseSet(<<>>, Place!SetToString(gtids)) = gtids
<1> DEFINE X == {s \in Seq(G) : OneOfEach(s)}
<1>1. <<>> \in X
  BY EmptySeq DEF OneOfEach
<1>2. \A i \in 1..Len(added) : \A s \in X : Place!Add(s, added[i]) \in X
  <2> SUFFICES ASSUME NEW i \in 1..Len(added), NEW s \in X PROVE Place!Add(s, added[i]) \in X
    OBVIOUS
  <2>1. PICK g \in G : g = added[i]
    OBVIOUS
  <2>2. s \in Seq(G) /\ OneOfEach(s)
    OBVIOUS
  <2>3. Place!Add(s, g) \in Seq(G)
    BY <2>2, AddedStays
  <2>4. s \in Seq(GTIDs(Domains)) /\ g \in GTIDs(Domains)
    BY <2>2, SeqMonotonic
  <2>5. OneOfEach(Place!Add(s, g))
    BY <2>2, <2>4, AddKeepsNewest
  <2> QED  BY <2>1, <2>3, <2>5
<1>3. PICK gtids : gtids = Place!AddAll(<<>>, added)
  OBVIOUS
<1>4. gtids \in X
  <2> HIDE DEF X
  <2> QED  BY <1>1, <1>2, <1>3, AddAllStaysIn
<1>5. gtids \in Seq(G) /\ OneOfEach(gtids)
  BY <1>4
<1>6. WrittenSet(T, gtids)
  <2>1. \A i \in 1..Len(gtids) : gtids[i] \in G
    BY <1>5
  <2> QED  BY <1>5, <2>1 DEF OneOfEach, WrittenSet
<1> QED  BY <1>3, <1>5, <1>6, SetComesBack

-----------------------------------------------------------------------------
(* Values: what holds of every input that a part is given.                 *)

InputIsGiven == part \in DOMAIN Inputs /\ input \in Inputs[part]

LEMMA InputStays == Spec => []InputIsGiven
<1>1. Init => InputIsGiven
  BY DEF Init, InputIsGiven
<1>2. InputIsGiven /\ [Next]_vars => InputIsGiven'
  BY DEF InputIsGiven, Next, vars
<1> QED  BY <1>1, <1>2, PTL DEF Spec

(* The loop of StringUtils::MatchesWildcard, with its one star to go back  *)
(* to, accepts exactly the texts that a pattern describes.                 *)
THEOREM PatternsAreMatched == Spec => []WildcardMatches
<1>1. InputIsGiven => WildcardMatches
  <2> SUFFICES ASSUME InputIsGiven, part = "wildcard"
               PROVE  WildcardMatchesPieces(input.str, input.pattern)
    BY DEF WildcardMatches
  <2>1. input \in [str : Seq(Characters \ {"*"}), pattern : Seq(Characters)]
    BY TextsAssumption DEF InputIsGiven
  <2>2. PICK str \in Seq(Characters \ {"*"}), pattern \in Seq(Characters) :
            str = input.str /\ pattern = input.pattern
    BY <2>1
  <2>3. str \in Seq(Characters) /\ \A i \in 1..Len(str) : str[i] # "*"
    BY <2>2
  <2> QED  BY <2>2, <2>3, WildcardsMatch
<1> QED  BY <1>1, InputStays, PTL

(* What the inspector takes for shared, and the key it chooses, are in     *)
(* both tables; and the builder's CREATE of the ghost table is one exactly *)
(* if the table's last column stays.                                       *)
THEOREM SharedColumnsAreShared == Spec => []SharedColumnsExist
<1>1. InputIsGiven => SharedColumnsExist
  <2> SUFFICES ASSUME InputIsGiven, part = "schema"
               PROVE  /\ Tab!SharedColumnsFit(input.original, input.ops)
                      /\ Tab!CreateFits(input.original, input.ops)
    BY DEF SharedColumnsExist
  <2>1. PICK Words : Words = STRING \ {Tab!Comma}
    OBVIOUS
  <2>2. PICK original, ops : original = input.original /\ ops = input.ops
    OBVIOUS
  <2>3. /\ original \in TablesOf(Words) /\ Keyed(original) /\ IsFiniteSet(original.keys)
        /\ original.columns # <<>> /\ ops \in Seq(Operations(Words))
    BY <2>1, <2>2, SchemasAssumption DEF InputIsGiven, TablesOf, KeysOf, KeyTypes, Keyed, Operations
  <2>4. Tab!SharedColumnsFit(original, ops)
    BY <2>3, SharedColumnsAreThere
  <2>5. Tab!CreateFits(original, ops)
    <3>1. original.columns \in Seq(Words) /\ Tab!Comma \notin Words
      BY <2>1, <2>3 DEF TablesOf
    <3> QED  BY <2>3, <3>1, CreateFitsKeptLast
  <2> QED  BY <2>2, <2>4, <2>5
<1> QED  BY <1>1, InputStays, PTL

LEMMA StringColumns == ASSUME NEW columns, Rows!AreColumns(columns) PROVE AreColumns(columns)
<1>1. columns \in [1..Len(columns) -> {columns[i] : i \in 1..Len(columns)}] /\ Len(columns) \in Nat
  BY DEF Rows!AreColumns
<1>2. columns \in Seq({columns[i] : i \in 1..Len(columns)})
  BY <1>1
<1> QED  BY <1>2 DEF Rows!AreColumns, AreColumns

(* The statements of a row event do to a copy what was done to the table,  *)
(* and those of the row copy copy it, but for its first row.               *)
THEOREM RowsFollowTheTable == Spec => []ReplayFollowsTheTable
<1>1. ASSUME NEW x \in Inputs["event"]
      PROVE  Rows!ReplayFollowsTheTable(x.rows, x.type, x.columns, x.before, x.after)
  <2>1. PICK rows, type, columns, before, after :
            rows = x.rows /\ type = x.type /\ columns = x.columns /\ before = x.before /\ after = x.after
    OBVIOUS
  <2>2. Rows!IsChange(rows, type, columns, before, after)
    BY <2>1, RowsAssumption
  <2>3. AreColumns(columns)
    BY <2>2, StringColumns DEF Rows!IsChange
  <2>4. PICK n : n = Len(before)
    OBVIOUS
  <2>5. InTable(STRING, columns) = [Rows!In(columns) -> STRING]
    BY DEF InTable, Rows!In
  <2>6. /\ type \in {"Insert", "Update", "Delete"} /\ rows \in SUBSET InTable(STRING, columns)
        /\ before \in Seq(InTable(STRING, columns)) /\ after \in Seq(InTable(STRING, columns))
        /\ n \in Nat /\ Len(before) = n /\ Len(after) = n
    BY <2>2, <2>4, <2>5 DEF Rows!IsChange
  <2>7. IsChange(STRING, type, columns, rows, before, after, n)
    BY <2>2, <2>3, <2>6 DEF Rows!IsChange, IsChange
  <2> QED  BY <2>1, <2>7, ChangesAreReplayed
<1>2. ASSUME NEW x \in Inputs["copy"]
      PROVE  Rows!ChunksCoverTheTable(x.table, x.columns, x.chunk_size)
  <2>1. PICK table, columns, chunk_size : table = x.table /\ columns = x.columns /\ chunk_size = x.chunk_size
    OBVIOUS
  <2>2. Rows!IsTable(table, columns) /\ chunk_size \in Nat
    BY <2>1, RowsAssumption
  <2>3. AreColumns(columns)
    BY <2>2, StringColumns DEF Rows!IsTable
  <2>4. IsFiniteSet(table)
    BY <2>2 DEF Rows!IsTable, Rows!IsFiniteSet, IsFiniteSet
  <2>5. IsTable(table, columns)
    BY <2>2, <2>3, <2>4 DEF Rows!IsTable, Rows!In, IsTable, AreRows
  <2> QED  BY <2>1, <2>2, <2>5, ChunksCover
<1>3. InputIsGiven => ReplayFollowsTheTable
  BY <1>1, <1>2 DEF InputIsGiven, ReplayFollowsTheTable
<1> QED  BY <1>3, InputStays, PTL

LEMMA PlacesAsGiven ==
    ASSUME NEW x \in Inputs["place"]
    PROVE  Place!PlacesReadBack(x.c, x.port, x.other)
<1> DEFINE Numbers == {Value[d] : d \in DOMAIN Value} \cap 0..(Wide - 1)
<1>1. \A n \in Numbers : n \in Nat /\ HasNumeral(n) /\ n < Wide
  BY NumeralsAssumption DEF HasNumeral
<1>2. PICK W : W = STRING \ {":"}
  OBVIOUS
<1>a. PICK T : T = W \union DOMAIN Value \union {":"}
  OBVIOUS
<1>3. x \in [c : [file : Seq(W), position : Numbers], port : Numbers, other : Numbers]
  BY <1>2, PlacesAssumption
<1> HIDE DEF Numbers
<1>4. PICK c \in [file : Seq(W), position : Numbers], port \in Numbers, other \in Numbers :
          c = x.c /\ port = x.port /\ other = x.other
  BY <1>3
<1>5. c.file \in Seq(W) /\ c.position \in Numbers /\ c = Place!At(c.file, c.position)
  BY DEF Place!At
<1>6. PICK file \in Seq(W) : file = c.file
  BY <1>5
<1>7. \A i \in 1..Len(file) : file[i] \in W
  OBVIOUS
<1>8. ~Has(file, ":")
  <2>1. ":" \notin W
    BY <1>2
  <2> QED  BY <1>7, <2>1 DEF Has
<1>9. file \in Seq(T) /\ Tokens(T)
  <2>1. W \subseteq T
    BY <1>a
  <2> QED  BY <1>a, <2>1, SeqMonotonic DEF Tokens
<1> QED  BY <1>1, <1>4, <1>5, <1>6, <1>8, <1>9, PlacesComeBack

LEMMA SetsAsGiven ==
    ASSUME NEW x \in Inputs["gtids"]
    PROVE  Place!SetKeepsNewest(x.added, x.g)
<1> DEFINE Numbers == {Value[d] : d \in DOMAIN Value} \cap 0..(Wide - 1)
<1>1. \A n \in Numbers : n \in Nat /\ HasNumeral(n) /\ n < Wide
  BY NumeralsAssumption DEF HasNumeral
<1>2. PICK W : W = STRING \ {":", Place!Comma, Place!Blank}
  OBVIOUS
<1>a. PICK T : T = W \union DOMAIN Value \union {":", Place!Comma}
  OBVIOUS
<1>3. PICK D, N : D = Seq(W) /\ N = Numbers
  OBVIOUS
<1>4. PICK G : G = [domain : D, sequence : N]
  OBVIOUS
<1>5. x \in [added : Seq(G), g : G]
  BY <1>2, <1>3, <1>4, PlacesAssumption
<1> HIDE DEF Numbers
<1>6. PICK added \in Seq(G), g \in G : added = x.added /\ g = x.g
  BY <1>5
<1>7. G \subseteq GTIDs(D)
  BY <1>1, <1>3, <1>4 DEF GTIDs
<1>8. Place!ContainsNewest(added, g)
  <2>1. added \in Seq(GTIDs(D)) /\ g \in GTIDs(D)
    BY <1>7, SeqMonotonic
  <2> QED  BY <2>1, SetContainsTheNewest
<1>9. Tokens(T) /\ Place!Comma \in T /\ W \subseteq T
  BY <1>a DEF Tokens
<1>10. ASSUME NEW h \in G, Place!IsValidGTID(h) PROVE Written(T, h)
  <2>1. h.domain \in Seq(W) /\ h.sequence \in Numbers /\ h = Place!GTID(h.domain, h.sequence)
    BY <1>3, <1>4 DEF Place!GTID
  <2>2. PICK s \in Seq(W) : s = h.domain
    BY <2>1
  <2>3. \A i \in 1..Len(s) : s[i] \in W
    OBVIOUS
  <2>4. ":" \notin W /\ Place!Comma \notin W /\ Place!Blank \notin W
    BY <1>2
  <2>5. ~Has(s, ":") /\ ~Has(s, Place!Comma) /\ ~Has(s, Place!Blank)
    BY <2>3, <2>4 DEF Has
  <2>6. s \in Seq(T)
    BY <1>9, SeqMonotonic
  <2> QED  BY <1>1, <1>10, <2>1, <2>2, <2>5, <2>6 DEF Written
<1>11. LET gtids == Place!AddAll(<<>>, added) IN
       Place!ParseSet(<<>>, Place!SetToString(gtids)) = gtids
  BY <1>7, <1>9, <1>10, SetsComeBack
<1> QED  BY <1>6, <1>8, <1>11 DEF Place!SetKeepsNewest

(* Everything that is written as a text is read back from it: literals,    *)
(* names and comments, bytes, times, durations, coordinates and keys.      *)
THEOREM EverythingReadsBack == Spec => []ReadsBack
<1>1. InputIsGiven => ReadsBack
  <2> SUFFICES ASSUME InputIsGiven PROVE ReadsBack
    OBVIOUS
  <2>1. ASSUME part = "text" PROVE TextReadsBack(input) /\ StringsReadBack(input)
    <3>1. input \in Seq(Characters)
      BY <2>1, TextsAssumption DEF InputIsGiven
    <3>2. TextReadsBack(input) /\ StringsReadBack(input)
      BY <3>1, TextsComeBack, StringsComeBack
    <3> QED  BY <3>2
  <2>2. ASSUME part = "bytes" PROVE BytesReadBack(input)
    <3>1. input \in Seq(Bytes)
      BY <2>2, TextsAssumption DEF InputIsGiven
    <3>2. BytesReadBack(input)
      BY <3>1, BytesComeBack
    <3> QED  BY <3>2
  <2>3. ASSUME part = "time" PROVE Tim!TimesReadBack(input.time, input.zone, input.saving)
    <3>1. input \in [time : [seconds : Nat, micros : Tim!Micros], zone : Int, saving : Int]
      BY <2>3, TimesArePoints DEF InputIsGiven
    <3>2. PICK time \in [seconds : Nat, micros : Tim!Micros], zone \in Int, saving \in Int :
              time = input.time /\ zone = input.zone /\ saving = input.saving
      BY <3>1
    <3>3. Tim!TimesReadBack(input.time, input.zone, input.saving)
      BY <3>2, TimesComeBack
    <3> QED  BY <3>3
  <2>4. ASSUME part = "duration" PROVE Tim!DurationsReadBack(input)
    <3>1. input \in Int
      BY <2>4, TimesArePoints DEF InputIsGiven
    <3>2. Tim!DurationsReadBack(input)
      BY <3>1, DurationsComeBack
    <3> QED  BY <3>2
  <2>5. ASSUME part = "place" PROVE Place!PlacesReadBack(input.c, input.port, input.other)
    <3>1. Place!PlacesReadBack(input.c, input.port, input.other)
      BY <2>5, PlacesAsGiven DEF InputIsGiven
    <3> QED  BY <3>1
  <2> QED  BY <2>1, <2>2, <2>3, <2>4, <2>5 DEF ReadsBack
<1> QED  BY <1>1, InputStays, PTL

(* The coordinates of one server are in one order, that of its files       *)
(* first, and a GTID set contains what is no newer than what was added,    *)
(* and comes back from its text.                                           *)
THEOREM CoordinatesAreOrdered == Spec => []CoordinatesOrdered
<1>1. InputIsGiven => CoordinatesOrdered
  <2> SUFFICES ASSUME InputIsGiven PROVE CoordinatesOrdered
    OBVIOUS
  <2>1. ASSUME part = "coordinates" PROVE Place!CoordinatesAreOrdered(input.a, input.b, input.c)
    <3>1. input \in Inputs["coordinates"]
      BY <2>1 DEF InputIsGiven
    <3>2. PICK Files :
              /\ {input.a, input.b, input.c} \subseteq [file : Files, position : Nat]
              /\ \A f, g \in Files : Place!ParseSequence(f) = Place!ParseSequence(g) => f = g
      BY <3>1, PlacesAssumption
    <3>3. PICK a \in [file : Files, position : Nat], b \in [file : Files, position : Nat],
               c \in [file : Files, position : Nat] : a = input.a /\ b = input.b /\ c = input.c
      BY <3>2
    <3> QED  BY <3>2, <3>3, CoordinatesAreATotalOrder
  <2>2. ASSUME part = "gtids" PROVE Place!SetKeepsNewest(input.added, input.g)
    BY <2>2, SetsAsGiven DEF InputIsGiven
  <2> QED  BY <2>1, <2>2 DEF CoordinatesOrdered
<1> QED  BY <1>1, InputStays, PTL

(* The command line decides mode and start, each option that is not        *)
(* forgotten has a say in the configuration, and the tables that migrations *)
(* drop have names of their own, with the exceptions that the property     *)
(* lists.                                                                  *)
THEOREM CommandLinesAreFollowed == Spec => []CommandLineIsFollowed
<1>1. InputIsGiven => CommandLineIsFollowed
  <2> SUFFICES ASSUME InputIsGiven PROVE CommandLineIsFollowed
    OBVIOUS
  <2>1. ASSUME part = "modes" PROVE Opt!ModesFollowOptions(input)
    <3>1. input \in [Opt!AllOptions -> STRING]
      BY <2>1, CommandLinesAssumption DEF InputIsGiven
    <3>2. {"noop", "execute", "unknown", "help", "version", "host", "replica-host",
           "database", "table", "alter", "allow-on-master"} \subseteq Opt!AllOptions
      BY DEF Opt!AllOptions
    <3> QED  BY <3>1, <3>2, ModesAreFollowed
  <2>2. ASSUME part = "option" PROVE Opt!OptionsAreKept(input.args, input.option, input.value)
    <3>1. Opt!SaysElse(input.args, input.option, input.value)
      BY <2>2, CommandLinesAssumption DEF InputIsGiven
    <3> QED  BY <3>1, OptionsAreAllKept
  <2>3. ASSUME part = "names" PROVE Opt!NamesAreApart(input.args, input.other)
    <3>1. input \in Inputs["names"]
      BY <2>3 DEF InputIsGiven
    <3> QED  BY <3>1, NamesAreKeptApart
  <2> QED  BY <2>1, <2>2, <2>3 DEF CommandLineIsFollowed
<1> QED  BY <1>1, InputStays, PTL
=============================================================================
