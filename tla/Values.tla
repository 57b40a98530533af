------------------------------- MODULE Values -------------------------------
(* What one thread computes: functions of values, and objects that are     *)
(* called step by step.  A behaviour is one of one part: for a function it *)
(* is a single state with its input, for an object its calls.              *)
EXTENDS Encoding, FiniteSets

CONSTANTS
    Inputs,                               \* of each part that is a function
    Coordinates, MaxRows, MaxRestarts,    \* of Checkpoint
    Interval, Timeout, MaxTime, MaxSets,  \* of Timers
    Names, Hides, Databases, Tables, Lists, MaxParses,  \* of AlterParser
    Value, Wide, PortWidth                \* of Coordinates

VARIABLES
    part, input,
    changelog, connected, state, coordinates, restarts, seen,
    now, clock, sets, last_execution, deadline, wait, flag, poll, began,
    proceeded, started, adjusted, given_up,
    alter_statement, parsed, parses, given, named

checkpoint == <<changelog, connected, state, coordinates, restarts, seen>>
timers == <<now, clock, sets, last_execution, deadline, wait, flag, poll, began,
            proceeded, started, adjusted, given_up>>
parser == <<alter_statement, parsed, parses, given, named>>
vars == <<part, input, checkpoint, timers, parser>>

Check == INSTANCE Checkpoint
Timer == INSTANCE Timers
Alter == INSTANCE AlterParser
Tim   == INSTANCE Times
Place == INSTANCE Coordinates
Tab   == INSTANCE Schema
Rows  == INSTANCE RowEvents
Opt   == INSTANCE Options

-----------------------------------------------------------------------------
ASSUME TimesAssumption ==
    Interval \in Nat /\ Timeout \in Nat /\ MaxTime \in Nat /\ MaxSets \in Nat

\* A numeral stands for one number; no mark of a text is one.
ASSUME NumeralsAssumption ==
    /\ Wide \in Nat \ {0} /\ PortWidth \in Nat \ {0}
    /\ Value \in [DOMAIN Value -> Nat] /\ "10" \in DOMAIN Value
    /\ DOMAIN Value \cap {":", ".", "-", "name", Place!Comma, Place!Blank} = {}

\* What each function is given.
ASSUME TextsAssumption ==
    /\ Inputs["text"] \subseteq Seq(Characters)
    /\ Inputs["bytes"] \subseteq Seq(Bytes)
    /\ Inputs["wildcard"] \subseteq [str : Seq(Characters \ {"*"}), pattern : Seq(Characters)]

ASSUME TimesArePoints ==
    /\ Inputs["time"] \subseteq [time : [seconds : Nat, micros : Tim!Micros], zone : Int, saving : Int]
    /\ Inputs["duration"] \subseteq Int

\* Names hold no mark that ends them, numbers have numerals; the coordinates
\* are of one server, whose files are told apart by their numbers.
ASSUME PlacesAssumption ==
    LET Numbers == {Value[d] : d \in DOMAIN Value} \cap 0..(Wide - 1)
        GTIDs == [domain : Seq(STRING \ {":", Place!Comma, Place!Blank}), sequence : Numbers] IN
    /\ Inputs["place"] \subseteq
          [c : [file : Seq(STRING \ {":"}), position : Numbers], port : Numbers, other : Numbers]
    /\ Inputs["gtids"] \subseteq [added : Seq(GTIDs), g : GTIDs]
    /\ \A i \in Inputs["coordinates"] : \E Files \in SUBSET {i.a.file, i.b.file, i.c.file} :
          /\ {i.a, i.b, i.c} \subseteq [file : Files, position : Nat]
          /\ \A f, g \in Files : Place!ParseSequence(f) = Place!ParseSequence(g) => f = g

\* A name is no comma of a statement; a key is of columns of its table.
ASSUME SchemasAssumption ==
    LET Words == STRING \ {Tab!Comma}
        Keys  == [name : Words \union {"PRIMARY"}, type : {"Primary", "Unique", "None"},
                  columns : Seq(Words)] IN
    \A s \in Inputs["schema"] :
        /\ s.original \in [columns : Seq(Words), keys : SUBSET Keys] /\ s.original.columns # <<>>
        /\ IsFiniteSet(s.original.keys)
        /\ \A k \in s.original.keys : Tab!In(k.columns) \subseteq Tab!Columns(s.original)
        /\ s.ops \in Seq([type : STRING, name : Words, old_name : Words, columns : Seq(Words)])

\* Changes of rows with keys of their own, tables with numbers for keys.
ASSUME RowsAssumption ==
    /\ \A i \in Inputs["event"] : Rows!IsChange(i.rows, i.type, i.columns, i.before, i.after)
    /\ \A i \in Inputs["copy"] : Rows!IsTable(i.table, i.columns) /\ i.chunk_size \in Nat

\* Command lines; of names: that one is not a part of itself, that a text is
\* what is left when the same text is taken from it, at either end.
ASSUME CommandLinesAssumption ==
    LET Lines  == [Opt!AllOptions -> STRING]
        tables == {Opt!Given(args, "table", "") :
                     args \in UNION {{i.args, i.other} : i \in Inputs["names"]}}
        Ghost(t)  == "_gh_ost_" \o t
        Change(t) == t \o "_changelog" IN
    /\ Inputs["modes"] \subseteq Lines /\ Inputs["names"] \subseteq [args : Lines, other : Lines]
    /\ \A i \in Inputs["option"] : Opt!SaysElse(i.args, i.option, i.value)
    /\ \A t, u \in tables \union {Change(t) : t \in tables} : Ghost(t) = Ghost(u) => t = u
    /\ \A t, u \in tables : Change(t) = Change(u) => t = u
    /\ \A t \in tables : Change(Ghost(t)) = Ghost(Change(t)) /\ t \notin {Ghost(t), Ghost(Change(t))}

\* No name is a word or a mark of a statement, of its type or of the columns
\* of its keys; a statement asks for something.
ASSUME StatementsAssumption ==
    /\ Names \subseteq STRING \ {"", "ADD", "DROP", "COLUMN", "PRIMARY", "UNIQUE", "INDEX", "KEY",
                                 "FIRST", "AFTER", "(", ")", Alter!Comma,
                                 "DECIMAL", "10", "2", "a", "b"}
    /\ Hides \in [Names -> SUBSET {"UNIQUE", "INDEX", "KEY", "FIRST", "AFTER"}]
    /\ Databases \union Tables \subseteq STRING
    /\ Lists \subseteq Seq(Alter!Asked) \ {<<>>} /\ MaxParses \in Nat

Init ==
    /\ part \in DOMAIN Inputs
    /\ input \in Inputs[part]
    /\ Check!Init /\ Timer!Init /\ Alter!Init

Next ==
    /\ UNCHANGED <<part, input>>
    /\ \/ part = "checkpoint" /\ Check!Next /\ UNCHANGED <<timers, parser>>
       \/ part = "timers" /\ Timer!Next /\ UNCHANGED <<checkpoint, parser>>
       \/ part = "parser" /\ Alter!Next /\ UNCHANGED <<checkpoint, timers>>

Spec == Init /\ [][Next]_vars

-----------------------------------------------------------------------------
(* The properties, stated in the modules of the functions and objects.     *)

(* A process resumes at coordinates that a row it has read holds.          *)
ResumesFromARow == Check!ResumesFromARow
(* The limiter and the timers keep their times while the clock is let be.  *)
TimersKeepTime == Timer!TimersKeepTime

(* The parser understands the statements that are written as it expects.   *)
AlterIsUnderstood == Alter!AlterIsUnderstood

(* A pattern matches the texts that it describes.                          *)
WildcardMatches == part = "wildcard" => WildcardMatchesPieces(input.str, input.pattern)

(* What is written as a text is read back from it.                         *)
ReadsBack ==
    /\ part = "text" => TextReadsBack(input) /\ StringsReadBack(input)
    /\ part = "bytes" => BytesReadBack(input)
    /\ part = "time" => Tim!TimesReadBack(input.time, input.zone, input.saving)
    /\ part = "duration" => Tim!DurationsReadBack(input)
    /\ part = "place" => Place!PlacesReadBack(input.c, input.port, input.other)

(* Binlog coordinates of a server are totally ordered, and a GTID set      *)
(* keeps the newest of each domain.                                        *)
CoordinatesOrdered ==
    /\ part = "coordinates" => Place!CoordinatesAreOrdered(input.a, input.b, input.c)
    /\ part = "gtids" => Place!SetKeepsNewest(input.added, input.g)

(* The shared columns and the chosen key are in both tables.               *)
SharedColumnsExist ==
    part = "schema" => Tab!SharedColumnsFit(input.original, input.ops)
                         /\ Tab!CreateFits(input.original, input.ops)

(* The statements of a row event do to a copy what was done to the table,  *)
(* and those of the row copy copy it.                                      *)
ReplayFollowsTheTable ==
    /\ part = "event" =>
          Rows!ReplayFollowsTheTable(input.rows, input.type, input.columns, input.before, input.after)
    /\ part = "copy" =>
          Rows!ChunksCoverTheTable(input.table, input.columns, input.chunk_size)

(* The command line decides mode, start and names as the help says, but    *)
(* for what its three parts list.                                          *)
CommandLineIsFollowed ==
    /\ part = "modes" => Opt!ModesFollowOptions(input)
    /\ part = "option" => Opt!OptionsAreKept(input.args, input.option, input.value)
    /\ part = "names" => Opt!NamesAreApart(input.args, input.other)
=============================================================================
