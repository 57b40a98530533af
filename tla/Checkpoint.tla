----------------------------- MODULE Checkpoint -----------------------------
(* Checkpoint: rows that a migration leaves in its changelog table, and    *)
(* what a later process makes of the newest one.                           *)
(*                                                                         *)
(* The value of a row is a pair of binlog coordinates, a time in           *)
(* milliseconds or empty; only the first can be parsed.                    *)
EXTENDS Naturals, Sequences

CONSTANTS
    Coordinates,  \* binlog coordinates a row can hold
    MaxRows,      \* bound: rows in the changelog table
    MaxRestarts   \* bound: number of restarts

VARIABLES
    changelog,    \* the rows of the changelog table, in the order of their id
    connected,    \* the master connection is up
    state,        \* current_state_: hint, value and coordinates
    coordinates,  \* the context's current coordinates
    restarts,     \* number of restarts
    seen          \* history: values of the rows read since the last restart

vars == <<changelog, connected, state, coordinates, restarts, seen>>

Invalid == "invalid"
Endings == {"completed", "cancelled", "panic-abort"}
Hints == Endings \union {"heartbeat", "row-copy-complete"}
NoState == [hint |-> "", value |-> "", coordinates |-> Invalid]

Init ==
    /\ changelog = <<>> /\ connected = TRUE
    /\ state = NoState /\ coordinates = Invalid
    /\ restarts = 0 /\ seen = {}

-----------------------------------------------------------------------------
\* Anybody's hint: the process's own, the applier's heartbeat.
WriteHint(hint, value) ==
    /\ connected /\ Len(changelog) < MaxRows
    /\ changelog' = Append(changelog, [hint |-> hint, value |-> value])
    /\ UNCHANGED <<connected, state, coordinates, restarts, seen>>

WriteCheckpoint == WriteHint("heartbeat", "time")

ClearCheckpoint ==
    /\ connected /\ changelog # <<>> /\ changelog' = <<>>
    /\ UNCHANGED <<connected, state, coordinates, restarts, seen>>

\* Mutation: whatever the value is, it is taken for coordinates.
ParseAnything(value) == value

\* BinlogCoordinates::Parse, or what is there already.
Parse(value) == IF value \in Coordinates THEN value ELSE state.coordinates

\* The newest row, of whatever hint it is.  Without a connection nothing is
\* read and the state stays.
ReadCheckpoint ==
    /\ connected /\ changelog # <<>>
    /\ LET row == changelog[Len(changelog)] IN
        /\ state' = [hint |-> row.hint, value |-> row.value,
                     coordinates |-> Parse(row.value)]
        /\ seen' = seen \union {row.value}
    /\ UNCHANGED <<changelog, connected, coordinates, restarts>>

CanResume == state.hint \in Endings

ResumeFromCheckpoint ==
    /\ CanResume
    /\ coordinates' = state.coordinates
    /\ UNCHANGED <<changelog, connected, state, restarts, seen>>

-----------------------------------------------------------------------------
\* The process ends and another one starts; the table stays.
Restart ==
    /\ restarts < MaxRestarts /\ restarts' = restarts + 1
    /\ state' = NoState /\ coordinates' = Invalid /\ seen' = {}
    /\ UNCHANGED <<changelog, connected>>

ConnectionChanges ==
    /\ connected' = ~connected
    /\ UNCHANGED <<changelog, state, coordinates, restarts, seen>>

Next ==
    \/ \E hint \in Hints \ {"heartbeat"}, value \in Coordinates \union {""} :
        WriteHint(hint, value)
    \/ WriteCheckpoint \/ ClearCheckpoint \/ ReadCheckpoint \/ ResumeFromCheckpoint
    \/ Restart \/ ConnectionChanges

Spec == Init /\ [][Next]_vars

-----------------------------------------------------------------------------
(* A process that has resumed has the coordinates of a row it has read     *)
(* itself, in this life, or the invalid ones: never a heartbeat's time,    *)
(* never what another process had read before it.                          *)
ResumesFromARow == coordinates \in (seen \intersect Coordinates) \union {Invalid}
=============================================================================
