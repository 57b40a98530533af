------------------------ MODULE MigrationLifecycle ------------------------
(***************************************************************************)
(* What a migration promises to the owner of the table, without threads,   *)
(* queues or statements: the phases follow each other in the order of      *)
(* MigrationContext::Phase, the two tables change places at most once, in  *)
(* the cut-over and in one step, and the rows of the original table are    *)
(* deleted only after a cut-over that succeeded.  Migrator implements it.  *)
(***************************************************************************)

VARIABLES
    phase,      \* MigrationContext::Phase
    live,       \* which table has the name of the original table
    ghost,      \* is there a ghost table?
    original    \* do the original rows still exist, under whatever name?

vars == <<phase, live, ghost, original>>

Init ==
    /\ phase = "InitialSetup"
    /\ live = "original"
    /\ ghost \in BOOLEAN           \* one may be left from an earlier attempt
    /\ original = TRUE

Advance(from, to) ==
    /\ phase = from /\ phase' = to
    /\ UNCHANGED <<live, ghost, original>>

BeginRowCopy == Advance("InitialSetup", "RowCopy")
BeginCutOver == Advance("RowCopy", "CutOver")

\* Cleanup begins, and the run ends well, only with the new table in place.
BeginCleanup == live = "migrated" /\ Advance("CutOver", "Cleanup")
Complete     == Advance("Cleanup", "Completed")

\* After the clean-up has begun nothing can fail any more.
Fail == \E from \in {"InitialSetup", "RowCopy", "CutOver"} : Advance(from, "Failed")

CreateGhost ==
    /\ phase = "InitialSetup" /\ live = "original"
    /\ ~ghost /\ ghost' = TRUE
    /\ UNCHANGED <<phase, live, original>>

DropGhost ==
    /\ ghost /\ ghost' = FALSE
    /\ UNCHANGED <<phase, live, original>>

\* The rename that swaps the tables; the ghost table is the new table.
Swap ==
    /\ phase = "CutOver"
    /\ live = "original" /\ ghost
    /\ live' = "migrated" /\ ghost' = FALSE
    /\ UNCHANGED <<phase, original>>

DropOriginal ==
    /\ phase = "Cleanup" /\ live = "migrated"
    /\ original' = FALSE
    /\ UNCHANGED <<phase, live, ghost>>

Next ==
    \/ BeginRowCopy \/ BeginCutOver \/ BeginCleanup \/ Complete \/ Fail
    \/ CreateGhost \/ DropGhost \/ Swap \/ DropOriginal

Spec == Init /\ [][Next]_vars
=============================================================================
