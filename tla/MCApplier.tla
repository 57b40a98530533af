----------------------------- MODULE MCApplier -----------------------------
(* Two keys, so that a statement can fail between the rows of one event    *)
(* and a chunk can be longer than its limit.  Every kind of statement      *)
(* meets the first key; the second is inserted, alone or with the first    *)
(* one, and deleted.                                                       *)
EXTENDS Applier

MCKeys == 1..2
MCStatements ==
    ({"insert", "update", "delete"} \X {<<1>>})
        \union {<<"insert", <<2>> >>, <<"delete", <<2>> >>, <<"insert", <<1, 2>> >>}
=============================================================================
