---------------------------- MODULE MCMigrator ----------------------------
(* A table with one row, whose estimated number of rows may be 0, so that  *)
(* a run either copies for ever or gets to the cut-over; three             *)
(* configurations, so that every setting is on in one and off in another.  *)
EXTENDS Migrator

Settings == {"drop_original_table", "drop_ghost_table", "postpone_cut_over"}
Config(on) == [drop_original_table |-> "drop_original_table" \in on,
               drop_ghost_table    |-> "drop_ghost_table" \in on,
               postpone_cut_over   |-> "postpone_cut_over" \in on]

\* The defaults of config.hpp; with no setting on; with all of them on.
MCDefault == {Config({"drop_original_table", "drop_ghost_table"})}
MCConfigs == MCDefault \union {Config({}), Config(Settings)}
=============================================================================
