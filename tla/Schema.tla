-------------------------------- MODULE Schema --------------------------------
(* What the inspector makes of a table and of its altered copy, and the    *)
(* statement that the SQL builder writes for such a copy.  A table is its  *)
(* columns in order and its keys.  An operation is one of AlterStatement:  *)
(* type, name, old_name and, for a key, its columns.                       *)
EXTENDS Naturals, Sequences, FiniteSets, SequencesExt

Table(columns, keys) == [columns |-> columns, keys |-> keys]
Key(name, type, columns) == [name |-> name, type |-> type, columns |-> columns]
Operation(type, name, old_name, columns) ==
    [type |-> type, name |-> name, old_name |-> old_name, columns |-> columns]

In(s) == {s[i] : i \in 1..Len(s)}
Lose(s, names) ==
    LET F[i \in 0..Len(s)] ==
            IF i = 0 THEN <<>> ELSE IF s[i] \in names THEN F[i - 1] ELSE Append(F[i - 1], s[i])
    IN F[Len(s)]
Columns(table) == In(table.columns)
NamesOf(ops, type) == {ops[i].name : i \in {j \in 1..Len(ops) : ops[j].type = type}}
OfType(table, type) == {k \in table.keys : k.type = type}

-----------------------------------------------------------------------------
(* What MySQL makes of ALTER TABLE; {} if it refuses an operation, or if   *)
(* the validation has refused it before: a table's new name.               *)

Rename(s, from, to) == [i \in 1..Len(s) |-> IF s[i] = from THEN to ELSE s[i]]

Altered(table, op) ==
    LET added(key) == IF In(key.columns) \subseteq Columns(table)
                        THEN {Table(table.columns, table.keys \union {key})} ELSE {}
        has == op.name \in Columns(table)
        named == \E k \in table.keys : k.name = op.name
        without(name) == Table(table.columns, {k \in table.keys : k.name # name}) IN
    CASE op.type = "AddColumn" ->
            IF has THEN {} ELSE {Table(Append(table.columns, op.name), table.keys)}
      [] op.type = "ModifyColumn" -> IF has THEN {table} ELSE {}
      [] op.type = "DropColumn" ->
            IF ~has \/ Len(table.columns) = 1 THEN {}
            ELSE {Table(Lose(table.columns, {op.name}),
                        {[k EXCEPT !.columns = Lose(@, {op.name})] :
                            k \in {l \in table.keys : In(l.columns) # {op.name}}})}
      [] op.type = "ChangeColumn" ->
            IF op.old_name \notin Columns(table) \/ (has /\ op.name # op.old_name) THEN {}
            ELSE {Table(Rename(table.columns, op.old_name, op.name),
                        {[k EXCEPT !.columns = Rename(@, op.old_name, op.name)] : k \in table.keys})}
      [] op.type = "AddIndex"      -> IF named THEN {} ELSE added(Key(op.name, "None", op.columns))
      [] op.type = "AddUniqueKey"  -> IF named THEN {} ELSE added(Key(op.name, "Unique", op.columns))
      [] op.type = "AddPrimaryKey" ->
            IF OfType(table, "Primary") # {} THEN {} ELSE added(Key("PRIMARY", "Primary", op.columns))
      [] op.type = "DropIndex"     -> IF named THEN {without(op.name)} ELSE {}
      [] op.type = "DropPrimaryKey" -> IF OfType(table, "Primary") # {} THEN {without("PRIMARY")} ELSE {}
      [] OTHER -> {}

AlterTable(table, ops) ==
    LET F[i \in 0..Len(ops)] ==
            IF i = 0 THEN {table} ELSE UNION {Altered(t, ops[i]) : t \in F[i - 1]}
    IN F[Len(ops)]

-----------------------------------------------------------------------------
(* The inspector.                                                          *)

HasPrimaryKey(table) == OfType(table, "Primary") # {}

\* A primary key is no unique key here.
HasUniqueKey(table) == OfType(table, "Unique") # {}

\* Mutation: the primary key is taken as it is.
FindBestUniqueKeyAnyway(original, ghost) ==
    IF HasPrimaryKey(original) /\ HasPrimaryKey(ghost) THEN OfType(original, "Primary")
    ELSE {k \in OfType(original, "Unique") : \E g \in ghost.keys : g.columns = k.columns}

\* The primary key if the ghost has the same, else some unique key whose
\* columns a key of the ghost has, unique or not: which one is up to the
\* order of an unordered_map.  {} for none.
FindBestUniqueKey(original, ghost) ==
    LET same == {k \in OfType(original, "Primary") :
                    \E g \in OfType(ghost, "Primary") : g.columns = k.columns} IN
    IF same # {} THEN same
    ELSE {k \in OfType(original, "Unique") : \E g \in ghost.keys : g.columns = k.columns}

\* Columns of the original that no operation drops; a column that CHANGE
\* renames is still among them under its old name.
DetermineColumnPairs(original, ops) ==
    [shared  |-> Lose(original.columns, NamesOf(ops, "DropColumn")),
     dropped |-> NamesOf(ops, "DropColumn"),
     added   |-> NamesOf(ops, "AddColumn")]

\* The builder has pairs of its own, with the columns that are modified.
BuildColumnPairs(original, ops) ==
    [shared   |-> DetermineColumnPairs(original, ops).shared,
     dropped  |-> NamesOf(ops, "DropColumn"),
     added    |-> NamesOf(ops, "AddColumn"),
     modified |-> NamesOf(ops, "ModifyColumn") \union NamesOf(ops, "ChangeColumn")]

ValidateMigration(original, ops) ==
    ops # <<>> /\ HasUniqueKey(original)
        /\ \A i \in 1..Len(ops) : ops[i].type # "RenameTable"

-----------------------------------------------------------------------------
(* The builder.                                                            *)

Comma == ","

\* A comma follows every column but the last of the original, and each
\* addition and key begins with one.
KeptColumns(columns, dropped) ==
    FlattenSeq([i \in 1..Len(columns) |->
        IF columns[i] \in dropped THEN <<>>
        ELSE IF i < Len(columns) THEN <<columns[i], Comma>> ELSE <<columns[i]>>])
AddedColumns(ops) ==
    FlattenSeq([i \in 1..Len(ops) |->
        IF ops[i].type = "AddColumn" THEN <<Comma, ops[i].name>> ELSE <<>>])
WrittenKeys(n) == FlattenSeq([i \in 1..n |-> <<Comma, "key">>])

\* What stands between its parentheses: nothing but added and dropped columns
\* is looked at.
BuildCreateGhostTableSQL(original, ops) ==
    KeptColumns(original.columns, NamesOf(ops, "DropColumn"))
        \o AddedColumns(ops) \o WrittenKeys(Cardinality(original.keys))

\* No comma at an end, nor two in a row.
WellFormed(text) ==
    /\ text # <<>> /\ text[1] # Comma /\ text[Len(text)] # Comma
    /\ \A i \in 2..Len(text) : ~(text[i] = Comma /\ text[i - 1] = Comma)

-----------------------------------------------------------------------------
(* For the copy that MySQL has altered: if no column is renamed, every     *)
(* shared column is one of both tables and the ghost has none but these    *)
(* and the added ones.  The key that is chosen is unique in the original,  *)
(* and a key of both tables has its columns; a primary key is unique in    *)
(* both.  If no operation takes away a key or a column, a table that       *)
(* passes the validation has such a key.                                   *)
SharedColumnsFit(original, ops) ==
    \A ghost \in AlterTable(original, ops) :
        LET pairs == DetermineColumnPairs(original, ops)
            chosen == FindBestUniqueKey(original, ghost)
            renames == \E i \in 1..Len(ops) : ops[i].type = "ChangeColumn" /\ ops[i].name # ops[i].old_name
            keeps == \A i \in 1..Len(ops) : ops[i].type \notin
                        {"DropColumn", "DropIndex", "DropPrimaryKey", "ChangeColumn"}
        IN /\ ~renames /\ pairs.dropped \intersect pairs.added = {} =>
                /\ In(pairs.shared) \subseteq Columns(original) \intersect Columns(ghost)
                /\ Columns(ghost) = In(pairs.shared) \union pairs.added
           /\ \A k \in chosen :
                /\ k \in original.keys /\ k.type \in {"Primary", "Unique"}
                /\ In(k.columns) \subseteq Columns(original) \intersect Columns(ghost)
                /\ \E g \in ghost.keys : g.columns = k.columns
                                            /\ (k.type = "Primary" => g.type = "Primary")
           /\ ValidateMigration(original, ops) /\ keeps => chosen # {}

(* The builder's CREATE TABLE is one, as far as its commas go, exactly if  *)
(* the original's last column stays.                                       *)
CreateFits(original, ops) ==
    WellFormed(BuildCreateGhostTableSQL(original, ops))
        <=> original.columns[Len(original.columns)] \notin NamesOf(ops, "DropColumn")
=============================================================================
