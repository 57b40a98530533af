------------------------------ MODULE RowEvents ------------------------------
(* BinlogDMLEvent: the statements that are made of a row event, and what   *)
(* they do to a table; SQLBuilder: the statements of a chunk of the row    *)
(* copy.  A row gives each column a value, "NULL" among them; a table has  *)
(* no two rows with the same key.                                          *)
EXTENDS Integers, Sequences, FiniteSets

RowData(columns, after, pk_column, pk_value) ==
    [columns |-> columns, after |-> after, pk_column |-> pk_column, pk_value |-> pk_value]
Event(dml_type, rows) == [dml_type |-> dml_type, rows |-> rows]

-----------------------------------------------------------------------------
(* Statements.                                                             *)

\* All after values, as many as there are.
GenerateInsertSQL(row) ==
    [kind |-> "insert", columns |-> row.columns, values |-> row.after]

\* Mutation: a column that becomes NULL is not among the assignments.
GenerateUpdateSQLNotNull(row) ==
    [kind  |-> "update",
     set   |-> [c \in {row.columns[i] : i \in {j \in 1..Len(row.after) : row.after[j] # "NULL"}}
                        \ {row.pk_column} |->
                    row.after[CHOOSE i \in 1..Len(row.columns) : row.columns[i] = c]],
     where |-> [column |-> row.pk_column, value |-> row.pk_value]]

\* Every column but the key is set, to NULL if there is no value for it.
GenerateUpdateSQL(row) ==
    LET at(c) == CHOOSE i \in 1..Len(row.columns) : row.columns[i] = c
        others == {row.columns[i] : i \in 1..Len(row.columns)} \ {row.pk_column} IN
    [kind  |-> "update",
     set   |-> [c \in others |-> IF at(c) <= Len(row.after) THEN row.after[at(c)] ELSE "NULL"],
     where |-> [column |-> row.pk_column, value |-> row.pk_value]]

GenerateDeleteSQL(row) ==
    [kind |-> "delete", where |-> [column |-> row.pk_column, value |-> row.pk_value]]

ToSQLStatements(event) ==
    [i \in 1..Len(event.rows) |->
        CASE event.dml_type = "Insert" -> GenerateInsertSQL(event.rows[i])
          [] event.dml_type = "Update" -> GenerateUpdateSQL(event.rows[i])
          [] event.dml_type = "Delete" -> GenerateDeleteSQL(event.rows[i])]

\* The first row's statement only.
ToSQL(event) ==
    IF event.rows = <<>> THEN <<>> ELSE SubSeq(ToSQLStatements(event), 1, 1)

-----------------------------------------------------------------------------
(* MySQL: {} is an error.  "= NULL" is true of no row.                     *)

Where(table, where) ==
    {r \in table : where.value # "NULL" /\ r[where.column] = where.value}

Execute(table, sql, key) ==
    CASE sql.kind = "insert" ->
            IF Len(sql.values) # Len(sql.columns) THEN {}
            ELSE LET row == [c \in {sql.columns[i] : i \in 1..Len(sql.columns)} |->
                                sql.values[CHOOSE i \in 1..Len(sql.columns) : sql.columns[i] = c]]
                 IN IF \E r \in table : r[key] = row[key] THEN {} ELSE {table \union {row}}
      [] sql.kind = "update" ->
            IF sql.set = <<>> THEN {}
            ELSE {{IF r \in Where(table, sql.where)
                     THEN [c \in DOMAIN r |-> IF c \in DOMAIN sql.set THEN sql.set[c] ELSE r[c]]
                     ELSE r : r \in table}}
      [] sql.kind = "delete" -> {table \ Where(table, sql.where)}

ExecuteAll(table, statements, key) ==
    LET F[i \in 0..Len(statements)] ==
            IF i = 0 THEN {table}
            ELSE UNION {Execute(t, statements[i], key) : t \in F[i - 1]}
    IN F[Len(statements)]

\* What the source's binary log says of rows that were before and are after.
Logged(dml_type, columns, key, before, after) ==
    Event(dml_type,
          [i \in 1..Len(before) |->
              RowData(columns, [j \in 1..Len(columns) |-> after[i][columns[j]]],
                      key, IF dml_type = "Insert" THEN after[i][key] ELSE before[i][key])])

-----------------------------------------------------------------------------
(* The row copy, of a table with numbers for keys.                         *)

MinKey(table, key) == CHOOSE k \in {r[key] : r \in table} : \A r \in table : k <= r[key]
MaxKey(table, key) == CHOOSE k \in {r[key] : r \in table} : \A r \in table : r[key] <= k

\* What ReadRowRange finds; a table without rows has the range 0 to 0.
ReadRowRange(table, key) ==
    IF table = {} THEN <<0, 0>> ELSE <<MinKey(table, key), MaxKey(table, key)>>

\* ORDER BY: the i-th row has i rows up to it.
OrderBy(rows, key) ==
    [i \in 1..Cardinality(rows) |->
        CHOOSE r \in rows : Cardinality({q \in rows : q[key] <= r[key]}) = i]

\* Mutation: the upper bound is excluded too.
BuildRowCopySQLBelow(table, key, min, max, chunk_size) ==
    LET found == OrderBy({r \in table : min < r[key] /\ r[key] < max}, key)
    IN SubSeq(found, 1, IF chunk_size < Len(found) THEN chunk_size ELSE Len(found))

\* SELECT ... WHERE key > min AND key <= max ORDER BY key LIMIT chunk_size.
BuildRowCopySQL(table, key, min, max, chunk_size) ==
    LET found == OrderBy({r \in table : min < r[key] /\ r[key] <= max}, key)
    IN SubSeq(found, 1, IF chunk_size < Len(found) THEN chunk_size ELSE Len(found))

\* Query reads NULL, which no key is, as the empty text.
Query(row, key) ==
    [c \in DOMAIN row |-> IF c # key /\ row[c] = "NULL" THEN "" ELSE row[c]]

\* One INSERT for each row that was selected.
CopyRows(rows, columns) ==
    [i \in 1..Len(rows) |->
        [kind |-> "insert", columns |-> columns,
         values |-> [j \in 1..Len(columns) |-> Query(rows[i], columns[1])[columns[j]]]]]

-----------------------------------------------------------------------------
(* The inputs: columns of which the first is the key, changes to rows that *)
(* have keys of their own, and tables with numbers for keys.               *)

In(columns) == {columns[i] : i \in 1..Len(columns)}
AreColumns(columns) ==
    /\ columns \in Seq(STRING) /\ Len(columns) > 1
    /\ \A i, j \in 1..Len(columns) : columns[i] = columns[j] => i = j

IsChange(rows, dml_type, columns, before, after) ==
    LET key == columns[1]
        Row == [In(columns) -> STRING]
        changed == IF dml_type = "Insert" THEN after ELSE before IN
    /\ AreColumns(columns) /\ dml_type \in {"Insert", "Update", "Delete"}
    /\ rows \subseteq Row /\ {before, after} \subseteq Seq(Row) /\ Len(before) = Len(after)
    /\ \A i, j \in 1..Len(changed) : changed[i][key] = changed[j][key] => i = j
    /\ \A r \in rows, i \in 1..Len(changed) : r[key] # changed[i][key]
    /\ dml_type # "Insert" => \A i \in 1..Len(before) : before[i][key] # "NULL"

IsTable(table, columns) ==
    LET key == columns[1] IN
    /\ AreColumns(columns) /\ IsFiniteSet(table)
    /\ \A r \in table : r = [c \in In(columns) |-> r[c]] /\ r[key] \in Int
    /\ \A r, s \in table : r[key] = s[key] => r = s

\* A caller that moves its bounds on, from the last key of a chunk to the next:
\* what CopyRows is for.  The migrator does not (migrator.cpp:447): it gives the
\* last key for both bounds, and copies nothing.
CopyChunk(done, table, columns, chunk_size, max) ==
    LET rows == BuildRowCopySQL(table, columns[1], done.last, max, chunk_size) IN
    IF rows = <<>> THEN done
    ELSE [last   |-> rows[Len(rows)][columns[1]],
          ghosts |-> UNION {ExecuteAll(g, CopyRows(rows, columns), columns[1]) : g \in done.ghosts}]

\* The tables that copying at most n chunks gives.
CopyAll(table, columns, chunk_size, n) ==
    LET range == ReadRowRange(table, columns[1])
        F[i \in 0..n] ==
            IF i = 0 THEN [last |-> range[1], ghosts |-> {{}}]
            ELSE CopyChunk(F[i - 1], table, columns, chunk_size, range[2])
    IN F[n].ghosts

(* For such a caller, chunk after chunk copies each row once, whatever the *)
(* size of the chunks, but for the row with the least key, which the range *)
(* read by the inspector excludes, and with the empty text for each NULL.  *)
(* Chunks of size 0, which the command line lets pass, copy nothing.       *)
ChunksCoverTheTable(table, columns, chunk_size) ==
    LET key == columns[1]
        later == {r \in table : \E q \in table : q[key] < r[key]} IN
    CopyAll(table, columns, chunk_size, Cardinality(table))
        = {IF chunk_size = 0 THEN {} ELSE {Query(r, key) : r \in later}}

(* A copy on which the statements of a logged change are executed is the   *)
(* source's table after the change, unless a row has got another key: that *)
(* row gets all its new values but stays under its old one.  The first     *)
(* statement alone, which ToSQL gives, is the change of the first row.     *)
(* rows are those that the change leaves alone.                            *)
ReplayFollowsTheTable(rows, dml_type, columns, before, after) ==
    LET key == columns[1]
        table == rows \union (IF dml_type = "Insert" THEN {} ELSE {before[i] : i \in 1..Len(before)})
        New(i) == [after[i] EXCEPT ![key] = IF dml_type = "Update" THEN before[i][key] ELSE @]
        left == IF dml_type = "Delete" THEN {} ELSE {New(i) : i \in 1..Len(after)}
        event == Logged(dml_type, columns, key, before, after) IN
    /\ ExecuteAll(table, ToSQLStatements(event), key) = {rows \union left}
    /\ Len(before) = 1 => ToSQL(event) = ToSQLStatements(event)
=============================================================================
