----------------------------- MODULE AlterParser -----------------------------
(* AlterTableParser, an object that one statement after the other is given *)
(* to.  A statement is a sequence of tokens: keywords, names, numbers and  *)
(* the characters "(" ")" ",".  A name is written without quotes.          *)
EXTENDS Integers, Sequences

CONSTANTS
    Names,      \* names of columns and keys
    Hides,      \* of each name: the keywords that a search finds within it
    Databases,  \* names of databases
    Tables,     \* names of tables
    Lists,      \* lists of the operations that statements ask for
    MaxParses   \* bound: number of calls of Parse

VARIABLES
    alter_statement,  \* database, table_name, operations
    parsed,
    parses,           \* number of calls of Parse
    given,            \* history: the last statement
    named             \* history: the last database a statement has named

vars == <<alter_statement, parsed, parses, given, named>>

Operation(type, name, old_name, after, first) ==
    [type |-> type, name |-> name, old_name |-> old_name, after |-> after, first |-> first]
Plain(type, name) == Operation(type, name, "", "", FALSE)

-----------------------------------------------------------------------------
(* Tokens.                                                                 *)

Comma == ","
Places(s, t) == {i \in 1..Len(s) : s[i] = t}
Least(S) == CHOOSE i \in S : \A j \in S : i <= j
Starts(s, p) == Len(p) <= Len(s) /\ SubSeq(s, 1, Len(p)) = p
Drop(s, n) == SubSeq(s, n + 1, Len(s))
Beside(s, p) == {i \in 1..Len(s) : Starts(Drop(s, i - 1), p)}

\* StringUtils::Contains: the word is looked for in the text, so also within
\* a name: UNIQUE, INDEX and KEY in either case, FIRST as it is written, and
\* AFTER, which is looked for with the blank behind it, at a name's end.
Found(s, word) ==
    {i \in 1..Len(s) : \/ s[i] = word
                       \/ s[i] \in Names /\ word \in Hides[s[i]]}
Contains(s, word) == Found(s, word) # {}

\* StringUtils::Replace of a prefix by nothing: its first occurrence.
Without(s, p) ==
    IF Beside(s, p) = {} THEN s
    ELSE LET i == Least(Beside(s, p)) IN SubSeq(s, 1, i - 1) \o Drop(s, i - 1 + Len(p))

\* The parts between the commas that no parenthesis holds.
NextToken(f, t) ==
    IF t = Comma /\ f.depth = 0
      THEN [depth   |-> 0,
            current |-> <<>>,
            parts   |-> IF f.current = <<>> THEN f.parts ELSE Append(f.parts, f.current)]
      ELSE [depth   |-> CASE t = "(" -> f.depth + 1 [] t = ")" -> f.depth - 1 [] OTHER -> f.depth,
            current |-> Append(f.current, t),
            parts   |-> f.parts]

SplitOperations(s) ==
    LET F[i \in 0..Len(s)] ==
            IF i = 0 THEN [depth |-> 0, current |-> <<>>, parts |-> <<>>]
            ELSE NextToken(F[i - 1], s[i])
        end == F[Len(s)]
    IN IF end.current = <<>> THEN end.parts ELSE Append(end.parts, end.current)

-----------------------------------------------------------------------------
(* One operation.  is_first is not initialised: garbage is what is there.  *)

\* The column behind the first AFTER is all that is left of the text: a name,
\* or more words than one.
Column(rest) == IF Len(rest) = 1 THEN rest[1] ELSE "words"
AfterColumn(def) ==
    LET at == {i \in Found(def, "AFTER") : i < Len(def)} IN
    IF at = {} THEN "" ELSE Column(Drop(def, Least(at)))

\* ParseColumnDefinition, for ADD and MODIFY: the name is the first one with
\* a type behind it.
ParseColumnDefinition(type, def, garbage) ==
    LET first == Contains(def, "FIRST") IN
    Operation(type, def[1], "", IF first THEN "" ELSE AfterColumn(def), first \/ garbage)

Untouched(op, garbage) == [op EXCEPT !.first = garbage]

\* ADD|DROP [UNIQUE] INDEX|KEY name: the name is what stands before the
\* columns, or at the end.
KeyName(s) ==
    LET at == Places(s, "INDEX") \union Places(s, "KEY") IN
    IF at = {} \/ Least(at) = Len(s) \/ s[Least(at) + 1] = "(" THEN "" ELSE s[Least(at) + 1]

ParseAddColumn(def, garbage) == ParseColumnDefinition("AddColumn", def, garbage)
ParseDropColumn(name, garbage) == Untouched(Plain("DropColumn", name), garbage)
ParseModifyColumn(def, garbage) == ParseColumnDefinition("ModifyColumn", def, garbage)

\* The position of a column that is changed is not looked for.
ParseChangeColumn(def, garbage) ==
    Untouched(Operation("ChangeColumn", def[2], def[1], "", FALSE), garbage)

ParseIndex(type, s, garbage) == Untouched(Plain(type, KeyName(s)), garbage)
ParsePrimaryKey(type, garbage) == Untouched(Plain(type, ""), garbage)
ParseEngineChange(s, garbage) == Untouched(Plain("EngineChange", s[3]), garbage)

ParseAdd(s, garbage) ==
    IF Starts(s, <<"ADD", "COLUMN">>)
      THEN ParseAddColumn(Without(s, <<"ADD", "COLUMN">>), garbage)
    ELSE IF Beside(s, <<"PRIMARY", "KEY">>) # {} THEN ParsePrimaryKey("AddPrimaryKey", garbage)
    ELSE IF Contains(s, "UNIQUE") THEN ParseIndex("AddUniqueKey", s, garbage)
    ELSE IF Contains(s, "KEY") \/ Contains(s, "INDEX") THEN ParseIndex("AddIndex", s, garbage)
    ELSE ParseAddColumn(Tail(s), garbage)

ParseDrop(s, garbage) ==
    IF Starts(s, <<"DROP", "COLUMN">>) THEN ParseDropColumn(s[3], garbage)
    ELSE IF Beside(s, <<"PRIMARY", "KEY">>) # {} THEN ParsePrimaryKey("DropPrimaryKey", garbage)
    ELSE IF Contains(s, "KEY") \/ Contains(s, "INDEX") THEN ParseIndex("DropIndex", s, garbage)
    ELSE ParseDropColumn(s[2], garbage)

ParseOperation(s, garbage) ==
    LET column == Len(s) > 1 /\ s[2] = "COLUMN"
        rest == Drop(s, IF column THEN 2 ELSE 1) IN
    CASE s[1] = "ADD"    -> ParseAdd(s, garbage)
      [] s[1] = "DROP"   -> ParseDrop(s, garbage)
      [] s[1] = "MODIFY" -> ParseModifyColumn(rest, garbage)
      [] s[1] = "CHANGE" -> ParseChangeColumn(rest, garbage)
      [] s[1] = "RENAME" -> Untouched(Plain("RenameTable", ""), garbage)
      [] s[1] = "ENGINE" -> ParseEngineChange(s, garbage)
      [] OTHER           -> Untouched(Plain("Unknown", ""), garbage)

-----------------------------------------------------------------------------
\* table is the first word of what is left, one or two names; the rest are
\* the operations.
HasRenameTable(ops) == \E i \in 1..Len(ops) : ops[i].type = "RenameTable"

Init ==
    /\ alter_statement = [database |-> "", table_name |-> "", operations |-> <<>>]
    /\ parsed = FALSE /\ parses = 0 /\ given = <<>> /\ named = ""

Operations(s, garbage) ==
    LET parts == SplitOperations(s) IN
    [i \in 1..Len(parts) |-> ParseOperation(parts[i], garbage)]

\* Mutation: the operations of an earlier statement stay.
ParsedKept(s, garbage) ==
    LET t == Without(s, <<"ALTER", "TABLE">>)
        qualified == Len(t) > 2 /\ t[2] = "." IN
    [database   |-> IF qualified THEN t[1] ELSE alter_statement.database,
     table_name |-> IF qualified THEN t[3] ELSE t[1],
     operations |-> alter_statement.operations
                      \o Operations(Drop(t, IF qualified THEN 3 ELSE 1), garbage)]

\* An earlier statement's database stays when this one has none.
Parsed(s, garbage) ==
    LET t == Without(s, <<"ALTER", "TABLE">>)
        qualified == Len(t) > 2 /\ t[2] = "." IN
    [database   |-> IF qualified THEN t[1] ELSE alter_statement.database,
     table_name |-> IF qualified THEN t[3] ELSE t[1],
     operations |-> Operations(Drop(t, IF qualified THEN 3 ELSE 1), garbage)]

Parse(s) ==
    /\ parses < MaxParses /\ parses' = parses + 1
    /\ \E garbage \in BOOLEAN : alter_statement' = Parsed(s, garbage)
    /\ parsed' = (alter_statement'.operations # <<>>
                    /\ ~HasRenameTable(alter_statement'.operations))

-----------------------------------------------------------------------------
(* What may be asked for, and how it is written in SQL.                    *)

None == ""
Any(types, names, old_names, afters, firsts) ==
    {Operation(type, name, old_name, after, first) :
        type \in types, name \in names, old_name \in old_names, after \in afters, first \in firsts}
Asked ==
    Any({"DropColumn", "AddIndex", "AddUniqueKey", "DropIndex"}, Names, {None}, {None}, {FALSE})
    \union Any({"AddPrimaryKey", "DropPrimaryKey", "RenameTable"}, {None}, {None}, {None}, {FALSE})
    \union Any({"EngineChange"}, {"InnoDB"}, {None}, {None}, {FALSE})
    \union Any({"ChangeColumn"}, Names, Names, {None}, {FALSE})
    \union Any({"AddColumn", "ModifyColumn"}, Names, {None}, Names \union {None}, {FALSE})
    \union Any({"AddColumn"}, Names, {None}, {None}, {TRUE})

Columns == <<"(", "a", Comma, "b", ")">>
Type == <<"DECIMAL", "(", "10", Comma, "2", ")">>
Position(op) == IF op.first THEN <<"FIRST">>
                ELSE IF op.after # "" THEN <<"AFTER", op.after>> ELSE <<>>

Written(op, column) ==
    CASE op.type = "AddColumn"    -> <<"ADD">> \o column \o <<op.name>> \o Type \o Position(op)
      [] op.type = "ModifyColumn" -> <<"MODIFY">> \o column \o <<op.name>> \o Type \o Position(op)
      [] op.type = "ChangeColumn" -> <<"CHANGE">> \o column \o <<op.old_name, op.name>> \o Type
      [] op.type = "DropColumn"   -> <<"DROP">> \o column \o <<op.name>>
      [] op.type = "AddIndex"     -> <<"ADD", "INDEX", op.name>> \o Columns
      [] op.type = "AddUniqueKey" -> <<"ADD", "UNIQUE", "KEY", op.name>> \o Columns
      [] op.type = "DropIndex"    -> <<"DROP", "INDEX", op.name>>
      [] op.type = "AddPrimaryKey"  -> <<"ADD", "PRIMARY", "KEY">> \o Columns
      [] op.type = "DropPrimaryKey" -> <<"DROP", "PRIMARY", "KEY">>
      [] op.type = "RenameTable"    -> <<"RENAME", "TO", "other">>
      [] op.type = "EngineChange"   -> <<"ENGINE", "=", op.name>>

\* The operations with a comma between any two.
Listed(ops, column) ==
    LET F[i \in 0..Len(ops)] ==
            IF i = 0 THEN <<>>
            ELSE F[i - 1] \o (IF i = 1 THEN <<>> ELSE <<Comma>>) \o Written(ops[i], column)
    IN F[Len(ops)]

Statement(database, table, ops, column) ==
    <<"ALTER", "TABLE">> \o (IF database = "" THEN <<>> ELSE <<database, ".">>)
        \o <<table>> \o Listed(ops, column)

Next ==
    \E database \in Databases \union {""}, table \in Tables, ops \in Lists,
       column \in {<<>>, <<"COLUMN">>} :
        /\ Parse(Statement(database, table, ops, column))
        /\ given' = [table |-> table, column |-> column, ops |-> ops]
        /\ named' = IF database = "" THEN named ELSE database

Spec == Init /\ [][Next]_vars

-----------------------------------------------------------------------------
(* What the parser looks for in the text of an operation that does not     *)
(* hold it; no name of the operation hides it.                             *)
Sought(op, column) ==
    CASE op.type = "AddColumn" ->
            {"FIRST", "AFTER"} \union (IF column = <<>> THEN {"UNIQUE", "INDEX", "KEY"} ELSE {})
      [] op.type = "ModifyColumn" -> {"FIRST", "AFTER"}
      [] op.type = "DropColumn" /\ column = <<>> -> {"INDEX", "KEY"}
      [] op.type = "AddIndex" -> {"UNIQUE"}
      [] OTHER -> {}
Clear(op, column) ==
    \A name \in {op.name, op.after} \intersect Names : Hides[name] \intersect Sought(op, column) = {}

(* Of each statement in the form that the parser knows - its prefix and    *)
(* keywords in upper case, names without quotes - it has understood every  *)
(* operation whose names hide no keyword that it looks for, nothing is     *)
(* left of an earlier statement but the database that this one does not    *)
(* name, and a statement that renames the table is refused.                *)
AlterIsUnderstood ==
    parses > 0 =>
        LET ops == alter_statement.operations IN
        /\ alter_statement.table_name = given.table /\ alter_statement.database = named
        /\ Len(ops) = Len(given.ops)
        /\ parsed <=> \A i \in 1..Len(ops) : given.ops[i].type # "RenameTable"
        /\ \A i \in 1..Len(ops) : Clear(given.ops[i], given.column) =>
            /\ [ops[i] EXCEPT !.first = FALSE] = [given.ops[i] EXCEPT !.first = FALSE]
            /\ given.ops[i].first => ops[i].first
=============================================================================
