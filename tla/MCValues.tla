------------------------------ MODULE MCValues ------------------------------
(* The inputs of Values that TLC tries.                                    *)
EXTENDS Values, FiniteSets, TLC

UpTo(S, n) == UNION {[1..k -> S] : k \in 0..n}

-----------------------------------------------------------------------------
(* Inputs of the functions.                                                *)

AllCharacters == {"'", "\"", "bq", "\\", "nl", "nul", "ct", "-", "/", "*", "n", "u", "0", "1", "?"}
Texts == UpTo(AllCharacters \ {"1", "?"}, 3)
ByteTexts == UpTo({"1", "2", "3", "4", "c", "x"}, 5)
Wildcards == [str : UpTo({"n", "u"}, 4), pattern : UpTo({"n", "u", "*", "?"}, 3)]

Times == [time : [seconds : {0, 1, 86399}, micros : {0, 5, 999, 500000, 999999}],
          zone : {-3600, 0, 7200}, saving : {0, 3600}]
Durations ==
    {-1000, -1} \union 0..1001
        \union {1000 * s + f : s \in 0..3700 \union {7199, 7200, 86399, 86400, 90061, 172800, 200000},
                              f \in {0, 999}}

Numerals ==
    [t \in {"0", "1", "2", "3", "10", "17"} |->
        CASE t = "0" -> 0 [] t = "1" -> 1 [] t = "2" -> 2
          [] t = "3" -> 3 [] t = "10" -> 10 [] t = "17" -> 17]

File(n) == <<"bin", ".", n>>
On(files, positions) == [file : files, position : positions]
OneServer == On({File(n) : n \in {"0", "1", "10"}}, {0, 1, 10})
Triples == [a : OneServer, b : OneServer, c : OneServer]
Places == [c : On({File("2"), <<"bin">>, <<>>}, {0, 1, 10}), port : {1, 2, 3, 10}, other : {1, 2, 3, 10}]

GTIDs == [domain : {<<"d">>, <<"e">>}, sequence : {0, 1, 3}]
Sets == [added : UpTo(GTIDs, 3), g : GTIDs]

Keys == {Tab!Key("PRIMARY", "Primary", <<"a">>), Tab!Key("PRIMARY", "Primary", <<"a", "b">>),
         Tab!Key("u", "Unique", <<"b">>), Tab!Key("v", "Unique", <<"b", "a">>),
         Tab!Key("i", "None", <<"b">>)}
Originals ==
    {Tab!Table(columns, keys) : columns \in {<<"a", "b">>, <<"a", "b", "c">>},
                                keys \in {K \in SUBSET Keys : \A k, l \in K : k.name = l.name => k = l}}
Ops ==
    {Tab!Operation("AddColumn", c, "", <<>>) : c \in {"b", "d"}}
    \union {Tab!Operation(type, c, "", <<>>) : type \in {"DropColumn", "ModifyColumn"}, c \in {"a", "b", "c"}}
    \union {Tab!Operation("ChangeColumn", c, "b", <<>>) : c \in {"b", "e"}}
    \union {Tab!Operation(type, "w", "", <<"b">>) : type \in {"AddIndex", "AddUniqueKey", "AddPrimaryKey"}}
    \union {Tab!Operation("DropIndex", "u", "", <<>>), Tab!Operation("DropPrimaryKey", "", "", <<>>),
            Tab!Operation("RenameTable", "", "", <<>>)}
Schemas == [original : Originals, ops : UpTo(Ops, 2)]

Row(k, V) == {[k |-> k, x |-> v, y |-> w] : v \in V, w \in V}
Change(type, S, before, after) == [type : {type}, columns : {<<"k", "x", "y">>}, rows : S, before : before, after : after]
Changes ==
    LET some == {"v", "w", "NULL"}
        few  == {"v", "NULL"}
        rest == {{}, {[k |-> "3", x |-> "v", y |-> "NULL"]}}
        one  == [1..1 -> Row("1", some)]
        two  == {<<r, s>> : r \in Row("1", few), s \in Row("2", few)} IN
    UNION {Change(type, rest, one, one \union [1..1 -> Row("4", some)]) \union
           Change(type, rest, two, two \union {<<r, s>> : r \in Row("4", few), s \in Row("2", few)})
              : type \in {"Insert", "Update", "Delete"}}

Copies ==
    [table : UNION {{{[k |-> k, x |-> f[k]] : k \in S} : f \in [S -> {"v", "NULL"}]} :
                       S \in SUBSET (0..4)},
     columns : {<<"k", "x">>},
     chunk_size : 0..3]

Args(written) ==
    [o \in Opt!AllOptions |-> IF o \in DOMAIN written THEN written[o] ELSE "absent"]
Modes ==
    {Args(f @@ g @@ h) : f \in [{"execute", "test-on-replica", "migrate-on-replica", "allow-on-master", "noop"}
                            -> {"absent", "true", "false"}],
                   g \in [{"host", "replica-host"} -> {"absent", "", "x"}],
                   h \in [{"database", "table", "alter"} -> {"absent", "x"}]}
    \union {Args(f) : f \in [{"host", "database", "table", "alter", "execute", "help", "version",
                                "unknown"} -> {"absent", "true"}]}
\* A complete command line, and options that say something else.
Complete ==
    Args([o \in {"host", "database", "table", "alter", "execute", "test-on-replica"} |-> "true"])
Others == {o \in [args : {Complete}, option : Opt!AllOptions, value : {"x", "true", "false", "lock-tables"}] :
              Opt!SaysElse(o.args, o.option, o.value)}
Named == {Args([o \in {"host", "database", "alter"} |-> "x"] @@ t @@ g) :
             t \in [{"table"} -> {"t", "u", "t_changelog", "_gh_ost_t", "_gh_ost_t_changelog"}],
             g \in [{"ghost-table"} -> {"absent", "t"}]}
Names2 == [args : Named, other : Named]

-----------------------------------------------------------------------------
\* Of the parser: names with keywords within and one without, statements of
\* one operation, and of one on that name behind which a column is dropped.
AllHides ==
    [name \in Names |-> CASE name = "FIRST_KEY" -> {"FIRST", "KEY"}
                          [] name = "unique_index_AFTER" -> {"UNIQUE", "INDEX", "AFTER"}
                          [] OTHER -> {}]
Ask == INSTANCE AlterParser WITH Lists <- {}
AllLists ==
    {<<op>> : op \in Ask!Asked}
        \union {<<op, Ask!Plain("DropColumn", "c")>> :
                 op \in {o \in Ask!Asked : {o.name, o.old_name, o.after} \intersect Names \subseteq {"c"}}}

AllInputs ==
    [p \in {"text", "bytes", "wildcard", "time", "duration", "coordinates", "place", "gtids", "schema",
            "event", "copy", "modes", "option", "names", "checkpoint", "timers", "parser"} |->
        CASE p = "text" -> Texts [] p = "bytes" -> ByteTexts [] p = "wildcard" -> Wildcards
          [] p = "time" -> Times [] p = "duration" -> Durations
          [] p = "coordinates" -> Triples [] p = "place" -> Places [] p = "gtids" -> Sets
          [] p = "schema" -> Schemas [] p = "event" -> Changes
          [] p = "copy" -> Copies
          [] p = "modes" -> Modes [] p = "option" -> Others [] p = "names" -> Names2
          [] OTHER -> {"none"}]
=============================================================================
