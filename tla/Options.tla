------------------------------- MODULE Options -------------------------------
(* The command line: what ParseCommandLine makes of the options, how the   *)
(* configuration is checked and what main does with it.  args gives each   *)
(* option its value, "absent" when it is not there; an option that has a   *)
(* default is absent too unless it was written (result.count).             *)
EXTENDS Naturals, Sequences

\* What is declared; "unknown" stands for what is not.
AllOptions ==
    {"host", "port", "user", "password", "ssl", "ssl-ca", "ssl-cert", "ssl-key", "replica-host", "replica-port", "replica-user",
     "replica-password", "database", "table", "alter", "execute", "test-on-replica",
     "migrate-on-replica", "allow-on-master", "noop", "nice-ratio", "ghost-table", "changelog-table",
     "drop-original-table", "drop-ghost-table", "max-replication-lag", "max-load", "critical-load",
     "chunk-size", "throttle-query", "throttle-http", "throttle-control-replicas", "cut-over",
     "cut-over-lock-timeout-seconds", "postpone-cut-over-flag-file", "force-cut-over-flag-file",
     "graceful-cut-over", "hooks-path", "hooks-before-migration", "hooks-after-migration",
     "hooks-on-status", "hooks-on-throttle", "hooks-timeout-seconds", "serve-status-http",
     "serve-status-socket", "exact-rowcount", "progress", "heartbeat-interval", "verbose", "quiet",
     "log-file", "debug", "help", "version", "config-file", "unknown"}

Counted(args, option) == args[option] # "absent"
Given(args, option, default) == IF Counted(args, option) THEN args[option] ELSE default

\* The files of the certificates are the same for both.
Connections(args) ==
    [ssl_files |-> [file \in {"ssl-ca", "ssl-cert", "ssl-key"} |-> Given(args, file, "")],
     master  |-> [host     |-> Given(args, "host", ""),
                  port     |-> Given(args, "port", "3306"),
                  user     |-> Given(args, "user", ""),
                  password |-> Given(args, "password", ""),
                  ssl      |-> Given(args, "ssl", "false")],
     replica |-> [host     |-> Given(args, "replica-host", ""),
                  port     |-> Given(args, "replica-port", "3306"),
                  user     |-> Given(args, "replica-user", ""),
                  password |-> Given(args, "replica-password", ""),
                  ssl      |-> Given(args, "ssl", "false")]]

\* The last of the three that applies; --allow-on-master=false and
\* --execute=false count as well.
Mode(args) ==
    IF Counted(args, "allow-on-master") /\ Counted(args, "execute") /\ ~Counted(args, "replica-host")
      THEN "OnMaster"
    ELSE IF Counted(args, "migrate-on-replica") THEN "OnReplica"
    ELSE IF Counted(args, "test-on-replica") THEN "TestOnReplica"
    ELSE "OnReplica"

\* Mutation: without --execute the migration is on.
FlagsExecuteUnlessNoop(args) ==
    [execute         |-> Given(args, "execute", IF Counted(args, "noop") THEN "false" ELSE "true"),
     test_on_replica |-> Given(args, "test-on-replica", "false"),
     allow_on_master |-> Given(args, "allow-on-master", "false"),
     dry_run         |-> Given(args, "noop", "false")]

Flags(args) ==
    [execute         |-> Given(args, "execute", "false"),
     test_on_replica |-> Given(args, "test-on-replica", "false"),
     allow_on_master |-> Given(args, "allow-on-master", "false"),
     dry_run         |-> Given(args, "noop", "false")]

TableOptions(args) ==
    [database   |-> Given(args, "database", ""),
     table      |-> Given(args, "table", ""),
     alter      |-> Given(args, "alter", ""),
     ghost      |-> Given(args, "ghost-table", ""),
     changelog  |-> Given(args, "changelog-table", ""),
     drop_original |-> Given(args, "drop-original-table", "true"),
     drop_ghost    |-> Given(args, "drop-ghost-table", "true")]

\* max-load and critical-load are off when they are not written, not when 0.
ThrottleOptions(args) ==
    [max_replication_lag |-> Given(args, "max-replication-lag", "60"),
     max_load            |-> Given(args, "max-load", "none"),
     critical_load       |-> Given(args, "critical-load", "none"),
     chunk_size          |-> Given(args, "chunk-size", "1000"),
     throttle_query      |-> Given(args, "throttle-query", "none")]

\* Any other strategy is the atomic one, a flag file's name postpones.
CutOverOptions(args) ==
    [strategy   |-> IF args["cut-over"] = "lock-tables" THEN "LockTables" ELSE "AtomicSwap",
     timeout    |-> Given(args, "cut-over-lock-timeout-seconds", "3"),
     postpone   |-> Counted(args, "postpone-cut-over-flag-file"),
     postpone_flag_file |-> Given(args, "postpone-cut-over-flag-file", "none"),
     force_flag_file    |-> Given(args, "force-cut-over-flag-file", "none"),
     graceful   |-> Given(args, "graceful-cut-over", "true")]

HookOptions(args) ==
    [before_migration |-> Given(args, "hooks-before-migration", "none"),
     after_migration  |-> Given(args, "hooks-after-migration", "none"),
     on_status        |-> Given(args, "hooks-on-status", "none"),
     on_throttle      |-> Given(args, "hooks-on-throttle", "none"),
     timeout          |-> Given(args, "hooks-timeout-seconds", "30")]

\* debug is written over verbose, even when it is false.
OutputOptions(args) ==
    [status_tcp_port    |-> Given(args, "serve-status-http", "none"),
     status_socket_path |-> Given(args, "serve-status-socket", "none"),
     exact_rowcount     |-> Given(args, "exact-rowcount", "false"),
     progress           |-> Given(args, "progress", "true"),
     heartbeat_interval |-> Given(args, "heartbeat-interval", "100"),
     verbose  |-> Given(args, "debug", Given(args, "verbose", "false")),
     quiet    |-> Given(args, "quiet", "false"),
     log_file |-> Given(args, "log-file", "none")]

\* An option that does not exist or whose value does not fit its type is an
\* exception, before help and version are looked at.
ParseCommandLine(args) ==
    IF args["unknown"] # "absent" \/ Counted(args, "help") \/ Counted(args, "version") THEN {}
    ELSE {[connections |-> Connections(args), mode |-> Mode(args), flags |-> Flags(args),
           tables |-> TableOptions(args), throttle |-> ThrottleOptions(args),
           cut_over |-> CutOverOptions(args), hooks |-> HookOptions(args),
           output |-> OutputOptions(args)]}

-----------------------------------------------------------------------------
GhostTableName(config) ==
    IF config.tables.ghost # "" THEN config.tables.ghost ELSE "_gh_ost_" \o config.tables.table
ChangelogTableName(config) ==
    IF config.tables.changelog # "" THEN config.tables.changelog
    ELSE "_gh_ost_" \o config.tables.table \o "_changelog"

\* PhaseCreateGhostTable drops both if they exist.
Dropped(config) == {GhostTableName(config), ChangelogTableName(config)}

\* Validate also writes the ghost's name; a mode without its flag is only
\* worth a warning.
Errors(config) ==
    {e \in {"database", "table", "alter", "connection"} :
        IF e = "connection"
          THEN config.connections.master.host = "" /\ config.connections.replica.host = ""
          ELSE config.tables[e] = ""}
Validated(config) == [config EXCEPT !.tables.ghost = GhostTableName(config)]
Warned(config) == config.mode = "OnMaster" /\ config.flags.allow_on_master = "false"

\* What main returns, and whether it gets as far as the migration.
Main(args) ==
    IF ParseCommandLine(args) = {} THEN [code |-> 0, started |-> FALSE]
    ELSE LET config == CHOOSE c \in ParseCommandLine(args) : TRUE IN
         IF Errors(config) # {} THEN [code |-> 1, started |-> FALSE]
         ELSE [code |-> 0, started |-> config.flags.execute = "true"]

-----------------------------------------------------------------------------
(* A migration is started only by --execute, with a database, a table, an  *)
(* ALTER and a host, and never beside --help; --noop does not keep it from *)
(* starting.  It is one on the master only if the command line names no    *)
(* replica and has --allow-on-master, though if that is =false only a      *)
(* warning says so.  Without --execute nothing depends on any other flag   *)
(* but the exit code on the four that are required.                        *)
ModesFollowOptions(args) ==
    LET main == Main(args)
        required == {"database", "table", "alter"} IN
    /\ main.started =>
        /\ args["execute"] = "true" /\ \A option \in required : args[option] \notin {"absent", ""}
        /\ {args["host"], args["replica-host"]} \ {"absent", ""} # {}
        /\ ~Counted(args, "help") /\ ~Counted(args, "version")
        /\ LET config == CHOOSE c \in ParseCommandLine(args) : TRUE IN
            /\ config.mode = "OnMaster" =>
                /\ config.connections.replica.host = "" /\ Counted(args, "allow-on-master")
                /\ Warned(config) <=> args["allow-on-master"] = "false"
            /\ config.mode = "TestOnReplica" => ~Counted(args, "migrate-on-replica")
    /\ Main([args EXCEPT !["noop"] = "true"]).started = main.started
    /\ main.code = 1 => args["unknown"] = "absent"

(* The options that are read and then forgotten change nothing; another    *)
(* one that says something else than its default changes the configuration.*)
Ignored == {"hooks-path", "throttle-http", "throttle-control-replicas", "config-file", "nice-ratio"}
OptionsAreKept(args, option, value) ==
    ParseCommandLine([args EXCEPT ![option] = value]) = ParseCommandLine(args) <=> option \in Ignored

\* What holds while an option is not written, "none" for nothing.
Default(option) ==
    CASE option \in {"port", "replica-port"} -> "3306"
      [] option \in {"ssl", "execute", "test-on-replica", "migrate-on-replica", "allow-on-master",
                     "noop", "exact-rowcount", "verbose", "quiet", "debug"} -> "false"
      [] option \in {"drop-original-table", "drop-ghost-table", "graceful-cut-over", "progress"} -> "true"
      [] option = "nice-ratio" -> "0.0" [] option = "max-replication-lag" -> "60"
      [] option = "chunk-size" -> "1000" [] option = "cut-over" -> "atomic"
      [] option = "cut-over-lock-timeout-seconds" -> "3" [] option = "hooks-timeout-seconds" -> "30"
      [] option = "heartbeat-interval" -> "100"
      [] option \in {"max-load", "critical-load", "throttle-query", "postpone-cut-over-flag-file",
                     "force-cut-over-flag-file", "hooks-before-migration", "hooks-after-migration",
                     "hooks-on-status", "hooks-on-throttle", "serve-status-http",
                     "serve-status-socket", "log-file"} -> "none"
      [] OTHER -> ""

\* value says something else of an option than args: of the cut-over only
\* lock-tables does, migrate-on-replica is read where it decides the mode,
\* and of verbose and debug the second is.
SaysElse(args, option, value) ==
    /\ args \in [AllOptions -> STRING] /\ ParseCommandLine(args) # {}
    /\ option \in AllOptions \ {"unknown", "help", "version"}
    /\ value \in STRING \ {"absent", Given(args, option, Default(option))}
    /\ option = "cut-over" => "lock-tables" \in {value, args[option]}
    /\ option = "migrate-on-replica" => ~Counted(args, option) /\ Mode(args) = "TestOnReplica"
    /\ option = "verbose" => ~Counted(args, "debug")
    /\ option = "debug" => value # Given(args, "verbose", "false")

(* The tables that a migration drops before it begins are not the one it   *)
(* migrates, unless one of the two names was written on the command line;  *)
(* and by default they are none of another migration's in the same         *)
(* database, neither those it drops nor the one it migrates, unless that   *)
(* is called as the first one's ghost or one is called as the other with   *)
(* "_changelog" behind it.                                                 *)
NamesAreApart(args, other) ==
    \A mine \in ParseCommandLine(args), yours \in ParseCommandLine(other) :
        LET written(a) == Counted(a, "ghost-table") \/ Counted(a, "changelog-table")
            t == mine.tables.table
            u == yours.tables.table IN
        /\ ~written(args) => t \notin Dropped(Validated(mine))
        /\ ~written(args) /\ ~written(other) /\ t # u =>
            (Dropped(mine) \intersect (Dropped(yours) \union {u}) = {}
                <=> /\ u \notin {"_gh_ost_" \o t, "_gh_ost_" \o t \o "_changelog"}
                    /\ u # t \o "_changelog" /\ t # u \o "_changelog")
=============================================================================
