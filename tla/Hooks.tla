-------------------------------- MODULE Hooks --------------------------------
(* HooksExecutor: a hook is a child process that is polled until it ends,  *)
(* and killed when its time is over.                                       *)
(*                                                                         *)
(* Time is counted in polls of 100 ms; nobody sets the clock meanwhile.  A *)
(* child that has ended keeps its number until it is waited for;           *)
(* afterwards the system may give that number to another process.          *)
EXTENDS Naturals

CONSTANTS
    Timeout  \* timeout_seconds_, in polls

VARIABLES
    registered,    \* the hook is in hooks_
    pc,            \* "out", or the next step of ExecuteHook
    elapsed,       \* time since the child was started, at most Timeout + 1
    child,         \* "none", "running", how it ended, or "reaped"
    ended,         \* history: how the last child ended
    stranger,      \* another process has the child's number
    killed_other,  \* history: that process has been killed
    result,        \* the last HookResult
    last_error     \* the context's last error has been set

process == <<elapsed, child, ended, stranger, killed_other>>
vars == <<registered, pc, process, result, last_error>>

Endings == {"zero", "nonzero", "signal"}
Failed(why) == [success |-> FALSE, error |-> why]
Success == [success |-> TRUE, error |-> "none"]

Init ==
    /\ registered = FALSE /\ pc = "out"
    /\ elapsed = 0 /\ child = "none" /\ ended = "none"
    /\ stranger = FALSE /\ killed_other = FALSE
    /\ result = Success /\ last_error = FALSE

-----------------------------------------------------------------------------
\* The configuration's hooks are entered.  The migrator does not call this.
Initialize ==
    /\ pc = "out" /\ ~registered /\ registered' = TRUE
    /\ UNCHANGED <<pc, process, result, last_error>>

\* A hook that is not registered is a success, a file that cannot be
\* executed a failure that is not reported to the context.
ExecuteHook ==
    /\ pc = "out"
    /\ \/ ~registered /\ result' = Success /\ UNCHANGED <<pc, process>>
       \/ registered /\ result' = Failed("not executable") /\ UNCHANGED <<pc, process>>
       \/ /\ registered /\ pc' = "fork" /\ result' = Failed("none")
          /\ child' = "none" /\ elapsed' = 0 /\ stranger' = FALSE
          /\ UNCHANGED <<ended, killed_other>>
    /\ UNCHANGED <<registered, last_error>>

Fork ==
    /\ pc = "fork"
    /\ \/ pc' = "report" /\ result' = Failed("fork") /\ UNCHANGED child
       \/ pc' = "test" /\ child' = "running" /\ UNCHANGED result
    /\ UNCHANGED <<registered, elapsed, ended, stranger, killed_other, last_error>>

TestTime ==
    /\ pc = "test"
    /\ pc' = IF elapsed < Timeout THEN "poll" ELSE "check"
    /\ UNCHANGED <<registered, process, result, last_error>>

\* Mutation: WEXITSTATUS is 0 for a child that a signal has ended.
PollExitStatusOnly ==
    /\ pc = "poll"
    /\ IF child \in Endings
         THEN /\ pc' = "check" /\ child' = "reaped"
              /\ result' = IF child # "nonzero" THEN [result EXCEPT !.success = TRUE]
                           ELSE Failed("exit")
         ELSE pc' = "test" /\ UNCHANGED <<child, result>>
    /\ UNCHANGED <<registered, elapsed, ended, stranger, killed_other, last_error>>

\* waitpid(pid, &status, WNOHANG), then 100 ms of sleep.
Poll ==
    /\ pc = "poll"
    /\ IF child \in Endings
         THEN /\ pc' = "check" /\ child' = "reaped"
              /\ result' = IF child = "zero" THEN [result EXCEPT !.success = TRUE]
                           ELSE Failed("exit")
         ELSE pc' = "test" /\ UNCHANGED <<child, result>>
    /\ UNCHANGED <<registered, elapsed, ended, stranger, killed_other, last_error>>

\* The time is read once more, also after the child has been reaped.
CheckTimeout ==
    /\ pc = "check"
    /\ pc' = IF elapsed >= Timeout THEN "kill" ELSE "report"
    /\ UNCHANGED <<registered, process, result, last_error>>

\* Mutation: the child gets SIGTERM, which it may ignore.
KillPolitely ==
    /\ pc = "kill" /\ pc' = "reap"
    /\ UNCHANGED <<registered, process, result, last_error>>

\* kill(pid, SIGKILL): to whoever has the number.
Kill ==
    /\ pc = "kill" /\ pc' = "reap"
    /\ \/ /\ child = "running" /\ child' = "signal" /\ ended' = "signal"
          /\ UNCHANGED killed_other
       \/ child \in Endings /\ UNCHANGED <<child, ended, killed_other>>
       \/ child = "reaped" /\ killed_other' = (killed_other \/ stranger)
          /\ UNCHANGED <<child, ended>>
    /\ UNCHANGED <<registered, elapsed, stranger, result, last_error>>

\* waitpid(pid, &status, 0): at once for a child already reaped.
Reap ==
    /\ pc = "reap" /\ child \in Endings \union {"reaped"}
    /\ pc' = "report" /\ child' = "reaped"
    /\ result' = [result EXCEPT !.error = "timeout"]
    /\ UNCHANGED <<registered, elapsed, ended, stranger, killed_other, last_error>>

\* With hook_fail_on_error a failure becomes the context's last error.
Report ==
    /\ pc = "report" /\ pc' = "out"
    /\ last_error' \in IF result.success THEN {last_error} ELSE {TRUE, last_error}
    /\ UNCHANGED <<registered, process, result>>

-----------------------------------------------------------------------------
(* The child and the system.                                               *)

ChildEnds ==
    /\ child = "running"
    /\ child' \in Endings /\ ended' = child'
    /\ UNCHANGED <<registered, pc, elapsed, stranger, killed_other, result, last_error>>

NumberReused ==
    /\ child = "reaped" /\ ~stranger /\ stranger' = TRUE
    /\ UNCHANGED <<registered, pc, elapsed, child, ended, killed_other, result, last_error>>

TimePasses ==
    /\ pc # "out" /\ elapsed <= Timeout /\ elapsed' = elapsed + 1
    /\ UNCHANGED <<registered, pc, child, ended, stranger, killed_other, result, last_error>>

Executor == Fork \/ TestTime \/ Poll \/ CheckTimeout \/ Kill \/ Reap \/ Report
Next == Initialize \/ ExecuteHook \/ Executor \/ ChildEnds \/ NumberReused \/ TimePasses

(* A hook need not end by itself; time passes and the executor goes on.    *)
Fairness == WF_vars(Executor) /\ WF_vars(TimePasses)

Spec == Init /\ [][Next]_vars /\ Fairness

-----------------------------------------------------------------------------
HooksTypeOK ==
    /\ registered \in BOOLEAN /\ elapsed \in 0..(Timeout + 1)
    /\ pc \in {"out", "fork", "test", "poll", "check", "kill", "reap", "report"}
    /\ child \in {"none", "running", "reaped"} \union Endings
    /\ ended \in {"none"} \union Endings
    /\ stranger \in BOOLEAN /\ killed_other \in BOOLEAN /\ last_error \in BOOLEAN
    /\ result \in [success : BOOLEAN,
                   error : {"none", "not executable", "fork", "exit", "timeout"}]

(* When a hook's call is over its process is too, and it has been waited   *)
(* for; and the call is a success only for a process that has ended        *)
(* itself with status 0, whatever happened at the limit of its time.       *)
NoChildLeft ==
    pc = "out" =>
        /\ child \in {"none", "reaped"}
        /\ result.success /\ child = "reaped" => ended = "zero"

(* The call of a hook ends, also when the hook does not.                   *)
HookReturns == pc # "out" ~> pc = "out"
=============================================================================
