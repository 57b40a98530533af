------------------------------- MODULE Timers -------------------------------
(* The rate limiter, the deadline timer and the elapsed timer of           *)
(* TimeUtils, which read the system's clock, and the wait for a flag file, *)
(* which reads a steady one.  Time is counted in milliseconds, "now" is    *)
(* the time that has really passed and "clock" what the system shows:      *)
(* somebody may set it.                                                    *)
EXTENDS Integers

CONSTANTS
    Interval,   \* interval_millis_
    Timeout,    \* timeout_ and timeout_millis
    MaxTime,    \* bound: time that passes, and what the clock can be set to
    MaxSets     \* bound: how often the clock is set

VARIABLES
    now, clock, sets,
    last_execution,  \* of the rate limiter
    deadline,        \* of the deadline timer
    wait,            \* WaitForNext: "out" or the end of its sleep
    flag,            \* the flag file exists
    poll,            \* WaitForFlagFile: "out", or the time of its next look
    began,           \* WaitForFlagFile: its start
    proceeded,       \* history: when the limiter last let somebody through
    started,         \* history: when the deadline timer was last reset
    adjusted,        \* history: what has been measured across a set clock
    given_up         \* the last WaitForFlagFile returned false

limiter == <<last_execution, wait, proceeded>>
timer   == <<deadline, started>>
file    == <<flag, poll, began, given_up>>
time    == <<now, clock, sets>>
vars    == <<time, limiter, timer, file, adjusted>>

\* The clock shows a time long after its epoch, where last_execution_ is.
Epoch == -10 * MaxTime
Out == -1

Init ==
    /\ now = 0 /\ clock = 0 /\ sets = 0
    /\ last_execution = Epoch /\ wait = Out /\ proceeded = Out
    /\ deadline = Timeout /\ started = 0
    /\ flag = FALSE /\ poll = Out /\ began = 0
    /\ adjusted = {} /\ given_up = FALSE

-----------------------------------------------------------------------------
(* RateLimiter.                                                            *)

\* ToMillis of the time between: a negative one becomes a number above all
\* intervals, since uint64_t has no others.
Elapsed == IF clock < last_execution THEN 2^20 ELSE clock - last_execution

\* Mutation: a call is let through when the interval is nearly over.
ShouldProceedEarly ==
    /\ wait = Out
    /\ IF Elapsed + 1 >= Interval
         THEN /\ last_execution' = clock /\ proceeded' = now
              /\ adjusted' = adjusted \ {"limiter"}
         ELSE UNCHANGED <<last_execution, proceeded, adjusted>>
    /\ UNCHANGED <<time, wait, timer, file>>

ShouldProceed ==
    /\ wait = Out
    /\ IF Elapsed >= Interval
         THEN /\ last_execution' = clock /\ proceeded' = now
              /\ adjusted' = adjusted \ {"limiter"}
         ELSE UNCHANGED <<last_execution, proceeded, adjusted>>
    /\ UNCHANGED <<time, wait, timer, file>>

\* WaitForNext sleeps what is left of the interval,
BeginWait ==
    /\ wait = Out
    /\ wait' = IF Elapsed < Interval THEN now + Interval - Elapsed ELSE now
    /\ UNCHANGED <<time, last_execution, proceeded, timer, file, adjusted>>

\* and takes the time when it wakes.
EndWait ==
    /\ wait # Out /\ now >= wait
    /\ wait' = Out /\ last_execution' = clock /\ proceeded' = now
    /\ adjusted' = adjusted \ {"limiter"}
    /\ UNCHANGED <<time, timer, file>>

-----------------------------------------------------------------------------
(* DeadlineTimer.                                                          *)

Reset ==
    /\ deadline' = clock + Timeout /\ started' = now
    /\ adjusted' = adjusted \ {"timer"}
    /\ UNCHANGED <<time, limiter, file>>

IsExpired == clock >= deadline

\* The time that Remaining returns, never below 0.
Remaining == IF IsExpired THEN 0 ELSE deadline - clock

-----------------------------------------------------------------------------
(* WaitForFlagFile.                                                        *)

BeginFlagWait ==
    /\ poll = Out /\ poll' = now /\ began' = now
    /\ UNCHANGED <<time, limiter, timer, flag, given_up, adjusted>>

\* The file is looked for before the time is read, every 100 ms: here each
\* unit of time.
PollFlag ==
    /\ poll # Out /\ now >= poll
    /\ poll' = IF flag \/ now - began >= Timeout THEN Out ELSE now + 1
    /\ given_up' = (~flag /\ now - began >= Timeout)
    /\ UNCHANGED <<time, limiter, timer, flag, began, adjusted>>

FlagChanges == flag' = ~flag /\ UNCHANGED <<time, limiter, timer, poll, began, given_up, adjusted>>

-----------------------------------------------------------------------------
Tick ==
    /\ now < MaxTime /\ now' = now + 1 /\ clock' = clock + 1
    /\ UNCHANGED <<sets, limiter, timer, file, adjusted>>

SetClock ==
    /\ sets < MaxSets /\ sets' = sets + 1
    /\ clock' \in 0..MaxTime
    /\ adjusted' = {"limiter", "timer"}
    /\ UNCHANGED <<now, limiter, timer, file>>

Next ==
    \/ ShouldProceed \/ BeginWait \/ EndWait
    \/ Reset
    \/ BeginFlagWait \/ PollFlag \/ FlagChanges
    \/ Tick \/ SetClock

Spec == Init /\ [][Next]_vars

-----------------------------------------------------------------------------
(* As long as nobody sets the clock between two calls that were let        *)
(* through, at least the interval has passed between them, whether they    *)
(* asked or waited; a deadline is over exactly when its time is, and what  *)
(* remains of it is right; and the wait for a file gives up only after its *)
(* time.                                                                   *)
TimersKeepTime ==
    [][/\ proceeded' # proceeded /\ proceeded # Out /\ "limiter" \notin adjusted
            => proceeded' - proceeded >= Interval
       /\ "timer" \notin adjusted =>
            /\ IsExpired <=> now - started >= Timeout
            /\ ~IsExpired => Remaining = Timeout - (now - started)
       /\ poll # Out /\ given_up' /\ poll' = Out => now - began >= Timeout]_vars
=============================================================================
