----------------------------- MODULE ThreadPool -----------------------------
(* The thread pool: an owner starts, stops and resizes it while clients    *)
(* submit tasks and wait for all of them.                                  *)
(*                                                                         *)
(* A critical section of mutex_ is one step, the notification after it     *)
(* another.  worker[w] is where a thread of threads_ is in WorkerThread:   *)
(* about to test the predicate ("test"), in condition_'s wait set          *)
(* ("wait"), running a task ("run"), about to notify completed_ ("notify") *)
(* or returned and not yet joined ("ended").                               *)
EXTENDS Naturals, Sequences, FiniteSets

CONSTANTS
    Workers,     \* bound: the threads the pool can have at one time
    Sizes,       \* numbers of threads the owner asks for
    Clients,     \* threads that submit and wait
    Tasks,       \* tasks, each submitted once
    MaxControls  \* bound: number of the owner's calls

VARIABLES
    running, stopped, active_tasks, num_threads,
    tasks,    \* the queue of tasks
    worker,   \* [Workers -> state], "none" when it is not in threads_
    job,      \* [Workers -> the task it has taken, or "none"]
    client,   \* [Clients -> "out", "notify", "wait", "test"]
    owner,    \* "out", or what is left of the owner's call
    resize,   \* the number of threads that call is to start
    controls, \* number of the owner's calls
    accepted, \* history: the tasks Submit has accepted
    finished  \* history: how often each task has run to its end

flags   == <<running, stopped>>
pool    == <<active_tasks, tasks, worker, job, finished>>
control == <<num_threads, owner, resize, controls>>
vars    == <<flags, pool, control, client, accepted>>

Threads == {w \in Workers : worker[w] # "none"}
Sleepers == {w \in Workers : worker[w] = "wait"}
Waiters == {c \in Clients : client[c] = "wait"}
Wake(s, ts) == [t \in DOMAIN s |-> IF t \in ts THEN "test" ELSE s[t]]

Init ==
    /\ running = FALSE /\ stopped = TRUE
    /\ active_tasks = 0 /\ tasks = <<>> /\ num_threads \in Sizes
    /\ worker = [w \in Workers |-> "none"] /\ job = [w \in Workers |-> "none"]
    /\ client = [c \in Clients |-> "out"]
    /\ owner = "out" /\ resize = 0 /\ controls = 0
    /\ accepted = {} /\ finished = [t \in Tasks |-> 0]

-----------------------------------------------------------------------------
(* The owner.                                                              *)

\* n threads join those that are in threads_.
Launch(n) ==
    \E new \in SUBSET (Workers \ Threads) :
        /\ Cardinality(new) = n
        /\ worker' = [w \in Workers |-> IF w \in new THEN "test" ELSE worker[w]]

Start ==
    /\ IF running
         THEN UNCHANGED <<flags, worker>>
         ELSE /\ stopped' = FALSE /\ running' = TRUE
              /\ Launch(num_threads)
    /\ UNCHANGED <<active_tasks, tasks, job, finished, client, accepted>>

CallStart ==
    /\ owner = "out" /\ controls < MaxControls /\ controls' = controls + 1
    /\ Start
    /\ UNCHANGED <<num_threads, owner, resize>>

\* Stop returns after its notification, StopAndWait goes on to join, and
\* Restart and SetNumThreads then start again.
CallStop ==
    /\ owner = "out" /\ controls < MaxControls /\ controls' = controls + 1
    /\ owner' \in {"stop", "stopAndWait", "restart"}
    /\ resize' \in IF owner' = "restart" THEN Sizes ELSE {resize}
    /\ stopped' = TRUE /\ running' = FALSE
    /\ UNCHANGED <<pool, num_threads, client, accepted>>

\* Mutation: only one worker hears of the stop.
NotifyStopOne ==
    /\ owner \in {"stop", "stopAndWait", "restart"}
    /\ \/ Sleepers = {} /\ UNCHANGED worker
       \/ \E w \in Sleepers : worker' = Wake(worker, {w})
    /\ owner' = CASE owner = "stop" -> "out"
                  [] owner = "stopAndWait" -> "join"
                  [] owner = "restart" -> "joinToStart"
    /\ UNCHANGED <<flags, active_tasks, tasks, job, finished, client, accepted,
                   num_threads, resize, controls>>

NotifyStop ==
    /\ owner \in {"stop", "stopAndWait", "restart"}
    /\ worker' = Wake(worker, Sleepers)
    /\ owner' = CASE owner = "stop" -> "out"
                  [] owner = "stopAndWait" -> "join"
                  [] owner = "restart" -> "joinToStart"
    /\ UNCHANGED <<flags, active_tasks, tasks, job, finished, client, accepted,
                   num_threads, resize, controls>>

\* When all have ended, threads_ and the queue are cleared.
Join ==
    /\ owner \in {"join", "joinToStart"}
    /\ \A w \in Threads : worker[w] = "ended"
    /\ worker' = [w \in Workers |-> "none"]
    /\ tasks' = <<>>
    /\ owner' = IF owner = "join" THEN "out" ELSE "start"
    /\ num_threads' = IF owner = "join" THEN num_threads ELSE resize
    /\ UNCHANGED <<flags, active_tasks, job, finished, client, accepted, resize, controls>>

StartAgain ==
    /\ owner = "start" /\ owner' = "out"
    /\ Start
    /\ UNCHANGED <<num_threads, resize, controls>>

-----------------------------------------------------------------------------
(* Clients.                                                                *)

\* A stopped pool throws.
Submit(c, t) ==
    /\ client[c] = "out" /\ t \notin accepted /\ ~stopped
    /\ tasks' = Append(tasks, t) /\ accepted' = accepted \union {t}
    /\ client' = [client EXCEPT ![c] = "notify"]
    /\ UNCHANGED <<flags, active_tasks, worker, job, finished, control>>

\* condition_.notify_one
NotifyOne(c) ==
    /\ client[c] = "notify" /\ client' = [client EXCEPT ![c] = "out"]
    /\ \/ Sleepers = {} /\ UNCHANGED worker
       \/ \E w \in Sleepers : worker' = Wake(worker, {w})
    /\ UNCHANGED <<flags, active_tasks, tasks, job, finished, control, accepted>>

\* Mutation: tasks that have been taken are not waited for.
AllDoneQueueOnly == stopped \/ tasks = <<>>

AllDone == stopped \/ (tasks = <<>> /\ active_tasks = 0)

\* WaitAll tests the condition and returns, or sleeps until completed_ is
\* notified.
WaitAll(c) ==
    /\ \/ client[c] = "out" /\ ~AllDone /\ client' = [client EXCEPT ![c] = "wait"]
       \/ client[c] = "test"
          /\ client' = [client EXCEPT ![c] = IF AllDone THEN "out" ELSE "wait"]
    /\ UNCHANGED <<flags, pool, control, accepted>>

-----------------------------------------------------------------------------
(* WorkerThread.                                                           *)

\* Mutation: a stopped pool gives up what is in the queue.
AwaitTaskUnlessStopped(w) ==
    /\ worker[w] = "test"
    /\ IF stopped \/ tasks = <<>>
         THEN /\ worker' = [worker EXCEPT ![w] = IF stopped THEN "ended" ELSE "wait"]
              /\ UNCHANGED <<active_tasks, tasks, job>>
         ELSE /\ worker' = [worker EXCEPT ![w] = "run"]
              /\ job' = [job EXCEPT ![w] = Head(tasks)]
              /\ tasks' = Tail(tasks)
              /\ active_tasks' = active_tasks + 1
    /\ UNCHANGED <<flags, finished, control, client, accepted>>

\* Stopped or not, tasks are taken as long as there are any.
AwaitTask(w) ==
    /\ worker[w] = "test"
    /\ IF tasks = <<>>
         THEN /\ worker' = [worker EXCEPT ![w] = IF stopped THEN "ended" ELSE "wait"]
              /\ UNCHANGED <<active_tasks, tasks, job>>
         ELSE /\ worker' = [worker EXCEPT ![w] = "run"]
              /\ job' = [job EXCEPT ![w] = Head(tasks)]
              /\ tasks' = Tail(tasks)
              /\ active_tasks' = active_tasks + 1
    /\ UNCHANGED <<flags, finished, control, client, accepted>>

\* Mutation: the task does not leave the count.
FinishTaskUncounted(w) ==
    /\ worker[w] = "run"
    /\ worker' = [worker EXCEPT ![w] = "notify"]
    /\ job' = [job EXCEPT ![w] = "none"]
    /\ finished' = [finished EXCEPT ![job[w]] = @ + 1]
    /\ UNCHANGED <<flags, active_tasks, tasks, control, client, accepted>>

\* The task is over and leaves the count.
FinishTask(w) ==
    /\ worker[w] = "run"
    /\ worker' = [worker EXCEPT ![w] = "notify"]
    /\ job' = [job EXCEPT ![w] = "none"]
    /\ finished' = [finished EXCEPT ![job[w]] = @ + 1]
    /\ active_tasks' = active_tasks - 1
    /\ UNCHANGED <<flags, tasks, control, client, accepted>>

\* completed_.notify_all
NotifyCompleted(w) ==
    /\ worker[w] = "notify"
    /\ worker' = [worker EXCEPT ![w] = "test"]
    /\ client' = Wake(client, Waiters)
    /\ UNCHANGED <<flags, active_tasks, tasks, job, finished, control, accepted>>

-----------------------------------------------------------------------------
WorkerThread(w) == AwaitTask(w) \/ FinishTask(w) \/ NotifyCompleted(w)
Owner == CallStart \/ CallStop \/ NotifyStop \/ Join \/ StartAgain
Client(c) == (\E t \in Tasks : Submit(c, t)) \/ NotifyOne(c) \/ WaitAll(c)

Next ==
    \/ \E w \in Workers : WorkerThread(w)
    \/ Owner
    \/ \E c \in Clients : Client(c)

(* Every thread goes on with what it has begun and a task ends; nobody has *)
(* to call anything.                                                       *)
Fairness ==
    /\ \A w \in Workers : WF_vars(WorkerThread(w))
    /\ WF_vars(NotifyStop \/ Join \/ StartAgain)
    /\ \A c \in Clients : WF_vars(client[c] # "out" /\ (NotifyOne(c) \/ WaitAll(c)))

Spec == Init /\ [][Next]_vars /\ Fairness

-----------------------------------------------------------------------------
(* Every variable has its type; the counter agrees with the workers that   *)
(* are running a task.                                                     *)
PoolTypeOK ==
    /\ running \in BOOLEAN /\ stopped \in BOOLEAN
    /\ num_threads \in Sizes /\ resize \in Sizes \union {0}
    /\ controls \in 0..MaxControls
    /\ tasks \in Seq(Tasks) /\ accepted \subseteq Tasks
    /\ worker \in [Workers -> {"none", "test", "wait", "run", "notify", "ended"}]
    /\ \A w \in Workers : job[w] \in IF worker[w] = "run" THEN Tasks ELSE {"none"}
    /\ active_tasks = Cardinality({w \in Workers : worker[w] = "run"})
    /\ client \in [Clients -> {"out", "notify", "wait", "test"}]
    /\ owner \in {"out", "stop", "stopAndWait", "restart", "join", "joinToStart", "start"}
    /\ finished \in [Tasks -> Nat]

(* WaitAll returns from a pool that has not been stopped only when no task *)
(* accepted so far is waiting or running, and none has run twice.          *)
WaitAllMeansDone ==
    [][\A c \in Clients : client[c] = "test" /\ client'[c] = "out" /\ ~stopped =>
        \A t \in accepted : finished[t] = 1]_vars

(* A task that was accepted is run in the end, whatever the owner calls,   *)
(* if the pool has been started with at least one thread.                  *)
AcceptedTasksRun ==
    \A t \in Tasks : t \in accepted /\ Threads # {} ~> finished[t] = 1

(* Every call returns: StopAndWait joins its workers, and WaitAll does not *)
(* sleep through the end of the last task.                                 *)
PoolCallsReturn ==
    /\ owner # "out" ~> owner = "out"
    /\ \A c \in Clients : client[c] = "wait" /\ Threads # {} ~> client[c] # "wait"
=============================================================================
