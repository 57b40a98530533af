----------------------------- MODULE MCServices -----------------------------
(* The concurrent services beside the migration, which share no state with *)
(* it or with one another in this model: a behaviour is one of one of      *)
(* them, the part, and the others stay as they begin.                      *)
EXTENDS Integers, Sequences, FiniteSets

CONSTANTS
    Workers, Sizes, Clients, Tasks, MaxControls,
    Descriptors, MaxStarts,
    Timeout

ASSUME ServicesAssumption ==
    /\ IsFiniteSet(Workers) /\ Sizes \subseteq Nat /\ MaxControls \in Nat
    /\ Descriptors \subseteq Nat /\ MaxStarts \in Nat
    /\ Timeout \in Nat

VARIABLES
    part,
    pool_running, stopped, active_tasks, num_threads, tasks, worker, job, client,
    pool_owner, resize, controls, accepted, finished,
    server_running, server_socket, open, thread, argument, server_owner, starts,
    bind_failed, closed_others, settings, reply,
    registered, pc, elapsed, child, ended, stranger, killed_other, result, last_error

pool == <<pool_running, stopped, active_tasks, num_threads, tasks, worker, job,
          client, pool_owner, resize, controls, accepted, finished>>
server == <<server_running, server_socket, open, thread, argument, server_owner,
            starts, bind_failed, closed_others, settings, reply>>
hooks == <<registered, pc, elapsed, child, ended, stranger, killed_other,
           result, last_error>>
vars == <<part, pool, server, hooks>>

Pool   == INSTANCE ThreadPool WITH running <- pool_running, owner <- pool_owner
Status == INSTANCE Server WITH running <- server_running, owner <- server_owner
Hook   == INSTANCE Hooks

Init ==
    /\ part \in {"pool", "server", "hooks"}
    /\ Pool!Init /\ Status!Init /\ Hook!Init
    /\ part = "pool" \/ num_threads = CHOOSE n \in Sizes : TRUE

Next ==
    /\ UNCHANGED part
    /\ \/ part = "pool" /\ Pool!Next /\ UNCHANGED <<server, hooks>>
       \/ part = "server" /\ Status!Next /\ UNCHANGED <<pool, hooks>>
       \/ part = "hooks" /\ Hook!Next /\ UNCHANGED <<pool, server>>

(* A part that is not taken enables none of its fair actions.              *)
Spec == Init /\ [][Next]_vars /\ Pool!Fairness /\ Status!Fairness /\ Hook!Fairness

-----------------------------------------------------------------------------
(* Every variable of every service has its type.                           *)
TypeOK == Pool!PoolTypeOK /\ Status!ServerTypeOK /\ Hook!HooksTypeOK

(* The services' properties, stated in their modules.                      *)
(* WaitAll of the thread pool returns only when all tasks are done.        *)
WaitAllMeansDone  == Pool!WaitAllMeansDone
(* A task that the pool has accepted is run.                               *)
AcceptedTasksRun  == Pool!AcceptedTasksRun
(* StopAndWait, Restart and WaitAll return.                                *)
PoolCallsReturn   == Pool!PoolCallsReturn
(* The status server closes no descriptor of others.                       *)
ClosesOnlyItsOwn  == Status!ClosesOnlyItsOwn
(* After Stop the status server has neither thread nor socket.             *)
StopLeavesNothing == Status!StopLeavesNothing
(* Stop of the status server returns when clients connect and speak.       *)
StopReturns       == Status!StopReturns
(* A hook's process is waited for, and success means status 0.             *)
NoChildLeft       == Hook!NoChildLeft
(* The call of a hook ends.                                                *)
HookReturns       == Hook!HookReturns
=============================================================================
