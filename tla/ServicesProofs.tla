--------------------------- MODULE ServicesProofs ---------------------------
(* Theorems about the services beside the migration, whatever descriptors, *)
(* threads, tasks and limits there are and whatever the calls.             *)
EXTENDS MCServices, FiniteSetTheorems, TLAPS

\* A step is one of one service; the others stay as they are.
LEMMA PartsStep ==
    ASSUME [Next]_vars
    PROVE  /\ Pool!Next \/ UNCHANGED pool
           /\ Status!Next \/ UNCHANGED server
           /\ Hook!Next \/ UNCHANGED hooks
BY DEF Next, vars

-----------------------------------------------------------------------------
(* The status server.                                                      *)

ChunkSizes == {10, 1000}
Settings == [paused : BOOLEAN, chunk_size : ChunkSizes]

\* The type invariant in three parts: what the descriptors depend on, the
\* Booleans, and the rest.
ServerTyped ==
    /\ server_socket \in Descriptors \union {-1}
    /\ open \in [Descriptors -> {"free", "listen", "client", "other"}]
    /\ server_owner \in {"out", "bind", "close", "join"}
    /\ thread \in {"none", "loop", "load", "accept", "accepting", "recv", "close", "ended"}

ServerFlagsTyped ==
    server_running \in BOOLEAN /\ bind_failed \in BOOLEAN /\ closed_others \in BOOLEAN

ServerRestTyped ==
    /\ argument \in Descriptors \union {-1} /\ starts \in 0..MaxStarts
    /\ settings \in Settings /\ reply \in {"none", "OK", "ERROR"}

LEMMA ServerTypes == ServerTyped /\ ServerFlagsTyped /\ ServerRestTyped => Status!ServerTypeOK
BY DEF ServerTyped, ServerFlagsTyped, ServerRestTyped, Status!ServerTypeOK, Settings, ChunkSizes

\* The number in server_socket is the listening socket's, or what a failed
\* bind has left there.
SocketOfServer ==
    /\ server_socket # -1 =>
        \/ open[server_socket] = "listen"
        \/ bind_failed /\ thread = "none" /\ ~server_running /\ server_owner \in {"out", "close"}
             /\ open[server_socket] \in {"free", "other"}
    /\ server_running \/ server_owner = "bind" => server_socket # -1 /\ open[server_socket] = "listen"
    /\ server_owner = "join" => server_socket = -1
    /\ \A d \in Descriptors : open[d] = "listen" =>
            d = server_socket /\ (server_running \/ server_owner \in {"bind", "close"})

\* The thread has a client's descriptor exactly while it serves the client.
ClientOfThread ==
    /\ server_owner # "out" => ~server_running
    /\ server_owner \in {"out", "bind"} /\ ~server_running => thread = "none"
    /\ \A d \in Descriptors : open[d] = "client" => thread \in {"recv", "close"} /\ argument = d
    /\ thread \in {"recv", "close"} => argument \in Descriptors /\ open[argument] = "client"

ServerInv ==
    /\ ServerTyped /\ ServerFlagsTyped /\ ServerRestTyped
    /\ SocketOfServer /\ ClientOfThread /\ Status!ClosesOnlyItsOwn

LEMMA SettingsChange ==
    ASSUME NEW s \in Settings, NEW size \in ChunkSizes
    PROVE  /\ [s EXCEPT !.paused = TRUE] \in Settings
           /\ [s EXCEPT !.paused = FALSE] \in Settings
           /\ [s EXCEPT !.chunk_size = size] \in Settings
BY DEF Settings

LEMMA CommandTyped ==
    ASSUME NEW command, NEW number \in {0, 10}, settings \in Settings
    PROVE  Status!ProcessCommand(command, number) \in Settings
<1>1. Status!ProcessCommand(command, number) \in
          {settings, [settings EXCEPT !.paused = TRUE], [settings EXCEPT !.paused = FALSE],
           [settings EXCEPT !.chunk_size = 10]}
  BY DEF Status!ProcessCommand
<1>2. 10 \in ChunkSizes
  BY DEF ChunkSizes
<1> QED  BY <1>1, <1>2, SettingsChange

LEMMA FirstSettings == [paused |-> FALSE, chunk_size |-> 1000] \in Settings
BY DEF Settings, ChunkSizes

LEMMA InitServer == Status!Init => ServerInv
<1> SUFFICES ASSUME Status!Init PROVE ServerInv
  OBVIOUS
<1>1. ServerTyped /\ ServerFlagsTyped
  BY DEF Status!Init, ServerTyped, ServerFlagsTyped
<1>2. ServerRestTyped
  <2>1. settings \in Settings
    BY FirstSettings DEF Status!Init
  <2> QED  BY <2>1, ServicesAssumption DEF Status!Init, ServerRestTyped
<1>3. SocketOfServer /\ ClientOfThread /\ Status!ClosesOnlyItsOwn
  BY DEF Status!Init, SocketOfServer, ClientOfThread, Status!ClosesOnlyItsOwn
<1> QED  BY <1>1, <1>2, <1>3 DEF ServerInv

\* The descriptors: who has which, and what the thread does with its own.
LEMMA NextSockets ==
    ASSUME ServerTyped, SocketOfServer, ClientOfThread, Status!ClosesOnlyItsOwn,
           Status!Next \/ UNCHANGED server
    PROVE  ServerTyped' /\ SocketOfServer' /\ ClientOfThread' /\ Status!ClosesOnlyItsOwn'
<1>0. -1 \notin Descriptors
  BY ServicesAssumption
<1> USE <1>0 DEF ServerTyped, SocketOfServer, ClientOfThread, Status!ClosesOnlyItsOwn,
        Status!sockets, Status!history
<1>1. CASE Status!CreateSocket
  BY <1>1 DEF Status!CreateSocket, Status!Free
<1>2. CASE Status!BindAndListen
  BY <1>2 DEF Status!BindAndListen
<1>3. CASE Status!Stop
  BY <1>3 DEF Status!Stop
<1>4. CASE Status!CloseServerSocket
  BY <1>4 DEF Status!CloseServerSocket
<1>5. CASE Status!JoinServerThread
  BY <1>5 DEF Status!JoinServerThread
<1>6. CASE Status!ServerLoop \/ Status!LoadSocket \/ Status!AcceptConnection
  BY <1>6 DEF Status!ServerLoop, Status!LoadSocket, Status!AcceptConnection
<1>7. CASE Status!ClientConnects
  BY <1>7 DEF Status!ClientConnects, Status!Free
<1>8. CASE Status!HandleConnection
  BY <1>8 DEF Status!HandleConnection
<1>9. CASE Status!CloseClientSocket
  BY <1>9 DEF Status!CloseClientSocket
<1>10. CASE Status!OthersOpenAndClose
  BY <1>10 DEF Status!OthersOpenAndClose
<1>11. CASE UNCHANGED server
  BY <1>11 DEF server
<1> QED
  BY <1>1, <1>2, <1>3, <1>4, <1>5, <1>6, <1>7, <1>8, <1>9, <1>10, <1>11
     DEF Status!Next, Status!Owner, Status!ServerThread

LEMMA NextServerRest ==
    ASSUME ServerInv, Status!Next \/ UNCHANGED server
    PROVE  ServerFlagsTyped' /\ ServerRestTyped'
<1> USE ServicesAssumption
    DEF ServerInv, ServerTyped, ServerFlagsTyped, ServerRestTyped, Status!sockets, Status!history
<1>1. CASE Status!CreateSocket
  BY <1>1 DEF Status!CreateSocket
<1>2. CASE Status!Owner /\ ~Status!CreateSocket
  <2>1. UNCHANGED <<argument, starts, settings, reply>>
    BY <1>2 DEF Status!Owner, Status!BindAndListen, Status!Stop, Status!CloseServerSocket,
       Status!JoinServerThread
  <2>2. ServerFlagsTyped'
    BY <1>2 DEF Status!Owner, Status!BindAndListen, Status!Stop, Status!CloseServerSocket,
       Status!JoinServerThread
  <2> QED  BY <2>1, <2>2
<1>3. CASE Status!HandleConnection
  <2>1. settings' \in Settings
    BY <1>3, CommandTyped DEF Status!HandleConnection
  <2>2. reply' \in {"none", "OK", "ERROR"}
    BY <1>3 DEF Status!HandleConnection
  <2> QED  BY <1>3, <2>1, <2>2 DEF Status!HandleConnection
<1>4. CASE Status!ServerThread
  BY <1>4 DEF Status!ServerThread, Status!ServerLoop, Status!LoadSocket, Status!AcceptConnection,
     Status!CloseClientSocket
<1>5. CASE Status!ClientConnects \/ Status!OthersOpenAndClose \/ UNCHANGED server
  BY <1>5 DEF Status!ClientConnects, Status!Free, Status!OthersOpenAndClose, server
<1> QED  BY <1>1, <1>2, <1>3, <1>4, <1>5 DEF Status!Next

LEMMA NextServer == ServerInv /\ (Status!Next \/ UNCHANGED server) => ServerInv'
BY NextSockets, NextServerRest DEF ServerInv

LEMMA ServerInvHolds == Spec => []ServerInv
<1>1. Init => ServerInv
  BY InitServer DEF Init
<1>2. ServerInv /\ [Next]_vars => ServerInv'
  BY NextServer, PartsStep
<1> QED  BY <1>1, <1>2, PTL DEF Spec

(* The server closes only its own descriptors until a bind has failed,     *)
(* however often it is stopped and whatever others open meanwhile.         *)
THEOREM DescriptorsAreItsOwn == Spec => []ClosesOnlyItsOwn
<1>1. ServerInv => ClosesOnlyItsOwn
  BY DEF ServerInv, ClosesOnlyItsOwn
<1> QED  BY <1>1, ServerInvHolds, PTL

(* A Stop that has returned has left no thread and no socket.              *)
THEOREM NothingIsLeft == Spec => []StopLeavesNothing
<1>1. ServerInv => StopLeavesNothing
  BY DEF ServerInv, ServerTyped, SocketOfServer, ClientOfThread,
     StopLeavesNothing, Status!StopLeavesNothing
<1> QED  BY <1>1, ServerInvHolds, PTL

-----------------------------------------------------------------------------
(* A hook and its process.                                                 *)

HookResult == [success : BOOLEAN,
               error : {"none", "not executable", "fork", "exit", "timeout"}]
Waiting == {"check", "kill", "reap"}

HookTyped ==
    /\ result \in HookResult /\ elapsed \in 0..(Timeout + 1)
    /\ child \in {"none", "running", "reaped"} \union Hook!Endings
    /\ pc \in {"out", "fork", "test", "poll", "report"} \union Waiting

HookRestTyped ==
    /\ registered \in BOOLEAN /\ ended \in {"none"} \union Hook!Endings
    /\ stranger \in BOOLEAN /\ killed_other \in BOOLEAN /\ last_error \in BOOLEAN

LEMMA HookTypes == HookTyped /\ HookRestTyped => Hook!HooksTypeOK
BY DEF HookTyped, HookRestTyped, Hook!HooksTypeOK, HookResult, Waiting

\* What has become of the child at each step of ExecuteHook: it runs until
\* it ends, and is not a success before it has been waited for.
ChildOfHook ==
    /\ child # "none" \/ pc # "out" => registered
    /\ child \in Hook!Endings => ended = child
    /\ result.success /\ child = "reaped" => ended = "zero"
    /\ pc \in {"out", "report"} => child \in {"none", "reaped"}
    /\ pc = "fork" => child = "none"
    /\ pc \in {"test", "poll"} => child \in {"running"} \union Hook!Endings
    /\ pc \in Waiting => child # "none"
    /\ pc = "check" => child = "reaped" \/ elapsed >= Timeout
    /\ pc # "out" /\ child # "reaped" => ~result.success

HookInv == HookTyped /\ HookRestTyped /\ ChildOfHook

LEMMA FailedIsResult ==
    \A why \in {"none", "not executable", "fork", "exit"} :
        Hook!Failed(why) \in HookResult /\ Hook!Failed(why).success = FALSE
BY DEF Hook!Failed, HookResult

LEMMA ResultChanges ==
    ASSUME NEW r \in HookResult
    PROVE  /\ [r EXCEPT !.success = TRUE] \in HookResult
           /\ [r EXCEPT !.error = "timeout"] \in HookResult
           /\ [r EXCEPT !.error = "timeout"].success = r.success
BY DEF HookResult

LEMMA SuccessIsResult == Hook!Success \in HookResult
BY DEF Hook!Success, HookResult

LEMMA InitHook == Hook!Init => HookInv
<1> SUFFICES ASSUME Hook!Init PROVE HookInv
  OBVIOUS
<1>1. HookTyped
  BY SuccessIsResult, ServicesAssumption DEF Hook!Init, HookTyped
<1>2. HookRestTyped /\ ChildOfHook
  BY DEF Hook!Init, HookRestTyped, ChildOfHook, Hook!Endings, Waiting
<1> QED  BY <1>1, <1>2 DEF HookInv

LEMMA NextChild ==
    ASSUME HookTyped, ChildOfHook, Hook!Next \/ UNCHANGED hooks
    PROVE  HookTyped' /\ ChildOfHook'
<1> USE ServicesAssumption DEF HookTyped, ChildOfHook, Hook!Endings, Waiting, Hook!process
<1>1. CASE Hook!Initialize \/ Hook!TimePasses \/ Hook!NumberReused \/ UNCHANGED hooks
  BY <1>1 DEF Hook!Initialize, Hook!TimePasses, Hook!NumberReused, hooks
<1>2. CASE Hook!ExecuteHook
  <2>1. CASE ~registered
    BY <1>2, <2>1, SuccessIsResult DEF Hook!ExecuteHook
  <2>2. CASE registered /\ result' = Hook!Failed("not executable")
               /\ UNCHANGED <<pc, elapsed, child, ended, stranger, killed_other>>
    <3>1. result' \in HookResult /\ ~result'.success
      BY <2>2, FailedIsResult
    <3> QED  BY <1>2, <2>2, <3>1 DEF Hook!ExecuteHook
  <2>3. CASE registered /\ pc' = "fork" /\ result' = Hook!Failed("none")
    <3>1. result' \in HookResult /\ ~result'.success
      BY <2>3, FailedIsResult
    <3> QED  BY <1>2, <2>3, <3>1 DEF Hook!ExecuteHook
  <2> QED  BY <1>2, <2>1, <2>2, <2>3 DEF Hook!ExecuteHook
<1>3. CASE Hook!Fork
  BY <1>3, FailedIsResult DEF Hook!Fork
<1>4. CASE Hook!TestTime \/ Hook!CheckTimeout
  BY <1>4 DEF Hook!TestTime, Hook!CheckTimeout
<1>5. CASE Hook!Poll
  <2>1. CASE child = "zero"
    <3>1. result' = [result EXCEPT !.success = TRUE]
      BY <1>5, <2>1 DEF Hook!Poll
    <3>2. result' \in HookResult
      BY <3>1, ResultChanges
    <3> QED  BY <1>5, <2>1, <3>2 DEF Hook!Poll
  <2>2. CASE child # "zero"
    BY <1>5, <2>2, FailedIsResult DEF Hook!Poll
  <2> QED  BY <2>1, <2>2
<1>6. CASE Hook!Kill
  BY <1>6 DEF Hook!Kill
<1>7. CASE Hook!Reap
  <2>1. result' = [result EXCEPT !.error = "timeout"]
    BY <1>7 DEF Hook!Reap
  <2>2. result' \in HookResult /\ result'.success = result.success
    BY <2>1, ResultChanges
  <2> QED  BY <1>7, <2>2 DEF Hook!Reap
<1>8. CASE Hook!Report
  BY <1>8 DEF Hook!Report
<1>9. CASE Hook!ChildEnds
  BY <1>9 DEF Hook!ChildEnds
<1> QED
  BY <1>1, <1>2, <1>3, <1>4, <1>5, <1>6, <1>7, <1>8, <1>9 DEF Hook!Next, Hook!Executor

LEMMA NextHookRest ==
    ASSUME HookRestTyped, Hook!Next \/ UNCHANGED hooks
    PROVE  HookRestTyped'
<1> USE DEF HookRestTyped, Hook!Endings, Hook!process
<1>1. CASE Hook!Initialize \/ Hook!TimePasses \/ Hook!NumberReused \/ Hook!ChildEnds \/ UNCHANGED hooks
  BY <1>1 DEF Hook!Initialize, Hook!TimePasses, Hook!NumberReused, Hook!ChildEnds, hooks
<1>2. CASE Hook!ExecuteHook \/ Hook!Fork \/ Hook!TestTime \/ Hook!Poll \/ Hook!CheckTimeout
  BY <1>2 DEF Hook!ExecuteHook, Hook!Fork, Hook!TestTime, Hook!Poll, Hook!CheckTimeout
<1>3. CASE Hook!Kill \/ Hook!Reap \/ Hook!Report
  BY <1>3 DEF Hook!Kill, Hook!Reap, Hook!Report
<1> QED  BY <1>1, <1>2, <1>3 DEF Hook!Next, Hook!Executor

LEMMA NextHook == HookInv /\ (Hook!Next \/ UNCHANGED hooks) => HookInv'
BY NextChild, NextHookRest DEF HookInv

LEMMA HookInvHolds == Spec => []HookInv
<1>1. Init => HookInv
  BY InitHook DEF Init
<1>2. HookInv /\ [Next]_vars => HookInv'
  BY NextHook, PartsStep
<1> QED  BY <1>1, <1>2, PTL DEF Spec

(* When the call of a hook is over its process has been waited for, and    *)
(* only one that has ended with status 0 is a success.                     *)
THEOREM ChildIsWaitedFor == Spec => []NoChildLeft
<1>1. HookInv => NoChildLeft
  BY DEF HookInv, ChildOfHook, NoChildLeft, Hook!NoChildLeft
<1> QED  BY <1>1, HookInvHolds, PTL

-----------------------------------------------------------------------------
(* The thread pool: types.                                                 *)

Crew == {"test", "wait", "run", "notify"}
Runners == {w \in Workers : worker[w] = "run"}

\* A worker that runs has the one task it has taken, and is counted.
CrewTyped ==
    /\ worker \in [Workers -> {"none", "ended"} \union Crew]
    /\ job \in [Workers -> Tasks \union {"none"}]
    /\ \A w \in Workers : job[w] \in IF worker[w] = "run" THEN Tasks ELSE {"none"}
    /\ active_tasks = Cardinality(Runners)

QueueTyped ==
    tasks \in Seq(Tasks) /\ accepted \subseteq Tasks /\ finished \in [Tasks -> Nat]

\* The owner's calls; the threads of a Restart are some of Sizes.
OwnerTyped ==
    /\ num_threads \in Sizes /\ resize \in Sizes \union {0} /\ controls \in 0..MaxControls
    /\ pool_owner \in {"out", "stop", "stopAndWait", "restart", "join", "joinToStart", "start"}
    /\ pool_owner \in {"restart", "joinToStart", "start"} => resize \in Sizes

PoolFlagsTyped == pool_running \in BOOLEAN /\ stopped \in BOOLEAN /\ pool_running = ~stopped

ClientsTyped == client \in [Clients -> {"out", "notify", "wait", "test"}]

PoolTyped == CrewTyped /\ QueueTyped /\ OwnerTyped /\ PoolFlagsTyped /\ ClientsTyped

\* ThreadPool's Cardinality is that of FiniteSets.
LEMMA SameCardinality == ASSUME NEW S PROVE Pool!Cardinality(S) = Cardinality(S)
BY DEF Pool!Cardinality, Cardinality

LEMMA PoolTypes == PoolTyped => Pool!PoolTypeOK
<1> SUFFICES ASSUME PoolTyped PROVE Pool!PoolTypeOK
  OBVIOUS
<1>1. worker \in [Workers -> {"none", "test", "wait", "run", "notify", "ended"}]
  BY DEF PoolTyped, CrewTyped, Crew
<1>2. /\ \A w \in Workers : job[w] \in IF worker[w] = "run" THEN Tasks ELSE {"none"}
      /\ active_tasks = Pool!Cardinality({w \in Workers : worker[w] = "run"})
  BY SameCardinality DEF PoolTyped, CrewTyped, Runners
<1>3. accepted \subseteq Tasks /\ tasks \in Seq(Tasks) /\ finished \in [Tasks -> Nat]
  BY DEF PoolTyped, QueueTyped
<1>4. /\ num_threads \in Sizes /\ resize \in Sizes \union {0} /\ controls \in 0..MaxControls
      /\ pool_owner \in {"out", "stop", "stopAndWait", "restart", "join", "joinToStart", "start"}
  BY DEF PoolTyped, OwnerTyped
<1>5. /\ pool_running \in BOOLEAN /\ stopped \in BOOLEAN
      /\ client \in [Clients -> {"out", "notify", "wait", "test"}]
  BY DEF PoolTyped, PoolFlagsTyped, ClientsTyped
<1> QED  BY <1>1, <1>2, <1>3, <1>4, <1>5 DEF Pool!PoolTypeOK

LEMMA RunnersFinite == IsFiniteSet(Runners)
BY FS_Subset, ServicesAssumption DEF Runners

\* A step that ends no run and begins none.
LEMMA SameCrew ==
    ASSUME CrewTyped, UNCHANGED <<job, active_tasks>>,
           worker' \in [Workers -> {"none", "ended"} \union Crew],
           \A w \in Workers : worker'[w] = "run" <=> worker[w] = "run"
    PROVE  CrewTyped' /\ Runners' = Runners
<1>1. Runners' = Runners
  BY DEF Runners
<1> QED  BY <1>1 DEF CrewTyped

\* A notification: sleeping workers look at the queue again.
LEMMA WorkersWake ==
    ASSUME CrewTyped, NEW ts \in SUBSET Pool!Sleepers, worker' = Pool!Wake(worker, ts)
    PROVE  /\ worker' \in [Workers -> {"none", "ended"} \union Crew]
           /\ \A w \in Workers : worker'[w] = "run" <=> worker[w] = "run"
           /\ \A w \in Workers : worker[w] \in Crew => worker'[w] \in Crew
<1>1. worker' = [w \in Workers |-> IF w \in ts THEN "test" ELSE worker[w]]
  BY DEF Pool!Wake, CrewTyped
<1>2. \A w \in ts : worker[w] = "wait"
  BY DEF Pool!Sleepers
<1> QED  BY <1>1, <1>2 DEF CrewTyped, Crew

\* Start, which also Restart ends with: new threads, if the pool was stopped.
LEMMA StartEffect ==
    ASSUME CrewTyped, Pool!Start
    PROVE  /\ worker' \in [Workers -> {"none", "ended"} \union Crew]
           /\ \A w \in Workers : worker[w] # "none" => worker'[w] = worker[w]
           /\ \A w \in Workers : worker[w] = "none" => worker'[w] \in {"none", "test"}
<1>1. CASE pool_running
  BY <1>1 DEF Pool!Start, CrewTyped
<1>2. CASE ~pool_running
  <2>1. PICK new \in SUBSET (Workers \ Pool!Threads) :
            worker' = [w \in Workers |-> IF w \in new THEN "test" ELSE worker[w]]
    BY <1>2 DEF Pool!Start, Pool!Launch
  <2>2. \A w \in new : worker[w] = "none"
    BY DEF Pool!Threads
  <2> QED  BY <2>1, <2>2 DEF CrewTyped, Crew
<1> QED  BY <1>1, <1>2

LEMMA StartCrew ==
    ASSUME CrewTyped, Pool!Start
    PROVE  CrewTyped' /\ Runners' = Runners
<1>1. UNCHANGED <<job, active_tasks>>
  BY DEF Pool!Start
<1>2. \A w \in Workers : worker'[w] = "run" <=> worker[w] = "run"
  BY StartEffect
<1> QED  BY <1>1, <1>2, StartEffect, SameCrew

\* A worker takes the first task.
LEMMA TakeCrew ==
    ASSUME CrewTyped, QueueTyped, NEW w \in Workers, Pool!AwaitTask(w), tasks # <<>>
    PROVE  CrewTyped' /\ Runners' = Runners \union {w} /\ w \notin Runners
<1>1. /\ worker[w] = "test" /\ worker' = [worker EXCEPT ![w] = "run"]
      /\ job' = [job EXCEPT ![w] = Head(tasks)] /\ active_tasks' = active_tasks + 1
  BY DEF Pool!AwaitTask
<1>2. Head(tasks) \in Tasks
  BY DEF QueueTyped
<1>3. Runners' = Runners \union {w} /\ w \notin Runners
  BY <1>1 DEF CrewTyped, Runners
<1>4. active_tasks' = Cardinality(Runners')
  BY <1>1, <1>3, RunnersFinite, FS_AddElement DEF CrewTyped
<1>5. worker' \in [Workers -> {"none", "ended"} \union Crew] /\ job' \in [Workers -> Tasks \union {"none"}]
  BY <1>1, <1>2 DEF CrewTyped, Crew
<1>6. \A v \in Workers : job'[v] \in IF worker'[v] = "run" THEN Tasks ELSE {"none"}
  BY <1>1, <1>2 DEF CrewTyped
<1> QED  BY <1>3, <1>4, <1>5, <1>6 DEF CrewTyped

\* A worker finds nothing: it sleeps, or leaves a stopped pool.
LEMMA RestCrew ==
    ASSUME CrewTyped, NEW w \in Workers, Pool!AwaitTask(w), tasks = <<>>
    PROVE  CrewTyped' /\ Runners' = Runners
<1>1. /\ worker[w] = "test" /\ worker' = [worker EXCEPT ![w] = IF stopped THEN "ended" ELSE "wait"]
      /\ UNCHANGED <<job, active_tasks>>
  BY DEF Pool!AwaitTask
<1>2. worker' \in [Workers -> {"none", "ended"} \union Crew]
  BY <1>1 DEF CrewTyped, Crew
<1>3. \A v \in Workers : worker'[v] = "run" <=> worker[v] = "run"
  BY <1>1 DEF CrewTyped
<1> QED  BY <1>1, <1>2, <1>3, SameCrew

LEMMA FinishCrew ==
    ASSUME CrewTyped, NEW w \in Workers, Pool!FinishTask(w)
    PROVE  CrewTyped' /\ Runners' = Runners \ {w} /\ w \in Runners /\ job[w] \in Tasks
<1>1. /\ worker[w] = "run" /\ worker' = [worker EXCEPT ![w] = "notify"]
      /\ job' = [job EXCEPT ![w] = "none"] /\ active_tasks' = active_tasks - 1
  BY DEF Pool!FinishTask
<1>2. Runners' = Runners \ {w} /\ w \in Runners
  BY <1>1 DEF CrewTyped, Runners
<1>3. active_tasks' = Cardinality(Runners')
  BY <1>1, <1>2, RunnersFinite, FS_RemoveElement DEF CrewTyped
<1>4. worker' \in [Workers -> {"none", "ended"} \union Crew] /\ job' \in [Workers -> Tasks \union {"none"}]
  BY <1>1 DEF CrewTyped, Crew
<1>5. \A v \in Workers : job'[v] \in IF worker'[v] = "run" THEN Tasks ELSE {"none"}
  BY <1>1 DEF CrewTyped
<1>6. job[w] \in Tasks
  BY <1>1 DEF CrewTyped
<1> QED  BY <1>2, <1>3, <1>4, <1>5, <1>6 DEF CrewTyped

LEMMA NotifyCompletedCrew ==
    ASSUME CrewTyped, NEW w \in Workers, Pool!NotifyCompleted(w)
    PROVE  CrewTyped' /\ Runners' = Runners
<1>1. worker[w] = "notify" /\ worker' = [worker EXCEPT ![w] = "test"] /\ UNCHANGED <<job, active_tasks>>
  BY DEF Pool!NotifyCompleted
<1>2. worker' \in [Workers -> {"none", "ended"} \union Crew]
  BY <1>1 DEF CrewTyped, Crew
<1>3. \A v \in Workers : worker'[v] = "run" <=> worker[v] = "run"
  BY <1>1 DEF CrewTyped
<1> QED  BY <1>1, <1>2, <1>3, SameCrew

LEMMA NotifyCrew ==
    ASSUME CrewTyped, Pool!NotifyStop \/ \E c \in Clients : Pool!NotifyOne(c)
    PROVE  CrewTyped' /\ Runners' = Runners /\ \A w \in Workers : worker[w] \in Crew => worker'[w] \in Crew
<1>1. UNCHANGED <<job, active_tasks>>
  BY DEF Pool!NotifyStop, Pool!NotifyOne
<1>2. UNCHANGED worker \/ \E ts \in SUBSET Pool!Sleepers : worker' = Pool!Wake(worker, ts)
  BY DEF Pool!NotifyStop, Pool!NotifyOne
<1>3. CASE UNCHANGED worker
  BY <1>1, <1>3 DEF CrewTyped, Runners
<1>4. CASE \E ts \in SUBSET Pool!Sleepers : worker' = Pool!Wake(worker, ts)
  BY <1>1, <1>4, WorkersWake, SameCrew
<1> QED  BY <1>2, <1>3, <1>4

LEMMA JoinCrew ==
    ASSUME CrewTyped, Pool!Join
    PROVE  /\ CrewTyped' /\ Runners' = Runners /\ Runners = {}
           /\ \A w \in Workers : worker[w] \notin Crew
<1>1. \A w \in Workers : worker[w] \in {"none", "ended"}
  BY DEF Pool!Join, Pool!Threads
<1>2. worker' = [w \in Workers |-> "none"] /\ UNCHANGED <<job, active_tasks>>
  BY DEF Pool!Join
<1>3. Runners = {} /\ \A w \in Workers : worker[w] \notin Crew
  BY <1>1 DEF Runners, Crew
<1>4. CrewTyped' /\ Runners' = Runners
  BY <1>1, <1>2, SameCrew
<1> QED  BY <1>3, <1>4

LEMMA CrewSteps ==
    ASSUME CrewTyped, QueueTyped, Pool!Next \/ UNCHANGED pool
    PROVE  CrewTyped'
<1>1. ASSUME NEW w \in Workers, Pool!AwaitTask(w) PROVE CrewTyped'
  BY <1>1, TakeCrew, RestCrew
<1>2. CASE Pool!CallStart \/ Pool!StartAgain
  BY <1>2, StartCrew DEF Pool!CallStart, Pool!StartAgain
<1>3. CASE Pool!CallStop \/ UNCHANGED pool
  BY <1>3 DEF Pool!CallStop, Pool!pool, pool, CrewTyped, Runners
<1>4. ASSUME NEW c \in Clients, (\E t \in Tasks : Pool!Submit(c, t)) \/ Pool!WaitAll(c) PROVE CrewTyped'
  BY <1>4 DEF Pool!Submit, Pool!WaitAll, Pool!pool, CrewTyped, Runners
<1> QED
  BY <1>1, <1>2, <1>3, <1>4, FinishCrew, NotifyCompletedCrew, NotifyCrew, JoinCrew
     DEF Pool!Next, Pool!WorkerThread, Pool!Owner, Pool!Client

LEMMA SequencesTyped ==
    /\ <<>> \in Seq(Tasks)
    /\ \A s \in Seq(Tasks) : s # <<>> => Tail(s) \in Seq(Tasks)
<1>1. <<>> \in Seq(Tasks)
  OBVIOUS
<1>2. ASSUME NEW s \in Seq(Tasks), s # <<>> PROVE Tail(s) \in Seq(Tasks)
  BY <1>2
<1> QED  BY <1>1, <1>2

LEMMA QueueSteps ==
    ASSUME CrewTyped, QueueTyped, Pool!Next \/ UNCHANGED pool
    PROVE  QueueTyped'
<1> USE DEF QueueTyped
<1>1. ASSUME NEW w \in Workers, Pool!AwaitTask(w) PROVE QueueTyped'
  <2>1. tasks' = tasks \/ (tasks # <<>> /\ tasks' = Tail(tasks))
    BY <1>1 DEF Pool!AwaitTask
  <2>2. tasks' \in Seq(Tasks)
    BY <2>1, SequencesTyped
  <2> QED  BY <1>1, <2>2 DEF Pool!AwaitTask
<1>2. ASSUME NEW w \in Workers, Pool!FinishTask(w) PROVE QueueTyped'
  <2>1. job[w] \in Tasks
    BY <1>2, FinishCrew
  <2> QED  BY <1>2, <2>1 DEF Pool!FinishTask
<1>3. ASSUME NEW w \in Workers, Pool!NotifyCompleted(w) PROVE QueueTyped'
  BY <1>3 DEF Pool!NotifyCompleted
<1>4. CASE Pool!Owner
  <2>1. (tasks' = tasks \/ tasks' = <<>>) /\ UNCHANGED <<accepted, finished>>
    BY <1>4 DEF Pool!Owner, Pool!CallStart, Pool!StartAgain, Pool!Start, Pool!CallStop,
       Pool!NotifyStop, Pool!Join, Pool!pool
  <2> QED  BY <2>1, SequencesTyped
<1>5. ASSUME NEW c \in Clients, NEW t \in Tasks, Pool!Submit(c, t) PROVE QueueTyped'
  BY <1>5 DEF Pool!Submit
<1>6. ASSUME NEW c \in Clients, Pool!NotifyOne(c) \/ Pool!WaitAll(c) PROVE QueueTyped'
  BY <1>6 DEF Pool!NotifyOne, Pool!WaitAll, Pool!pool
<1>7. CASE UNCHANGED pool
  BY <1>7 DEF pool
<1> QED
  BY <1>1, <1>2, <1>3, <1>4, <1>5, <1>6, <1>7 DEF Pool!Next, Pool!WorkerThread, Pool!Client

LEMMA OwnerSteps ==
    ASSUME OwnerTyped, PoolFlagsTyped, Pool!Next \/ UNCHANGED pool
    PROVE  OwnerTyped' /\ PoolFlagsTyped'
<1> USE ServicesAssumption DEF Pool!flags, Pool!control
<1>1. CASE Pool!CallStart \/ Pool!StartAgain
  <2>1. OwnerTyped'
    BY <1>1 DEF Pool!CallStart, Pool!StartAgain, OwnerTyped
  <2>2. Pool!Start
    BY <1>1 DEF Pool!CallStart, Pool!StartAgain
  <2>3. PoolFlagsTyped'
    BY <2>2 DEF Pool!Start, PoolFlagsTyped
  <2> QED  BY <2>1, <2>3
<1>2. CASE Pool!CallStop
  <2>1. OwnerTyped'
    BY <1>2 DEF Pool!CallStop, OwnerTyped
  <2>2. PoolFlagsTyped'
    BY <1>2 DEF Pool!CallStop, PoolFlagsTyped
  <2> QED  BY <2>1, <2>2
<1>3. CASE Pool!NotifyStop \/ Pool!Join
  <2>1. OwnerTyped'
    BY <1>3 DEF Pool!NotifyStop, Pool!Join, OwnerTyped
  <2>2. PoolFlagsTyped'
    BY <1>3 DEF Pool!NotifyStop, Pool!Join, PoolFlagsTyped
  <2> QED  BY <2>1, <2>2
<1>4. ASSUME UNCHANGED <<pool_running, stopped, num_threads, pool_owner, resize, controls>>
      PROVE  OwnerTyped' /\ PoolFlagsTyped'
  BY <1>4 DEF OwnerTyped, PoolFlagsTyped
<1>5. ASSUME NEW w \in Workers, Pool!WorkerThread(w) PROVE OwnerTyped' /\ PoolFlagsTyped'
  BY <1>4, <1>5 DEF Pool!WorkerThread, Pool!AwaitTask, Pool!FinishTask, Pool!NotifyCompleted
<1>6. ASSUME NEW c \in Clients, Pool!Client(c) PROVE OwnerTyped' /\ PoolFlagsTyped'
  BY <1>4, <1>6 DEF Pool!Client, Pool!Submit, Pool!NotifyOne, Pool!WaitAll
<1>7. CASE UNCHANGED pool
  BY <1>4, <1>7 DEF pool
<1> QED  BY <1>1, <1>2, <1>3, <1>5, <1>6, <1>7 DEF Pool!Next, Pool!Owner

LEMMA ClientSteps ==
    ASSUME ClientsTyped, Pool!Next \/ UNCHANGED pool
    PROVE  ClientsTyped'
<1> USE DEF ClientsTyped
<1>1. ASSUME NEW w \in Workers, Pool!AwaitTask(w) \/ Pool!FinishTask(w) PROVE ClientsTyped'
  BY <1>1 DEF Pool!AwaitTask, Pool!FinishTask
<1>2. ASSUME NEW w \in Workers, Pool!NotifyCompleted(w) PROVE ClientsTyped'
  BY <1>2 DEF Pool!NotifyCompleted, Pool!Wake
<1>3. CASE Pool!Owner \/ UNCHANGED pool
  <2>1. UNCHANGED client
    BY <1>3 DEF Pool!Owner, Pool!CallStart, Pool!StartAgain, Pool!Start, Pool!CallStop,
       Pool!NotifyStop, Pool!Join, pool
  <2> QED  BY <2>1
<1>4. ASSUME NEW c \in Clients, Pool!Client(c) PROVE ClientsTyped'
  BY <1>4 DEF Pool!Client, Pool!Submit, Pool!NotifyOne, Pool!WaitAll
<1> QED  BY <1>1, <1>2, <1>3, <1>4 DEF Pool!Next, Pool!WorkerThread

LEMMA InitPool == Pool!Init => PoolTyped
<1> SUFFICES ASSUME Pool!Init PROVE PoolTyped
  OBVIOUS
<1>1. Runners = {}
  BY DEF Pool!Init, Runners
<1>2. CrewTyped
  BY <1>1, FS_EmptySet DEF Pool!Init, CrewTyped, Crew
<1>3. QueueTyped
  BY DEF Pool!Init, QueueTyped
<1>4. OwnerTyped
  BY ServicesAssumption DEF Pool!Init, OwnerTyped
<1>5. PoolFlagsTyped /\ ClientsTyped
  BY DEF Pool!Init, PoolFlagsTyped, ClientsTyped
<1> QED  BY <1>2, <1>3, <1>4, <1>5 DEF PoolTyped

LEMMA NextPool == PoolTyped /\ (Pool!Next \/ UNCHANGED pool) => PoolTyped'
BY CrewSteps, QueueSteps, OwnerSteps, ClientSteps DEF PoolTyped

LEMMA PoolTypedHolds == Spec => []PoolTyped
<1>1. Init => PoolTyped
  BY InitPool DEF Init
<1>2. PoolTyped /\ [Next]_vars => PoolTyped'
  BY NextPool, PartsStep
<1> QED  BY <1>1, <1>2, PTL DEF Spec

(* Every variable of the services has its type; in particular the pool's   *)
(* counter of running tasks is the number of workers that run one, and     *)
(* never below zero.                                                       *)
THEOREM TypeCorrect == Spec => []TypeOK
<1>1. PoolTyped /\ ServerInv /\ HookInv => TypeOK
  BY PoolTypes, ServerTypes, HookTypes DEF ServerInv, HookInv, TypeOK
<1> QED  BY <1>1, PoolTypedHolds, ServerInvHolds, HookInvHolds, PTL

-----------------------------------------------------------------------------
(* The thread pool: where a task is.                                       *)

\* No task is in two places at once.
TasksApart ==
    /\ \A i, j \in 1..Len(tasks) : tasks[i] = tasks[j] => i = j
    /\ \A v, w \in Runners : job[v] = job[w] => v = w
    /\ \A w \in Runners, i \in 1..Len(tasks) : job[w] # tasks[i]

\* A task that waits or runs has been accepted and has not finished, and an
\* accepted one that has not finished waits or runs; none finishes twice.
Queued(t) == \E i \in 1..Len(tasks) : tasks[i] = t
Taken(t)  == \E w \in Runners : job[w] = t

TasksAccounted ==
    \A t \in Tasks :
        /\ finished[t] \in {0, 1}
        /\ Queued(t) \/ Taken(t) => t \in accepted /\ finished[t] = 0
        /\ t \in accepted => finished[t] = 1 \/ Queued(t) \/ Taken(t)
        /\ t \notin accepted => finished[t] = 0

\* A pool that takes tasks, or has some left, has a worker that will look
\* for them: the last worker does not leave before the queue is empty.
Staffed == ~stopped \/ tasks # <<>> => \E w \in Workers : worker[w] \in Crew

PoolInv == PoolTyped /\ TasksApart /\ TasksAccounted /\ Staffed

\* The tasks stay where they are.
LEMMA SamePlaces ==
    ASSUME TasksApart, TasksAccounted,
           UNCHANGED <<tasks, job, accepted, finished>>, Runners' = Runners
    PROVE  TasksApart' /\ TasksAccounted'
<1>1. TasksApart'
  BY DEF TasksApart
<1>2. \A t \in Tasks : (Queued(t)' <=> Queued(t)) /\ (Taken(t)' <=> Taken(t))
  BY DEF Queued, Taken
<1> QED  BY <1>1, <1>2 DEF TasksAccounted

\* What is in a queue of which the first has been taken.
LEMMA TailPlaces ==
    ASSUME NEW s \in Seq(Tasks), s # <<>>
    PROVE  /\ Head(s) = s[1] /\ 1 \in 1..Len(s)
           /\ Len(Tail(s)) = Len(s) - 1 /\ Len(s) \in Nat
           /\ \A i \in 1..Len(Tail(s)) : i + 1 \in 2..Len(s) /\ Tail(s)[i] = s[i + 1]
           /\ \A i \in 2..Len(s) : i - 1 \in 1..Len(Tail(s)) /\ Tail(s)[i - 1] = s[i]
OBVIOUS

LEMMA TakePlaces ==
    ASSUME PoolTyped, TasksApart, TasksAccounted, NEW w \in Workers,
           Pool!AwaitTask(w), tasks # <<>>
    PROVE  TasksApart' /\ TasksAccounted'
<1> USE DEF PoolTyped, QueueTyped
<1>1. /\ worker[w] = "test" /\ job' = [job EXCEPT ![w] = Head(tasks)]
      /\ tasks' = Tail(tasks) /\ UNCHANGED <<accepted, finished>>
  BY DEF Pool!AwaitTask
<1>2. Runners' = Runners \union {w} /\ w \notin Runners
  BY TakeCrew
<1>3. job'[w] = tasks[1] /\ \A v \in Runners : job'[v] = job[v]
  BY <1>1, <1>2, TailPlaces DEF CrewTyped, Runners
<1>4. TasksApart'
  <2>1. \A i, j \in 1..Len(tasks') : tasks'[i] = tasks'[j] => i = j
    BY <1>1, TailPlaces DEF TasksApart
  <2>2. \A v, u \in Runners' : job'[v] = job'[u] => v = u
    BY <1>2, <1>3, TailPlaces DEF TasksApart
  <2>3. \A v \in Runners', i \in 1..Len(tasks') : job'[v] # tasks'[i]
    <3> SUFFICES ASSUME NEW v \in Runners', NEW i \in 1..Len(tasks') PROVE job'[v] # tasks'[i]
      OBVIOUS
    <3>1. tasks'[i] = tasks[i + 1] /\ i + 1 \in 1..Len(tasks) /\ i + 1 # 1
      BY <1>1, TailPlaces
    <3>2. CASE v = w
      BY <3>1, <3>2, <1>3, TailPlaces DEF TasksApart
    <3>3. CASE v # w
      BY <3>1, <3>3, <1>2, <1>3 DEF TasksApart
    <3> QED  BY <3>2, <3>3
  <2> QED  BY <2>1, <2>2, <2>3 DEF TasksApart
<1>5. \A t \in Tasks : (Queued(t) \/ Taken(t))' <=> Queued(t) \/ Taken(t)
  <2> SUFFICES ASSUME NEW t \in Tasks
               PROVE  (Queued(t) \/ Taken(t))' <=> Queued(t) \/ Taken(t)
    OBVIOUS
  <2>1. Taken(t)' <=> Taken(t) \/ tasks[1] = t
    BY <1>2, <1>3 DEF Taken
  <2>2. Queued(t) <=> tasks[1] = t \/ \E i \in 2..Len(tasks) : tasks[i] = t
    BY TailPlaces DEF Queued
  <2>3. Queued(t)' <=> \E i \in 2..Len(tasks) : tasks[i] = t
    <3>1. Queued(t)' <=> \E i \in 1..Len(Tail(tasks)) : Tail(tasks)[i] = t
      BY <1>1 DEF Queued
    <3>2. ASSUME NEW i \in 1..Len(Tail(tasks)), Tail(tasks)[i] = t
          PROVE  \E j \in 2..Len(tasks) : tasks[j] = t
      BY <3>2, TailPlaces
    <3>3. ASSUME NEW i \in 2..Len(tasks), tasks[i] = t
          PROVE  \E j \in 1..Len(Tail(tasks)) : Tail(tasks)[j] = t
      BY <3>3, TailPlaces
    <3> QED  BY <3>1, <3>2, <3>3
  <2> QED  BY <2>1, <2>2, <2>3
<1>6. TasksAccounted'
  BY <1>1, <1>5 DEF TasksAccounted
<1> QED  BY <1>4, <1>6

LEMMA FinishPlaces ==
    ASSUME PoolTyped, TasksApart, TasksAccounted, NEW w \in Workers, Pool!FinishTask(w)
    PROVE  TasksApart' /\ TasksAccounted'
<1> USE DEF PoolTyped, QueueTyped
<1>1. /\ job' = [job EXCEPT ![w] = "none"] /\ UNCHANGED <<tasks, accepted>>
      /\ finished' = [finished EXCEPT ![job[w]] = @ + 1]
  BY DEF Pool!FinishTask
<1>2. Runners' = Runners \ {w} /\ w \in Runners /\ job[w] \in Tasks
  BY FinishCrew
<1>3. \A v \in Runners' : job'[v] = job[v]
  BY <1>1, <1>2 DEF CrewTyped, Runners
<1>4. TasksApart'
  BY <1>1, <1>2, <1>3 DEF TasksApart
<1>5. ASSUME NEW t \in Tasks, t # job[w]
      PROVE  (Queued(t)' <=> Queued(t)) /\ (Taken(t)' <=> Taken(t)) /\ finished'[t] = finished[t]
  BY <1>1, <1>2, <1>3, <1>5 DEF Queued, Taken
<1>6. ASSUME NEW t \in Tasks, t = job[w] PROVE ~Queued(t)' /\ ~Taken(t)'
  BY <1>1, <1>2, <1>3, <1>6 DEF TasksApart, Queued, Taken
<1>7. job[w] \in accepted /\ finished[job[w]] = 0
  BY <1>2 DEF TasksAccounted, Taken
<1>8. finished'[job[w]] = 1
  BY <1>1, <1>2, <1>7
<1>9. TasksAccounted'
  <2> SUFFICES ASSUME NEW t \in Tasks
               PROVE  /\ finished'[t] \in {0, 1}
                      /\ Queued(t)' \/ Taken(t)' => t \in accepted' /\ finished'[t] = 0
                      /\ t \in accepted' => finished'[t] = 1 \/ Queued(t)' \/ Taken(t)'
                      /\ t \notin accepted' => finished'[t] = 0
    BY DEF TasksAccounted
  <2>1. CASE t = job[w]
    <3>1. t \in accepted' /\ finished'[t] = 1
      BY <1>1, <1>7, <1>8, <2>1
    <3> QED  BY <1>6, <2>1, <3>1
  <2>2. CASE t # job[w]
    BY <1>1, <1>5, <2>2 DEF TasksAccounted
  <2> QED  BY <2>1, <2>2
<1> QED  BY <1>4, <1>9

\* A new task is appended.
LEMMA SubmitPlaces ==
    ASSUME PoolTyped, TasksApart, TasksAccounted, NEW c \in Clients, NEW t \in Tasks,
           Pool!Submit(c, t)
    PROVE  TasksApart' /\ TasksAccounted'
<1> USE DEF PoolTyped, QueueTyped
<1>1. /\ t \notin accepted /\ tasks' = Append(tasks, t) /\ accepted' = accepted \union {t}
      /\ UNCHANGED <<job, worker, finished>>
  BY DEF Pool!Submit
<1>2. Runners' = Runners
  BY <1>1 DEF Runners
<1>3. ~Queued(t) /\ ~Taken(t) /\ finished[t] = 0
  BY <1>1 DEF TasksAccounted
<1>4. /\ Len(tasks) \in Nat /\ Len(tasks') = Len(tasks) + 1 /\ tasks'[Len(tasks) + 1] = t
      /\ \A i \in 1..Len(tasks) : tasks'[i] = tasks[i]
  BY <1>1
<1>5. TasksApart'
  <2>1. \A i, j \in 1..Len(tasks') : tasks'[i] = tasks'[j] => i = j
    BY <1>3, <1>4 DEF TasksApart, Queued
  <2>2. \A v, u \in Runners' : job'[v] = job'[u] => v = u
    BY <1>1, <1>2 DEF TasksApart
  <2>3. \A v \in Runners', i \in 1..Len(tasks') : job'[v] # tasks'[i]
    BY <1>1, <1>2, <1>3, <1>4 DEF TasksApart, Taken
  <2> QED  BY <2>1, <2>2, <2>3 DEF TasksApart
<1>6. \A u \in Tasks : (Queued(u)' <=> Queued(u) \/ u = t) /\ (Taken(u)' <=> Taken(u))
  <2>1. \A u \in Tasks : Queued(u)' <=> Queued(u) \/ u = t
    BY <1>4 DEF Queued
  <2>2. \A u \in Tasks : Taken(u)' <=> Taken(u)
    BY <1>1, <1>2 DEF Taken
  <2> QED  BY <2>1, <2>2
<1>7. TasksAccounted'
  BY <1>1, <1>3, <1>6 DEF TasksAccounted
<1> QED  BY <1>5, <1>7

\* What Join clears is empty.
LEMMA JoinPlaces ==
    ASSUME PoolTyped, TasksApart, TasksAccounted, Staffed, Pool!Join
    PROVE  TasksApart' /\ TasksAccounted'
<1>1. tasks = <<>>
  BY JoinCrew DEF PoolTyped, Staffed
<1>2. UNCHANGED <<tasks, job, accepted, finished>> /\ Runners' = Runners
  BY <1>1, JoinCrew DEF Pool!Join, PoolTyped
<1> QED  BY <1>2, SamePlaces

LEMMA PlacesSteps ==
    ASSUME PoolInv, Pool!Next \/ UNCHANGED pool
    PROVE  TasksApart' /\ TasksAccounted'
<1> USE DEF PoolInv
<1>1. ASSUME NEW w \in Workers, Pool!AwaitTask(w) PROVE TasksApart' /\ TasksAccounted'
  <2>1. CASE tasks = <<>>
    <3>1. UNCHANGED <<tasks, job, accepted, finished>>
      BY <1>1, <2>1 DEF Pool!AwaitTask
    <3> QED  BY <1>1, <2>1, <3>1, RestCrew, SamePlaces DEF PoolTyped
  <2>2. CASE tasks # <<>>
    BY <1>1, <2>2, TakePlaces
  <2> QED  BY <2>1, <2>2
<1>2. ASSUME NEW w \in Workers, Pool!NotifyCompleted(w) PROVE TasksApart' /\ TasksAccounted'
  <2>1. UNCHANGED <<tasks, job, accepted, finished>>
    BY <1>2 DEF Pool!NotifyCompleted
  <2> QED  BY <1>2, <2>1, NotifyCompletedCrew, SamePlaces DEF PoolTyped
<1>3. CASE Pool!CallStart \/ Pool!StartAgain
  <2>1. UNCHANGED <<tasks, job, accepted, finished>> /\ Pool!Start
    BY <1>3 DEF Pool!CallStart, Pool!StartAgain, Pool!Start
  <2> QED  BY <2>1, StartCrew, SamePlaces DEF PoolTyped
<1>4. CASE Pool!NotifyStop \/ \E c \in Clients : Pool!NotifyOne(c)
  <2>1. UNCHANGED <<tasks, job, accepted, finished>>
    BY <1>4 DEF Pool!NotifyStop, Pool!NotifyOne
  <2> QED  BY <1>4, <2>1, NotifyCrew, SamePlaces DEF PoolTyped
<1>5. CASE Pool!CallStop \/ (\E c \in Clients : Pool!WaitAll(c)) \/ UNCHANGED pool
  <2>1. UNCHANGED <<tasks, job, accepted, finished, worker>>
    BY <1>5 DEF Pool!CallStop, Pool!WaitAll, Pool!pool, pool
  <2> QED  BY <2>1, SamePlaces DEF Runners
<1> QED
  BY <1>1, <1>2, <1>3, <1>4, <1>5, FinishPlaces, SubmitPlaces, JoinPlaces
     DEF Pool!Next, Pool!WorkerThread, Pool!Owner, Pool!Client

\* Start launches num_threads threads, which are not none.
LEMMA StartStaffs ==
    ASSUME PoolTyped, 0 \notin Sizes, Pool!Start, ~pool_running
    PROVE  \E w \in Workers : worker'[w] \in Crew
<1>1. PICK new \in SUBSET (Workers \ Pool!Threads) :
          /\ Pool!Cardinality(new) = num_threads
          /\ worker' = [w \in Workers |-> IF w \in new THEN "test" ELSE worker[w]]
  BY DEF Pool!Start, Pool!Launch
<1>2. num_threads # 0
  BY DEF PoolTyped, OwnerTyped
<1>3. new # {}
  BY <1>1, <1>2, SameCardinality, FS_EmptySet
<1> QED  BY <1>1, <1>3 DEF Crew

LEMMA StaffedSteps ==
    ASSUME PoolInv, 0 \notin Sizes, Pool!Next \/ UNCHANGED pool
    PROVE  Staffed'
<1> USE DEF PoolInv, PoolTyped
\* A step after which somebody of the crew is in the crew.
<1> DEFINE Kept == \A w \in Workers : worker[w] \in Crew => \E v \in Workers : worker'[v] \in Crew
<1>1. ASSUME Kept, stopped' = stopped, tasks' # <<>> => tasks # <<>> \/ ~stopped PROVE Staffed'
  BY <1>1 DEF Staffed
<1>2. ASSUME NEW w \in Workers, Pool!AwaitTask(w) PROVE Staffed'
  <2>1. CASE tasks = <<>> /\ stopped
    BY <1>2, <2>1 DEF Pool!AwaitTask, Pool!flags, Staffed
  <2>2. CASE ~(tasks = <<>> /\ stopped)
    <3>1. worker' = [worker EXCEPT ![w] = "run"] \/ worker' = [worker EXCEPT ![w] = "wait"]
      BY <1>2, <2>2 DEF Pool!AwaitTask
    <3>2. worker'[w] \in Crew
      BY <3>1 DEF CrewTyped, Crew
    <3> QED  BY <3>2 DEF Staffed
  <2> QED  BY <2>1, <2>2
<1>3. ASSUME NEW w \in Workers, Pool!FinishTask(w) \/ Pool!NotifyCompleted(w) PROVE Staffed'
  <2>1. worker' = [worker EXCEPT ![w] = "notify"] \/ worker' = [worker EXCEPT ![w] = "test"]
    BY <1>3 DEF Pool!FinishTask, Pool!NotifyCompleted
  <2>2. worker'[w] \in Crew
    BY <2>1 DEF CrewTyped, Crew
  <2> QED  BY <2>2 DEF Staffed
<1>4. CASE Pool!CallStart \/ Pool!StartAgain
  <2>1. Pool!Start /\ UNCHANGED tasks
    BY <1>4 DEF Pool!CallStart, Pool!StartAgain, Pool!Start
  <2>2. CASE pool_running
    BY <2>1, <2>2 DEF Pool!Start, Pool!flags, Staffed
  <2>3. CASE ~pool_running
    BY <2>1, <2>3, StartStaffs DEF Staffed
  <2> QED  BY <2>2, <2>3
<1>5. CASE Pool!CallStop
  BY <1>5 DEF Pool!CallStop, Pool!pool, Staffed
<1>6. CASE Pool!NotifyStop \/ \E c \in Clients : Pool!NotifyOne(c)
  <2>1. UNCHANGED <<tasks, stopped>>
    BY <1>6 DEF Pool!NotifyStop, Pool!NotifyOne, Pool!flags
  <2>2. Kept
    BY <1>6, NotifyCrew
  <2> QED  BY <2>1, <2>2, <1>1
<1>7. CASE Pool!Join
  <2>1. UNCHANGED stopped /\ tasks' = <<>>
    BY <1>7 DEF Pool!Join, Pool!flags
  <2>2. stopped
    BY <1>7, JoinCrew DEF Staffed
  <2> QED  BY <2>1, <2>2 DEF Staffed
<1>8. ASSUME NEW c \in Clients, NEW t \in Tasks, Pool!Submit(c, t) PROVE Staffed'
  BY <1>8 DEF Pool!Submit, Pool!flags, Staffed
<1>9. CASE (\E c \in Clients : Pool!WaitAll(c)) \/ UNCHANGED pool
  BY <1>9 DEF Pool!WaitAll, Pool!flags, Pool!pool, pool, Staffed
<1> QED
  BY <1>2, <1>3, <1>4, <1>5, <1>6, <1>7, <1>8, <1>9
     DEF Pool!Next, Pool!WorkerThread, Pool!Owner, Pool!Client

LEMMA PoolInvHolds == 0 \notin Sizes => (Spec => []PoolInv)
<1> SUFFICES ASSUME 0 \notin Sizes PROVE Spec => []PoolInv
  OBVIOUS
<1>1. Init => PoolInv
  <2> SUFFICES ASSUME Init PROVE PoolInv
    OBVIOUS
  <2>1. Pool!Init
    BY DEF Init
  <2>2. tasks = <<>> /\ Runners = {} /\ stopped
    BY <2>1 DEF Pool!Init, Runners
  <2>3. TasksApart
    BY <2>2 DEF TasksApart
  <2>4. \A t \in Tasks : ~Queued(t) /\ ~Taken(t) /\ t \notin accepted /\ finished[t] = 0
    BY <2>1, <2>2 DEF Pool!Init, Queued, Taken
  <2>5. TasksAccounted
    BY <2>4 DEF TasksAccounted
  <2> QED  BY <2>1, <2>2, <2>3, <2>5, InitPool DEF PoolInv, Staffed
<1>2. PoolInv /\ [Next]_vars => PoolInv'
  BY NextPool, PlacesSteps, StaffedSteps, PartsStep DEF PoolInv
<1> QED  BY <1>1, <1>2, PTL DEF Spec

\* A client that tests the condition and returns has seen it true.
LEMMA ReturnsWhenDone ==
    ASSUME PoolInv, Pool!Next, NEW c \in Clients,
           client[c] = "test", client'[c] = "out", ~stopped
    PROVE  \A t \in accepted : finished[t] = 1
<1> USE DEF PoolInv, PoolTyped
<1>1. Pool!WaitAll(c)
  <2>1. ASSUME NEW w \in Workers, Pool!WorkerThread(w) PROVE client'[c] = "test"
    BY <2>1 DEF Pool!WorkerThread, Pool!AwaitTask, Pool!FinishTask, Pool!NotifyCompleted,
       Pool!Wake, ClientsTyped
  <2>2. ASSUME Pool!Owner PROVE client'[c] = "test"
    BY <2>2 DEF Pool!Owner, Pool!CallStart, Pool!StartAgain, Pool!Start, Pool!CallStop,
       Pool!NotifyStop, Pool!Join
  <2>3. ASSUME NEW d \in Clients, (\E t \in Tasks : Pool!Submit(d, t)) \/ Pool!NotifyOne(d)
        PROVE  client'[c] = "test"
    BY <2>3 DEF Pool!Submit, Pool!NotifyOne, ClientsTyped
  <2>4. ASSUME NEW d \in Clients, d # c, Pool!WaitAll(d) PROVE client'[c] = "test"
    BY <2>4 DEF Pool!WaitAll, ClientsTyped
  <2> QED  BY <2>1, <2>2, <2>3, <2>4 DEF Pool!Next, Pool!Client
<1>2. tasks = <<>> /\ active_tasks = 0
  BY <1>1 DEF Pool!WaitAll, Pool!AllDone, ClientsTyped
<1>3. Runners = {}
  BY <1>2, RunnersFinite, FS_EmptySet DEF CrewTyped
<1>4. \A t \in Tasks : ~Queued(t) /\ ~Taken(t)
  BY <1>2, <1>3 DEF Queued, Taken
<1> QED  BY <1>4 DEF TasksAccounted, QueueTyped

(* WaitAll of the thread pool returns from a pool that has not been        *)
(* stopped only when every task accepted so far has been run, and run      *)
(* once, when the owner asks for no pool of 0 threads.                     *)
THEOREM NoTaskIsForgotten ==
    ASSUME 0 \notin Sizes
    PROVE  Spec => WaitAllMeansDone
<1> DEFINE Returns == \A c \in Clients : client[c] = "test" /\ client'[c] = "out" /\ ~stopped =>
                        \A t \in accepted : finished[t] = 1
<1>1. PoolInv /\ [Next]_vars => [Returns]_Pool!vars
  <2> SUFFICES ASSUME PoolInv, [Next]_vars, UNCHANGED pool \/ Pool!Next PROVE [Returns]_Pool!vars
    BY PartsStep
  <2>1. CASE Pool!Next
    BY <2>1, ReturnsWhenDone
  <2>2. CASE UNCHANGED pool
    BY <2>2 DEF pool, Pool!vars, Pool!flags, Pool!pool, Pool!control
  <2> QED  BY <2>1, <2>2
<1>2. []PoolInv /\ [][Next]_vars => [][Returns]_Pool!vars
  BY <1>1, PTL
<1> QED  BY <1>2, PoolInvHolds DEF Spec, WaitAllMeansDone, Pool!WaitAllMeansDone
=============================================================================
