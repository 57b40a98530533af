------------------------------- MODULE Server -------------------------------
(* The status server: its owner starts and stops it, its thread accepts    *)
(* one client after the other and carries out the command it sends.        *)
(*                                                                         *)
(* Descriptors are numbers that the whole process shares: one that has     *)
(* been closed is soon somebody else's.  accept() works on the socket it   *)
(* was called with, also when its number is closed meanwhile.              *)
EXTENDS Integers, FiniteSets

CONSTANTS
    Descriptors,  \* the numbers a descriptor can have
    MaxStarts     \* bound: number of calls of Start

VARIABLES
    running,
    server_socket,  \* a descriptor, or -1
    open,           \* [Descriptors -> "free", "listen", "client", "other"]
    thread,         \* "none", or where server_thread_ is in ServerLoop
    argument,       \* the descriptor it calls accept, recv or close with
    owner,          \* "out", or what is left of the owner's call
    starts,         \* number of calls of Start
    bind_failed,    \* history: binding or listening has failed
    closed_others,  \* history: the server has closed another's descriptor
    settings,       \* what commands change in the context
    reply           \* the last answer

sockets == <<running, server_socket, open>>
history == <<bind_failed, closed_others>>
vars == <<sockets, thread, argument, owner, starts, history, settings, reply>>

Free == {d \in Descriptors : open[d] = "free"}

Init ==
    /\ running = FALSE /\ server_socket = -1
    /\ open = [d \in Descriptors |-> "free"]
    /\ thread = "none" /\ argument = -1 /\ owner = "out" /\ starts = 0
    /\ bind_failed = FALSE /\ closed_others = FALSE
    /\ settings = [paused |-> FALSE, chunk_size |-> 1000] /\ reply = "none"

-----------------------------------------------------------------------------
(* The owner: the migrator.                                                *)

\* Start: CreateTCPSocket or CreateUnixSocket, which may fail.  A running
\* server is not started again, one without port or path not at all.
CreateSocket ==
    /\ owner = "out" /\ ~running /\ starts < MaxStarts
    /\ starts' = starts + 1
    /\ \/ server_socket' = -1 /\ UNCHANGED <<open, owner>>
       \/ \E d \in Free :
            /\ open' = [open EXCEPT ![d] = "listen"]
            /\ server_socket' = d /\ owner' = "bind"
    /\ UNCHANGED <<running, thread, argument, history, settings, reply>>

\* After a failure the number stays in server_socket_.
BindAndListen ==
    /\ owner = "bind" /\ owner' = "out"
    /\ \/ running' = TRUE /\ thread' = "loop"
          /\ UNCHANGED <<open, bind_failed>>
       \/ open' = [open EXCEPT ![server_socket] = "free"] /\ bind_failed' = TRUE
          /\ UNCHANGED <<running, thread>>
    /\ UNCHANGED <<server_socket, argument, starts, closed_others, settings, reply>>

Stop ==
    /\ owner = "out" /\ owner' = "close"
    /\ running' = FALSE
    /\ UNCHANGED <<server_socket, open, thread, argument, starts, history, settings, reply>>

\* Mutation: the number of the closed socket is kept.
CloseServerSocketKept ==
    /\ owner = "close" /\ owner' = "join"
    /\ IF server_socket = -1
         THEN UNCHANGED <<open, closed_others>>
         ELSE /\ closed_others' = (closed_others \/ open[server_socket] = "other")
              /\ open' = [open EXCEPT ![server_socket] = "free"]
    /\ UNCHANGED <<running, server_socket, thread, argument, starts, bind_failed, settings, reply>>

CloseServerSocket ==
    /\ owner = "close" /\ owner' = "join"
    /\ IF server_socket = -1
         THEN UNCHANGED <<open, closed_others, server_socket>>
         ELSE /\ closed_others' = (closed_others \/ open[server_socket] = "other")
              /\ open' = [open EXCEPT ![server_socket] = "free"]
              /\ server_socket' = -1
    /\ UNCHANGED <<running, thread, argument, starts, bind_failed, settings, reply>>

\* Mutation: Stop does not wait for the thread.
JoinServerThreadNot ==
    /\ owner = "join" /\ owner' = "out"
    /\ UNCHANGED <<sockets, thread, argument, starts, history, settings, reply>>

JoinServerThread ==
    /\ owner = "join" /\ thread \in {"none", "ended"}
    /\ owner' = "out" /\ thread' = "none"
    /\ UNCHANGED <<sockets, argument, starts, history, settings, reply>>

-----------------------------------------------------------------------------
(* ServerLoop.                                                             *)

\* Mutation: the loop does not look at the flag.
ServerLoopForever ==
    /\ thread = "loop" /\ thread' = "load"
    /\ UNCHANGED <<sockets, argument, owner, starts, history, settings, reply>>

ServerLoop ==
    /\ thread = "loop"
    /\ thread' = IF running THEN "load" ELSE "ended"
    /\ UNCHANGED <<sockets, argument, owner, starts, history, settings, reply>>

\* AcceptConnection reads server_socket_, which Stop may change meanwhile,
LoadSocket ==
    /\ thread = "load" /\ thread' = "accept" /\ argument' = server_socket
    /\ UNCHANGED <<sockets, owner, starts, history, settings, reply>>

\* and calls accept(), which fails at once unless its descriptor is a
\* listening socket; in one it waits, whatever becomes of the descriptor.
AcceptConnection ==
    /\ thread = "accept"
    /\ IF argument \in Descriptors /\ open[argument] = "listen"
         THEN thread' = "accepting"
         ELSE thread' = "loop"
    /\ UNCHANGED <<sockets, argument, owner, starts, history, settings, reply>>

\* A client connects; without a free descriptor accept() fails.
ClientConnects ==
    /\ thread = "accepting"
    /\ IF Free = {}
         THEN thread' = "loop" /\ UNCHANGED <<open, argument>>
         ELSE /\ thread' = "recv"
              /\ \E d \in Free :
                   open' = [open EXCEPT ![d] = "client"] /\ argument' = d
    /\ UNCHANGED <<running, server_socket, owner, starts, history, settings, reply>>

\* What commands other than throttle, unthrottle and max-lag do; nobody reads
\* paused, which postpone-cut-over sets as well.  A chunk size that is no
\* number, or 0, is refused.
ProcessCommand(command, number) ==
    CASE command = "pause"      -> [settings EXCEPT !.paused = TRUE]
      [] command = "resume"     -> [settings EXCEPT !.paused = FALSE]
      [] command = "chunk-size" -> IF number > 0 THEN [settings EXCEPT !.chunk_size = number]
                                   ELSE settings
      [] OTHER                  -> settings

\* One recv takes what has arrived, the whole line or a part of it; a client
\* that hangs up has sent nothing and gets no answer.
HandleConnection ==
    /\ thread = "recv" /\ thread' = "close"
    /\ \/ UNCHANGED <<settings, reply>>
       \/ \E command \in {"pause", "resume", "chunk-size", "status", "unknown"}, number \in {0, 10} :
            /\ settings' = ProcessCommand(command, number)
            /\ reply' = IF command = "unknown" \/ (command = "chunk-size" /\ number = 0)
                        THEN "ERROR" ELSE "OK"
    /\ UNCHANGED <<sockets, argument, owner, starts, history>>

CloseClientSocket ==
    /\ thread = "close" /\ thread' = "loop"
    /\ open' = [open EXCEPT ![argument] = "free"]
    /\ closed_others' = (closed_others \/ open[argument] = "other")
    /\ UNCHANGED <<running, server_socket, argument, owner, starts, bind_failed, settings, reply>>

-----------------------------------------------------------------------------
\* The rest of the process opens and closes files and connections.
OthersOpenAndClose ==
    /\ \E d \in Descriptors :
        \/ open[d] = "free" /\ open' = [open EXCEPT ![d] = "other"]
        \/ open[d] = "other" /\ open' = [open EXCEPT ![d] = "free"]
    /\ UNCHANGED <<running, server_socket, thread, argument, owner, starts, history, settings, reply>>

ServerThread == ServerLoop \/ LoadSocket \/ AcceptConnection \/ CloseClientSocket
Owner == CreateSocket \/ BindAndListen \/ Stop \/ CloseServerSocket \/ JoinServerThread

Next == Owner \/ ServerThread \/ ClientConnects \/ HandleConnection \/ OthersOpenAndClose

(* The two threads go on with what they have begun; clients need not       *)
(* connect, nor say anything once they have.                               *)
Fairness ==
    /\ WF_vars(BindAndListen \/ CloseServerSocket \/ JoinServerThread)
    /\ WF_vars(ServerThread)

Spec == Init /\ [][Next]_vars /\ Fairness

-----------------------------------------------------------------------------
ServerTypeOK ==
    /\ running \in BOOLEAN /\ server_socket \in Descriptors \union {-1}
    /\ open \in [Descriptors -> {"free", "listen", "client", "other"}]
    /\ thread \in {"none", "loop", "load", "accept", "accepting", "recv", "close", "ended"}
    /\ argument \in Descriptors \union {-1}
    /\ owner \in {"out", "bind", "close", "join"} /\ starts \in 0..MaxStarts
    /\ bind_failed \in BOOLEAN /\ closed_others \in BOOLEAN
    /\ settings \in [paused : BOOLEAN, chunk_size : {10, 1000}]
    /\ reply \in {"none", "OK", "ERROR"}

(* The server closes the descriptors that are its own, however often it is *)
(* stopped and whatever the rest of the process opens meanwhile.  Only     *)
(* after a failed bind it does not: Stop closes that number once more.     *)
ClosesOnlyItsOwn == closed_others => bind_failed

(* When Stop has returned, no thread of the server runs and no socket of   *)
(* its is open.                                                            *)
StopLeavesNothing ==
    owner = "out" /\ ~running =>
        /\ thread = "none"
        /\ \A d \in Descriptors : open[d] \in {"free", "other"}

(* Stop returns if no accept and no recv waits for ever: closing the       *)
(* socket ends neither, a client has to connect and to speak or hang up.   *)
StopReturns ==
    []<>(thread # "accepting") /\ []<>(thread # "recv") => (owner = "join" ~> owner = "out")
=============================================================================
