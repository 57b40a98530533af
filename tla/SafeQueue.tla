----------------------------- MODULE SafeQueue -----------------------------
(***************************************************************************)
(* The blocking queue of include/utils/safe_queue.hpp: one mutex, two      *)
(* condition variables (not_empty_, not_full_), a size limit that can be   *)
(* changed while threads are blocked on it, and a Stop/Start switch.       *)
(*                                                                         *)
(* Every member function is one critical section under mutex_, cut only by *)
(* the waits, so a step of this module is what a thread does between       *)
(* taking the mutex and releasing it (by returning or by waiting).  A      *)
(* thread that waits is in the wait set of a condition variable; a notify  *)
(* moves it out ("...Woken") and it then has to take the mutex again and   *)
(* to re-evaluate the condition, with any other call in between.           *)
(* Elements are abstracted to their number: which element a pop returns is *)
(* the business of std::queue, who gets to run is the business of this     *)
(* class.                                                                  *)
(***************************************************************************)
EXTENDS Integers, FiniteSets

CONSTANTS
    Threads,     \* the threads that call the queue
    MaxSizes,    \* the limits given to the constructor and to SetMaxSize
    SizeBound    \* bound of the model: no push beyond this many elements

ASSUME SafeQueueAssumption ==
    /\ IsFiniteSet(Threads)
    /\ MaxSizes \subseteq Nat
    /\ SizeBound \in Nat

VARIABLES
    size,        \* queue_.size()
    max_size,    \* max_size_, 0 = unlimited
    running,     \* running_
    pc           \* where each thread is: outside the queue, in a wait set of
                 \* a condition variable, or woken up and not yet running

vars == <<size, max_size, running, pc>>

PushWaiters   == {t \in Threads : pc[t] = "pushWait"}    \* wait set of not_full_
PushWoken     == {t \in Threads : pc[t] = "pushWoken"}
PopWaiters    == {t \in Threads : pc[t] \in {"popWait", "popForWait"}}  \* of not_empty_
PopWoken      == {t \in Threads : pc[t] \in {"popWoken", "popForWoken"}}

Full  == max_size > 0 /\ size >= max_size
Empty == size = 0

\* Where a thread of a wait set finds itself after a wake-up.
Woken(label) ==
    IF label = "pushWait" THEN "pushWoken"
    ELSE IF label = "popWait" THEN "popWoken" ELSE "popForWoken"

(* Thread t leaves the queue and calls notify_one on a condition variable  *)
(* with this wait set: which of the waiters wakes up is not determined.    *)
ReturnNotifyOne(t, waiters) ==
    \/ waiters = {} /\ pc' = [pc EXCEPT ![t] = "idle"]
    \/ \E w \in waiters : pc' = [pc EXCEPT ![t] = "idle", ![w] = Woken(@)]

(* notify_all on condition variables with these waiters, by a caller that  *)
(* is not itself waiting.                                                  *)
NotifyAll(waiters) ==
    pc' = [u \in Threads |-> IF u \in waiters THEN Woken(pc[u]) ELSE pc[u]]

Init ==
    /\ size = 0
    /\ max_size \in MaxSizes
    /\ running = TRUE
    /\ pc = [t \in Threads |-> "idle"]

-----------------------------------------------------------------------------
(* Push: the call, and every re-evaluation of its loop after a wake-up.    *)

\* Mutation: the loop of Push forgets to test running_.
PushBlocksStopped(t) ==
    /\ pc[t] \in {"idle", "pushWoken"}
    /\ Full
    /\ pc' = [pc EXCEPT ![t] = "pushWait"]
    /\ UNCHANGED <<size, max_size, running>>

PushBlocks(t) ==
    /\ pc[t] \in {"idle", "pushWoken"}
    /\ running /\ Full
    /\ pc' = [pc EXCEPT ![t] = "pushWait"]
    /\ UNCHANGED <<size, max_size, running>>

\* On a stopped queue the element is dropped and the caller is not told.
PushDropped(t) ==
    /\ pc[t] = "pushWoken"
    /\ ~running
    /\ pc' = [pc EXCEPT ![t] = "idle"]
    /\ UNCHANGED <<size, max_size, running>>

\* Also TryPush, whose only other outcome is to return false at once.
PushDone(t) ==
    /\ pc[t] \in {"idle", "pushWoken"}
    /\ running /\ ~Full
    /\ size < SizeBound
    /\ size' = size + 1
    /\ ReturnNotifyOne(t, PopWaiters)
    /\ UNCHANGED <<max_size, running>>

-----------------------------------------------------------------------------
(* Pop and PopFor.  Pop drains a stopped queue and throws on an empty one; *)
(* TryPop and PopFor return nothing from a stopped queue, full or not.     *)

PopBlocks(t) ==
    /\ running /\ Empty
    /\ \/ pc[t] \in {"idle", "popWoken"} /\ pc' = [pc EXCEPT ![t] = "popWait"]
       \/ pc[t] \in {"idle", "popForWoken"} /\ pc' = [pc EXCEPT ![t] = "popForWait"]
    /\ UNCHANGED <<size, max_size, running>>

TakeElement(t) ==
    /\ ~Empty
    /\ size' = size - 1
    /\ ReturnNotifyOne(t, PushWaiters)
    /\ UNCHANGED <<max_size, running>>

PopDone(t) ==
    /\ pc[t] \in {"idle", "popWoken"}
    /\ TakeElement(t)

PopThrows(t) ==
    /\ pc[t] = "popWoken"
    /\ ~running /\ Empty
    /\ pc' = [pc EXCEPT ![t] = "idle"]
    /\ UNCHANGED <<size, max_size, running>>

\* Mutation: PopFor takes the front element without testing for one.
PopForDoneUnchecked(t) ==
    /\ pc[t] \in {"idle", "popForWoken"}
    /\ running
    /\ size' = size - 1
    /\ ReturnNotifyOne(t, PushWaiters)
    /\ UNCHANGED <<max_size, running>>

\* Also TryPop (from "idle").
PopForDone(t) ==
    /\ pc[t] \in {"idle", "popForWoken"}
    /\ running
    /\ TakeElement(t)

\* Mutation: wait_for without a predicate; a PopFor that was notified just
\* as its timeout passed returns nothing and the notification is lost.
PopForNothingNoRecheck(t) ==
    /\ pc[t] \in {"popForWait", "popForWoken"}
    /\ pc' = [pc EXCEPT ![t] = "idle"]
    /\ UNCHANGED <<size, max_size, running>>

\* The timeout passes, or the queue is stopped: wait_for evaluates its
\* predicate once more under the mutex and PopFor returns nothing.
PopForNothing(t) ==
    /\ \/ pc[t] \in {"popForWait", "popForWoken"} /\ Empty
       \/ pc[t] = "popForWoken" /\ ~running
    /\ pc' = [pc EXCEPT ![t] = "idle"]
    /\ UNCHANGED <<size, max_size, running>>

\* The timeout of a PopFor passes just as an element arrives for another
\* waiter: the predicate holds and the element is taken.
PopForTimeoutTakes(t) ==
    /\ pc[t] = "popForWait"
    /\ running
    /\ TakeElement(t)

-----------------------------------------------------------------------------
(* Calls of threads that are not blocked themselves.                       *)

\* Mutation: Clear wakes up one blocked Push, as Pop does.
ClearNotifyOne(t) ==
    /\ pc[t] = "idle"
    /\ size' = 0
    /\ ReturnNotifyOne(t, PushWaiters)
    /\ UNCHANGED <<max_size, running>>

Clear(t) ==
    /\ pc[t] = "idle"
    /\ size' = 0
    /\ NotifyAll(PushWaiters)
    /\ UNCHANGED <<max_size, running>>

\* The waiters are notified only when the new limit is positive.
SetMaxSize(t, m) ==
    /\ pc[t] = "idle"
    /\ max_size' = m
    /\ IF m > 0 /\ size < m THEN NotifyAll(PushWaiters) ELSE UNCHANGED pc
    /\ UNCHANGED <<size, running>>

\* Mutation: Stop forgets the blocked producers.
StopPopsOnly(t) ==
    /\ pc[t] = "idle"
    /\ running' = FALSE
    /\ NotifyAll(PopWaiters)
    /\ UNCHANGED <<size, max_size>>

Stop(t) ==
    /\ pc[t] = "idle"
    /\ running' = FALSE
    /\ NotifyAll(PushWaiters \union PopWaiters)
    /\ UNCHANGED <<size, max_size>>

Start(t) ==
    /\ pc[t] = "idle"
    /\ running' = TRUE
    /\ UNCHANGED <<size, max_size, pc>>

\* A condition variable may wake a waiter up for no reason.
SpuriousWakeup(t) ==
    /\ pc[t] \in {"pushWait", "popWait", "popForWait"}
    /\ pc' = [pc EXCEPT ![t] = Woken(@)]
    /\ UNCHANGED <<size, max_size, running>>

-----------------------------------------------------------------------------
(* The step of a thread that has been woken up. *)
Resume(t) ==
    /\ pc[t] \in {"pushWoken", "popWoken", "popForWoken"}
    /\ \/ PushBlocks(t) \/ PushDropped(t) \/ PushDone(t)
       \/ PopBlocks(t) \/ PopDone(t) \/ PopThrows(t)
       \/ PopForDone(t) \/ PopForNothing(t)

Next ==
    \E t \in Threads :
        \/ PushBlocks(t) \/ PushDropped(t) \/ PushDone(t)
        \/ PopBlocks(t) \/ PopDone(t) \/ PopThrows(t)
        \/ PopForDone(t) \/ PopForNothing(t) \/ PopForTimeoutTakes(t)
        \/ Clear(t) \/ Stop(t) \/ Start(t) \/ SpuriousWakeup(t)
        \/ \E m \in MaxSizes : SetMaxSize(t, m)

Spec == Init /\ [][Next]_vars

(* A woken thread gets the mutex sooner or later: the critical sections of *)
(* the class are short and the operating system schedules every thread.    *)
FairSpec == Spec /\ \A t \in Threads : WF_vars(Resume(t))

-----------------------------------------------------------------------------
Labels == {"idle", "pushWait", "pushWoken", "popWait", "popWoken",
           "popForWait", "popForWoken"}

(* Every variable has its type; in particular size never goes below zero.  *)
TypeOK ==
    /\ size \in Nat
    /\ max_size \in MaxSizes
    /\ running \in BOOLEAN
    /\ pc \in [Threads -> Labels]

(* On a stopped queue no thread is left in a wait set: Stop notifies both  *)
(* condition variables and every loop that waits tests running_.           *)
StoppedNobodyWaits == ~running => PushWaiters \union PopWaiters = {}

(* No lost wake-up of a consumer: while a thread sleeps in Pop or PopFor,  *)
(* every element in the queue has a woken thread that is on its way to     *)
(* take it.  It is what notify_one in Push and TryPush must guarantee      *)
(* against timeouts, TryPop and spurious wake-ups.                         *)
NoLostItemWakeup ==
    PopWaiters # {} => size <= Cardinality(PopWoken)

(* No lost wake-up of a producer: while a thread sleeps in Push on a       *)
(* limited queue, every free slot has a woken thread that is on its way to *)
(* fill it, also when Clear or SetMaxSize free many slots at once.         *)
NoLostSlotWakeup ==
    PushWaiters # {} /\ max_size > 0 =>
        max_size - size <= Cardinality(PushWoken)

(* The comment at the constructor (safe_queue.hpp:23) says that 0 is       *)
(* "unlimited": then no thread should be blocked in Push on a queue whose  *)
(* limit is 0.                                                             *)
UnlimitedNeverBlocks == max_size = 0 => PushWaiters = {}

(* Every call that is blocked when the queue is stopped returns, unless    *)
(* the queue is started again first.                                       *)
StopReleasesWaiters ==
    \A t \in Threads :
        (pc[t] # "idle" /\ ~running) ~> (pc[t] = "idle" \/ running)

=============================================================================
