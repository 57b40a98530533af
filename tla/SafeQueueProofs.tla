-------------------------- MODULE SafeQueueProofs --------------------------
(***************************************************************************)
(* Theorems about SafeQueue for any finite set of threads and any set of   *)
(* size limits: type correctness, and that no wake-up is lost.             *)
(*                                                                         *)
(* The inductive invariant is the conjunction IInv of the four invariants. *)
(* The two wake-up invariants need StoppedNobodyWaits: on a stopped queue  *)
(* a woken thread leaves without taking its element or its slot, which     *)
(* loses nothing only because nobody else is waiting for it.               *)
(***************************************************************************)
EXTENDS SafeQueue, FiniteSetTheorems, TLAPS

IInv == /\ TypeOK
        /\ StoppedNobodyWaits
        /\ NoLostItemWakeup
        /\ NoLostSlotWakeup

-----------------------------------------------------------------------------
(* Counting: how the number of woken threads changes in a step. *)

(* Losing at most one element lowers a cardinality by at most one. *)
LEMMA CardinalityLessOne ==
    ASSUME NEW S, NEW T, NEW x, IsFiniteSet(S), IsFiniteSet(T), S \ {x} \subseteq T
    PROVE  Cardinality(S) <= Cardinality(T) + 1
<1>1. IsFiniteSet(S \ {x})
  BY FS_RemoveElement
<1>2. /\ Cardinality(S) \in Nat
      /\ Cardinality(T) \in Nat
      /\ Cardinality(S \ {x}) \in Nat
  BY <1>1, FS_CardinalityType
<1>3. Cardinality(S \ {x}) = IF x \in S THEN Cardinality(S) - 1 ELSE Cardinality(S)
  BY FS_RemoveElement
<1>4. Cardinality(S \ {x}) <= Cardinality(T)
  BY FS_Subset
<1> QED
  BY <1>2, <1>3, <1>4

(* Gaining an element and losing none raises a cardinality. *)
LEMMA CardinalityMore ==
    ASSUME NEW S, NEW T, NEW w, IsFiniteSet(S), IsFiniteSet(T),
           w \notin S, S \union {w} \subseteq T
    PROVE  Cardinality(S) + 1 <= Cardinality(T)
<1>1. /\ IsFiniteSet(S \union {w})
      /\ Cardinality(S \union {w}) = Cardinality(S) + 1
  BY FS_AddElement
<1>2. Cardinality(S \union {w}) <= Cardinality(T)
  BY FS_Subset
<1> QED
  BY <1>1, <1>2

(* The sets of woken threads are finite, before and after any step. *)
LEMMA WokenFinite ==
    /\ IsFiniteSet(PushWoken) /\ IsFiniteSet(PushWoken')
    /\ IsFiniteSet(PopWoken)  /\ IsFiniteSet(PopWoken')
    /\ Cardinality(PushWoken) \in Nat /\ Cardinality(PushWoken') \in Nat
    /\ Cardinality(PopWoken) \in Nat  /\ Cardinality(PopWoken') \in Nat
<1>1. /\ PushWoken \subseteq Threads /\ PushWoken' \subseteq Threads
      /\ PopWoken \subseteq Threads /\ PopWoken' \subseteq Threads
  BY DEF PushWoken, PopWoken
<1>2. /\ IsFiniteSet(PushWoken) /\ IsFiniteSet(PushWoken')
      /\ IsFiniteSet(PopWoken)  /\ IsFiniteSet(PopWoken')
  BY <1>1, FS_Subset, SafeQueueAssumption DEF SafeQueueAssumption
<1> QED
  BY <1>2, FS_CardinalityType

-----------------------------------------------------------------------------
(* What the notifications do to pc. *)

(* A thread that returns and notifies one waiter of not_empty_. *)
LEMMA NotifyOnePop ==
    ASSUME TypeOK, NEW t \in Threads, pc[t] \in {"idle", "pushWoken"},
           ReturnNotifyOne(t, PopWaiters)
    PROVE  /\ pc' \in [Threads -> Labels]
           /\ PushWaiters' = PushWaiters
           /\ PushWoken \ {t} \subseteq PushWoken'
           /\ PopWaiters' \subseteq PopWaiters
           /\ PopWoken \subseteq PopWoken'
           /\ PopWaiters # {} => \E w \in PopWaiters : w \notin PopWoken /\ w \in PopWoken'
<1>1. CASE PopWaiters = {} /\ pc' = [pc EXCEPT ![t] = "idle"]
  BY <1>1 DEF TypeOK, Labels, PushWaiters, PushWoken, PopWaiters, PopWoken
<1>2. ASSUME NEW w \in PopWaiters, pc' = [pc EXCEPT ![t] = "idle", ![w] = Woken(@)]
      PROVE  /\ pc' \in [Threads -> Labels]
             /\ PushWaiters' = PushWaiters
             /\ PushWoken \ {t} \subseteq PushWoken'
             /\ PopWaiters' \subseteq PopWaiters
             /\ PopWoken \subseteq PopWoken'
             /\ w \notin PopWoken /\ w \in PopWoken'
  <2>1. /\ w \in Threads /\ w # t
        /\ pc[w] \in {"popWait", "popForWait"}
    BY <1>2 DEF PopWaiters
  <2>2. /\ pc' \in [Threads -> Labels]
        /\ pc'[t] = "idle"
        /\ pc'[w] \in {"popWoken", "popForWoken"}
        /\ \A u \in Threads \ {t, w} : pc'[u] = pc[u]
    BY <1>2, <2>1 DEF TypeOK, Labels, Woken
  <2> QED
    BY <2>1, <2>2 DEF PushWaiters, PushWoken, PopWaiters, PopWoken
<1> QED
  BY <1>1, <1>2 DEF ReturnNotifyOne

(* A thread that returns and notifies one waiter of not_full_. *)
LEMMA NotifyOnePush ==
    ASSUME TypeOK, NEW t \in Threads, pc[t] \notin {"pushWait", "pushWoken"},
           ReturnNotifyOne(t, PushWaiters)
    PROVE  /\ pc' \in [Threads -> Labels]
           /\ PopWaiters' \subseteq PopWaiters
           /\ PopWoken \ {t} \subseteq PopWoken'
           /\ pc[t] = "popForWait" => PopWoken \subseteq PopWoken'
           /\ PushWaiters' \subseteq PushWaiters
           /\ PushWoken \subseteq PushWoken'
           /\ PushWaiters # {} => \E w \in PushWaiters : w \notin PushWoken /\ w \in PushWoken'
<1>1. CASE PushWaiters = {} /\ pc' = [pc EXCEPT ![t] = "idle"]
  BY <1>1 DEF TypeOK, Labels, PushWaiters, PushWoken, PopWaiters, PopWoken
<1>2. ASSUME NEW w \in PushWaiters, pc' = [pc EXCEPT ![t] = "idle", ![w] = Woken(@)]
      PROVE  /\ pc' \in [Threads -> Labels]
             /\ PopWaiters' \subseteq PopWaiters
             /\ PopWoken \ {t} \subseteq PopWoken'
             /\ pc[t] = "popForWait" => PopWoken \subseteq PopWoken'
             /\ PushWaiters' \subseteq PushWaiters
             /\ PushWoken \subseteq PushWoken'
             /\ w \notin PushWoken /\ w \in PushWoken'
  <2>1. w \in Threads /\ w # t /\ pc[w] = "pushWait"
    BY <1>2 DEF PushWaiters
  <2>2. /\ pc' \in [Threads -> Labels]
        /\ pc'[t] = "idle"
        /\ pc'[w] = "pushWoken"
        /\ \A u \in Threads \ {t, w} : pc'[u] = pc[u]
    BY <1>2, <2>1 DEF TypeOK, Labels, Woken
  <2> QED
    BY <2>1, <2>2 DEF PushWaiters, PushWoken, PopWaiters, PopWoken
<1> QED
  BY <1>1, <1>2 DEF ReturnNotifyOne

(* notify_all empties the wait sets it is given and loses no woken thread. *)
LEMMA NotifyAllWakes ==
    ASSUME TypeOK, NEW W \in SUBSET (PushWaiters \union PopWaiters), NotifyAll(W)
    PROVE  /\ pc' \in [Threads -> Labels]
           /\ PushWaiters' = PushWaiters \ W
           /\ PopWaiters' = PopWaiters \ W
           /\ PushWoken \subseteq PushWoken'
           /\ PopWoken \subseteq PopWoken'
<1>1. \A u \in Threads :
        /\ pc[u] \in Labels
        /\ u \in W => pc[u] \in {"pushWait", "popWait", "popForWait"}
  BY DEF TypeOK, PushWaiters, PopWaiters
<1>2. pc' \in [Threads -> Labels]
  BY <1>1 DEF NotifyAll, Woken, Labels
<1>3. \A u \in Threads : pc'[u] = IF u \in W THEN Woken(pc[u]) ELSE pc[u]
  BY DEF NotifyAll
<1> QED
  BY <1>1, <1>2, <1>3 DEF Woken, Labels, PushWaiters, PushWoken, PopWaiters, PopWoken

-----------------------------------------------------------------------------
LEMMA InitIInv == Init => IInv
<1> SUFFICES ASSUME Init PROVE IInv
  OBVIOUS
<1>1. TypeOK
  BY SafeQueueAssumption DEF Init, TypeOK, Labels, SafeQueueAssumption
<1>2. PushWaiters = {} /\ PopWaiters = {}
  BY DEF Init, PushWaiters, PopWaiters
<1> QED
  BY <1>1, <1>2 DEF IInv, StoppedNobodyWaits, NoLostItemWakeup, NoLostSlotWakeup

(* A thread that goes to sleep does so on a condition that makes the       *)
(* wake-up invariants hold whoever is woken.                               *)
LEMMA BlocksKeepIInv ==
    ASSUME IInv, NEW t \in Threads, PushBlocks(t) \/ PopBlocks(t)
    PROVE  IInv'
<1>1. TypeOK' /\ running /\ running'
  BY DEF IInv, TypeOK, Labels, PushBlocks, PopBlocks
<1>2. CASE PushBlocks(t)
  <2>1. max_size' = max_size /\ size' = size /\ size >= max_size
    BY <1>2 DEF PushBlocks, Full
  <2>2. PopWaiters' = PopWaiters /\ PopWoken' = PopWoken
    BY <1>2 DEF IInv, TypeOK, PushBlocks, PopWaiters, PopWoken
  <2>3. NoLostSlotWakeup'
    BY <1>1, <2>1, WokenFinite, SafeQueueAssumption
       DEF NoLostSlotWakeup, TypeOK, SafeQueueAssumption
  <2>4. NoLostItemWakeup'
    BY <2>1, <2>2 DEF IInv, NoLostItemWakeup
  <2> QED
    BY <1>1, <2>3, <2>4 DEF IInv, StoppedNobodyWaits
<1>3. CASE PopBlocks(t)
  <2>1. max_size' = max_size /\ size' = size /\ size = 0
    BY <1>3 DEF PopBlocks, Empty
  <2>2. PushWaiters' = PushWaiters /\ PushWoken' = PushWoken
    BY <1>3 DEF IInv, TypeOK, PopBlocks, PushWaiters, PushWoken
  <2>3. NoLostItemWakeup'
    BY <2>1, WokenFinite DEF NoLostItemWakeup
  <2>4. NoLostSlotWakeup'
    BY <2>1, <2>2 DEF IInv, NoLostSlotWakeup
  <2> QED
    BY <1>1, <2>3, <2>4 DEF IInv, StoppedNobodyWaits
<1> QED
  BY <1>2, <1>3

(* A push adds one element and, if somebody sleeps in a pop, one woken     *)
(* consumer; it uses up one slot and at most one woken producer.           *)
LEMMA PushDoneKeepsIInv ==
    ASSUME IInv, NEW t \in Threads, PushDone(t)
    PROVE  IInv'
<1>1. /\ size' = size + 1 /\ max_size' = max_size
      /\ running /\ running'
      /\ pc[t] \in {"idle", "pushWoken"} /\ ReturnNotifyOne(t, PopWaiters)
  BY DEF PushDone
<1>2. /\ pc' \in [Threads -> Labels]
      /\ PushWaiters' = PushWaiters
      /\ PushWoken \ {t} \subseteq PushWoken'
      /\ PopWaiters' \subseteq PopWaiters
      /\ PopWoken \subseteq PopWoken'
      /\ PopWaiters # {} => \E w \in PopWaiters : w \notin PopWoken /\ w \in PopWoken'
  BY <1>1, NotifyOnePop DEF IInv
<1>3. TypeOK'
  BY <1>1, <1>2 DEF IInv, TypeOK
<1>4. NoLostItemWakeup'
  <2> SUFFICES ASSUME PopWaiters' # {} PROVE size' <= Cardinality(PopWoken')
    BY DEF NoLostItemWakeup
  <2>1. PICK w \in PopWaiters : w \notin PopWoken /\ w \in PopWoken'
    BY <1>2
  <2>2. Cardinality(PopWoken) + 1 <= Cardinality(PopWoken')
    BY <1>2, <2>1, WokenFinite, CardinalityMore
  <2>3. size <= Cardinality(PopWoken)
    BY <2>1 DEF IInv, NoLostItemWakeup
  <2> QED
    BY <1>1, <2>2, <2>3, WokenFinite DEF IInv, TypeOK
<1>5. NoLostSlotWakeup'
  <2> SUFFICES ASSUME PushWaiters' # {}, max_size' > 0
               PROVE  max_size' - size' <= Cardinality(PushWoken')
    BY DEF NoLostSlotWakeup
  <2>1. max_size - size <= Cardinality(PushWoken)
    BY <1>1, <1>2 DEF IInv, NoLostSlotWakeup
  <2>2. Cardinality(PushWoken) <= Cardinality(PushWoken') + 1
    BY <1>2, WokenFinite, CardinalityLessOne
  <2> QED
    BY <1>1, <2>1, <2>2, WokenFinite, SafeQueueAssumption
       DEF IInv, TypeOK, SafeQueueAssumption
<1> QED
  BY <1>1, <1>3, <1>4, <1>5 DEF IInv, StoppedNobodyWaits

(* A pop frees one slot and, if somebody sleeps in a push, wakes one       *)
(* producer; it removes one element and at most one woken consumer.        *)
LEMMA TakeKeepsIInv ==
    ASSUME IInv, NEW t \in Threads, pc[t] \notin {"pushWait", "popWait", "pushWoken"},
           TakeElement(t)
    PROVE  IInv'
<1>1. /\ size > 0 /\ size' = size - 1 /\ max_size' = max_size
      /\ running' = running /\ ReturnNotifyOne(t, PushWaiters)
  BY DEF IInv, TypeOK, TakeElement, Empty
<1>2. /\ pc' \in [Threads -> Labels]
      /\ PopWaiters' \subseteq PopWaiters
      /\ PopWoken \ {t} \subseteq PopWoken'
      /\ PushWaiters' \subseteq PushWaiters
      /\ PushWoken \subseteq PushWoken'
      /\ PushWaiters # {} => \E w \in PushWaiters : w \notin PushWoken /\ w \in PushWoken'
  BY <1>1, NotifyOnePush DEF IInv
<1>3. TypeOK'
  BY <1>1, <1>2 DEF IInv, TypeOK
<1>4. StoppedNobodyWaits'
  BY <1>1, <1>2 DEF IInv, StoppedNobodyWaits
<1>5. NoLostItemWakeup'
  <2> SUFFICES ASSUME PopWaiters' # {} PROVE size' <= Cardinality(PopWoken')
    BY DEF NoLostItemWakeup
  <2>1. size <= Cardinality(PopWoken)
    BY <1>2 DEF IInv, NoLostItemWakeup
  <2>2. Cardinality(PopWoken) <= Cardinality(PopWoken') + 1
    BY <1>2, WokenFinite, CardinalityLessOne
  <2> QED
    BY <1>1, <2>1, <2>2, WokenFinite DEF IInv, TypeOK
<1>6. NoLostSlotWakeup'
  <2> SUFFICES ASSUME PushWaiters' # {}, max_size' > 0
               PROVE  max_size' - size' <= Cardinality(PushWoken')
    BY DEF NoLostSlotWakeup
  <2>1. PICK w \in PushWaiters : w \notin PushWoken /\ w \in PushWoken'
    BY <1>2
  <2>2. Cardinality(PushWoken) + 1 <= Cardinality(PushWoken')
    BY <1>2, <2>1, WokenFinite, CardinalityMore
  <2>3. max_size - size <= Cardinality(PushWoken)
    BY <1>1, <2>1 DEF IInv, NoLostSlotWakeup
  <2> QED
    BY <1>1, <2>2, <2>3, WokenFinite, SafeQueueAssumption
       DEF IInv, TypeOK, SafeQueueAssumption
<1> QED
  BY <1>3, <1>4, <1>5, <1>6 DEF IInv

(* A thread that leaves without an element or a slot: nobody is waiting    *)
(* on a stopped queue, and there is nothing to take from an empty one.     *)
LEMMA LeaveKeepsIInv ==
    ASSUME IInv, NEW t \in Threads,
           PushDropped(t) \/ PopThrows(t) \/ PopForNothing(t)
    PROVE  IInv'
<1>1. /\ UNCHANGED <<size, max_size, running>>
      /\ pc' = [pc EXCEPT ![t] = "idle"]
  BY DEF PushDropped, PopThrows, PopForNothing
<1>2. TypeOK'
  BY <1>1 DEF IInv, TypeOK, Labels
<1>3. PushWaiters' \subseteq PushWaiters /\ PopWaiters' \subseteq PopWaiters
  BY <1>1 DEF IInv, TypeOK, PushWaiters, PopWaiters
<1>4. StoppedNobodyWaits'
  BY <1>1, <1>3 DEF IInv, StoppedNobodyWaits
<1>5. CASE ~running
  <2>1. PushWaiters' = {} /\ PopWaiters' = {}
    BY <1>3, <1>5 DEF IInv, StoppedNobodyWaits
  <2> QED
    BY <1>2, <1>4, <2>1 DEF IInv, NoLostItemWakeup, NoLostSlotWakeup
<1>6. CASE running
  <2>1. pc[t] \in {"popForWait", "popForWoken"} /\ size = 0
    BY <1>6 DEF PushDropped, PopThrows, PopForNothing, Empty
  <2>2. PushWaiters' = PushWaiters /\ PushWoken' = PushWoken
    BY <1>1, <2>1 DEF IInv, TypeOK, PushWaiters, PushWoken
  <2>3. NoLostItemWakeup'
    BY <1>1, <2>1, WokenFinite DEF NoLostItemWakeup
  <2>4. NoLostSlotWakeup'
    BY <1>1, <2>2 DEF IInv, NoLostSlotWakeup
  <2> QED
    BY <1>2, <1>4, <2>3, <2>4 DEF IInv
<1> QED
  BY <1>5, <1>6 DEF IInv, TypeOK

-----------------------------------------------------------------------------
LEMMA ControlKeepsIInv ==
    ASSUME IInv, NEW t \in Threads,
           \/ Clear(t) \/ Stop(t) \/ Start(t)
           \/ \E m \in MaxSizes : SetMaxSize(t, m)
    PROVE  IInv'
<1>1. CASE Clear(t)
  <2>1. /\ size' = 0 /\ max_size' = max_size /\ running' = running
        /\ NotifyAll(PushWaiters)
    BY <1>1 DEF Clear
  <2>2. /\ pc' \in [Threads -> Labels]
        /\ PushWaiters' = {}
        /\ PopWaiters' \subseteq PopWaiters
    BY <2>1, NotifyAllWakes DEF IInv
  <2> QED
    BY <2>1, <2>2, WokenFinite
       DEF IInv, TypeOK, StoppedNobodyWaits, NoLostItemWakeup, NoLostSlotWakeup
<1>2. CASE Stop(t)
  <2>1. /\ size' = size /\ max_size' = max_size /\ running' = FALSE
        /\ NotifyAll(PushWaiters \union PopWaiters)
    BY <1>2 DEF Stop
  <2>2. /\ pc' \in [Threads -> Labels]
        /\ PushWaiters' = {} /\ PopWaiters' = {}
    BY <2>1, NotifyAllWakes DEF IInv
  <2> QED
    BY <2>1, <2>2
       DEF IInv, TypeOK, StoppedNobodyWaits, NoLostItemWakeup, NoLostSlotWakeup
<1>3. CASE Start(t)
  BY <1>3 DEF Start, IInv, TypeOK, StoppedNobodyWaits, NoLostItemWakeup,
              NoLostSlotWakeup, PushWaiters, PopWaiters, PushWoken, PopWoken
<1>4. ASSUME NEW m \in MaxSizes, SetMaxSize(t, m)
      PROVE  IInv'
  <2>1. size' = size /\ max_size' = m /\ running' = running
    BY <1>4 DEF SetMaxSize
  <2>2. CASE m > 0 /\ size < m
    <3>1. /\ pc' \in [Threads -> Labels]
          /\ PushWaiters' = {}
          /\ PopWaiters' \subseteq PopWaiters
          /\ PopWoken \subseteq PopWoken'
      BY <1>4, <2>2, NotifyAllWakes DEF SetMaxSize, IInv
    <3>2. Cardinality(PopWoken) <= Cardinality(PopWoken')
      BY <3>1, WokenFinite, FS_Subset
    <3>3. NoLostItemWakeup'
      BY <2>1, <3>1, <3>2, WokenFinite DEF IInv, TypeOK, NoLostItemWakeup
    <3> QED
      BY <1>4, <2>1, <3>1, <3>3 DEF IInv, TypeOK, StoppedNobodyWaits, NoLostSlotWakeup
  <2>3. CASE ~(m > 0 /\ size < m)
    <3>1. pc' = pc
      BY <1>4, <2>3 DEF SetMaxSize
    <3>2. /\ PushWaiters' = PushWaiters /\ PopWaiters' = PopWaiters
          /\ PopWoken' = PopWoken /\ PushWoken' = PushWoken
      BY <3>1 DEF PushWaiters, PopWaiters, PushWoken, PopWoken
    <3>3. NoLostSlotWakeup'
      BY <1>4, <2>1, <2>3, WokenFinite, SafeQueueAssumption
         DEF IInv, TypeOK, NoLostSlotWakeup, SafeQueueAssumption
    <3> QED
      BY <1>4, <2>1, <3>1, <3>2, <3>3
         DEF IInv, TypeOK, StoppedNobodyWaits, NoLostItemWakeup
  <2> QED
    BY <2>2, <2>3
<1> QED
  BY <1>1, <1>2, <1>3, <1>4

LEMMA SpuriousKeepsIInv ==
    ASSUME IInv, NEW t \in Threads, SpuriousWakeup(t)
    PROVE  IInv'
<1>1. /\ UNCHANGED <<size, max_size, running>>
      /\ pc' = [pc EXCEPT ![t] = Woken(@)]
      /\ pc[t] \in {"pushWait", "popWait", "popForWait"}
  BY DEF SpuriousWakeup
<1>2. pc' \in [Threads -> Labels]
  BY <1>1 DEF IInv, TypeOK, Labels, Woken
<1>3. /\ PushWaiters' \subseteq PushWaiters /\ PopWaiters' \subseteq PopWaiters
      /\ PushWoken \subseteq PushWoken' /\ PopWoken \subseteq PopWoken'
  BY <1>1 DEF IInv, TypeOK, Woken, PushWaiters, PopWaiters, PushWoken, PopWoken
<1>4. /\ Cardinality(PushWoken) <= Cardinality(PushWoken')
      /\ Cardinality(PopWoken) <= Cardinality(PopWoken')
  BY <1>3, WokenFinite, FS_Subset
<1>5. NoLostItemWakeup'
  BY <1>1, <1>3, <1>4, WokenFinite DEF IInv, TypeOK, NoLostItemWakeup
<1>6. NoLostSlotWakeup'
  BY <1>1, <1>3, <1>4, WokenFinite, SafeQueueAssumption
     DEF IInv, TypeOK, NoLostSlotWakeup, SafeQueueAssumption
<1> QED
  BY <1>1, <1>2, <1>3, <1>5, <1>6 DEF IInv, TypeOK, StoppedNobodyWaits

LEMMA NextIInv == IInv /\ [Next]_vars => IInv'
<1> SUFFICES ASSUME IInv, [Next]_vars PROVE IInv'
  OBVIOUS
<1>1. ASSUME NEW t \in Threads,
             \/ PushBlocks(t) \/ PushDropped(t) \/ PushDone(t)
             \/ PopBlocks(t) \/ PopDone(t) \/ PopThrows(t)
             \/ PopForDone(t) \/ PopForNothing(t) \/ PopForTimeoutTakes(t)
             \/ Clear(t) \/ Stop(t) \/ Start(t) \/ SpuriousWakeup(t)
             \/ \E m \in MaxSizes : SetMaxSize(t, m)
      PROVE  IInv'
  <2>1. CASE PushBlocks(t) \/ PopBlocks(t)
    BY <2>1, BlocksKeepIInv
  <2>2. CASE PushDone(t)
    BY <2>2, PushDoneKeepsIInv
  <2>3. CASE PopDone(t) \/ PopForDone(t) \/ PopForTimeoutTakes(t)
    BY <2>3, TakeKeepsIInv DEF PopDone, PopForDone, PopForTimeoutTakes
  <2>4. CASE PushDropped(t) \/ PopThrows(t) \/ PopForNothing(t)
    BY <2>4, LeaveKeepsIInv
  <2>5. CASE Clear(t) \/ Stop(t) \/ Start(t) \/ \E m \in MaxSizes : SetMaxSize(t, m)
    BY <2>5, ControlKeepsIInv
  <2>6. CASE SpuriousWakeup(t)
    BY <2>6, SpuriousKeepsIInv
  <2> QED
    BY <1>1, <2>1, <2>2, <2>3, <2>4, <2>5, <2>6
<1>2. CASE UNCHANGED vars
  BY <1>2 DEF vars, IInv, TypeOK, StoppedNobodyWaits, NoLostItemWakeup,
              NoLostSlotWakeup, PushWaiters, PopWaiters, PushWoken, PopWoken
<1> QED
  BY <1>1, <1>2 DEF Next

-----------------------------------------------------------------------------
(* Every reachable state of the queue is well typed. *)
THEOREM TypeCorrect == Spec => []TypeOK
<1>1. Spec => []IInv
  BY InitIInv, NextIInv, PTL DEF Spec
<1>2. IInv => TypeOK
  BY DEF IInv
<1> QED
  BY <1>1, <1>2, PTL

(* Stop leaves no thread in a wait set, and no thread goes to sleep on a   *)
(* stopped queue.                                                          *)
THEOREM StopWakesEverybody == Spec => []StoppedNobodyWaits
<1>1. Spec => []IInv
  BY InitIInv, NextIInv, PTL DEF Spec
<1>2. IInv => StoppedNobodyWaits
  BY DEF IInv
<1> QED
  BY <1>1, <1>2, PTL

(* No wake-up of a consumer is ever lost, for any number of threads and any *)
(* limits: every item of the queue has a consumer awake for it, or nobody   *)
(* waits for one.                                                           *)
THEOREM NoWakeupIsLost == Spec => []NoLostItemWakeup
<1>1. Spec => []IInv
  BY InitIInv, NextIInv, PTL DEF Spec
<1>2. IInv => NoLostItemWakeup
  BY DEF IInv
<1> QED
  BY <1>1, <1>2, PTL

(* No wake-up of a producer is ever lost, for any number of threads and any *)
(* limits, except for producers that sleep while the limit is set to 0.     *)
THEOREM NoSlotIsLost == Spec => []NoLostSlotWakeup
<1>1. Spec => []IInv
  BY InitIInv, NextIInv, PTL DEF Spec
<1>2. IInv => NoLostSlotWakeup
  BY DEF IInv
<1> QED
  BY <1>1, <1>2, PTL

=============================================================================
