---------------------------- MODULE MCSafeQueue ----------------------------
(* Four threads are enough for two to be blocked on the same condition     *)
(* variable while the third one frees a slot, stops the queue or changes   *)
(* its limit; limits 1 and 2 let SetMaxSize shrink and grow a full queue.  *)
EXTENDS SafeQueue

CONSTANTS t1, t2, t3, t4

MCThreads == {t1, t2, t3, t4}
MCMaxSizes == {0, 1, 2}
=============================================================================
