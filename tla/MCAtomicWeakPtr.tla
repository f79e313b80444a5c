-------------------------- MODULE MCAtomicWeakPtr --------------------------
(* Instances of AtomicWeakPtr for TLC.                                     *)
EXTENDS AtomicWeakPtr, TLC

\* Thread 1 reads, locks and compare_and_swaps, and keeps the counts it gets;
\* thread 2 publishes objects in both kinds of atomic pointers, lets them
\* expire, and puts back the weak_ptrs that it gets by exchange.
ReaderAndPublisher ==
  [t \in Threads |->
     IF t = 1 THEN {"get_snapshot", "weak", "clear_weak", "load", "cas", "lock"}
     ELSE {"make_shared", "clear", "weak", "store", "store_rc", "cas_move", "exchange"}]

\* Everybody locks and lets go.
LockAndClear ==
  [t \in Threads |-> {"make_shared", "clear", "weak", "clear_weak", "lock", "store", "load"}]
=============================================================================
