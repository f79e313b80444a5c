--------------------------- MODULE MCAtomicRcPtr ---------------------------
(* Instances of AtomicRcPtr for TLC.                                       *)
EXTENDS AtomicRcPtr, TLC

ObjectSymmetry == Permutations(Objects)
RootSymmetry == Permutations(Roots)

\* Every operation.  Threads that exchange put what they get back into an
\* atomic_rc_ptr, they never clear it.
EveryOperation ==
  [t \in Threads |->
     {"make_shared", "copy", "load", "get_snapshot", "store", "store_snapshot", "cas", "cas_move"}
       \cup {IF t = 1 THEN "clear" ELSE "exchange"}]

\* Thread 1 walks a list and keeps what it finds; the others build and cut it.
\* In the end the manager is destroyed.
WalkerAndBuilders ==
  [t \in Threads |-> IF t = 1 THEN {"get_snapshot", "clear", "exit"}
                      ELSE {"make_shared", "store", "store_snapshot", "clear"}]

\* Exchange beside a reader.
ReaderAndExchanger ==
  [t \in Threads |-> IF t = 1 THEN {"load", "get_snapshot", "clear"}
                      ELSE {"make_shared", "clear", "exchange"}]
=============================================================================
