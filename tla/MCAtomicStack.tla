--------------------------- MODULE MCAtomicStack ---------------------------
(* Instances of AtomicStack for TLC.                                       *)
EXTENDS AtomicStack
=============================================================================
