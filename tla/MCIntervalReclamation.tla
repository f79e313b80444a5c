----------------------- MODULE MCIntervalReclamation -----------------------
(* Instances of IntervalReclamation for TLC.                               *)
EXTENDS IntervalReclamation, TLC

EntrySymmetry == Permutations(Entries)
=============================================================================
