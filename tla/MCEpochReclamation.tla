------------------------- MODULE MCEpochReclamation -------------------------
(* Instances of EpochReclamation for TLC.                                  *)
EXTENDS EpochReclamation, TLC

EntrySymmetry == Permutations(Entries)
=============================================================================
