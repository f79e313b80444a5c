----------------------- MODULE MCHyalineReclamation -----------------------
(* Instances of HyalineReclamation for TLC.                                *)
EXTENDS HyalineReclamation, TLC

EntrySymmetry == Permutations(Entries)

AllStrong == [x \in Entries |-> "decrement_strong_count"]

\* A strong and a weak reference to objects of one type share a manager.
OneStrong ==
  LET strong == CHOOSE x \in Entries : TRUE
  IN  [x \in Entries |-> IF x = strong THEN "decrement_strong_count"
                                       ELSE "decrement_weak_count"]
=============================================================================
