------------------------- MODULE ReferenceLifetime -------------------------
(***************************************************************************)
(* What a reference counter promises to the memory it guards, with no bits *)
(* and no threads: references are taken and given back; once none is left  *)
(* the counter may stick at zero; from then on none can be taken, and one  *)
(* releaser, never two, is told to free the memory.                        *)
(***************************************************************************)
EXTENDS Naturals

VARIABLES
  count,    \* references that exist
  stuck,    \* the counter is stuck at zero
  claimed   \* a releaser has been told that the counter hit zero

vars == <<count, stuck, claimed>>

Init ==
  /\ count \in Nat
  /\ stuck = (count = 0)
  /\ claimed = (count = 0)

Acquire ==
  /\ ~stuck
  /\ count' \in Nat /\ count' > count
  /\ UNCHANGED <<stuck, claimed>>

Release ==
  /\ ~stuck
  /\ count' \in Nat /\ count' < count
  /\ UNCHANGED <<stuck, claimed>>

\* The zero becomes permanent; the releaser may be told in the same step.
Stick ==
  /\ count = 0 /\ ~stuck
  /\ stuck' = TRUE
  /\ claimed' \in BOOLEAN
  /\ UNCHANGED count

Claim ==
  /\ stuck /\ ~claimed
  /\ claimed' = TRUE
  /\ UNCHANGED <<count, stuck>>

Restart ==
  /\ stuck /\ claimed
  /\ count' \in Nat
  /\ stuck' = (count' = 0)
  /\ claimed' = (count' = 0)

Next == Acquire \/ Release \/ Stick \/ Claim \/ Restart

Spec == Init /\ [][Next]_vars
=============================================================================
