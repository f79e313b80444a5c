\* Two threads, two atomic_rc_ptrs, one address that is reused, one snapshot
\* slot per thread, every operation, a collection at every retire.
CONSTANTS
  null = null
  a = a
  r1 = r1
  r2 = r2
  N = 2
  Objects = {a}
  Locations = {r1, r2}
  RetireType = {"decrement_strong_count"}
  snapshot_slots = 1
  eject_delay = 0
  min_ejects = 1
  MaxRc = 1
  Ops <- EveryOperation

SPECIFICATION Spec
SYMMETRY RootSymmetry
INVARIANTS
  TypeOK
  NoUseAfterFree
  CountIsExact
