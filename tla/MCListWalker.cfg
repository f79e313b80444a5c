\* Objects with an atomic_rc_ptr member: one thread builds and cuts chains of up
\* to three objects while another walks them, with a snapshot slot and a count.
CONSTANTS
  null = null
  a = a
  b = b
  c = c
  r1 = r1
  N = 2
  Objects = {a, b, c}
  Locations = {r1, a, b, c}
  RetireType = {"decrement_strong_count"}
  snapshot_slots = 1
  eject_delay = 0
  min_ejects = 1
  MaxRc = 2
  Ops <- WalkerAndBuilders

SPECIFICATION FairSpec

INVARIANTS
  NoUseAfterFree
  CountIsExact
  GarbageIsBounded
  DrainLeavesNothing

PROPERTIES
  CollectionEnds
