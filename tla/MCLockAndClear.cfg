\* Both threads lock, clear and collect.
CONSTANTS
  null = null
  a = a
  w1 = w1
  N = 2
  Objects = {a}
  Locations = {w1}
  StrongLocations = {}
  RetireType = {"decrement_strong_count", "decrement_weak_count", "dispose"}
  snapshot_slots = 0
  eject_delay = 0
  min_ejects = 1
  MaxRc = 1
  MaxWeak = 2
  Ops <- LockAndClear

SPECIFICATION Spec
INVARIANTS
  DecrementIsSafe
