\* Two threads, an atomic_weak_ptr and an atomic_rc_ptr: all three deferred
\* actions, two rc_ptrs and two weak_ptrs per thread.
CONSTANTS
  null = null
  a = a
  w1 = w1
  s1 = s1
  N = 2
  Objects = {a}
  Locations = {w1, s1}
  StrongLocations = {s1}
  RetireType = {"decrement_strong_count", "decrement_weak_count", "dispose"}
  snapshot_slots = 1
  eject_delay = 0
  min_ejects = 1
  MaxRc = 2
  MaxWeak = 2
  Ops <- ReaderAndPublisher

SPECIFICATION Spec
INVARIANTS
  TypeOK
  NoUseAfterFree
  NotDisposedWhileRead
  CountsAreExact
  DisposedOnce
