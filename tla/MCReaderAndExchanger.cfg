\* One thread loads, another exchanges and drops what it got.
CONSTANTS
  null = null
  a = a
  r1 = r1
  N = 2
  Objects = {a}
  Locations = {r1}
  RetireType = {"decrement_strong_count"}
  snapshot_slots = 1
  eject_delay = 0
  min_ejects = 1
  MaxRc = 1
  Ops <- ReaderAndExchanger

SPECIFICATION Spec
INVARIANTS
  NoUseAfterFree
