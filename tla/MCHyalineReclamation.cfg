\* Two threads, batches of three.
CONSTANTS
  v = v
  w = w
  x = x
  y = y
  z = z
  none = none
  N = 2
  Entries = {v, w, x, y, z}
  KindOf <- AllStrong
  batch_size = 1
  REFC_PROTECT = 100
  MaxGuards = 2

SYMMETRY EntrySymmetry
SPECIFICATION Spec
INVARIANTS
  TypeOK
  SharesAreCounted
  DrainLeavesNothing
PROPERTIES
  ImplementsReclamation
