\* One thread that retires a strong and a weak reference: a batch of two.
CONSTANTS
  x = x
  y = y
  none = none
  N = 1
  Entries = {x, y}
  KindOf <- OneStrong
  batch_size = 1
  REFC_PROTECT = 100
  MaxGuards = 1

SPECIFICATION Spec
INVARIANTS
  AppliesWhatWasRetired
