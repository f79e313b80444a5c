\* Two threads, two references, an epoch every second allocation, a collection
\* at every retire.
CONSTANTS
  x = x
  y = y
  N = 2
  Entries = {x, y}
  epoch_frequency = 1
  eject_delay = 0
  min_ejects = 1
  MaxEpoch = 2
  MaxGuards = 2

SPECIFICATION Spec
INVARIANTS
  TypeOK
  WorkIsBounded
  HeldIsNotEjected
PROPERTIES
  ImplementsReclamation
