\* Two threads, two keys, memory for three nodes.
CONSTANTS
  t1 = t1
  t2 = t2
  n1 = n1
  n2 = n2
  n3 = n3
  head = head
  tail = tail
  null = null
  Threads = {t1, t2}
  Nodes = {n1, n2, n3}
  Keys = {1, 2}

SYMMETRY NodeSymmetry
SPECIFICATION Spec
INVARIANTS
  ListIsSorted
PROPERTIES
  AnswersAreLinearizable
  EffectsAreAtomic
