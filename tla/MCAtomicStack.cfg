\* Two threads, two values, memory for three nodes.
CONSTANTS
  t1 = t1
  t2 = t2
  n1 = n1
  n2 = n2
  n3 = n3
  a = a
  b = b
  null = null
  Threads = {t1, t2}
  Nodes = {n1, n2, n3}
  Values = {a, b}

SPECIFICATION FairSpec
INVARIANTS
  TypeOK
  SnapshotKeepsTheChain
PROPERTIES
  StackDiscipline
  DestructionIsShallow
  CallsReturn
