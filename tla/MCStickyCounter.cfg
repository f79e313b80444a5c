\* Three threads race decrements, increments and loads on a 5-bit word; up to
\* seven failed increments between two resets.
CONSTANTS
  t1 = t1
  t2 = t2
  t3 = t3
  Threads = {t1, t2, t3}
  zero_pending_flag = 8
  Args = {1, 2, 3}
  MaxFailed = 7

SPECIFICATION FairSpec
INVARIANTS
  TypeOK
  WordCountsReferences
  NoResurrection
  ClaimedOnce
  NotLeaked
PROPERTIES
  ZeroIsPermanent
  ZeroIsClaimed
  ImplementsLifetime
