CONSTANTS
  t1 = t1
  t2 = t2
  t3 = t3
  m1 = m1
  m2 = m2
  Threads = {t1, t2, t3}
  Mutexes = {m1, m2}
  Caller = Caller
  Free = Free
  Faults = {"pthread_create", "lock", "unlock"}

\* Nobody gets a mutex that a failing unlock has left locked.
CHECK_DEADLOCK FALSE
SPECIFICATION FairSpec

INVARIANTS
  SuccessMeansReleased

PROPERTY EveryThreadEnds
