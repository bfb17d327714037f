CONSTANTS
  p1 = p1
  p2 = p2
  f1 = f1
  f2 = f2
  a = a
  nl = nl
  Procs = {p1, p2}
  Files = {f1}
  Uses <- SharedFile
  Bytes <- MCBytes
  Newline = nl
  Payloads <- LineOrNothing
  Counts = {1}
  Seeks <- SomeSeeks
  SeekTos <- SomeSeekTos
  PosLimit = 5
  AllocMayFail = TRUE
  MaxPending = 0
  Capacity = 2
  NULL = NULL
  Free = Free

SPECIFICATION FairSpec

INVARIANTS
  LockDiscipline

PROPERTIES
  SeeksLand
  ImplementsRecentWrites
  EveryCallReturns
