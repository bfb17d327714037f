CONSTANTS
  p1 = p1
  p2 = p2
  f1 = f1
  f2 = f2
  a = a
  nl = nl
  Procs = {p1}
  Files = {f1}
  Uses <- OneProcess
  Bytes <- MCBytes
  Newline = nl
  Payloads <- LinePayloads
  Counts = {1}
  Seeks <- NoSeeks
  SeekTos <- NoSeekTos
  PosLimit = 16
  AllocMayFail = FALSE
  MaxPending = 0
  Capacity = 2
  MaxWritten = 6
  NULL = NULL
  Free = Free

SPECIFICATION HistSpec

INVARIANT EveryBlockReachable
