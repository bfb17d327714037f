CONSTANTS
  p1 = p1
  p2 = p2
  f1 = f1
  f2 = f2
  a = a
  nl = nl
  Procs = {p1, p2}
  Files = {f1, f2}
  Uses <- PrivateFiles
  Bytes <- MCBytes
  Newline = nl
  Payloads <- LinePayloads
  Counts = {1, 3}
  Seeks <- Rewind
  SeekTos <- OneSeekTo
  PosLimit = 16
  AllocMayFail = FALSE
  MaxPending = 0
  Capacity = 2
  MaxWritten = 5
  NULL = NULL
  Free = Free

SPECIFICATION HistSpec
SYMMETRY Swap

INVARIANTS
  SavedWhatWasWritten
  ReadsInOrder
  PendingHasNoNewline

PROPERTIES
  ReadsDeliver
