CONSTANTS
  c1 = c1
  c2 = c2
  a = a
  b = b
  t = t
  nl = nl
  Clients = {c1, c2}
  Stream <- SinglePackets
  Bytes <- MCBytes
  Newline = nl
  Stamp <- MCStamp
  MaxStamps = 1
  Faults = {"write", "sync", "short", "reopen", "read", "send", "realloc", "create"}
  Stamper = Stamper
  Free = Free
  NULL = NULL

\* The server stops when it is told to, and main may wait for ever in accept.
CHECK_DEADLOCK FALSE
SPECIFICATION FairSpec

INVARIANT FreedAfterUse

PROPERTIES
  EveryPacketHasItsTurn
  MainAcceptsAgain
