CONSTANTS
  c1 = c1
  c2 = c2
  a = a
  b = b
  nl = nl
  s = s
  r = r
  Clients = {c1, c2}
  Stream <- Streams
  Bytes <- MCBytes
  Newline = nl
  SeekText <- Requests
  FILE_BUF_SIZE = 2
  MaxFds = 2
  Faults = {"memory"}
  Capacity = 3
  PosLimit = 100
  NULL = NULL
  Free = Free

\* Nothing is left to do when every client has hung up.
CHECK_DEADLOCK FALSE
SPECIFICATION FairSpec

INVARIANTS
  OneAtATime
  EveryLineStored
  DescriptorsInUse

PROPERTIES
  RepliesAnswer
  EveryPacketHasItsTurn
