\* The buffer with 10 slots: every reachable buffer over two kinds of entry.
CONSTANTS
  Capacity = 10
  Entries <- MCEntries

SPECIFICATION Spec

INVARIANTS
  RingShape
  FindAgreesWithConcatenation

PROPERTY ImplementsRecentWrites
