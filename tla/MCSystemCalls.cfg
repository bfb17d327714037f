CONSTANTS
  p1 = p1
  p2 = p2
  p3 = p3
  Pids = {p1, p2, p3}
  Others = {p1}
  MaxFd = 4
  OpenAtStart = {0, 1, 2}
  Faults = {"open", "fork", "execv", "dup2", "waitpid"}
  AnyChild = AnyChild
  None = None

\* abort ends the caller.
CHECK_DEADLOCK FALSE
SPECIFICATION FairSpec

INVARIANTS
  NoChildIsLeft
  CommandWritesToTheFile

PROPERTIES
  ReportsItsOwnCommand
  OtherChildrenStay
  EveryCallReturns
