CONSTANTS
  u1 = u1
  u2 = u2
  m1 = m1
  m2 = m2
  b1 = b1
  b2 = b2
  b3 = b3
  b4 = b4
  b5 = b5
  Users = {u1, u2}
  Majors = {m1, m2}
  Blocks = {b1, b2, b3, b4, b5}
  Capacity = 2
  NULL = NULL
  ZeroSize = ZeroSize

SPECIFICATION Spec
SYMMETRY UsersAndBlocks

INVARIANTS
  OpenMeansReady
  PointersOwnTheirBlocks
  NothingLeftBehind
  LoadedMeansUsable
