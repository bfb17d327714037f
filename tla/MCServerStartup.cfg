CONSTANTS
  s1 = s1
  s2 = s2
  s3 = s3
  Servers = {s1, s2, s3}
  OpenAtStart = {0, 1, 2}
  MaxFd = 5
  Free = Free
  None = None

SPECIFICATION Spec

INVARIANT
  KeepsItsSocketOnly

PROPERTIES
  SuccessMeansBound
  
