CONSTANTS
  Proc = {p1, p2, p3}
  CrashProne = {p2, p3}
  FaultProne = {p3}
  Breaker = {p1, p2}
  Inode = {i1, i2, i3}
  None = None
SPECIFICATION FairSpec
INVARIANTS OneHolder SurvivorsLeaveNoLock
PROPERTY StaleLockGoes
