SPECIFICATION Spec
CONSTANTS
  c1 = c1
  c2 = c2
  c3 = c3
  Caller = {c1, c2, c3}
  CrashProne = {c3}
  Name = {n1, n2}
  Application = {a1, a2}
  Content = {x1, x2}
  None = None
SYMMETRY Symmetry
INVARIANTS OneNamePerApplication RegisteredResolves IdentityHasName
CHECK_DEADLOCK FALSE
