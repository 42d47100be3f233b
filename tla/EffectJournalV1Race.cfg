SPECIFICATION Spec
CONSTANTS
  c1 = c1
  c2 = c2
  c3 = c3
  Caller = {c1, c2, c3}
  CrashProne = {}
  Key = {source, target}
  Result = {r1, r2}
  Fuel = {f1, f2}
  Handler = {h1, h2}
  None = None
SYMMETRY Symmetry
INVARIANT DifferentRejected
CHECK_DEADLOCK FALSE
