CONSTANTS
  Proc = {p1, p2}
  CrashProne = {p1, p2}
  Branch = {main, side}
  None = None
  Frame <- ShortFrame
  Result <- OneResult
  MaximumFuel = 2
  Status <- ShortStatus
  Parent <- ShortParent
  Accepted <- ShortAccepted
  Sequence <- ShortSequence
  Guest <- ShortGuest
  Admissible <- ShortAdmissible
  ForeignBundle <- ParkedBundle
  Command <- Forking
  Asked = {2}
  MaximumExports = 0
SPECIFICATION Spec
SYMMETRY Symmetric
CHECK_DEADLOCK FALSE
INVARIANTS ForkShowsOwnSnapshot
PROPERTIES LogSpec
