CONSTANTS
  Proc = {p1, p2}
  CrashProne = {p1}
  Branch = {main}
  None = None
  Frame <- MCFrame
  Result <- MCResult
  MaximumFuel = 2
  Status <- MCStatus
  Parent <- MCParent
  Accepted <- MCAccepted
  Sequence <- MCSequence
  Guest <- MCGuest
  Admissible <- MCAdmissible
  ForeignBundle <- NoBundle
  Command <- Resuming
  Asked = {1, None}
  MaximumExports = 1
SPECIFICATION FairSpec
CHECK_DEADLOCK FALSE
INVARIANTS BlocksRetained ChildrenReplay RetryAppliesInspected BundlesReplay
PROPERTIES RetainedResultPublished
