CONSTANTS
  Task = {t1, t2}
  FailProne = {t1, t2}
  Branch = {main, side}
  Main = main
  None = None
  Closure <- ShortClosure
  Genesis = "genesis"
  Classes = {"externally_recoverable"}
  Final <- MCFinal
  Key <- MCKey
  Outcome <- MCOutcome
  Pending <- ShortPending
  World <- ShortWorld
  Applied <- ShortApplied
  Accepting <- MCAccepting
SPECIFICATION Spec
SYMMETRY Symmetric
CHECK_DEADLOCK FALSE
INVARIANTS ListedHeadsPublished
PROPERTIES OutcomesShared
