CONSTANTS
  Task = {t1, t2}
  FailProne = {t1}
  Branch = {main}
  Main = main
  None = None
  Closure <- MCClosure
  Genesis = "genesis"
  Classes = {"idempotent", "externally_recoverable", "best_effort"}
  Final <- MCFinal
  Key <- MCKey
  Outcome <- MCOutcome
  Pending <- MCPending
  World <- MCWorld
  Applied <- MCApplied
  Accepting <- MCAccepting
SPECIFICATION FairSpec
CHECK_DEADLOCK FALSE
INVARIANTS HeadsAreTurns InvokedOnce CommittedOutcomesRetained CommittedEffectsPublished HeadEffectsFinalizable
PROPERTIES ParkedNeedsOperator OutcomeIsPublished
