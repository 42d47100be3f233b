CONSTANTS
  Effect = {1, 2, 3, 4, 5}
  NoError = NoError
  None = None
  Batches = {}
  Scenarios <- MCScenarios
  ModelLabel = {"model:http-json", "model:fixture"}
  FixtureLabel = {"model:fixture"}
  NetworkLabel = {"model:http-json", "network:api"}
  FileLabel = {"file:root"}
  HumanLabel = {"human:ask"}
SPECIFICATION FairSpec
INVARIANTS LiveBudgetRespected AskedWithinPolicy AdmittedIsServed EveryRequestAccounted
PROPERTIES ImplementsPool BatchSettles
