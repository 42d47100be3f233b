SPECIFICATION Spec
CONSTANTS
  None = None
  Outcome = {o1, o2}
  Accepting <- AcceptingMC
  MaxTurns = 2
  MaxBundles = 2
  MaxRepeated = 1
SYMMETRY Symmetric
VIEW View
ACTION_CONSTRAINT SourceFirst
INVARIANT BundleHasItsOutcomes
INVARIANT CutImportResumes
PROPERTY CarriedNotAsked
PROPERTY ImportOnlyAdds
CHECK_DEADLOCK FALSE
