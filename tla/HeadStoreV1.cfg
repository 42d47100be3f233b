SPECIFICATION FairSpec
CONSTANTS
  Proc = {p1, p2}
  App = {a1, a2}
  Frame = {f1}
  MaxGeneration = 1
  None = None
PROPERTIES ImplementsBranchHead CallsReturn
