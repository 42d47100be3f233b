SPECIFICATION FairSidecarSpec
CONSTANTS
  Limit = 2
  MaxWrites = 3
INVARIANT AnsweredIffComplete
INVARIANT NoChildLeft
PROPERTY CallReturns
