SPECIFICATION FairSpec
CONSTANTS
  Inputs <- MCInputs
  BufferIn = 2
  BufferOut = 2
  Limit = 6
INVARIANTS LimitExact AcceptsExactly
PROPERTY Terminates
