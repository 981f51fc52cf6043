CONSTANTS
  Node <- MCNode
  NoNode <- MCNoNode
  Jobs <- MCJobs
  StackLimit = 5
SPECIFICATION Spec
CHECK_DEADLOCK FALSE
INVARIANT
  DerivedAsPromised
PROPERTY
  DerivationEnds
