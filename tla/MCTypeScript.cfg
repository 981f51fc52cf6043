CONSTANTS
  Node <- MCNode
  NoNode <- MCNoNode
  Identifier <- MCIdentifier
  Alphabet <- MCAlphabet
  Jobs <- MCJobs
SPECIFICATION Spec
CHECK_DEADLOCK FALSE
INVARIANTS
  LoadsInOrder
  SuspendedAreAnnotated
  Resolves
PROPERTIES
  ModuleEnds
