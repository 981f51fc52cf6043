SPECIFICATION FairSpec
CONSTANTS
  NoNode <- MCNoNode
  Node <- MCNode
  Jobs <- MCJobs
INVARIANTS
  WalkInv
  NothingDangles
  FileSaysItsShapes
PROPERTIES
  ImplementsDeclareOnce
  EndsWithItsShapes
