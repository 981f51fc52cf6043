CONSTANTS
  Node <- MCNode
  NoNode <- MCNoNode
  Jobs <- MCAllJobs
  StackLimit = 24
  Measures = {0, 1, 2, 3}
  Keys = {"k"}
  Depth = 1
SPECIFICATION Spec
CHECK_DEADLOCK FALSE
INVARIANTS
  WrittenIsAdmitted
  AdmittedIsRead
  NothingDangles
PROPERTIES
  ProjectionEnds
