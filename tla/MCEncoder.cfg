CONSTANTS
  Shape <- MCShape
  Spell <- MCSpell
  Literal = "literal"
  AsText <- MCAsText
  Instants = {"i1"}
  Utf8 = {}
  Whole = {"1", "2", "3"}
  NotFinite = {"NaN"}
  Inputs <- MCInputs
  Keys <- MCKeys
  Values <- MCValues
SPECIFICATION FairSpec
INVARIANTS
  EncodesInStep
  DuplicatesNeedStrategy
  FailureLocated
  WholeDocument
PROPERTIES
  EveryEncodeEnds
