CONSTANTS
  Shape <- MCShape
  Spell <- MCSpell
  AsText <- MCAsText
  Instants = {"i1"}
  Utf8 = {}
  Whole = {"1", "2", "3"}
  NotFinite = {"NaN"}
  Requests <- MCRequests
SPECIFICATION FairSpec
INVARIANTS
  DecodesInStep
  OneValueRead
PROPERTIES
  ObjectsAreWhole
  EveryDecodeEnds
