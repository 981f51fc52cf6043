CONSTANTS
  Shape <- MCShape
  Spell <- MCSpell
  Literal = "literal"
  AsText <- MCAsText
  Instants = {"i0", "i1"}
  Utf8 = {}
  Whole = {"0", "1", "2"}
  NotFinite = {}
  Inputs <- MCZeroChoice
  Keys <- MCKeys
  Values <- MCValues
  Zero <- MCZero
  Liberties = {}
  MaxRewrites = 1
SPECIFICATION Spec
INVARIANT
  ChosenIsWritten
