CONSTANTS
  Shape <- MCShape
  Spell <- MCSpell
  Literal = "literal"
  AsText <- MCAsText
  Instants = {"i0", "i1"}
  Utf8 = {}
  Whole = {"0", "1", "2"}
  NotFinite = {}
  Inputs <- MCInputs
  Keys <- MCKeys
  Values <- MCValues
  Zero <- MCZero
  Liberties = {"order", "unknown", "over", "zero", "split", "drop", "layout"}
  MaxRewrites = 2
SPECIFICATION Spec
INVARIANTS
  ReadAsWritten
  ImpliedZeroIsChecked
  OtherLayoutRefused
  ForwardsTheSame
