CONSTANTS
  Handle <- MCHandle
  Program <- MCProgram
  NewNames = {"title", "seen_at", ""}
  NewDocs = {"d"}
  NewForms <- MCForms
  Strategies <- MCStrategies
  Literal = "literal"
  Spell <- MCSpell
  Blank = ""
  MaxSchemas = 8
  Value <- MCValue
SPECIFICATION Spec
CHECK_DEADLOCK FALSE
INVARIANTS
  HandlesNameOneField
  DescriptionsInStep
  WrittenAsDescribed
  ReadsBack
  RebuiltAgrees
PROPERTIES
  ImplementsPublished
