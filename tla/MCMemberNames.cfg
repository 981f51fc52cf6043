CONSTANTS
  Goroutines = {g1, g2}
  Strategies <- MCStrategies
  Literal = "literal"
  Names = {"", "camel", "snake"}
  NameOf <- MCNameOf
  None = None
  Fields <- MCFields
  MemberName <- MCMemberName
  Spell <- MCSpell
  MaxSpellings = 4
SPECIFICATION FairSpec
INVARIANTS
  CacheInv
  WriterAndReaderAgree
PROPERTIES
  ImplementsSpellOnce
  EveryCallReturns
