---------------------------- MODULE FieldSpelling ----------------------------
(***************************************************************************)
(* What an object's fields are called under a naming strategy              *)
(* (spellFields in schema/object_naming.go).  Fields are a sequence of     *)
(* records with at least [name, exact, optional].                          *)
(***************************************************************************)
EXTENDS Naturals, Sequences

CONSTANT
  Spell       \* Spell[s][n]: name n as strategy s spells it

\* A name given exactly by a projection is not respelled by any strategy.
SpelledName(fields, s, i) ==
  IF fields[i].exact THEN fields[i].name ELSE Spell[s][fields[i].name]

\* Slip: each name is compared with the one before it alone.
NeighboursAlike(fields, s) ==
  \E i, j \in DOMAIN fields :
    j = i + 1 /\ SpelledName(fields, s, i) = SpelledName(fields, s, j)

\* Two fields this strategy spells alike: refused when a value is written or
\* read with it.
SpellingFault(fields, s) ==
  \E i, j \in DOMAIN fields :
    i < j /\ SpelledName(fields, s, i) = SpelledName(fields, s, j)

Known(fields, s, n) == \E i \in DOMAIN fields : SpelledName(fields, s, i) = n

\* The decoder's index: a later field of the same name replaces an earlier.
ByName(fields, s, n) ==
  CHOOSE i \in DOMAIN fields :
    /\ SpelledName(fields, s, i) = n
    /\ \A j \in DOMAIN fields : SpelledName(fields, s, j) = n => j <= i

Required(fields, s) ==
  {SpelledName(fields, s, i) : i \in {j \in DOMAIN fields : ~fields[j].optional}}
=============================================================================
