------------------------------- MODULE Shapes -------------------------------
(***************************************************************************)
(* Schemas, as a graph of shapes.  Shape[s] is a record whose kind is the  *)
(* constructor that made the schema:                                       *)
(*                                                                         *)
(*   text, integer, number, bytes, timestamp      a scalar (scalar.go)     *)
(*   list, map, nullable     of                   collection.go            *)
(*   refined                 of, admits           TransformOrFail, Check,  *)
(*                                                Object's constructor     *)
(*   suspend                 of                   Suspend; a cycle of the  *)
(*                                                graph passes one         *)
(*   object                  fields               Struct, Object           *)
(*   union                   variants             Union                    *)
(*   tagged                  variants, tag        TaggedUnion              *)
(*   faulty                                       faultySchema             *)
(*                                                                         *)
(* A field is [name, exact, optional, of]; a variant is [name, of].        *)
(*                                                                         *)
(* The Go value of a shape is: a payload for a scalar; a sequence for a    *)
(* list; a function from keys for a map; <<>> or <<v>> for a nil or set    *)
(* pointer; for an object, a sequence with <<>> or <<v>> for each field,   *)
(* <<>> being what an optional field's getter calls absent; <<i, v>> for a *)
(* union, i being the first variant whose narrow accepts it, or 0.         *)
(***************************************************************************)
EXTENDS Naturals, Sequences, FieldSpelling

CONSTANT
  Shape

Scalars == {"text", "integer", "number", "bytes", "timestamp"}
Wrappers == {"nullable", "refined", "suspend"}

Distinct(parts) == \A i, j \in DOMAIN parts : parts[i].name = parts[j].name => i = j

\* What a variant of a tagged union is underneath a refinement, which keeps the
\* structure of what it refines.  The code looks through any number of them
\* (firstTaggedFault); here a refinement of a refinement is no object.
FieldsOf(s) ==
  IF Shape[s].kind = "refined" THEN Shape[Shape[s].of].fields ELSE Shape[s].fields

IsObject(s) ==
  \/ Shape[s].kind = "object"
  \/ Shape[s].kind = "refined" /\ Shape[Shape[s].of].kind = "object"

(***************************************************************************)
(* What the constructors refuse is never encoded or decoded with: faults   *)
(* propagate to every schema built from a faulty one, except through       *)
(* Suspend (Validate).                                                     *)
(***************************************************************************)
Usable(s) == s \in DOMAIN Shape /\ Shape[s].kind # "faulty"
AllUsable(parts) == \A i \in DOMAIN parts : Usable(parts[i].of)

\* Fields and variants are in the order they were declared.
Listed(parts) == Len(parts) \in Nat /\ DOMAIN parts = 1..Len(parts)

FieldsSound(fields) == Distinct(fields) /\ AllUsable(fields)

VariantsSound(variants) == variants # <<>> /\ Distinct(variants) /\ AllUsable(variants)

\* Every variant of a tagged union is an object without a field named like the tag.
TaggedSound(variants, tag) ==
  \A i \in DOMAIN variants :
    /\ IsObject(variants[i].of)
    /\ \A f \in DOMAIN FieldsOf(variants[i].of) : FieldsOf(variants[i].of)[f].name # tag

ASSUME ShapeAssumption ==
  \A s \in DOMAIN Shape :
    LET shape == Shape[s]
    IN  CASE shape.kind = "object" ->
               Listed(shape.fields) /\ FieldsSound(shape.fields)
          [] shape.kind \in {"union", "tagged"} ->
               /\ Listed(shape.variants)
               /\ VariantsSound(shape.variants)
               /\ shape.kind = "tagged" => TaggedSound(shape.variants, shape.tag)
          [] shape.kind \in {"list", "map", "nullable", "refined"} -> Usable(shape.of)
          [] shape.kind = "suspend" -> shape.of \in DOMAIN Shape
          [] OTHER -> shape.kind \in Scalars \cup {"faulty"}
=============================================================================
