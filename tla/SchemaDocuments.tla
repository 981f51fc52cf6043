--------------------------- MODULE SchemaDocuments ---------------------------
(***************************************************************************)
(* What the projected schemas are for: a validator that has them is to     *)
(* judge a document as the codec does.  Both are given here for documents  *)
(* as trees, and compared when a projection is done.                       *)
(*                                                                         *)
(*   document   [is, ...]: a text, a whole number, a fraction, a boolean,  *)
(*              null, a list [elements], or an object [members], members   *)
(*              a function from names.  Every text is one every format     *)
(*              reads, since a format only annotates a schema.             *)
(***************************************************************************)
EXTENDS SchemaProject, SequencesExt

CONSTANTS
  Measures,   \* the numbers, and the lengths of texts, in documents
  Keys,       \* the names a map's documents have
  Depth       \* how many references a document is inside

Text(length) == [is |-> "text", says |-> "text", measure |-> length]
Says(name) == [is |-> "text", says |-> name, measure |-> 1]
Whole(n) == [is |-> "integer", measure |-> n]
Fraction == [is |-> "fraction"]
Flag == [is |-> "boolean"]
Null == [is |-> "null"]
List(elements) == [is |-> "list", elements |-> elements, measure |-> Len(elements)]
Object(members) == [is |-> "object", members |-> members]

IsObject(document) == document.is = "object"
NamesIn(document) == DOMAIN document.members

----------------------------------------------------------------------------
(* The codec *)

Within(keyword, limit, measure) ==
  CASE keyword \in {"minimum", "minLength", "minItems"} -> measure >= limit
    [] keyword \in {"maximum", "maxLength", "maxItems"} -> measure \leq limit
    [] keyword = "exclusiveMinimum"                     -> measure > limit
    [] keyword = "exclusiveMaximum"                     -> measure < limit

\* Check: each of the constraints is enforced.
Meets(shape, measure) ==
  \A i \in DOMAIN shape.bounds : Within(shape.bounds[i].keyword, shape.bounds[i].limit, measure)

Measured(documents, shape) == {d \in documents : Meets(shape, d.measure)}

\* One document stands for those of a scalar without constraints.
Tried(shape) == IF shape.bounds = <<>> THEN {1} ELSE Measures

WrittenScalars(shape) ==
  CASE shape.scalar = "Integer" -> Measured({Whole(m) : m \in Tried(shape)}, shape)
    [] shape.scalar = "Number"  -> Measured({Whole(m) : m \in Tried(shape)}, shape) \cup
                                   (IF shape.bounds = <<>> THEN {Fraction} ELSE {})
    [] shape.scalar = "Boolean" -> {Flag}
    [] OTHER                    -> Measured({Text(m) : m \in Tried(shape)}, shape)

RequiredOf(members) == {i \in DOMAIN members : ~members[i].optional}

\* The documents values of node n are written as.
RECURSIVE Written(_, _)
Written(n, depth) ==
  LET shape == Node[n]
      members == shape.members
      resolved == IF depth = 0 \/ shape.of = NoNode THEN {} ELSE Written(shape.of, depth - 1)
      inner == Written(shape.of, depth)
      holding(present) ==
        LET parts == [i \in present |-> Written(members[i].of, depth)]
        IN  {[name \in {members[i].name : i \in present} |->
                w[CHOOSE i \in present : members[i].name = name]] :
               w \in {f \in [present -> UNION {parts[i] : i \in present}] :
                        \A i \in present : f[i] \in parts[i]}}
      chosen == UNION {{<<members[i].name, w>> : w \in Written(members[i].of, depth)} : i \in DOMAIN members}
  IN  CASE shape.kind = "scalar"   -> WrittenScalars(shape)
        [] shape.kind = "nullable" -> {Null} \cup inner
        [] shape.kind = "reference" -> resolved
        [] shape.kind = "list"     ->
             Measured({List(<<>>)} \cup {List(<<v>>) : v \in inner} \cup {List(<<v, v>>) : v \in inner}, shape)
        [] shape.kind = "map"      ->
             {Object([k \in present |-> v]) : present \in SUBSET Keys, v \in inner} \cup {Object(<<>>)}
        [] shape.kind = "object"   ->
             UNION {{Object(parts) : parts \in holding(present)} :
                      present \in {S \in SUBSET DOMAIN members : RequiredOf(members) \subseteq S}}
        [] shape.kind = "union" /\ shape.tag = "" -> {Object(c[1] :> c[2]) : c \in chosen}
        [] shape.kind = "union" /\ shape.tag # "" ->
             {Object((shape.tag :> Says(c[1])) @@ c[2].members) : c \in chosen}

ReadsScalar(shape, document) ==
  /\ CASE shape.scalar = "Integer" -> document.is = "integer"
       [] shape.scalar = "Number"  -> document.is \in {"integer", "fraction"}
       [] shape.scalar = "Boolean" -> document.is = "boolean"
       [] OTHER                    -> document.is = "text"
  /\ document.is \in {"integer", "text"} => Meets(shape, document.measure)

\* Whether node n's codec reads document.  A union's names one variant and has
\* no other member; others tells whether that is looked at.
RECURSIVE Reads(_, _, _)
Reads(n, document, others) ==
  LET shape == Node[n]
      member(i) == document.members[shape.members[i].name]
      present == {i \in DOMAIN shape.members : shape.members[i].name \in NamesIn(document)}
  IN  CASE shape.kind = "scalar"    -> ReadsScalar(shape, document)
        [] shape.kind = "nullable"  -> document = Null \/ Reads(shape.of, document, others)
        [] shape.kind = "reference" -> shape.of # NoNode => Reads(shape.of, document, others)
        [] shape.kind = "list"      ->
             /\ document.is = "list" /\ Meets(shape, document.measure)
             /\ \A i \in DOMAIN document.elements : Reads(shape.of, document.elements[i], others)
        [] shape.kind = "map"       ->
             /\ IsObject(document)
             /\ \A k \in NamesIn(document) : Reads(shape.of, document.members[k], others)
        [] shape.kind = "object"    ->
             /\ IsObject(document)
             /\ RequiredOf(shape.members) \subseteq present
             /\ \A i \in present : \/ shape.members[i].optional /\ member(i) = Null
                                   \/ Reads(shape.members[i].of, member(i), others)
        [] shape.kind = "union" /\ shape.tag = "" ->
             /\ IsObject(document)
             /\ \E i \in present : Reads(shape.members[i].of, member(i), others)
             /\ others => Cardinality(NamesIn(document)) = 1
        [] shape.kind = "union" /\ shape.tag # "" ->
             /\ IsObject(document) /\ shape.tag \in NamesIn(document)
             /\ \E i \in DOMAIN shape.members :
                  /\ document.members[shape.tag] = Says(shape.members[i].name)
                  /\ Reads(shape.members[i].of,
                           Object([k \in NamesIn(document) \ {shape.tag} |-> document.members[k]]), others)

----------------------------------------------------------------------------
(* A validator of JSON Schema 2020-12, for the keywords Render writes. *)

HasType(document, type) ==
  CASE type = ""        -> TRUE
    [] type = "string"  -> document.is = "text"
    [] type = "integer" -> document.is = "integer"
    [] type = "number"  -> document.is \in {"integer", "fraction"}
    [] type = "array"   -> document.is = "list"
    [] OTHER            -> document.is = type

RECURSIVE Admits(_, _)
Admits(schema, document) ==
  LET declared == {schema.properties[i].name : i \in DOMAIN schema.properties}
  IN  IF schema.ref # ""
      THEN schema.ref \in DOMAIN components /\ Admits(components[schema.ref], document)
      ELSE /\ HasType(document, schema.type)
           /\ schema.const # "" => document = Says(schema.const)
           /\ document.is \in {"integer", "text", "list"} =>
                \A keyword \in DOMAIN schema.bounds :
                  Within(keyword, schema.bounds[keyword], document.measure)
           /\ IsObject(document) =>
                /\ schema.required \subseteq NamesIn(document)
                /\ \A i \in DOMAIN schema.properties :
                     LET property == schema.properties[i]
                     IN  property.name \in NamesIn(document) =>
                           Admits(property.schema, document.members[property.name])
                /\ schema.values # <<>> =>
                     \A name \in NamesIn(document) \ declared :
                       Admits(schema.values[1], document.members[name])
           /\ document.is = "list" /\ schema.items # <<>> =>
                \A i \in DOMAIN document.elements : Admits(schema.items[1], document.elements[i])
           /\ \A i \in DOMAIN schema.allOf : Admits(schema.allOf[i], document)
           /\ schema.oneOf # <<>> =>
                Cardinality({i \in DOMAIN schema.oneOf : Admits(schema.oneOf[i], document)}) = 1

----------------------------------------------------------------------------
(* Documents another program may send: one that was written, with one thing
   in it changed, or two that were written, as one. *)

Odd == {Text(1), Whole(1), Fraction, Flag, Null, List(<<>>), Object(<<>>)}

Without(f, k) == [l \in DOMAIN f \ {k} |-> f[l]]

RECURSIVE Edited(_, _)
Edited(document, names) ==
  {d \in Odd : d.is # document.is} \cup
  CASE document.is = "object" ->
         {Object(Without(document.members, k)) : k \in NamesIn(document)}
         \cup {Object((name :> value) @@ document.members) :
                 name \in names \ NamesIn(document), value \in {Flag, Whole(1)}}
         \cup UNION {{Object([document.members EXCEPT ![k] = d]) :
                        d \in Edited(document.members[k], names)} : k \in NamesIn(document)}
    [] document.is = "list" ->
         {List(Append(document.elements, d)) : d \in Odd}
         \cup UNION {{List([document.elements EXCEPT ![i] = d]) :
                        d \in Edited(document.elements[i], names)} : i \in DOMAIN document.elements}
    [] document.is \in {"integer", "text"} ->
         {[document EXCEPT !.measure = m] : m \in Measures}
    [] OTHER -> {}

\* A name nobody declares, and those of variants.
OtherNames ==
  {"other"} \cup UNION {{Node[n].members[i].name : i \in DOMAIN Node[n].members} :
                        n \in {m \in Nodes : Node[m].kind = "union" /\ Node[m].tag = ""}}

Sent(n) ==
  LET written == Written(n, Depth)
      objects == {w \in written : IsObject(w)}
  IN  written
      \cup UNION {Edited(w, OtherNames) : w \in written}
      \cup {Object(pair[1].members @@ pair[2].members) :
              pair \in {p \in objects \X objects : NamesIn(p[1]) \cap NamesIn(p[2]) = {}}}

----------------------------------------------------------------------------
(* Properties *)

\* What the codec writes for a description, a validator with its schema admits,
\* whatever else was projected before it (writes: Union, encodeTagged, object;
\* schemas: Project, ProjectAll).
WrittenIsAdmitted ==
  Done => \A i \in DOMAIN job : \A d \in Written(job[i], Depth) : Admits(schemas[i], d)

\* A document that is admitted is one the codec reads, but for a union's other
\* members, which the codec refuses and a validator looks past.
AdmittedIsRead ==
  Done => \A i \in DOMAIN job : \A d \in Sent(job[i]) :
            Admits(schemas[i], d) => Reads(job[i], d, FALSE)

(* What the documentation says beyond that. *)

\* A schema refuses every document the codec refuses (docs/reference/schema.md).
RefusedIsNotAdmitted ==
  Done => \A i \in DOMAIN job : \A d \in Sent(job[i]) :
            Admits(schemas[i], d) => Reads(job[i], d, TRUE)
=============================================================================
