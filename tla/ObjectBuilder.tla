---------------------------- MODULE ObjectBuilder ----------------------------
(***************************************************************************)
(* Declaring objects and projecting them (schema/object.go,                *)
(* object_projection.go, naming_fixed.go).  A program declares its objects *)
(* and then makes projections of any schema it has, in any order.          *)
(*                                                                         *)
(* A schema is a value that is never changed, but its fields are a slice,  *)
(* in memory that another schema may hold too: arrays is that memory.  A   *)
(* slice is a function from the places its fields had when they were       *)
(* declared, in whose order they are; leaving one out leaves a gap.        *)
(*                                                                         *)
(*   field        [key, name, exact, doc, optional, takesNull, form,       *)
(*                 settable, faulty]: an erasedField.  form is the schema  *)
(*                 its value is written and read by, settable that it has  *)
(*                 a decode, takesNull that its read looks for a null.     *)
(*   form         [name, schema]: a scalar's, with schema 0, or that of    *)
(*                 the schema with that number.                            *)
(*   description  [name, exact, doc, optional, form, respelled]: a         *)
(*                 structure.Field, respelled the strategies Spell has     *)
(*                 passed through its node, the first of them first.       *)
(*   schema       [type, constructed, parts, omitted, sound, description,  *)
(*                 inner, strategy]: parts is the array of its fields, 0   *)
(*                 when it keeps none; inner the schema WithNaming was     *)
(*                 called on, with what strategy.                          *)
(***************************************************************************)
EXTENDS FieldSpelling

CONSTANTS
  Handle,      \* the program's handles: [type, of, set, field]
  Program,     \* what it declares, in order: [type, handles, constructed, reads]
  NewNames, NewDocs, NewForms,  \* what a projection may give a member
  Strategies, Literal,
  Blank,       \* the name that is none
  MaxSchemas   \* bound on the schemas made

Handles == DOMAIN Handle
Keys == {Handle[h].field.key : h \in Handles}
KeyOf(h) == Handle[h].field.key
Plain == [name |-> "object", schema |-> 0]

Vocabulary == DOMAIN Spell[Literal]
FormNames == {"object"} \cup {Handle[h].field.form.name : h \in Handles} \cup {f.name : f \in NewForms}
Forms == [name : FormNames, schema : Nat]
Fields == [key : Keys, name : Vocabulary, exact : BOOLEAN, doc : STRING, optional : BOOLEAN,
           takesNull : BOOLEAN, form : Forms, settable : BOOLEAN, faulty : BOOLEAN]

\* Copies of a handle, which modifiers make, have its key, its name and its
\* accessors.  A member is optional in all it does or in nothing (FieldOf,
\* OptionalFieldOf, Optional).  A handle is declared once the schema of its
\* form is, and no object has more fields than there are handles for.
ASSUME HandleAssumption ==
  /\ \A h \in Handles : /\ Handle[h].type \in STRING /\ Handle[h].set \in BOOLEAN
                        /\ Handle[h].field \in Fields
  /\ \A g, h \in Handles : KeyOf(g) = KeyOf(h) =>
       /\ Handle[g].type = Handle[h].type /\ Handle[g].set = Handle[h].set
       /\ Handle[g].field.name = Handle[h].field.name
  /\ \A h \in Handles :
       /\ ~Handle[h].field.exact
       /\ Handle[h].field.takesNull = Handle[h].field.optional
       /\ Handle[h].field.settable = Handle[h].set

Declarations ==
  [type : STRING, handles : Seq(Handles), constructed : BOOLEAN, reads : SUBSET Keys]

ASSUME ProgramAssumption ==
  /\ Program \in Seq(Declarations)
  /\ MaxSchemas \in Nat

ASSUME NameAssumption ==
  /\ NewNames \subseteq Vocabulary /\ NewDocs \subseteq STRING /\ NewForms \subseteq Forms
  /\ \A s \in Strategies : Spell[s] \in [Vocabulary -> Vocabulary]

VARIABLES
  arrays,     \* the slices made so far
  schemas     \* the schemas made so far

vars == <<arrays, schemas>>

Init == arrays = <<>> /\ schemas = <<>>

----------------------------------------------------------------------------
(* What a schema is made from *)

Places(fields) == DOMAIN fields
KeysIn(fields) == {fields[p].key : p \in Places(fields)}

\* parts.index
Index(fields, key) == CHOOSE p \in Places(fields) : fields[p].key = key

\* describeFields
DescribeFields(fields) ==
  [p \in Places(fields) |->
     [name |-> fields[p].name, exact |-> fields[p].exact, doc |-> fields[p].doc,
      optional |-> fields[p].optional, form |-> fields[p].form, respelled |-> <<>>]]

\* Slip: each name is compared with the one before it alone.
NeighbourFault(fields) ==
  \/ \E p \in Places(fields) : fields[p].name = Blank \/ fields[p].faulty
  \/ \E p, q \in Places(fields) : q = p + 1 /\ fields[p].name = fields[q].name

\* firstFieldFault
FieldFault(fields) ==
  \/ \E p \in Places(fields) : fields[p].name = Blank \/ fields[p].faulty
  \/ \E p, q \in Places(fields) : p < q /\ fields[p].name = fields[q].name

\* The schema of an object with these fields, in the array that is added now.
Assemble(type, fields, constructed, omitted, readable) ==
  [type |-> type, constructed |-> constructed, parts |-> Len(arrays) + 1, omitted |-> omitted,
   sound |-> /\ readable
             /\ ~FieldFault(fields)
             /\ ~constructed /\ ~omitted => \A p \in Places(fields) : fields[p].settable,
   description |-> DescribeFields(fields), inner |-> 0, strategy |-> Literal]

\* withFault
WithFault(schema) ==
  [schema EXCEPT !.parts = 0, !.sound = FALSE, !.inner = 0, !.strategy = Literal]

Allocate(fields) == arrays' = Append(arrays, fields)
Make(schema) == schemas' = Append(schemas, schema)

----------------------------------------------------------------------------
(* Struct and Object.  A constructor is tried out on no values, and refused if
   it reads a field that is not declared (probeConstructor). *)

Declared == Len(schemas) >= Len(Program)

Declare ==
  /\ ~Declared
  /\ LET given == Program[Len(schemas) + 1]
         fields == [p \in DOMAIN given.handles |-> Handle[given.handles[p]].field]
     IN  /\ Allocate(fields)
         /\ Make(Assemble(given.type, fields, given.constructed, FALSE,
                          given.constructed => given.reads \subseteq KeysIn(fields)))

----------------------------------------------------------------------------
(* Omit, Rename, Describe, Represent and Reshape *)

May(i) == Declared /\ Len(schemas) < MaxSchemas /\ i \in DOMAIN schemas

\* projectable
Projectable(i) == schemas[i].sound /\ schemas[i].parts # 0
FieldsOf(i) == arrays[schemas[i].parts]

Refuse(i) == Make(WithFault(schemas[i])) /\ UNCHANGED arrays

Omit(i, leaving) ==
  /\ May(i)
  /\ \A h \in leaving : Handle[h].type = schemas[i].type
  /\ LET keys == {KeyOf(h) : h \in leaving}
     IN  IF Projectable(i) /\ keys \subseteq KeysIn(FieldsOf(i))
         THEN LET kept == {p \in Places(FieldsOf(i)) : FieldsOf(i)[p].key \notin keys}
                  fields == [p \in kept |-> FieldsOf(i)[p]]
              IN  /\ Allocate(fields)
                  /\ Make(Assemble(schemas[i].type, fields, schemas[i].constructed, TRUE, TRUE))
         ELSE Refuse(i)

\* The field of schema i that h names.
Current(i, h) == FieldsOf(i)[Index(FieldsOf(i), KeyOf(h))]

\* replacing: the field h names is changed, in a copy of the fields.
Replacing(i, h, changed) ==
  /\ May(i)
  /\ Handle[h].type = schemas[i].type
  /\ IF Projectable(i) /\ KeyOf(h) \in KeysIn(FieldsOf(i))
     THEN LET fields == [FieldsOf(i) EXCEPT ![Index(FieldsOf(i), KeyOf(h))] = changed]
          IN  /\ Allocate(fields)
              /\ Make(Assemble(schemas[i].type, fields, schemas[i].constructed,
                               schemas[i].omitted, TRUE))
     ELSE Refuse(i)

\* Slip: the new name is one a strategy may respell.
RenameInexactly(i, h, name) ==
  Replacing(i, h, [Current(i, h) EXCEPT !.name = name])

Rename(i, h, name) ==
  Replacing(i, h, [Current(i, h) EXCEPT !.name = name, !.exact = TRUE])

Describe(i, h, doc) ==
  Replacing(i, h, [Current(i, h) EXCEPT !.doc = doc])

\* Slip: the closures are those of a member that is required.
RepresentedAsRequired(h, form, formSound, current) ==
  [current EXCEPT !.form = form, !.faulty = @ \/ ~formSound,
                  !.takesNull = FALSE, !.settable = Handle[h].set]

\* The closures are made from the handle's accessors and the current field's
\* optionality.
Represented(h, form, formSound, current) ==
  [current EXCEPT !.form = form, !.faulty = @ \/ ~formSound,
                  !.takesNull = current.optional, !.settable = Handle[h].set]

\* Slip: the fields are changed where they are, and not in a copy.
RepresentInPlace(i, h, form) ==
  /\ May(i) /\ Projectable(i)
  /\ Handle[h].type = schemas[i].type /\ KeyOf(h) \in KeysIn(FieldsOf(i))
  /\ LET at == Index(FieldsOf(i), KeyOf(h))
         fields == [FieldsOf(i) EXCEPT ![at] = Represented(h, form, TRUE, @)]
     IN  /\ arrays' = [arrays EXCEPT ![schemas[i].parts] = fields]
         /\ Make([schemas[i] EXCEPT !.description = DescribeFields(fields)])

Represent(i, h, form) ==
  Replacing(i, h, Represented(h, form, TRUE, Current(i, h)))

\* By a schema of the member's own type.
Reshape(i, h, j) ==
  /\ j \in DOMAIN schemas /\ schemas[j].type = Handle[h].of
  /\ Replacing(i, h, Represented(h, [name |-> "object", schema |-> j], schemas[j].sound, Current(i, h)))

----------------------------------------------------------------------------
(* WithNaming *)

\* Slip: a name given exactly is respelled too.
SpelledAnyhow(description, s) ==
  [p \in DOMAIN description |->
     [description[p] EXCEPT !.name = Spell[s][description[p].name], !.respelled = Append(@, s)]]

\* structure.Spell of an object: its own names, and what is nested in it.
Spelled(description, s) ==
  [p \in DOMAIN description |->
     [description[p] EXCEPT
        !.name = SpelledName(description, s, p), !.respelled = Append(@, s)]]

\* A literal strategy gives the schema back.
WithNaming(i, s) ==
  /\ May(i) /\ s # Literal
  /\ Make([schemas[i] EXCEPT !.parts = 0, !.description = Spelled(@, s),
                             !.inner = IF schemas[i].sound THEN i ELSE 0, !.strategy = s])
  /\ UNCHANGED arrays

----------------------------------------------------------------------------
Project ==
  \E i \in DOMAIN schemas :
    \/ \E leaving \in SUBSET Handles : Omit(i, leaving)
    \/ \E s \in Strategies : WithNaming(i, s)
    \/ \E h \in Handles :
         \/ \E name \in NewNames : Rename(i, h, name)
         \/ \E doc \in NewDocs : Describe(i, h, doc)
         \/ \E form \in NewForms : Represent(i, h, form)
         \/ \E j \in DOMAIN schemas : Reshape(i, h, j)

Next == Declare \/ Project

Spec == Init /\ [][Next]_vars

----------------------------------------------------------------------------
(* Properties *)

DescribedFields == [name : Vocabulary, exact : BOOLEAN, doc : STRING, optional : BOOLEAN,
                    form : Forms, respelled : Seq(Strategies)]

IsSequence(s) == s \in Seq({s[n] : n \in DOMAIN s})
IsSlice(fields, elements) ==
  DOMAIN fields \subseteq Nat /\ fields \in [DOMAIN fields -> elements]

\* Each schema has a slice that was made, or none, and a schema under its names
\* that was made before it.
TypeOK ==
  /\ IsSequence(arrays) /\ \A a \in DOMAIN arrays : IsSlice(arrays[a], Fields)
  /\ IsSequence(schemas)
  /\ \A i \in DOMAIN schemas :
       /\ IsSlice(schemas[i].description, DescribedFields)
       /\ schemas[i].parts \in 0..Len(arrays)
       /\ schemas[i].inner \in 0..(i - 1)
       /\ schemas[i].sound \in BOOLEAN /\ schemas[i].constructed \in BOOLEAN
       /\ schemas[i].omitted \in BOOLEAN

\* A handle names at most one field of a schema that can be used, through any
\* chain of projections, and no two fields have one name.
HandlesNameOneField ==
  \A i \in DOMAIN schemas : Projectable(i) =>
    \A p, q \in Places(FieldsOf(i)) :
      \/ FieldsOf(i)[p].key = FieldsOf(i)[q].key
      \/ FieldsOf(i)[p].name = FieldsOf(i)[q].name
      => p = q

\* No projection changes the slice another schema holds: what each schema says
\* of its fields is what they are.
DescriptionsInStep ==
  \A i \in DOMAIN schemas :
    schemas[i].parts # 0 => schemas[i].description = DescribeFields(FieldsOf(i))

\* A member that may be absent may be null, and no other, whatever it was
\* represented by: optionality that holds in one direction is not optionality
\* (tolerateAbsence).
OptionalBothWays ==
  \A a \in DOMAIN arrays : \A p \in Places(arrays[a]) : arrays[a][p].takesNull = arrays[a][p].optional

\* Declaring and projecting keep what Published promises.
Member(field) ==
  [name |-> field.name, exact |-> field.exact, doc |-> field.doc, form |-> field.form]
MembersOf(fields) == [k \in KeysIn(fields) |-> Member(fields[Index(fields, k)])]

Shown(i) ==
  IF Projectable(i) THEN [open |-> TRUE, members |-> MembersOf(FieldsOf(i))]
  ELSE [open |-> FALSE, members |-> <<>>]

ShownAll == [i \in DOMAIN schemas |-> Shown(i)]

Promised == INSTANCE Published WITH published <- ShownAll, Limit <- Len(Program)
ImplementsPublished == Promised!Spec
=============================================================================
