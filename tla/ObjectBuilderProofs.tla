------------------------ MODULE ObjectBuilderProofs --------------------------
(***************************************************************************)
(* What stays true of a program's objects through every chain of           *)
(* projections, whatever is declared.  Every schema made is one of three:  *)
(* assembled from fields in a slice of its own, refused, or respelled.     *)
(* Assembled says what the first needs of its fields; each projection then *)
(* has to show it of the fields it makes.                                  *)
(***************************************************************************)
EXTENDS ObjectBuilder, TLAPS

BuilderInv == TypeOK /\ HandlesNameOneField /\ DescriptionsInStep /\ OptionalBothWays

\* Fields that a schema may be assembled from: where no two have one name, no
\* two have one key, and a member that may be absent may be null.
NamesDiffer(fields) ==
  \A p, q \in Places(fields) : fields[p].name = fields[q].name => p = q
KeysDiffer(fields) ==
  \A p, q \in Places(fields) : fields[p].key = fields[q].key => p = q

Fit(fields) ==
  /\ IsSlice(fields, Fields)
  /\ NamesDiffer(fields) => KeysDiffer(fields)
  /\ \A p \in Places(fields) : fields[p].takesNull = fields[p].optional

----------------------------------------------------------------------------
(* Sequences that grow, and slices. *)

\* What is appended comes last, and the rest stays.
LEMMA Appended ==
  ASSUME NEW s, IsSequence(s), NEW e
  PROVE  /\ IsSequence(Append(s, e))
         /\ Len(s) \in Nat /\ DOMAIN s = 1..Len(s)
         /\ Len(Append(s, e)) = Len(s) + 1
         /\ DOMAIN Append(s, e) = 1..(Len(s) + 1)
         /\ Append(s, e)[Len(s) + 1] = e
         /\ \A n \in DOMAIN s : Append(s, e)[n] = s[n]
  <1> DEFINE t == Append(s, e)
             S == {s[n] : n \in DOMAIN s}
             T == {t[n] : n \in DOMAIN t}
  <1>1. s \in Seq(S)
    BY DEF IsSequence
  <1>2. /\ Len(s) \in Nat /\ DOMAIN s = 1..Len(s)
        /\ t \in Seq(S \cup {e}) /\ Len(t) = Len(s) + 1 /\ DOMAIN t = 1..(Len(s) + 1)
        /\ t[Len(s) + 1] = e
        /\ \A n \in 1..Len(s) : t[n] = s[n]
    BY <1>1
  <1>3. t \in Seq(T)
    BY <1>2
  <1> QED
    BY <1>2, <1>3 DEF IsSequence

\* A description says of each field what it is.
LEMMA Described ==
  ASSUME NEW fields, IsSlice(fields, Fields)
  PROVE  IsSlice(DescribeFields(fields), DescribedFields)
  <1>1. \A p \in DOMAIN fields : fields[p] \in Fields
    BY DEF IsSlice
  <1>2. <<>> \in Seq(Strategies)
    OBVIOUS
  <1> QED
    BY <1>1, <1>2 DEF DescribeFields, Places, IsSlice, DescribedFields, Fields

\* Sound fields have a name each.
LEMMA SoundFields ==
  ASSUME NEW fields, IsSlice(fields, Fields), ~FieldFault(fields)
  PROVE  NamesDiffer(fields)
  <1> SUFFICES ASSUME NEW p \in Places(fields), NEW q \in Places(fields),
                      fields[p].name = fields[q].name, p # q
               PROVE  FALSE
    BY DEF NamesDiffer
  <1>1. p \in Nat /\ q \in Nat
    BY DEF IsSlice, Places
  <1>2. p < q \/ q < p
    BY <1>1
  <1> QED
    BY <1>2 DEF FieldFault

----------------------------------------------------------------------------
(* The three ways a schema is made. *)

\* A schema that is appended, whose fields are already in a slice or are the
\* one appended now, keeps the invariant if it has it itself.
LEMMA Added ==
  ASSUME BuilderInv,
         NEW schema, Make(schema),
         UNCHANGED arrays \/ \E fields : Fit(fields) /\ Allocate(fields),
         /\ IsSlice(schema.description, DescribedFields)
         /\ schema.parts \in 0..Len(arrays')
         /\ schema.inner \in 0..Len(schemas)
         /\ schema.sound \in BOOLEAN /\ schema.constructed \in BOOLEAN
         /\ schema.omitted \in BOOLEAN,
         schema.parts # 0 => schema.description = DescribeFields(arrays'[schema.parts]),
         (schema.sound /\ schema.parts # 0) =>
           NamesDiffer(arrays'[schema.parts]) /\ KeysDiffer(arrays'[schema.parts])
  PROVE  BuilderInv'
  <1> DEFINE Grown ==
        /\ IsSequence(arrays') /\ Len(arrays') \in Nat /\ Len(arrays) \in Nat
        /\ DOMAIN arrays = 1..Len(arrays) /\ DOMAIN arrays' = 1..Len(arrays')
        /\ Len(arrays') >= Len(arrays)
        /\ \A a \in DOMAIN arrays : arrays'[a] = arrays[a]
        /\ \A a \in DOMAIN arrays' \ DOMAIN arrays : Fit(arrays'[a])
  <1>1. Grown
    <2>1. CASE UNCHANGED arrays
      BY <2>1, Appended DEF BuilderInv, TypeOK
    <2>2. ASSUME NEW fields, Fit(fields), Allocate(fields)
          PROVE  Grown
      BY <2>2, Appended DEF BuilderInv, TypeOK, Allocate
    <2> QED
      BY <2>1, <2>2
  <1>2. /\ IsSequence(schemas') /\ Len(schemas) \in Nat /\ DOMAIN schemas = 1..Len(schemas)
        /\ DOMAIN schemas' = 1..(Len(schemas) + 1)
        /\ \A i \in DOMAIN schemas : schemas'[i] = schemas[i]
        /\ schemas'[Len(schemas) + 1] = schema
    BY Appended DEF BuilderInv, TypeOK, Make
  <1>3. TypeOK'
    <2>1. \A a \in DOMAIN arrays' : IsSlice(arrays'[a], Fields)
      BY <1>1 DEF BuilderInv, TypeOK, Fit
    <2>2. ASSUME NEW i \in DOMAIN schemas'
          PROVE  /\ IsSlice(schemas'[i].description, DescribedFields)
                 /\ schemas'[i].parts \in 0..Len(arrays')
                 /\ schemas'[i].inner \in 0..(i - 1)
                 /\ schemas'[i].sound \in BOOLEAN /\ schemas'[i].constructed \in BOOLEAN
                 /\ schemas'[i].omitted \in BOOLEAN
      <3>1. CASE i \in DOMAIN schemas
        BY <3>1, <1>1, <1>2 DEF BuilderInv, TypeOK
      <3>2. CASE i \notin DOMAIN schemas
        BY <3>2, <1>2
      <3> QED
        BY <3>1, <3>2
    <2> QED
      BY <1>1, <1>2, <2>1, <2>2 DEF TypeOK
  <1>4. ASSUME NEW i \in DOMAIN schemas'
        PROVE  \/ /\ i \in DOMAIN schemas /\ schemas'[i] = schemas[i]
                  /\ schemas[i].parts # 0 => arrays'[schemas[i].parts] = arrays[schemas[i].parts]
               \/ schemas'[i] = schema
    <2>1. i \in DOMAIN schemas => schemas[i].parts \in 0..Len(arrays)
      BY DEF BuilderInv, TypeOK
    <2> QED
      BY <2>1, <1>1, <1>2
  <1>5. HandlesNameOneField'
    <2> SUFFICES ASSUME NEW i \in DOMAIN schemas', Projectable(i)',
                        NEW p \in Places(FieldsOf(i)'), NEW q \in Places(FieldsOf(i)'),
                        \/ FieldsOf(i)'[p].key = FieldsOf(i)'[q].key
                        \/ FieldsOf(i)'[p].name = FieldsOf(i)'[q].name
                 PROVE  p = q
      BY DEF HandlesNameOneField, Places
    <2>1. CASE schemas'[i] = schema
      BY <2>1 DEF Projectable, FieldsOf, NamesDiffer, KeysDiffer
    <2>2. CASE schemas'[i] # schema
      BY <2>2, <1>4 DEF BuilderInv, HandlesNameOneField, Projectable, FieldsOf
    <2> QED
      BY <2>1, <2>2
  <1>6. DescriptionsInStep'
    BY <1>4 DEF BuilderInv, DescriptionsInStep, FieldsOf
  <1>7. OptionalBothWays'
    BY <1>1 DEF BuilderInv, OptionalBothWays, Fit, Places
  <1> QED
    BY <1>3, <1>5, <1>6, <1>7 DEF BuilderInv

\* A schema assembled from fit fields.
LEMMA Assembled ==
  ASSUME BuilderInv,
         NEW fields, Fit(fields), NEW type,
         NEW constructed \in BOOLEAN, NEW omitted \in BOOLEAN, NEW readable \in BOOLEAN,
         Allocate(fields), Make(Assemble(type, fields, constructed, omitted, readable))
  PROVE  BuilderInv'
  <1>0. PICK schema : schema = Assemble(type, fields, constructed, omitted, readable)
    OBVIOUS
  <1>1. /\ Len(arrays) \in Nat /\ Len(arrays') = Len(arrays) + 1
        /\ arrays'[Len(arrays) + 1] = fields
        /\ Len(schemas) \in Nat
    BY Appended DEF BuilderInv, TypeOK, Allocate
  <1>2. /\ schema.parts = Len(arrays) + 1 /\ schema.inner = 0
        /\ schema.description = DescribeFields(fields)
        /\ schema.sound \in BOOLEAN
        /\ schema.sound => ~FieldFault(fields)
        /\ schema.constructed = constructed /\ schema.omitted = omitted
    BY <1>0 DEF Assemble
  <1>3. IsSlice(schema.description, DescribedFields)
    BY <1>2, Described DEF Fit
  <1>4. schema.sound => NamesDiffer(fields) /\ KeysDiffer(fields)
    BY <1>2, SoundFields DEF Fit
  <1>5. Make(schema)
    BY <1>0
  <1>6. schema.parts \in 0..Len(arrays')
    BY <1>1, <1>2
  <1>7. schema.inner \in 0..Len(schemas)
    BY <1>1, <1>2
  <1>8. schema.constructed \in BOOLEAN /\ schema.omitted \in BOOLEAN
    BY <1>2
  <1>9. arrays'[schema.parts] = fields
    BY <1>1, <1>2
  <1> QED
    BY <1>2, <1>3, <1>4, <1>5, <1>6, <1>7, <1>8, <1>9, Added

\* A schema refused.
LEMMA Refused ==
  ASSUME BuilderInv, NEW i \in DOMAIN schemas, Refuse(i)
  PROVE  BuilderInv'
  <1>0. PICK schema : schema = WithFault(schemas[i])
    OBVIOUS
  <1>1. /\ schema.parts = 0 /\ schema.inner = 0 /\ schema.sound = FALSE
        /\ schema.description = schemas[i].description
        /\ schema.constructed = schemas[i].constructed /\ schema.omitted = schemas[i].omitted
    BY <1>0 DEF WithFault
  <1>2. Len(schemas) \in Nat /\ Len(arrays) \in Nat
    BY Appended DEF BuilderInv, TypeOK
  <1>3. Make(schema) /\ UNCHANGED arrays
    BY <1>0 DEF Refuse
  <1>4. /\ IsSlice(schemas[i].description, DescribedFields)
        /\ schemas[i].constructed \in BOOLEAN /\ schemas[i].omitted \in BOOLEAN
    BY DEF BuilderInv, TypeOK
  <1>5. IsSlice(schema.description, DescribedFields) /\ schema.sound \in BOOLEAN
    BY <1>1, <1>4
  <1>6. schema.parts \in 0..Len(arrays') /\ schema.inner \in 0..Len(schemas)
    BY <1>1, <1>2, <1>3
  <1>7. schema.constructed \in BOOLEAN /\ schema.omitted \in BOOLEAN
    BY <1>1, <1>4
  <1> QED
    BY <1>1, <1>3, <1>5, <1>6, <1>7, Added

----------------------------------------------------------------------------
(* The fields each operation assembles its schema from. *)

\* What the fields of a schema that may be projected are.
LEMMA Projected ==
  ASSUME BuilderInv, NEW i \in DOMAIN schemas, Projectable(i)
  PROVE  /\ IsSlice(FieldsOf(i), Fields)
         /\ NamesDiffer(FieldsOf(i)) /\ KeysDiffer(FieldsOf(i))
         /\ \A p \in Places(FieldsOf(i)) : FieldsOf(i)[p].takesNull = FieldsOf(i)[p].optional
         /\ schemas[i].constructed \in BOOLEAN /\ schemas[i].omitted \in BOOLEAN
  <1>1. schemas[i].parts \in DOMAIN arrays
    BY Appended DEF BuilderInv, TypeOK, Projectable
  <1>2. NamesDiffer(FieldsOf(i)) /\ KeysDiffer(FieldsOf(i))
    BY DEF BuilderInv, HandlesNameOneField, NamesDiffer, KeysDiffer
  <1> QED
    BY <1>1, <1>2 DEF BuilderInv, TypeOK, OptionalBothWays, FieldsOf

\* Declared fields with one key are those of one handle or its copies, which
\* have one name.
LEMMA DeclaredFields ==
  ASSUME BuilderInv, Declare
  PROVE  \E fields, type : \E constructed, omitted, readable \in BOOLEAN :
           /\ Fit(fields) /\ Allocate(fields)
           /\ Make(Assemble(type, fields, constructed, omitted, readable))
  <1> DEFINE given == Program[Len(schemas) + 1]
  <1>1. PICK fields : fields = [p \in DOMAIN given.handles |-> Handle[given.handles[p]].field]
    OBVIOUS
  <1>2. given \in Declarations
    <2>1. Len(schemas) \in Nat
      BY Appended DEF BuilderInv, TypeOK
    <2>2. Len(Program) \in Nat /\ DOMAIN Program = 1..Len(Program)
      BY ProgramAssumption
    <2>3. Len(schemas) + 1 \in 1..Len(Program)
      BY <2>1, <2>2 DEF Declare, Declared
    <2> QED
      BY <2>3, ProgramAssumption
  <1>3. DOMAIN given.handles \subseteq Nat /\ \A p \in DOMAIN given.handles : given.handles[p] \in Handles
    BY <1>2 DEF Declarations
  <1>4. Fit(fields)
    <2>1. DOMAIN fields = DOMAIN given.handles
          /\ \A p \in DOMAIN fields : fields[p] = Handle[given.handles[p]].field
      BY <1>1
    <2> HIDE DEF given
    <2>2. IsSlice(fields, Fields)
      BY <1>1, <1>3, HandleAssumption DEF IsSlice
    <2>3. NamesDiffer(fields) => KeysDiffer(fields)
      BY <1>3, <2>1, HandleAssumption DEF NamesDiffer, KeysDiffer, Places, KeyOf
    <2>4. \A p \in Places(fields) : fields[p].takesNull = fields[p].optional
      BY <1>3, <2>1, HandleAssumption DEF Places
    <2> QED
      BY <2>2, <2>3, <2>4 DEF Fit
  <1>5. PICK readable \in BOOLEAN : readable = (given.constructed => given.reads \subseteq KeysIn(fields))
    OBVIOUS
  <1>6. /\ Allocate(fields)
        /\ Make(Assemble(given.type, fields, given.constructed, FALSE, readable))
    BY <1>1, <1>5 DEF Declare
  <1>7. PICK constructed \in BOOLEAN : constructed = given.constructed
    BY <1>2 DEF Declarations
  <1>8. PICK type : type = given.type
    OBVIOUS
  <1> QED
    BY <1>4, <1>6, <1>7, <1>8

\* A declaration keeps the invariant.
LEMMA DeclareKeeps ==
  ASSUME BuilderInv, Declare
  PROVE  BuilderInv'
  BY DeclaredFields, Assembled

\* Fields that are left of such fields are fit.
LEMMA KeptFields ==
  ASSUME BuilderInv, NEW i \in DOMAIN schemas, Projectable(i),
         NEW kept \in SUBSET Places(FieldsOf(i)),
         NEW fields, fields = [p \in kept |-> FieldsOf(i)[p]]
  PROVE  Fit(fields)
  <1>1. DOMAIN fields = kept /\ \A p \in kept : p \in Places(FieldsOf(i)) /\ fields[p] = FieldsOf(i)[p]
    OBVIOUS
  <1>2. IsSlice(fields, Fields)
    BY <1>1, Projected DEF IsSlice, Places
  <1> QED
    BY <1>1, <1>2, Projected DEF Fit, NamesDiffer, KeysDiffer, Places

\* So does leaving fields out.
LEMMA OmitKeeps ==
  ASSUME BuilderInv, NEW i \in DOMAIN schemas, NEW leaving \in SUBSET Handles, Omit(i, leaving)
  PROVE  BuilderInv'
  <1> DEFINE keys == {KeyOf(h) : h \in leaving}
             kept == {p \in Places(FieldsOf(i)) : FieldsOf(i)[p].key \notin keys}
  <1>1. CASE Projectable(i) /\ keys \subseteq KeysIn(FieldsOf(i))
    <2>1. PICK fields : fields = [p \in kept |-> FieldsOf(i)[p]]
      OBVIOUS
    <2>2. Fit(fields)
      BY <1>1, <2>1, KeptFields
    <2>3. /\ Allocate(fields)
          /\ Make(Assemble(schemas[i].type, fields, schemas[i].constructed, TRUE, TRUE))
      BY <1>1, <2>1 DEF Omit
    <2>4. PICK constructed \in BOOLEAN : constructed = schemas[i].constructed
      BY <1>1, Projected
    <2>5. PICK type : type = schemas[i].type
      OBVIOUS
    <2> QED
      BY <2>2, <2>3, <2>4, <2>5, Assembled
  <1>2. CASE ~(Projectable(i) /\ keys \subseteq KeysIn(FieldsOf(i)))
    BY <1>2, Refused DEF Omit
  <1> QED
    BY <1>1, <1>2

\* Fields of which one was exchanged for one of its key are fit.
LEMMA ExchangedFields ==
  ASSUME BuilderInv, NEW i \in DOMAIN schemas, Projectable(i),
         NEW at \in Places(FieldsOf(i)), NEW changed \in Fields,
         changed.key = FieldsOf(i)[at].key, changed.takesNull = changed.optional,
         NEW fields, fields = [FieldsOf(i) EXCEPT ![at] = changed]
  PROVE  Fit(fields)
  <1>1. /\ DOMAIN fields = Places(FieldsOf(i)) /\ fields[at] = changed
        /\ \A p \in DOMAIN fields : p # at => fields[p] = FieldsOf(i)[p]
    BY DEF Places
  <1>2. IsSlice(fields, Fields)
    BY Projected DEF IsSlice, Places
  <1>3. KeysDiffer(fields)
    BY <1>1, Projected DEF KeysDiffer, Places
  <1>4. \A p \in Places(fields) : fields[p].takesNull = fields[p].optional
    BY <1>1, Projected DEF Places
  <1> QED
    BY <1>2, <1>3, <1>4 DEF Fit

\* So does any projection that gives each field another of its name.
LEMMA ExchangeKeeps ==
  ASSUME BuilderInv, NEW i \in DOMAIN schemas, Projectable(i),
         NEW fields, Fit(fields), Allocate(fields),
         Make(Assemble(schemas[i].type, fields, schemas[i].constructed, schemas[i].omitted, TRUE))
  PROVE  BuilderInv'
  <1>1. PICK constructed \in BOOLEAN : constructed = schemas[i].constructed
    BY Projected
  <1>2. PICK omitted \in BOOLEAN : omitted = schemas[i].omitted
    BY Projected
  <1>3. PICK type : type = schemas[i].type
    OBVIOUS
  <1> QED
    BY <1>1, <1>2, <1>3, Assembled

\* The field a handle finds is one of its key.
LEMMA Found ==
  ASSUME BuilderInv, NEW i \in DOMAIN schemas, Projectable(i),
         NEW h \in Handles, KeyOf(h) \in KeysIn(FieldsOf(i))
  PROVE  /\ Index(FieldsOf(i), KeyOf(h)) \in Places(FieldsOf(i))
         /\ Current(i, h).key = KeyOf(h)
         /\ Current(i, h) \in Fields
         /\ Current(i, h).takesNull = Current(i, h).optional
  <1>1. \E p \in Places(FieldsOf(i)) : FieldsOf(i)[p].key = KeyOf(h)
    BY DEF KeysIn
  <1>2. /\ Index(FieldsOf(i), KeyOf(h)) \in Places(FieldsOf(i))
        /\ Current(i, h).key = KeyOf(h)
    BY <1>1 DEF Index, Current
  <1> QED
    BY <1>2, Projected DEF Current, IsSlice, Places

\* A handle's field may be replaced by one of its key.
LEMMA ReplacingKeeps ==
  ASSUME BuilderInv, NEW i \in DOMAIN schemas, NEW h \in Handles, NEW changed,
         Replacing(i, h, changed),
         (Projectable(i) /\ KeyOf(h) \in KeysIn(FieldsOf(i))) =>
           /\ changed \in Fields /\ changed.key = KeyOf(h)
           /\ changed.takesNull = changed.optional
  PROVE  BuilderInv'
  <1>1. CASE Projectable(i) /\ KeyOf(h) \in KeysIn(FieldsOf(i))
    <2>1. PICK at \in Places(FieldsOf(i)) : /\ at = Index(FieldsOf(i), KeyOf(h))
                                           /\ FieldsOf(i)[at].key = KeyOf(h)
      BY <1>1, Found DEF Current
    <2>2. PICK fields : fields = [FieldsOf(i) EXCEPT ![at] = changed]
      OBVIOUS
    <2>3. /\ Allocate(fields)
          /\ Make(Assemble(schemas[i].type, fields, schemas[i].constructed, schemas[i].omitted, TRUE))
      BY <1>1, <2>1, <2>2 DEF Replacing
    <2> QED
      BY <1>1, <2>1, <2>2, <2>3, ExchangedFields, ExchangeKeeps
  <1>2. CASE ~(Projectable(i) /\ KeyOf(h) \in KeysIn(FieldsOf(i)))
    BY <1>2, Refused DEF Replacing
  <1> QED
    BY <1>1, <1>2

\* A field represented anew keeps its key, and may be null if it may be absent.
LEMMA RepresentedFields ==
  ASSUME NEW h \in Handles, NEW form \in Forms, NEW formSound \in BOOLEAN, NEW current \in Fields
  PROVE  /\ Represented(h, form, formSound, current) \in Fields
         /\ Represented(h, form, formSound, current).key = current.key
         /\ Represented(h, form, formSound, current).takesNull
              = Represented(h, form, formSound, current).optional
  <1>1. Handle[h].set \in BOOLEAN
    BY HandleAssumption
  <1> QED
    BY <1>1 DEF Represented, Fields

\* A respelled description is one, of the same places.
LEMMA SpelledSlices ==
  ASSUME NEW description, IsSlice(description, DescribedFields), NEW s \in Strategies
  PROVE  IsSlice(Spelled(description, s), DescribedFields)
  <1>1. ASSUME NEW p \in DOMAIN description
        PROVE  Spelled(description, s)[p] \in DescribedFields
    <2>1. description[p] \in DescribedFields
      BY DEF IsSlice
    <2>2. SpelledName(description, s, p) \in Vocabulary
      BY <2>1, NameAssumption DEF SpelledName, DescribedFields
    <2>3. Append(description[p].respelled, s) \in Seq(Strategies)
      BY <2>1 DEF DescribedFields
    <2> QED
      BY <2>1, <2>2, <2>3 DEF Spelled, DescribedFields
  <1>2. DOMAIN Spelled(description, s) = DOMAIN description
        /\ Spelled(description, s) \in [DOMAIN description -> DescribedFields]
    BY <1>1 DEF Spelled
  <1> QED
    BY <1>2 DEF IsSlice

\* A respelled schema keeps no slice, so nothing can be projected from it.
LEMMA NamingKeeps ==
  ASSUME BuilderInv, NEW i \in DOMAIN schemas, NEW s \in Strategies, WithNaming(i, s)
  PROVE  BuilderInv'
  <1>1. PICK schema : schema = [schemas[i] EXCEPT !.parts = 0, !.description = Spelled(@, s),
                                  !.inner = IF schemas[i].sound THEN i ELSE 0, !.strategy = s]
    OBVIOUS
  <1>2. /\ Make(schema) /\ UNCHANGED arrays
    BY <1>1 DEF WithNaming
  <1>3. /\ schema.parts = 0
        /\ schema.description = Spelled(schemas[i].description, s)
        /\ schema.inner = IF schemas[i].sound THEN i ELSE 0
        /\ schema.sound = schemas[i].sound
        /\ schema.constructed = schemas[i].constructed /\ schema.omitted = schemas[i].omitted
    BY <1>1
  <1>4. /\ IsSlice(schemas[i].description, DescribedFields)
        /\ schemas[i].sound \in BOOLEAN
        /\ schemas[i].constructed \in BOOLEAN /\ schemas[i].omitted \in BOOLEAN
    BY DEF BuilderInv, TypeOK
  <1>5. IsSlice(schema.description, DescribedFields)
    BY <1>3, <1>4, SpelledSlices
  <1>6. Len(schemas) \in Nat /\ Len(arrays) \in Nat /\ DOMAIN schemas = 1..Len(schemas)
    BY Appended DEF BuilderInv, TypeOK
  <1>7. schema.parts \in 0..Len(arrays') /\ schema.inner \in 0..Len(schemas)
    BY <1>2, <1>3, <1>6
  <1>8. schema.sound \in BOOLEAN /\ schema.constructed \in BOOLEAN /\ schema.omitted \in BOOLEAN
    BY <1>3, <1>4
  <1> QED
    BY <1>2, <1>3, <1>5, <1>7, <1>8, Added

----------------------------------------------------------------------------
(* The invariant. *)

\* The invariant holds before anything is declared.
LEMMA Initial == Init => BuilderInv
  <1>1. IsSequence(<<>>)
    BY DEF IsSequence
  <1> QED
    BY <1>1 DEF Init, BuilderInv, TypeOK, HandlesNameOneField, DescriptionsInStep, OptionalBothWays

\* Every step keeps it.
LEMMA Kept == BuilderInv /\ [Next]_vars => BuilderInv'
  <1> SUFFICES ASSUME BuilderInv, [Next]_vars
               PROVE  BuilderInv'
    OBVIOUS
  <1>1. CASE Declare
    BY <1>1, DeclareKeeps
  <1>2. ASSUME NEW i \in DOMAIN schemas, NEW leaving \in SUBSET Handles, Omit(i, leaving)
        PROVE  BuilderInv'
    BY <1>2, OmitKeeps
  <1>3. ASSUME NEW i \in DOMAIN schemas, NEW s \in Strategies, WithNaming(i, s)
        PROVE  BuilderInv'
    BY <1>3, NamingKeeps
  <1>4. ASSUME NEW i \in DOMAIN schemas, NEW h \in Handles, NEW name \in NewNames, Rename(i, h, name)
        PROVE  BuilderInv'
    <2>1. PICK changed : changed = [Current(i, h) EXCEPT !.name = name, !.exact = TRUE]
      OBVIOUS
    <2>2. Current(i, h) \in Fields =>
            /\ changed \in Fields /\ changed.key = Current(i, h).key
            /\ changed.takesNull = Current(i, h).takesNull /\ changed.optional = Current(i, h).optional
      BY <2>1, NameAssumption DEF Fields
    <2> QED
      BY <1>4, <2>1, <2>2, Found, ReplacingKeeps DEF Rename
  <1>5. ASSUME NEW i \in DOMAIN schemas, NEW h \in Handles, NEW doc \in NewDocs, Describe(i, h, doc)
        PROVE  BuilderInv'
    <2>1. PICK changed : changed = [Current(i, h) EXCEPT !.doc = doc]
      OBVIOUS
    <2>2. Current(i, h) \in Fields =>
            /\ changed \in Fields /\ changed.key = Current(i, h).key
            /\ changed.takesNull = Current(i, h).takesNull /\ changed.optional = Current(i, h).optional
      BY <2>1, NameAssumption DEF Fields
    <2> QED
      BY <1>5, <2>1, <2>2, Found, ReplacingKeeps DEF Describe
  <1>6. ASSUME NEW i \in DOMAIN schemas, NEW h \in Handles, NEW form \in NewForms, Represent(i, h, form)
        PROVE  BuilderInv'
    <2>1. PICK changed : changed = Represented(h, form, TRUE, Current(i, h))
      OBVIOUS
    <2>2. form \in Forms
      BY NameAssumption
    <2>3. Current(i, h) \in Fields =>
            /\ changed \in Fields /\ changed.key = Current(i, h).key
            /\ changed.takesNull = changed.optional
      BY <2>1, <2>2, RepresentedFields
    <2>4. Replacing(i, h, changed)
      BY <1>6, <2>1 DEF Represent
    <2> QED
      BY <2>3, <2>4, Found, ReplacingKeeps
  <1>7. ASSUME NEW i \in DOMAIN schemas, NEW h \in Handles, NEW j \in DOMAIN schemas, Reshape(i, h, j)
        PROVE  BuilderInv'
    <2>1. PICK form : form = [name |-> "object", schema |-> j]
      OBVIOUS
    <2>2. form \in Forms
      <3>1. DOMAIN schemas = 1..Len(schemas) /\ Len(schemas) \in Nat
        BY Appended DEF BuilderInv, TypeOK
      <3>2. j \in Nat
        BY <3>1
      <3> QED
        BY <2>1, <3>2 DEF Forms, FormNames
    <2>3. PICK formSound \in BOOLEAN : formSound = schemas[j].sound
      BY DEF BuilderInv, TypeOK
    <2>4. PICK changed : changed = Represented(h, form, formSound, Current(i, h))
      OBVIOUS
    <2>5. Replacing(i, h, changed)
      BY <1>7, <2>1, <2>3, <2>4 DEF Reshape
    <2>6. Current(i, h) \in Fields =>
            /\ changed \in Fields /\ changed.key = Current(i, h).key
            /\ changed.takesNull = changed.optional
      BY <2>2, <2>4, RepresentedFields
    <2> QED
      BY <2>5, <2>6, Found, ReplacingKeeps
  <1>8. CASE UNCHANGED vars
    BY <1>8 DEF vars, BuilderInv, TypeOK, HandlesNameOneField, DescriptionsInStep, OptionalBothWays,
                Projectable, FieldsOf
  <1> QED
    BY <1>1, <1>2, <1>3, <1>4, <1>5, <1>6, <1>7, <1>8 DEF Next, Project

\* It holds in every state.
LEMMA Invariant == Spec => []BuilderInv
  BY Initial, Kept, PTL DEF Spec

\* A handle names one field at most, through every chain of projections, and
\* each field has a name of its own (object_codec.go firstFieldFault, and the
\* keys of object_projection.go).
THEOREM OneField == Spec => []HandlesNameOneField
  BY Invariant, PTL DEF BuilderInv

\* No projection changes what another schema's description says: a slice is
\* copied before it is changed (object_projection.go replacing).
THEOREM InStep == Spec => []DescriptionsInStep
  BY Invariant, PTL DEF BuilderInv

\* Whatever represents a member, it may be null exactly when it may be absent
\* (object_modifiers.go tolerateAbsence, object_projection.go Represent).
THEOREM BothWays == Spec => []OptionalBothWays
  BY Invariant, PTL DEF BuilderInv

----------------------------------------------------------------------------
(* The refinement: what a schema shows is what Published publishes. *)

\* A key that is one place's is found there.
LEMMA Indexed ==
  ASSUME NEW fields, KeysDiffer(fields), NEW p \in Places(fields)
  PROVE  Index(fields, fields[p].key) = p
  BY DEF KeysDiffer, Index, KeysIn

\* What an abstract schema knows of fields is one member for each of their keys.
LEMMA MembersShown ==
  ASSUME NEW fields, KeysDiffer(fields)
  PROVE  /\ DOMAIN MembersOf(fields) = KeysIn(fields)
         /\ \A p \in Places(fields) : MembersOf(fields)[fields[p].key] = Member(fields[p])
         /\ \A k \in KeysIn(fields) : \E p \in Places(fields) :
              fields[p].key = k /\ MembersOf(fields)[k] = Member(fields[p])
  BY Indexed DEF MembersOf, KeysIn

\* A step that makes one schema shows one more, and shows the others as before.
LEMMA OneMoreShown ==
  ASSUME BuilderInv, NEW schema, Make(schema),
         UNCHANGED arrays \/ \E fields : Allocate(fields),
         NEW n, n = Len(schemas) + 1
  PROVE  /\ Promised!OneMore
         /\ schemas'[n] = schema
         /\ Promised!Made = Shown(n)'
         /\ DOMAIN ShownAll = DOMAIN schemas /\ Len(ShownAll) = Len(schemas)
         /\ \A i \in DOMAIN schemas : ShownAll[i] = Shown(i)
  <1>1. /\ Len(schemas) \in Nat /\ DOMAIN schemas = 1..Len(schemas)
        /\ DOMAIN schemas' = 1..(Len(schemas) + 1)
        /\ schemas'[Len(schemas) + 1] = schema
        /\ \A i \in DOMAIN schemas : schemas'[i] = schemas[i]
    BY Appended DEF BuilderInv, TypeOK, Make
  <1>2. \A a \in DOMAIN arrays : arrays'[a] = arrays[a]
    BY Appended DEF BuilderInv, TypeOK, Allocate
  <1>3. ASSUME NEW i \in DOMAIN schemas
        PROVE  Shown(i)' = Shown(i)
    <2>1. schemas[i].parts # 0 => schemas[i].parts \in DOMAIN arrays
      BY Appended DEF BuilderInv, TypeOK
    <2> QED
      BY <1>1, <1>2, <2>1 DEF Shown, Projectable, FieldsOf
  <1>4. /\ Len(ShownAll) = Len(schemas) /\ DOMAIN ShownAll = DOMAIN schemas
        /\ Len(ShownAll') = Len(schemas) + 1
        /\ \A i \in DOMAIN schemas : ShownAll[i] = Shown(i)
        /\ \A i \in DOMAIN schemas' : ShownAll'[i] = Shown(i)'
    BY <1>1 DEF ShownAll
  <1>5. \A i \in DOMAIN ShownAll : ShownAll'[i] = ShownAll[i]
    BY <1>1, <1>3, <1>4
  <1>6. ShownAll'[n] = Shown(n)'
    BY <1>1, <1>4
  <1> QED
    BY <1>1, <1>4, <1>5, <1>6 DEF Promised!OneMore, Promised!Made

\* A schema without fields of its own is closed.
LEMMA NoneShown ==
  ASSUME BuilderInv, NEW schema, Make(schema), schema.parts = 0, UNCHANGED arrays
  PROVE  Promised!Close
  <1>1. PICK n : n = Len(schemas) + 1
    OBVIOUS
  <1>2. /\ Promised!OneMore /\ schemas'[n] = schema /\ Promised!Made = Shown(n)'
    BY <1>1, OneMoreShown
  <1>3. Shown(n)' = Promised!Closed
    BY <1>2 DEF Shown, Projectable, Promised!Closed
  <1> QED
    BY <1>2, <1>3 DEF Promised!Close

\* A schema given a fault shows as one that is closed.
LEMMA RefusedShown ==
  ASSUME BuilderInv, NEW i \in DOMAIN schemas, Refuse(i)
  PROVE  Promised!Close
  <1>1. PICK schema : schema = WithFault(schemas[i])
    OBVIOUS
  <1>2. schema.parts = 0 /\ Make(schema) /\ UNCHANGED arrays
    BY <1>1 DEF WithFault, Refuse
  <1> QED
    BY <1>2, NoneShown

\* So does a schema whose naming strategy changes.
LEMMA NamingShown ==
  ASSUME BuilderInv, NEW i \in DOMAIN schemas, NEW s \in Strategies, WithNaming(i, s)
  PROVE  Promised!Close
  <1>1. PICK schema : schema = [schemas[i] EXCEPT !.parts = 0, !.description = Spelled(@, s),
                                  !.inner = IF schemas[i].sound THEN i ELSE 0, !.strategy = s]
    OBVIOUS
  <1>2. schema.parts = 0 /\ Make(schema) /\ UNCHANGED arrays
    BY <1>1 DEF WithNaming
  <1> QED
    BY <1>2, NoneShown

\* One assembled from fit fields is closed, or shows these.
LEMMA FieldsShown ==
  ASSUME BuilderInv, NEW fields, Fit(fields), NEW type, NEW constructed, NEW omitted, NEW readable,
         Allocate(fields), Make(Assemble(type, fields, constructed, omitted, readable))
  PROVE  /\ Promised!OneMore
         /\ \/ Promised!Made = Promised!Closed
            \/ /\ Promised!Made = Promised!Open(MembersOf(fields))
               /\ NamesDiffer(fields) /\ KeysDiffer(fields)
         /\ DOMAIN ShownAll = DOMAIN schemas /\ Len(ShownAll) = Len(schemas)
         /\ \A i \in DOMAIN schemas : ShownAll[i] = Shown(i)
  <1>1. PICK n : n = Len(schemas) + 1
    OBVIOUS
  <1>2. PICK schema : schema = Assemble(type, fields, constructed, omitted, readable)
    OBVIOUS
  <1>3. Make(schema)
    BY <1>2
  <1>4. /\ Promised!OneMore /\ schemas'[n] = schema /\ Promised!Made = Shown(n)'
        /\ DOMAIN ShownAll = DOMAIN schemas /\ Len(ShownAll) = Len(schemas)
        /\ \A i \in DOMAIN schemas : ShownAll[i] = Shown(i)
    BY <1>1, <1>3, OneMoreShown
  <1>5. arrays'[schema.parts] = fields
    BY <1>2, Appended DEF BuilderInv, TypeOK, Allocate, Assemble
  <1>6. schema.sound => NamesDiffer(fields) /\ KeysDiffer(fields)
    BY <1>2, SoundFields DEF Assemble, Fit
  <1>7. FieldsOf(n)' = fields
    BY <1>4, <1>5 DEF FieldsOf
  <1>8. CASE Projectable(n)'
    <2>1. Shown(n)' = Promised!Open(MembersOf(fields))
      BY <1>7, <1>8 DEF Shown, Promised!Open, MembersOf
    <2> QED
      BY <1>4, <1>6, <1>8, <2>1 DEF Projectable
  <1>9. CASE ~Projectable(n)'
    <2>1. Shown(n)' = Promised!Closed
      BY <1>9 DEF Shown, Promised!Closed
    <2> QED
      BY <1>4, <2>1
  <1> QED
    BY <1>8, <1>9

\* Fields of one name each show members of one name each.
LEMMA NamesShown ==
  ASSUME NEW fields, NamesDiffer(fields), KeysDiffer(fields)
  PROVE  Promised!NamesDiffer(MembersOf(fields))
  <1> SUFFICES ASSUME NEW k \in DOMAIN MembersOf(fields), NEW l \in DOMAIN MembersOf(fields),
                      MembersOf(fields)[k].name = MembersOf(fields)[l].name
               PROVE  k = l
    BY DEF Promised!NamesDiffer
  <1>1. PICK p \in Places(fields) : fields[p].key = k /\ MembersOf(fields)[k] = Member(fields[p])
    BY MembersShown
  <1>2. PICK q \in Places(fields) : fields[q].key = l /\ MembersOf(fields)[l] = Member(fields[q])
    BY MembersShown
  <1>3. fields[p].name = fields[q].name
    BY <1>1, <1>2 DEF Member
  <1> QED
    BY <1>1, <1>2, <1>3 DEF NamesDiffer

\* What an open schema shows.
LEMMA OpenShown ==
  ASSUME BuilderInv, NEW i \in DOMAIN schemas, Projectable(i), ShownAll[i] = Shown(i)
  PROVE  /\ ShownAll[i].open
         /\ ShownAll[i].members = MembersOf(FieldsOf(i))
         /\ DOMAIN ShownAll[i].members = KeysIn(FieldsOf(i))
         /\ \A p \in Places(FieldsOf(i)) : ShownAll[i].members[FieldsOf(i)[p].key] = Member(FieldsOf(i)[p])
         /\ NamesDiffer(FieldsOf(i)) /\ KeysDiffer(FieldsOf(i))
  <1>1. ShownAll[i].open /\ ShownAll[i].members = MembersOf(FieldsOf(i))
    BY DEF Shown
  <1> QED
    BY <1>1, Projected, MembersShown

\* A declaration shows as the abstract one, or as a schema that is closed.
LEMMA DeclareShown ==
  ASSUME BuilderInv, Declare
  PROVE  Promised!Declare \/ Promised!Close
  <1>1. PICK fields, type, constructed, omitted, readable :
          /\ Fit(fields) /\ Allocate(fields)
          /\ Make(Assemble(type, fields, constructed, omitted, readable))
    BY DeclaredFields
  <1>2. /\ Promised!OneMore
        /\ \/ Promised!Made = Promised!Closed
           \/ /\ Promised!Made = Promised!Open(MembersOf(fields))
              /\ NamesDiffer(fields) /\ KeysDiffer(fields)
        /\ Len(ShownAll) = Len(schemas)
    BY <1>1, FieldsShown
  <1>3. Len(ShownAll) < Len(Program)
    BY <1>2, ProgramAssumption, Appended DEF Declare, Declared, BuilderInv, TypeOK
  <1>4. ASSUME Promised!Made = Promised!Open(MembersOf(fields)), NamesDiffer(fields), KeysDiffer(fields)
        PROVE  Promised!Declare
    <2>1. Promised!Made.members = MembersOf(fields)
      BY <1>4 DEF Promised!Open
    <2>2. KeysIn(fields) \subseteq Keys
      BY <1>1 DEF Fit, IsSlice, KeysIn, Places, Fields
    <2>3. DOMAIN MembersOf(fields) = KeysIn(fields)
      BY <1>4, MembersShown
    <2> QED
      BY <1>2, <1>3, <1>4, <2>1, <2>2, <2>3, NamesShown DEF Promised!Declare
  <1> QED
    BY <1>2, <1>4 DEF Promised!Close

\* Leaving fields out shows as leaving their keys out.
LEMMA OmitShown ==
  ASSUME BuilderInv, NEW i \in DOMAIN schemas, NEW leaving \in SUBSET Handles, Omit(i, leaving)
  PROVE  Promised!Close \/ \E K \in SUBSET Keys : Promised!Omit(i, K)
  <1> DEFINE keys == {KeyOf(h) : h \in leaving}
             kept == {p \in Places(FieldsOf(i)) : FieldsOf(i)[p].key \notin keys}
  <1>1. CASE Projectable(i) /\ keys \subseteq KeysIn(FieldsOf(i))
    <2>1. PICK fields : fields = [p \in kept |-> FieldsOf(i)[p]]
      OBVIOUS
    <2>2. /\ Allocate(fields)
          /\ Make(Assemble(schemas[i].type, fields, schemas[i].constructed, TRUE, TRUE))
      BY <1>1, <2>1 DEF Omit
    <2>3. Fit(fields)
      BY <1>1, <2>1, KeptFields
    <2>4. /\ Promised!OneMore
          /\ \/ Promised!Made = Promised!Closed
             \/ /\ Promised!Made = Promised!Open(MembersOf(fields))
                /\ NamesDiffer(fields) /\ KeysDiffer(fields)
          /\ ShownAll[i] = Shown(i)
      BY <2>2, <2>3, FieldsShown
    <2>5. CASE Promised!Made = Promised!Closed
      BY <2>4, <2>5 DEF Promised!Close
    <2>6. ASSUME Promised!Made = Promised!Open(MembersOf(fields)), KeysDiffer(fields)
          PROVE  Promised!Omit(i, keys)
      <3> DEFINE members == ShownAll[i].members
      <3>1. /\ ShownAll[i].open /\ DOMAIN members = KeysIn(FieldsOf(i))
            /\ \A p \in Places(FieldsOf(i)) : members[FieldsOf(i)[p].key] = Member(FieldsOf(i)[p])
        BY <1>1, <2>4, OpenShown
      <3> HIDE DEF keys
      <3>2. DOMAIN fields = kept /\ \A p \in kept : p \in Places(FieldsOf(i)) /\ fields[p] = FieldsOf(i)[p]
        BY <2>1
      <3>3. DOMAIN MembersOf(fields) = DOMAIN members \ keys
        <4>1. DOMAIN MembersOf(fields) = KeysIn(fields)
          BY MembersShown, <2>6
        <4>2. KeysIn(fields) = KeysIn(FieldsOf(i)) \ keys
          BY <3>2 DEF KeysIn, Places
        <4> QED
          BY <3>1, <4>1, <4>2
      <3>4. ASSUME NEW k \in DOMAIN MembersOf(fields)
            PROVE  MembersOf(fields)[k] = members[k]
        <4>1. PICK p \in Places(fields) : fields[p].key = k /\ MembersOf(fields)[k] = Member(fields[p])
          BY MembersShown, <2>6
        <4> QED
          BY <4>1, <3>1, <3>2 DEF Places
      <3>5. MembersOf(fields) = [k \in DOMAIN members \ keys |-> members[k]]
        BY <3>3, <3>4 DEF MembersOf
      <3> QED
        BY <1>1, <2>4, <2>6, <3>1, <3>5 DEF Promised!Omit
    <2>7. keys \in SUBSET Keys
      BY DEF Keys, KeyOf
    <2> QED
      BY <2>4, <2>5, <2>6, <2>7
  <1>2. CASE ~(Projectable(i) /\ keys \subseteq KeysIn(FieldsOf(i)))
    BY <1>2, RefusedShown DEF Omit
  <1> QED
    BY <1>1, <1>2

\* Exchanging the field a handle names is a change of its member.
LEMMA ReplacingShown ==
  ASSUME BuilderInv, NEW i \in DOMAIN schemas, NEW h \in Handles, NEW changed,
         Replacing(i, h, changed),
         (Projectable(i) /\ KeyOf(h) \in KeysIn(FieldsOf(i))) =>
           /\ changed \in Fields /\ changed.key = KeyOf(h)
           /\ changed.takesNull = changed.optional
  PROVE  \/ Promised!Close
         \/ /\ KeyOf(h) \in DOMAIN ShownAll[i].members
            /\ ShownAll[i].members[KeyOf(h)] = Member(Current(i, h))
            /\ KeyOf(h) \in DOMAIN Promised!Made.members
            /\ Promised!Made.members[KeyOf(h)] = Member(changed)
            /\ Promised!Change(i, KeyOf(h), Member(changed))
  <1>1. CASE Projectable(i) /\ KeyOf(h) \in KeysIn(FieldsOf(i))
    <2>1. PICK at \in Places(FieldsOf(i)) : /\ at = Index(FieldsOf(i), KeyOf(h))
                                           /\ FieldsOf(i)[at].key = KeyOf(h)
      BY <1>1, Found DEF Current
    <2>2. PICK fields : fields = [FieldsOf(i) EXCEPT ![at] = changed]
      OBVIOUS
    <2>3. /\ Allocate(fields)
          /\ Make(Assemble(schemas[i].type, fields, schemas[i].constructed, schemas[i].omitted, TRUE))
      BY <1>1, <2>1, <2>2 DEF Replacing
    <2>4. Fit(fields)
      BY <1>1, <2>1, <2>2, ExchangedFields
    <2>5. /\ Promised!OneMore
          /\ \/ Promised!Made = Promised!Closed
             \/ /\ Promised!Made = Promised!Open(MembersOf(fields))
                /\ NamesDiffer(fields) /\ KeysDiffer(fields)
          /\ ShownAll[i] = Shown(i)
      BY <2>3, <2>4, FieldsShown
    <2>6. CASE Promised!Made = Promised!Closed
      BY <2>5, <2>6 DEF Promised!Close
    <2>7. CASE Promised!Made = Promised!Open(MembersOf(fields)) /\ NamesDiffer(fields) /\ KeysDiffer(fields)
      <3> DEFINE members == ShownAll[i].members
                 k == KeyOf(h)
      <3>1. /\ ShownAll[i].open /\ DOMAIN members = KeysIn(FieldsOf(i))
            /\ \A p \in Places(FieldsOf(i)) : members[FieldsOf(i)[p].key] = Member(FieldsOf(i)[p])
            /\ KeysDiffer(FieldsOf(i))
        BY <1>1, <2>5, OpenShown
      <3>2. members[k] = Member(Current(i, h))
        BY <2>1, <3>1 DEF Current
      <3>3. /\ DOMAIN fields = Places(FieldsOf(i)) /\ fields[at] = changed /\ changed.key = k
            /\ \A p \in DOMAIN fields : p # at => fields[p] = FieldsOf(i)[p]
        BY <1>1, <2>2 DEF Places
      <3>4. /\ DOMAIN MembersOf(fields) = KeysIn(fields)
            /\ \A p \in Places(fields) : MembersOf(fields)[fields[p].key] = Member(fields[p])
        BY <2>7, MembersShown
      <3>5. KeysIn(fields) = KeysIn(FieldsOf(i))
        BY <2>1, <3>3 DEF KeysIn, Places
      <3>6. MembersOf(fields)[k] = Member(changed)
        BY <3>3, <3>4 DEF Places
      <3>7. ASSUME NEW l \in KeysIn(FieldsOf(i)), l # k
            PROVE  MembersOf(fields)[l] = members[l]
        <4>1. PICK p \in Places(FieldsOf(i)) : FieldsOf(i)[p].key = l
          BY DEF KeysIn
        <4>2. p # at
          BY <2>1, <3>7, <4>1
        <4> QED
          BY <4>1, <4>2, <3>1, <3>3, <3>4 DEF Places
      <3>8. MembersOf(fields) = [members EXCEPT ![k] = Member(changed)]
        BY <3>1, <3>4, <3>5, <3>6, <3>7 DEF MembersOf
      <3>9. Promised!Made.members = MembersOf(fields)
        BY <2>7 DEF Promised!Open
      <3>10. Promised!Change(i, k, Member(changed))
        BY <2>5, <2>7, <3>1, <3>8, <3>9, NamesShown DEF Promised!Change
      <3> QED
        BY <1>1, <3>1, <3>2, <3>4, <3>5, <3>6, <3>9, <3>10
    <2> QED
      BY <2>5, <2>6, <2>7
  <1>2. CASE ~(Projectable(i) /\ KeyOf(h) \in KeysIn(FieldsOf(i)))
    BY <1>2, RefusedShown DEF Replacing
  <1> QED
    BY <1>1, <1>2

\* Every step is one that Published allows, or none.
LEMMA Shows == BuilderInv /\ [Next]_vars => [Promised!Next]_ShownAll
  <1> SUFFICES ASSUME BuilderInv, [Next]_vars
               PROVE  [Promised!Next]_ShownAll
    OBVIOUS
  <1>0. DOMAIN ShownAll = DOMAIN schemas
    BY DEF ShownAll
  <1>1. CASE Declare
    BY <1>1, DeclareShown DEF Promised!Next
  <1>2. ASSUME NEW i \in DOMAIN schemas, NEW leaving \in SUBSET Handles, Omit(i, leaving)
        PROVE  Promised!Next
    BY <1>0, <1>2, OmitShown DEF Promised!Next
  <1>3. ASSUME NEW i \in DOMAIN schemas, NEW s \in Strategies, WithNaming(i, s)
        PROVE  Promised!Next
    BY <1>3, NamingShown DEF Promised!Next
  <1>4. ASSUME NEW i \in DOMAIN schemas, NEW h \in Handles, NEW name \in NewNames, Rename(i, h, name)
        PROVE  Promised!Next
    <2>1. PICK current : current = Current(i, h)
      OBVIOUS
    <2>2. PICK changed : changed = [current EXCEPT !.name = name, !.exact = TRUE]
      OBVIOUS
    <2>3. current \in Fields =>
            /\ changed \in Fields /\ changed.key = current.key
            /\ changed.takesNull = current.takesNull /\ changed.optional = current.optional
      BY <2>2, NameAssumption DEF Fields
    <2>4. current \in Fields => Member(changed) = Promised!Renamed(Member(current), name)
      BY <2>2 DEF Fields, Member, Promised!Renamed
    <2>5. Replacing(i, h, changed)
      BY <1>4, <2>1, <2>2 DEF Rename
    <2>6. \/ Promised!Close
          \/ /\ KeyOf(h) \in DOMAIN ShownAll[i].members
             /\ ShownAll[i].members[KeyOf(h)] = Member(current)
             /\ Promised!Change(i, KeyOf(h), Member(changed))
      BY <2>1, <2>3, <2>5, Found, ReplacingShown
    <2>7. current \in Fields \/ Promised!Close
      BY <2>1, <2>5, Found, RefusedShown DEF Replacing
    <2> QED
      BY <1>0, <2>4, <2>6, <2>7 DEF Promised!Next, Promised!Rename
  <1>5. ASSUME NEW i \in DOMAIN schemas, NEW h \in Handles, NEW doc \in NewDocs, Describe(i, h, doc)
        PROVE  Promised!Next
    <2>1. PICK current : current = Current(i, h)
      OBVIOUS
    <2>2. PICK changed : changed = [current EXCEPT !.doc = doc]
      OBVIOUS
    <2>3. current \in Fields =>
            /\ changed \in Fields /\ changed.key = current.key
            /\ changed.takesNull = current.takesNull /\ changed.optional = current.optional
      BY <2>2, NameAssumption DEF Fields
    <2>4. current \in Fields => Member(changed) = [Member(current) EXCEPT !.doc = doc]
      BY <2>2 DEF Fields, Member
    <2>5. Replacing(i, h, changed)
      BY <1>5, <2>1, <2>2 DEF Describe
    <2>6. \/ Promised!Close
          \/ /\ KeyOf(h) \in DOMAIN ShownAll[i].members
             /\ ShownAll[i].members[KeyOf(h)] = Member(current)
             /\ Promised!Change(i, KeyOf(h), Member(changed))
      BY <2>1, <2>3, <2>5, Found, ReplacingShown
    <2>7. current \in Fields \/ Promised!Close
      BY <2>1, <2>5, Found, RefusedShown DEF Replacing
    <2> QED
      BY <1>0, <2>4, <2>6, <2>7 DEF Promised!Next, Promised!Describe
  <1>6. ASSUME NEW i \in DOMAIN schemas, NEW h \in Handles, NEW form \in Forms, NEW formSound \in BOOLEAN,
               Replacing(i, h, Represented(h, form, formSound, Current(i, h)))
        PROVE  Promised!Next
    <2>1. PICK current : current = Current(i, h)
      OBVIOUS
    <2>2. PICK changed : changed = Represented(h, form, formSound, current)
      OBVIOUS
    <2>3. current \in Fields =>
            /\ changed \in Fields /\ changed.key = current.key
            /\ changed.takesNull = changed.optional
      BY <2>2, RepresentedFields
    <2>4. current \in Fields => Member(changed) = [Member(current) EXCEPT !.form = Member(changed).form]
      BY <2>2 DEF Fields, Member, Represented
    <2>5. Replacing(i, h, changed)
      BY <1>6, <2>1, <2>2
    <2>6. \/ Promised!Close
          \/ /\ KeyOf(h) \in DOMAIN ShownAll[i].members
             /\ ShownAll[i].members[KeyOf(h)] = Member(current)
             /\ KeyOf(h) \in DOMAIN Promised!Made.members
             /\ Promised!Made.members[KeyOf(h)] = Member(changed)
             /\ Promised!Change(i, KeyOf(h), Member(changed))
      BY <2>1, <2>3, <2>5, Found, ReplacingShown
    <2>7. current \in Fields \/ Promised!Close
      BY <2>1, <2>5, Found, RefusedShown DEF Replacing
    <2> QED
      BY <1>0, <2>4, <2>6, <2>7 DEF Promised!Next, Promised!Represent
  <1>7. ASSUME NEW i \in DOMAIN schemas, NEW h \in Handles, NEW form \in NewForms, Represent(i, h, form)
        PROVE  Promised!Next
    BY <1>6, <1>7, NameAssumption DEF Represent
  <1>8. ASSUME NEW i \in DOMAIN schemas, NEW h \in Handles, NEW j \in DOMAIN schemas, Reshape(i, h, j)
        PROVE  Promised!Next
    <2>1. j \in Nat
      <3>1. DOMAIN schemas = 1..Len(schemas) /\ Len(schemas) \in Nat
        BY Appended DEF BuilderInv, TypeOK
      <3> QED
        BY <3>1
    <2>2. [name |-> "object", schema |-> j] \in Forms
      BY <2>1 DEF Forms, FormNames
    <2>3. schemas[j].sound \in BOOLEAN
      BY DEF BuilderInv, TypeOK
    <2> QED
      BY <1>6, <1>8, <2>2, <2>3 DEF Reshape
  <1>9. CASE UNCHANGED vars
    BY <1>9 DEF vars, ShownAll, Shown, Projectable, FieldsOf
  <1> QED
    BY <1>1, <1>2, <1>3, <1>4, <1>5, <1>7, <1>8, <1>9 DEF Next, Project

\* Every chain of projections keeps what Published promises: a projection says
\* of each member what the schema it was made from says, but for what it was
\* asked to change (schema/object_projection.go).
THEOREM Implements == Spec => ImplementsPublished
  <1>1. Init => Promised!Init
    BY DEF Init, Promised!Init, ShownAll
  <1> QED
    BY <1>1, Invariant, Shows, PTL DEF Spec, ImplementsPublished, Promised!Spec
=============================================================================
