--------------------------- MODULE ObjectDocuments ---------------------------
(***************************************************************************)
(* What the schemas of ObjectBuilder write and read, and what a schema     *)
(* rebuilt from a description does (schema/object.go assemble,             *)
(* object_codec.go, object_values.go, naming_fixed.go, dynamic.go,         *)
(* dynamic_build.go).                                                      *)
(*                                                                         *)
(* A value of a type is a function from its members' keys to <<content>>,  *)
(* or <<>> for an optional one that is absent.  A document is a sequence   *)
(* of [name, of, scalar, members]: of is the scalar form, "object" or      *)
(* "null".  How a form is written is told from others, and no more.        *)
(***************************************************************************)
EXTENDS ObjectBuilder, SequencesExt

CONSTANT Value      \* Value[t]: the values of type t

Failed == [ok |-> FALSE, result |-> <<>>]
Done(result) == [ok |-> TRUE, result |-> result]

\* A slice's elements in order, without those that are skipped.
InOrder(fields) == [n \in 1..Cardinality(Places(fields)) |->
                      fields[SetToSortSeq(Places(fields), <)[n]]]

----------------------------------------------------------------------------
(* Writing: encodeFields, the closures of FieldOf and of Represent, and the
   namingSink of WithNaming. *)

RECURSIVE Write(_, _, _)

WriteMember(name, form, content, s) ==
  IF form.schema = 0
  THEN Done([name |-> name, of |-> form.name, scalar |-> content, members |-> <<>>])
  ELSE LET nested == Write(form.schema, content, s)
       IN  IF nested.ok
           THEN Done([name |-> name, of |-> "object", scalar |-> "", members |-> nested.result])
           ELSE Failed

WriteFields(fields, value, s) ==
  LET written == {p \in Places(fields) : value[fields[p].key] # <<>>}
      members == [p \in written |->
                    WriteMember(SpelledName(fields, s, p), fields[p].form,
                                value[fields[p].key][1], s)]
  IN  IF SpellingFault(fields, s) \/ \E p \in written : ~members[p].ok THEN Failed
      ELSE Done(InOrder([p \in written |-> members[p].result]))

Write(i, value, s) ==
  IF ~schemas[i].sound THEN Failed
  ELSE IF schemas[i].inner # 0 THEN Write(schemas[i].inner, value, schemas[i].strategy)
  ELSE WriteFields(FieldsOf(i), value, s)

----------------------------------------------------------------------------
(* Reading: decodeFields and readValues, which keep the values by key *)

RECURSIVE Read(_, _, _)

\* What a field's read makes of a member: a content, <<>> of an absent one.
ReadMember(field, member, s) ==
  IF member.of = "null" THEN IF field.takesNull THEN Done(<<>>) ELSE Failed
  ELSE IF member.of # field.form.name THEN Failed
  ELSE IF field.form.schema = 0 THEN Done(<<member.scalar>>)
  ELSE LET nested == Read(field.form.schema, member.members, s)
       IN  IF nested.ok THEN Done(<<nested.result>>) ELSE Failed

ReadFields(fields, document, s) ==
  LET known == {n \in DOMAIN document : Known(fields, s, document[n].name)}
      field == [n \in known |-> fields[ByName(fields, s, document[n].name)]]
      got == [n \in known |-> ReadMember(field[n], document[n], s)]
      present == {n \in known : got[n].result # <<>>}
  IN  IF \/ \E n \in known : ~got[n].ok
         \/ ~(Required(fields, s) \subseteq {document[n].name : n \in known})
      THEN Failed
      ELSE Done([k \in {field[n].key : n \in present} |->
                   got[CHOOSE n \in present : field[n].key = k].result[1]])

Read(i, document, s) ==
  IF ~schemas[i].sound THEN Failed
  ELSE IF schemas[i].inner # 0 THEN Read(schemas[i].inner, document, schemas[i].strategy)
  ELSE IF \/ SpellingFault(FieldsOf(i), s)
          \/ schemas[i].omitted /\ ~schemas[i].constructed
       THEN Failed
  ELSE ReadFields(FieldsOf(i), document, s)

----------------------------------------------------------------------------
(* A schema rebuilt from schema i's description, respelled through list:
   dynamicObject gives DynamicField the name the description has. *)

\* A name through the strategies of a list, the first of them first.
Respell(name, exact, list) ==
  IF exact THEN name ELSE FoldLeft(LAMBDA n, s : Spell[s][n], name, list)

\* Slip: what a description says is optional is rebuilt as required.
RebuiltAsRequired(i, list) ==
  LET described == schemas[i].description
  IN  [p \in DOMAIN described |->
         [name |-> Respell(described[p].name, described[p].exact, list), exact |-> FALSE,
          optional |-> FALSE, form |-> described[p].form,
          respelled |-> described[p].respelled \o list]]

RebuiltFields(i, list) ==
  LET described == schemas[i].description
  IN  [p \in DOMAIN described |->
         [name |-> Respell(described[p].name, described[p].exact, list), exact |-> FALSE,
          optional |-> described[p].optional, form |-> described[p].form,
          respelled |-> described[p].respelled \o list]]

RECURSIVE Transcode(_, _, _, _)

TranscodeMember(field, member, s) ==
  IF member.of = "null" THEN IF field.optional THEN Done(member) ELSE Failed
  ELSE IF member.of # field.form.name THEN Failed
  ELSE IF field.form.schema = 0 THEN Done(member)
  ELSE LET nested == Transcode(field.form.schema, field.respelled, member.members, s)
       IN  IF nested.ok THEN Done([member EXCEPT !.members = nested.result]) ELSE Failed

\* What it writes, under the strategy s, of a document it read under s.
Transcode(i, list, document, s) ==
  LET fields == RebuiltFields(i, list)
      known == {n \in DOMAIN document : Known(fields, s, document[n].name)}
      at(n) == ByName(fields, s, document[n].name)
      got == [n \in known |-> TranscodeMember(fields[at(n)], document[n], s)]
      present == {n \in known : document[n].of # "null"}
  IN  IF \/ FieldFault([p \in DOMAIN fields |-> [name |-> fields[p].name, faulty |-> FALSE]])
         \/ SpellingFault(fields, s)
         \/ \E n \in known : ~got[n].ok
         \/ ~(Required(fields, s) \subseteq {document[n].name : n \in known})
      THEN Failed
      ELSE Done(InOrder([p \in {at(n) : n \in present} |->
                           got[CHOOSE n \in present : at(n) = p].result]))

----------------------------------------------------------------------------
(* Properties.  They are said of the schema made last: the ones before it were
   the last once, and stay what they were (DescriptionsInStep). *)

Newest == Len(schemas)
Formats == Strategies
Nested(i) == {schemas[i].description[p].form.schema : p \in DOMAIN schemas[i].description} \ {0}

\* Whether a schema spelled by WithNaming is inside this one, or is it.
RECURSIVE HasOwnNames(_)
HasOwnNames(i) == schemas[i].inner # 0 \/ \E j \in Nested(i) : HasOwnNames(j)

\* No two spellings meet: each name is respelled at most once.
SpelledOnce(i, s) ==
  CASE s # Literal          -> ~HasOwnNames(i)
    [] schemas[i].inner # 0 -> ~HasOwnNames(schemas[i].inner)
    [] OTHER                -> \A j \in Nested(i) : schemas[j].inner = 0 => ~HasOwnNames(j)

\* Document is one of description i, respelled through list: its members are
\* the described ones, in their order and form, with all that are required.
RECURSIVE Conforms(_, _, _)
Conforms(document, i, list) ==
  LET described == RebuiltFields(i, list)
      at(n) == {p \in DOMAIN described : described[p].name = document[n].name}
  IN  /\ \A n \in DOMAIN document : \E p \in at(n) :
           /\ document[n].of = described[p].form.name
           /\ described[p].form.schema # 0 =>
                Conforms(document[n].members, described[p].form.schema, described[p].respelled)
      /\ \A m, n \in DOMAIN document : m < n => \A p \in at(m), q \in at(n) : p < q
      /\ {described[p].name : p \in {q \in DOMAIN described : ~described[q].optional}}
           \subseteq {document[n].name : n \in DOMAIN document}

DescribedAs(s) == IF s = Literal THEN <<>> ELSE <<s>>

AgreesUnder(s) ==
  \A value \in Value[schemas[Newest].type] :
    LET written == Write(Newest, value, s)
    IN  written.ok => Conforms(written.result, Newest, DescribedAs(s))

\* What a schema writes is what its description, as structure.Spell gives it to
\* a projection, says: after any chain of projections, on shared slices, with
\* one object's projection nested in another's (assemble, describeFields, Spell).
WrittenAsDescribed ==
  schemas # <<>> => \A s \in Formats : SpelledOnce(Newest, s) => AgreesUnder(s)

\* The members of a value a schema publishes, and those nested in them.
RECURSIVE Part(_, _)
Part(i, value) ==
  IF schemas[i].inner # 0 THEN Part(schemas[i].inner, value)
  ELSE LET fields == FieldsOf(i)
       IN  [k \in {fields[p].key : p \in {q \in Places(fields) : value[fields[q].key] # <<>>}} |->
              LET form == fields[Index(fields, k)].form
              IN  IF form.schema = 0 THEN value[k][1] ELSE Part(form.schema, value[k][1])]

\* A value whose members that are absent are written as null, as well it may.
WithNulls(i, document, value, s) ==
  IF schemas[i].inner # 0 THEN document
  ELSE LET fields == FieldsOf(i)
           absent == {p \in Places(fields) : value[fields[p].key] = <<>>}
       IN  document \o InOrder([p \in absent |->
             [name |-> SpelledName(fields, s, p), of |-> "null", scalar |-> "", members |-> <<>>]])

\* Whether a reader is told what a member that was left out holds.
RECURSIVE Decides(_)
Decides(i) ==
  IF schemas[i].inner # 0 THEN Decides(schemas[i].inner)
  ELSE /\ schemas[i].constructed \/ \A d \in DOMAIN Program \cap DOMAIN schemas :
            (Program[d].type = schemas[i].type /\ ~Program[d].constructed /\ schemas[d].sound) =>
              KeysIn(FieldsOf(i)) = KeysIn(FieldsOf(d)) /\ ~schemas[i].omitted
       /\ \A j \in Nested(i) : Decides(j)

\* A handle finds the value it published: what is read is, key by key, the part
\* of the value that was written, whatever a member is called and in whatever
\* form; an absent one may be null (tolerateAbsence).  It is refused exactly
\* where nothing would decide what a member left out holds.
ReadsBack ==
  (schemas # <<>> /\ schemas[Newest].sound) =>
    \A s \in Formats, value \in Value[schemas[Newest].type] :
      LET written == Write(Newest, value, s)
          document == written.result
      IN  IF written.ok
          THEN \A d \in {document, WithNulls(Newest, document, value, s)} :
                 Read(Newest, d, s) = IF Decides(Newest) THEN Done(Part(Newest, value)) ELSE Failed
          ELSE ~Read(Newest, document, s).ok

\* No strategy of s respells a name given exactly.
RECURSIVE ExactKept(_, _)
ExactKept(i, s) ==
  /\ \A p \in DOMAIN schemas[i].description : schemas[i].description[p].exact =>
       Spell[s][schemas[i].description[p].name] = schemas[i].description[p].name
  /\ \A j \in Nested(i) : ExactKept(j, s)

\* A description that exact names came to by WithNaming or Rename is read by
\* the schema rebuilt from it as the typed one wrote it, and written the same.
TranscodesUnder(s) ==
  \A value \in Value[schemas[Newest].type] :
    LET written == Write(Newest, value, s)
    IN  written.ok => Transcode(Newest, <<>>, written.result, s) = written

RebuiltAgrees ==
  schemas # <<>> => \A s \in Formats :
    (SpelledOnce(Newest, s) /\ ExactKept(Newest, s)) => TranscodesUnder(s)

----------------------------------------------------------------------------
(* What the documentation says beyond that. *)

\* A schema never holds a structure that disagrees with its codec (of), however
\* its names are spelled.
NeverDisagrees == schemas # <<>> => \A s \in Formats : AgreesUnder(s)

\* The typed schema and the one rebuilt from its description cannot disagree
\* about what a shape admits (dynamic.go).
SamePath == (schemas # <<>> /\ ~HasOwnNames(Newest)) => \A s \in Formats : TranscodesUnder(s)
=============================================================================
