------------------------------ MODULE ProtoWire ------------------------------
(***************************************************************************)
(* A value of the universal representation as a protobuf message, and back *)
(* (schema/protobuf: encode.go, encode_scalar.go, decode.go,               *)
(* decode_scalar.go, decode_collection.go).                                *)
(*                                                                         *)
(* A message is a sequence of records [number, layout, load]: the tag and  *)
(* what follows it.  A load is a payload for a scalar; for the length-     *)
(* delimited layout it may also be a message, or the sequence of payloads  *)
(* a packed field carries.  Shape is as in Shapes, with a number on every  *)
(* field and variant; a refinement keeps the node of what it refines, and  *)
(* Suspend's node is a Reference.                                          *)
(***************************************************************************)
EXTENDS Shapes, Documents

CONSTANT
  Zero        \* Zero[kind]: the zero of a scalar kind

\* A refinement keeps the node of what it refines; a nullable has the node of its
\* inner schema inside, and Suspend's node is resolved where it is met.
NodeOf(s) == IF Shape[s].kind = "refined" THEN Shape[s].of ELSE s
Resolved(s) == IF Shape[NodeOf(s)].kind = "suspend" THEN NodeOf(Shape[NodeOf(s)].of) ELSE NodeOf(s)
NodeKind(s) == Shape[NodeOf(s)].kind
Inner(s) == Shape[NodeOf(s)].of
Nullable(s) == NodeKind(s) = "nullable"
Under(s) == IF Nullable(s) THEN NodeOf(Inner(s)) ELSE NodeOf(s)
UnderKind(s) == Shape[Under(s)].kind

MessageKinds == {"object", "union", "tagged", "suspend"}

\* A map's values are not lists or maps: the projection refuses them, and
\* writeSingle does.  A chain of refinements, or of nullables, counts as one.
ASSUME ProtoAssumption ==
  \A s \in DOMAIN Shape :
    /\ Shape[s].kind = "map" => UnderKind(Shape[s].of) \in Scalars \cup MessageKinds
    /\ Shape[NodeOf(s)].kind # "refined"
    /\ Shape[Under(s)].kind # "nullable"

\* What a call gives: an error, or what it found, in order.
Error == [ok |-> FALSE, found |-> <<>>]
Nothing == [ok |-> TRUE, found |-> <<>>]
Found(v) == [ok |-> TRUE, found |-> <<v>>]

\* The calls of a loop, as one.
Gather(results) ==
  FoldLeft(LAMBDA all, result : [ok |-> all.ok /\ result.ok, found |-> all.found \o result.found],
           Nothing, results)

\* All that was found, as one thing.
As(one(_), result) == [result EXCEPT !.found = <<one(@)>>]

----------------------------------------------------------------------------
(* Writing *)

LayoutOf == [text |-> "len", bytes |-> "len", integer |-> "varint", number |-> "i64",
             timestamp |-> "len"]

Record(number, layout, load) == [number |-> number, layout |-> layout, load |-> load]

\* The value as the payload of a scalar of that kind.
IsPayload(kind, value) ==
  value.is = [text |-> "Text", bytes |-> "Bytes", integer |-> "Integer", number |-> "Number",
              timestamp |-> "Timestamp"][kind]
Payload(value) ==
  CASE value.is = "Text"      -> value.text
    [] value.is = "Bytes"     -> value.bytes
    [] value.is = "Integer"   -> value.integer
    [] value.is = "Number"    -> value.number
    [] value.is = "Timestamp" -> value.instant

\* A zero is written only where the field has explicit presence.
WriteScalar(number, kind, value, present) ==
  IF ~IsPayload(kind, value) THEN Error
  ELSE IF Payload(value) = Zero[kind] /\ ~present THEN Nothing
  ELSE Found(Record(number, LayoutOf[kind], Payload(value)))

Packable(s) == NodeKind(s) \in {"integer", "number"}

WritePacked(number, kind, elements) ==
  IF \E i \in DOMAIN elements : ~IsPayload(kind, elements[i]) THEN Error
  ELSE IF elements = <<>> THEN Nothing
  ELSE Found(Record(number, "len", [i \in DOMAIN elements |-> Payload(elements[i])]))

\* What was written, as a record of its own with its length before it.
Framed(number, written) == As(LAMBDA message : Record(number, "len", message), written)

RECURSIVE Write(_, _)

\* writeSingle: one value that is not repeated.
WriteSingle(number, s, value, present) ==
  CASE value = Absent -> Nothing
    [] value # Absent /\ NodeKind(s) \in Scalars -> WriteScalar(number, NodeKind(s), value, present)
    [] value # Absent /\ NodeKind(s) \in MessageKinds -> Framed(number, Write(s, value))
    [] OTHER -> Error

WriteRepeated(number, s, value) ==
  IF value.is # "List" THEN Error
  ELSE IF Packable(s) THEN WritePacked(number, NodeKind(s), value.elements)
  ELSE Gather([i \in DOMAIN value.elements |-> WriteSingle(number, s, value.elements[i], FALSE)])

\* A map is a repeated message: the key in field 1, the value in field 2.
WriteEntry(s, member) ==
  Gather(<<WriteScalar(1, "text", Text(member.name), FALSE), WriteSingle(2, s, member.value, FALSE)>>)

WriteEntries(number, s, value) ==
  IF value.is # "Object" THEN Error
  ELSE Gather([i \in DOMAIN value.members |-> Framed(number, WriteEntry(s, value.members[i]))])

\* writeField: a null is nothing on the wire, and a nullable field has presence.
WriteField(number, s, value, present) ==
  CASE Nullable(s) /\ value = Absent -> Nothing
    [] ~(Nullable(s) /\ value = Absent) /\ UnderKind(s) = "list" ->
         WriteRepeated(number, Inner(Under(s)), value)
    [] ~(Nullable(s) /\ value = Absent) /\ UnderKind(s) = "map" ->
         WriteEntries(number, Inner(Under(s)), value)
    [] OTHER -> WriteSingle(number, Under(s), value, present \/ Nullable(s))

WriteObject(fields, value) ==
  LET written(field) ==
        IF field.number < 1 THEN Error
        ELSE IF ~Carries(value, field.name) THEN Nothing
        ELSE WriteField(field.number, field.of, MemberOf(value, field.name), field.optional)
  IN  IF value.is # "Object" THEN Error ELSE Gather([i \in DOMAIN fields |-> written(fields[i])])

\* writeUnion: a union's value is an object of one member, named for the variant.
WriteUnion(variants, value) ==
  LET chosen == {i \in DOMAIN variants : variants[i].name = value.members[1].name}
      variant == variants[CHOOSE i \in chosen : TRUE]
  IN  IF value.is # "Object" \/ Len(value.members) # 1 \/ chosen = {} \/ variant.number < 1 THEN Error
      ELSE WriteField(variant.number, variant.of, value.members[1].value, FALSE)

\* The records of the message that value is, under node s.
Write(s, value) ==
  LET shape == Shape[Resolved(s)]
  IN  CASE shape.kind = "object" -> WriteObject(shape.fields, value)
        [] shape.kind = "union"  -> WriteUnion(shape.variants, value)
        [] OTHER                 -> Error     \* a discriminated union, or no message

----------------------------------------------------------------------------
(* Reading *)

Occurrences(message, number) == SelectSeq(message, LAMBDA r : r.number = number)

AsScalar(kind, payload) ==
  CASE kind = "text"      -> Text(payload)
    [] kind = "bytes"     -> Bytes(payload)
    [] kind = "integer"   -> Integer(payload)
    [] kind = "number"    -> Number(payload)
    [] kind = "timestamp" -> Timestamp(payload)

\* Slip: what the tag says of the layout is not looked at.
ReadAnyLayout(kind, record) == Found(AsScalar(kind, record.load))

\* A scalar in another layout than its kind's is refused rather than misread.
ReadScalar(kind, record) ==
  IF record.layout # LayoutOf[kind] THEN Error ELSE Found(AsScalar(kind, record.load))

\* What a field holds when the wire carries nothing for it; a message has
\* explicit presence, and no zero.
ZeroOf(s) ==
  IF NodeKind(s) \in Scalars \ {"timestamp"}
  THEN Found(AsScalar(NodeKind(s), Zero[NodeKind(s)])) ELSE Nothing

RECURSIVE Read(_, _)

ReadSingle(s, record) ==
  CASE NodeKind(s) \in Scalars -> ReadScalar(NodeKind(s), record)
    [] NodeKind(s) \in MessageKinds ->
         IF record.layout # "len" THEN Error ELSE Read(s, record.load)
    [] OTHER -> Error

\* Packed, unpacked, or in several pieces.
ReadElements(s, record) ==
  IF Packable(s) /\ record.layout = "len"
  THEN [ok |-> TRUE, found |-> [i \in DOMAIN record.load |-> AsScalar(NodeKind(s), record.load[i])]]
  ELSE ReadSingle(s, record)

ReadRepeated(s, records) ==
  As(List, Gather([i \in DOMAIN records |-> ReadElements(s, records[i])]))

\* Slip: of several records the first counts.
ReadFirst(s, optional, records) ==
  IF records # <<>> THEN ReadSingle(Under(s), Head(records))
  ELSE IF optional \/ Nullable(s) THEN Nothing ELSE ZeroOf(s)

\* Slip: an optional field that is not on the wire is its zero.
ReadZero(s, optional, records) ==
  IF records # <<>> THEN ReadSingle(Under(s), Last(records))
  ELSE IF Nullable(s) THEN Nothing ELSE ZeroOf(s)

\* readMember of what is not repeated: of several records, the last counts; of
\* none, the field is absent or, with implicit presence, zero.
ReadLast(s, optional, records) ==
  IF records # <<>> THEN ReadSingle(Under(s), Last(records))
  ELSE IF optional \/ Nullable(s) THEN Nothing ELSE ZeroOf(s)

\* An entry without a value holds a zero, or, being a message, nothing.
ReadEntry(s, record) ==
  LET keys == Occurrences(record.load, 1)
      entry(found) == Member(IF keys = <<>> THEN Zero["text"] ELSE Last(keys).load,
                             IF found = <<>> THEN Absent ELSE found[1])
  IN  IF record.layout # "len" \/ (keys # <<>> /\ Last(keys).layout # "len") THEN Error
      ELSE As(entry, ReadLast(s, FALSE, Occurrences(record.load, 2)))

ReadEntries(s, records) ==
  As(Object, Gather([i \in DOMAIN records |-> ReadEntry(s, records[i])]))

\* readMember: the value a field's records are, and whether it was there.
ReadMember(s, optional, records) ==
  CASE UnderKind(s) = "list" -> ReadRepeated(Inner(Under(s)), records)
    [] UnderKind(s) = "map"  -> ReadEntries(Inner(Under(s)), records)
    [] OTHER                 -> ReadLast(s, optional, records)

ReadObject(fields, message) ==
  LET named(name, result) ==
        [result EXCEPT !.found = [i \in DOMAIN @ |-> Member(name, @[i])]]
      member(field) ==
        IF field.number < 1 THEN Error
        ELSE named(field.name, ReadMember(field.of, field.optional, Occurrences(message, field.number)))
  IN  As(Object, Gather([i \in DOMAIN fields |-> member(fields[i])]))

\* lastVariant: of the variants that were written, the one declared last.
ReadUnion(variants, message) ==
  LET written == {i \in DOMAIN variants : Occurrences(message, variants[i].number) # <<>>}
      last == variants[CHOOSE i \in written : \A j \in written : j <= i]
      chosen(found) == Object([i \in DOMAIN found |-> Member(last.name, found[i])])
  IN  IF (\E i \in DOMAIN variants : variants[i].number < 1) \/ written = {} THEN Error
      ELSE As(chosen, ReadSingle(last.of, Last(Occurrences(message, last.number))))

Read(s, message) ==
  LET shape == Shape[Resolved(s)]
  IN  CASE shape.kind = "object" -> ReadObject(shape.fields, message)
        [] shape.kind = "union"  -> ReadUnion(shape.variants, message)
        [] OTHER                 -> Error
=============================================================================
