---------------------------- MODULE ProtoExchange ----------------------------
(***************************************************************************)
(* protobuf.Encode in one program and protobuf.Decode in another           *)
(* (schema/protobuf/codec.go): ToDynamic, the message, FromDynamic.        *)
(*                                                                         *)
(* Between the two the message may be what another protobuf writer would   *)
(* have sent for the same value: its records in another order, numbers     *)
(* this schema does not know, a value written over by a later one, packed  *)
(* elements in pieces or unpacked, a zero spelled out.  Or it is of        *)
(* another version of the schema: a record missing, or in another layout.  *)
(***************************************************************************)
EXTENDS ProtoWire

CONSTANTS
  Literal, Inputs, Keys, Values,
  Liberties,    \* which rewrites a writer may take
  MaxRewrites   \* bound on how many it takes

VARIABLES
  phase,                                            \* encode, wire, decode, or how it ended
  input, written, tags, sink, refusal,              \* ToDynamic
  sent,                                             \* the message as Encode wrote it
  wire,                                             \* the message as it now is
  rewrites,                                         \* how often it was rewritten
  expected,                                         \* what it must now read as
  request, frames, sources, returned, failure       \* FromDynamic

encoder == <<input, written, tags, sink, refusal>>
decoder == <<request, frames, sources, returned, failure>>
vars == <<phase, encoder, sent, wire, rewrites, expected, decoder>>

E == INSTANCE Encoder WITH frames <- written, failure <- refusal
D == INSTANCE Decoder

----------------------------------------------------------------------------
(* What another writer may have sent, as far as this program can tell. *)

Replace(message, i, records) ==
  SubSeq(message, 1, i - 1) \o records \o SubSeq(message, i + 1, Len(message))

Swapped(message) ==
  {Replace(Replace(message, i, <<message[i + 1]>>), i + 1, <<message[i]>>) :
     i \in {j \in 1..(Len(message) - 1) : message[j].number # message[j + 1].number}}

UnknownRecords == {Record(99, "varint", "7"), Record(98, "len", <<Record(1, "i64", "8")>>)}

WithUnknown(message) ==
  {InsertAt(message, i, record) : i \in 1..(Len(message) + 1), record \in UnknownRecords}

Singular(s) == UnderKind(s) \in Scalars \cup MessageKinds

\* A record for s that says as little as it can.
Bare(number, s) ==
  LET kind == UnderKind(s)
  IN  IF kind \in Scalars THEN Record(number, LayoutOf[kind], Zero[kind]) ELSE Record(number, "len", <<>>)

\* A field is [number, of, optional]; a variant is one, and a map entry's value.
At(message, field) == {i \in DOMAIN message : message[i].number = field.number}

WrittenOver(fields, message) ==
  UNION {{InsertAt(message, i, Bare(f.number, f.of)) : i \in At(message, f)} :
         f \in {f \in Range(fields) : Singular(f.of)}}

SpelledOut(fields, message) ==
  {Append(message, Bare(f.number, f.of)) :
     f \in {f \in Range(fields) : /\ At(message, f) = {} /\ ~f.optional
                                  /\ NodeKind(f.of) \in Scalars /\ ZeroOf(f.of) # Nothing}}

Pieces(record) ==
  LET load == record.load
      kind == IF record.layout = "len" THEN Len(load) ELSE 0
  IN  {<<Record(record.number, "len", SubSeq(load, 1, n)), Record(record.number, "len", SubSeq(load, n + 1, Len(load)))>> :
         n \in 0..kind}

Unpacked(record, kind) ==
  [i \in DOMAIN record.load |-> Record(record.number, LayoutOf[kind], record.load[i])]

Split(fields, message) ==
  LET packed == {f \in Range(fields) : UnderKind(f.of) = "list" /\ Packable(Inner(Under(f.of)))}
  IN  UNION {UNION {{Replace(message, i, records) :
                       records \in Pieces(message[i])
                                   \cup {Unpacked(message[i], NodeKind(Inner(Under(f.of))))}} :
                    i \in {j \in At(message, f) : message[j].layout = "len"}} :
             f \in packed}

\* A variant written and then another chosen.
ChosenAgain(variants, message) ==
  {<<Bare(v.number, v.of)>> \o message : v \in {v \in Range(variants) : At(message, v) = {}}}

Taken(liberty, messages) == IF liberty \in Liberties THEN messages ELSE {}

AsField(number, s, optional) == [number |-> number, of |-> s, optional |-> optional]

\* The fields of the message that node s is, or that an entry of map s is.
FieldList(s) ==
  LET shape == Shape[Resolved(s)]
  IN  CASE shape.kind = "object" ->
             [i \in DOMAIN shape.fields |->
                AsField(shape.fields[i].number, shape.fields[i].of, shape.fields[i].optional)]
        [] shape.kind = "union" ->
             [i \in DOMAIN shape.variants |->
                AsField(shape.variants[i].number, shape.variants[i].of, TRUE)]
        [] shape.kind = "map" -> <<AsField(2, shape.of, FALSE)>>

Unnumbered(s) == \E f \in Range(FieldList(s)) : f.number < 1

\* Every message that says what message says, one rewrite away.
RECURSIVE Rewrites(_, _)
Rewrites(s, message) ==
  LET fields == FieldList(s)
      choices == IF Shape[Resolved(s)].kind = "union" THEN ChosenAgain(fields, message) ELSE {}
      \* what the records of field f are messages of, if they are
      node(f) == IF UnderKind(f.of) = "list" THEN Inner(Under(f.of)) ELSE Under(f.of)
      nested == {f \in Range(fields) : NodeKind(node(f)) \in MessageKinds \cup {"map"}}
  IN  Taken("order", Swapped(message))
      \cup Taken("unknown", WithUnknown(message))
      \cup Taken("over", WrittenOver(fields, message))
      \cup Taken("zero", SpelledOut(fields, message))
      \cup Taken("split", Split(fields, message))
      \cup Taken("choices", choices)
      \cup UNION {{[message EXCEPT ![i].load = load] : load \in Rewrites(node(f), message[i].load)} :
                  <<f, i>> \in {p \in nested \X DOMAIN message : p[2] \in At(message, p[1])}}

----------------------------------------------------------------------------
Idle == [shape |-> input.shape, kind |-> "dynamic", strategy |-> Literal, document |-> <<>>]

Expect(outcome, value) == [outcome |-> outcome, value |-> value]

Init ==
  /\ phase = "encode"
  /\ E!Init
  /\ sent = <<>> /\ wire = <<>> /\ rewrites = 0
  /\ expected = Expect("value", input.value)
  /\ request = Idle /\ frames = <<>> /\ sources = <<>> /\ returned = <<>> /\ failure = <<>>

\* Encode: ToDynamic, and the message its value is written as.
ToDynamic ==
  /\ phase = "encode"
  /\ E!Step
  /\ UNCHANGED <<phase, sent, wire, rewrites, expected, decoder>>

WriteMessage ==
  /\ phase = "encode" /\ written = <<>>
  /\ LET message == IF refusal = <<>> THEN Write(input.shape, sink.build.root[1]) ELSE Error
     IN  IF ~message.ok THEN phase' = "unwritten" /\ UNCHANGED <<sent, wire>>
         ELSE /\ phase' = "wire"
              /\ sent' = message.found
              /\ wire' = message.found
  /\ UNCHANGED <<encoder, rewrites, expected, decoder>>

Rewrite ==
  /\ phase = "wire" /\ rewrites < MaxRewrites
  /\ wire' \in Rewrites(input.shape, wire)
  /\ rewrites' = rewrites + 1
  /\ UNCHANGED <<phase, encoder, sent, expected, decoder>>

\* The writer has no such field, or has it in another layout.
Zeroed(i, s) == [input.value EXCEPT ![i] = <<Zero[NodeKind(s)]>>]

Drop ==
  /\ phase = "wire" /\ rewrites < MaxRewrites /\ "drop" \in Liberties
  /\ \E i \in DOMAIN Shape[input.shape].fields :
       LET f == Shape[input.shape].fields[i]
       IN  /\ Singular(f.of) /\ NodeKind(f.of) # "nullable" /\ At(wire, f) # {}
           /\ wire' = SelectSeq(wire, LAMBDA record : record.number # f.number)
           /\ expected' =
                IF f.optional THEN Expect("value", [input.value EXCEPT ![i] = <<>>])
                ELSE IF ZeroOf(f.of) = Nothing THEN Expect("missing", f.name)
                ELSE IF Shape[f.of].kind = "refined" /\ Zero[NodeKind(f.of)] \notin Shape[f.of].admits
                THEN Expect("missing", f.name)
                ELSE Expect("value", Zeroed(i, f.of))
  /\ rewrites' = MaxRewrites
  /\ UNCHANGED <<phase, encoder, sent, decoder>>

Relayout ==
  /\ phase = "wire" /\ rewrites < MaxRewrites /\ "layout" \in Liberties
  /\ \E f \in Range(FieldList(input.shape)) :
       /\ Singular(f.of)
       /\ \E i \in At(wire, f), layout \in {"varint", "i32", "i64", "len"} :
            /\ \A j \in At(wire, f) : j <= i
            /\ layout # wire[i].layout
            /\ wire' = [wire EXCEPT ![i].layout = layout]
  /\ expected' = Expect("unread", <<>>)
  /\ rewrites' = MaxRewrites
  /\ UNCHANGED <<phase, encoder, sent, decoder>>

\* Decode: the value the message is read as, and FromDynamic.
ReadMessage ==
  /\ phase = "wire"
  /\ LET value == Read(input.shape, wire)
     IN  IF ~value.ok
         THEN phase' = "unread" /\ UNCHANGED decoder
         ELSE phase' = "decode" /\ D!Start([Idle EXCEPT !.document = value.found[1]])
  /\ UNCHANGED <<encoder, sent, wire, rewrites, expected>>

FromDynamic ==
  /\ phase = "decode"
  /\ D!Step
  /\ UNCHANGED <<phase, encoder, sent, wire, rewrites, expected>>

Finish ==
  /\ phase = "decode" /\ frames = <<>>
  /\ phase' = "done"
  /\ UNCHANGED <<encoder, sent, wire, rewrites, expected, decoder>>

Ended == phase \in {"unwritten", "unread", "done"} /\ UNCHANGED vars

Next ==
  \/ ToDynamic \/ WriteMessage
  \/ Rewrite \/ Drop \/ Relayout
  \/ ReadMessage \/ FromDynamic \/ Finish
  \/ Ended

Spec == Init /\ [][Next]_vars

----------------------------------------------------------------------------
(* Properties *)

Settled(outcome) == phase \in {"unwritten", "unread", "done"} /\ expected.outcome = outcome

\* Whatever order, pieces and spelled-out zeros a message comes in, it is read as
\* the value it was written for; a record the writer did not have makes an
\* implicit field its zero and an optional one absent, never the reverse.  What
\* the schema refuses, or a message with a field nobody numbered, is not sent.
ReadAsWritten ==
  Settled("value") =>
    IF refusal # <<>> \/ Unnumbered(input.shape) THEN phase = "unwritten"
    ELSE phase = "done" /\ failure = <<>> /\ returned = <<expected.value>>

\* A zero the wire implied is refused by the field's own rules, and a message
\* nobody sent is missing, each under the name of its field.
ImpliedZeroIsChecked ==
  Settled("missing") =>
    /\ phase = "done" /\ failure # <<>>
    /\ failure[1][1].part = expected.value

\* A layout the description does not say is refused, not misread.
OtherLayoutRefused == Settled("unread") => phase = "unread"

\* A program that forwards what it read sends the same message, whatever the
\* order, the pieces and the unknown fields it was sent (decode.go, readObject).
ForwardsTheSame ==
  (phase = "done" /\ expected.outcome = "value" /\ expected.value = input.value) =>
    Write(input.shape, request.document) = [ok |-> TRUE, found |-> sent]
----------------------------------------------------------------------------
(* What the codec's documentation says beyond that. *)

IsUnion == NodeKind(input.shape) = "union"

\* A message of a union carries the variant that was chosen, and only it
\* (encode.go, writeUnion).
ChosenIsWritten == (phase = "wire" /\ IsUnion /\ rewrites = 0) => Len(wire) = 1
=============================================================================
