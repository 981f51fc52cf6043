------------------------------- MODULE Decoder -------------------------------
(***************************************************************************)
(* Decode: a schema pulls a value from a Source (object_codec.go,          *)
(* collection.go, union.go, union_tagged.go, schema.go, object_fields.go), *)
(* which is jsonSource over jsontext.Decoder (json_decode.go) or           *)
(* dynamicSource (dynamic_source.go).                                      *)
(*                                                                         *)
(* frames is the Go call stack, one activation record of a schema's decode *)
(* per shape being read, and sources the sources they read from: a tagged  *)
(* union reads its variant from a dynamicSource of its own.  The callback  *)
(* a schema hands to ReadObject or ReadList is part of its record: members *)
(* is what dynamicSource's loop has still to hand over; jsonSource's loop  *)
(* looks at the next token, and names is what its decoder remembers to     *)
(* refuse a second member of one name.                                     *)
(***************************************************************************)
EXTENDS Shapes, Documents

VARIABLES
  request,    \* what is decoded: [shape, kind, strategy, document]
  frames,     \* the call stack: [shape, begun, label, members, names, acc, seen]
  sources,    \* the sources being read, the current one last
  returned,   \* <<v>> when the call above the top record has returned v
  failure     \* <<>>, or <<path>> once a call has failed

vars == <<request, frames, sources, returned, failure>>

JsonSource(tokens) == [kind |-> "json", rest |-> tokens]
DynamicSource(stack) == [kind |-> "dynamic", stack |-> stack]

Kind(f) == Shape[f.shape].kind

Frame(s) ==
  [shape |-> s, begun |-> FALSE, label |-> <<>>, members |-> <<>>, names |-> {},
   acc |-> <<>>, seen |-> {}]

\* Decode is called: a record of its shape, over the source it is given.
SourceFor(r) == IF r.kind = "json" THEN JsonSource(r.document) ELSE DynamicSource(<<r.document>>)

Start(r) ==
  /\ request' = r
  /\ frames' = <<Frame(r.shape)>>
  /\ sources' = <<SourceFor(r)>>
  /\ UNCHANGED <<returned, failure>>

----------------------------------------------------------------------------
(* The sources: what can be read next, and what is left once it was. *)

Current == Last(sources)
Top == Last(frames)

Take(source) ==
  IF source.kind = "json" THEN [source EXCEPT !.rest = Tail(@)]
  ELSE [source EXCEPT !.stack = Front(@)]

HasNext(source) == IF source.kind = "json" THEN source.rest # <<>> ELSE source.stack # <<>>
Ahead(source) == IF source.kind = "json" THEN Head(source.rest) ELSE Last(source.stack)

\* Text, Integer, Number, Bytes and Timestamp of jsonSource and dynamicSource.
JsonReads(token, kind) ==
  CASE kind = "text"      -> token.t = "string"
    [] kind = "integer"   -> token.t = "number" /\ token.v \in Whole
    [] kind = "number"    -> token.t = "number"
    [] kind = "bytes"     -> token.t = "string" /\ Spells(Binaries, token.v)
    [] kind = "timestamp" -> token.t = "string" /\ Spells(Instants, token.v)

DynamicReads(value, kind) ==
  CASE kind = "text"      -> IsText(value)
    [] kind = "integer"   -> value.is = "Integer" \/ (value.is = "Number" /\ value.number \in Whole)
    [] kind = "number"    -> value.is \in {"Integer", "Number"}
    [] kind = "bytes"     -> value.is = "Bytes"
    [] kind = "timestamp" -> IsTimestamp(value)

DynamicRead(value, kind) ==
  CASE kind = "text"                -> TextOf(value)
    [] kind = "bytes"               -> value.bytes
    [] kind = "timestamp"           -> TimestampOf(value)
    [] value.is = "Integer"         -> value.integer
    [] OTHER                        -> value.number

Reads(source, kind) ==
  /\ HasNext(source)
  /\ IF source.kind = "json" THEN JsonReads(Ahead(source), kind) ELSE DynamicReads(Ahead(source), kind)

Read(source, kind) ==
  IF source.kind = "dynamic" THEN DynamicRead(Ahead(source), kind)
  ELSE IF kind \in {"bytes", "timestamp"} THEN FromText(Ahead(source).v) ELSE Ahead(source).v

\* Null consumes a null and nothing else.
IsNull(source) ==
  /\ HasNext(source)
  /\ Ahead(source) = IF source.kind = "json" THEN NullToken ELSE Absent

\* Skip and Buffer take a whole value of any shape.
HasWhole(source) ==
  /\ HasNext(source)
  /\ source.kind = "json" => Ahead(source) \notin Closing /\ HasValue(source.rest)

\* Slip: one token is skipped, be it the first of many.
SkipToken(source) == Take(source)

Skip(source) ==
  IF source.kind = "json" THEN [source EXCEPT !.rest = SubSeq(@, ValueLength(@) + 1, Len(@))]
  ELSE Take(source)
NextValue(source) == IF source.kind = "json" THEN Buffer(source.rest).root[1] ELSE Ahead(source)

----------------------------------------------------------------------------
Labels(path, in) == [i \in DOMAIN path |-> [in |-> in, part |-> path[i]]]
Label(in, part) == Labels(<<part>>, in)

Active == frames # <<>> /\ failure = <<>>
Calling == Active /\ returned = <<>>
Entering(kinds) == Calling /\ ~Top.begun /\ Kind(Top) \in kinds
Reading(kinds) == Calling /\ Top.begun /\ Kind(Top) \in kinds
Resuming(kinds) == Active /\ returned # <<>> /\ Kind(Top) \in kinds

\* The source the top record's function was given is now in this state.
Source(source) == sources' = [sources EXCEPT ![Len(sources)] = source]

Return(v) == frames' = Front(frames) /\ returned' = <<v>> /\ UNCHANGED failure
Fail(path) == frames' = Front(frames) /\ returned' = <<>> /\ failure' = <<path>>

\* The top record becomes f, and the decode of shape s is called.
Enter(f, s) ==
  /\ frames' = Append([frames EXCEPT ![Len(frames)] = f], Frame(s))
  /\ UNCHANGED <<returned, failure>>

\* The top record becomes f, and runs on.
Go(f) ==
  /\ frames' = [frames EXCEPT ![Len(frames)] = f]
  /\ returned' = <<>>
  /\ UNCHANGED failure

----------------------------------------------------------------------------
\* A schema with a fault, or fields the source's strategy spells alike.
Refuse ==
  /\ Entering({"faulty", "object"})
  /\ Kind(Top) = "object" => SpellingFault(Shape[Top.shape].fields, request.strategy)
  /\ Fail(<<>>)
  /\ UNCHANGED <<request, sources>>

ReadScalar ==
  /\ Entering(Scalars)
  /\ IF Reads(Current, Kind(Top))
     THEN Return(Read(Current, Kind(Top))) /\ Source(Take(Current))
     ELSE Fail(<<>>) /\ UNCHANGED sources
  /\ UNCHANGED request

\* Nullable asks before it reads, and a dynamicSource with nothing left refuses
\* the question.
ReadNull ==
  /\ Entering({"nullable"})
  /\ IsNull(Current)
  /\ Return(<<>>) /\ Source(Take(Current))
  /\ UNCHANGED request

EnterInner ==
  /\ Entering(Wrappers)
  /\ Kind(Top) = "nullable" => ~IsNull(Current)
  /\ IF Kind(Top) = "nullable" /\ Current.kind = "dynamic" /\ ~HasNext(Current)
     THEN Fail(<<>>)
     ELSE Enter([Top EXCEPT !.begun = TRUE], Shape[Top.shape].of)
  /\ UNCHANGED <<request, sources>>

\* Slip: a refinement admits whatever was read.
LeaveUnchecked ==
  /\ Resuming(Wrappers)
  /\ Return(IF Kind(Top) = "nullable" THEN returned ELSE returned[1])
  /\ UNCHANGED <<request, sources>>

LeaveInner ==
  /\ Resuming(Wrappers)
  /\ LET v == returned[1]
     IN  CASE Kind(Top) = "nullable" -> Return(<<v>>)
           [] Kind(Top) = "suspend"  -> Return(v)
           [] Kind(Top) = "refined"  ->
                IF v \in Shape[Top.shape].admits THEN Return(v) ELSE Fail(<<>>)
  /\ UNCHANGED <<request, sources>>

----------------------------------------------------------------------------
(* ReadObject, for an object, a map and a union; ReadList. *)

ObjectLike == {"object", "map", "union"}
Fields(f) == Shape[f.shape].fields
Variants(f) == Shape[f.shape].variants

Nothing(s) ==
  IF Shape[s].kind = "object" THEN [i \in DOMAIN Shape[s].fields |-> <<>>] ELSE <<>>

Begins(source, is) ==
  /\ HasNext(source)
  /\ IF source.kind = "dynamic" THEN Ahead(source).is = is
     ELSE Ahead(source) = IF is = "Object" THEN OpenObject ELSE OpenList

MembersOf(source) ==
  CASE source.kind = "json"          -> <<>>
    [] Ahead(source).is = "Object"   -> Ahead(source).members
    [] OTHER                         -> Ahead(source).elements

BeginContainer ==
  /\ Entering(ObjectLike \cup {"list"})
  /\ Kind(Top) = "object" => ~SpellingFault(Fields(Top), request.strategy)
  /\ IF Begins(Current, IF Kind(Top) = "list" THEN "List" ELSE "Object")
     THEN /\ Go([Top EXCEPT !.begun = TRUE, !.acc = Nothing(Top.shape), !.members = MembersOf(Current)])
          /\ Source(Take(Current))
     ELSE Fail(<<>>) /\ UNCHANGED sources
  /\ UNCHANGED request

\* Whether the loop calls back once more.  jsonSource's goes on at the end of
\* the document too, and fails to read there.
AtEnd(closing) ==
  IF Current.kind = "dynamic" THEN Top.members = <<>>
  ELSE Current.rest # <<>> /\ Head(Current.rest) = closing

\* The next member: its name, and the source once the name has been read.
NamedNext ==
  Current.kind = "json" =>
    Current.rest # <<>> /\ Head(Current.rest).t = "string" /\ Head(Current.rest).v \notin Top.names
NextName == IF Current.kind = "json" THEN Head(Current.rest).v ELSE Head(Top.members).name
AfterName ==
  IF Current.kind = "json" THEN Take(Current)
  ELSE DynamicSource(Append(Current.stack, Head(Top.members).value))
Advanced ==
  IF Current.kind # "json" THEN [Top EXCEPT !.members = Tail(@)]
  ELSE IF Kind(Top) = "list" THEN Top
  ELSE [Top EXCEPT !.names = @ \cup {NextName}]

\* ReadObject's callback is about to be called with NextName.
CallsBack(kinds) == Reading(kinds) /\ ~AtEnd(CloseObject) /\ NamedNext

NoName ==
  /\ Reading(ObjectLike) /\ ~AtEnd(CloseObject) /\ ~NamedNext
  /\ Fail(<<>>)
  /\ UNCHANGED <<request, sources>>

\* A name no field has is skipped with its value.
SkipUnknown ==
  /\ CallsBack({"object"})
  /\ ~Known(Fields(Top), request.strategy, NextName)
  /\ IF HasWhole(AfterName)
     THEN Go(Advanced) /\ Source(Skip(AfterName))
     ELSE Fail(<<>>) /\ UNCHANGED sources
  /\ UNCHANGED request

NextField == ByName(Fields(Top), request.strategy, NextName)

Seeing(f) == [f EXCEPT !.seen = @ \cup {NextName}, !.label = Label("object", NextName)]

\* Slip: the null of an absent field is looked at and left.
LeaveNull ==
  /\ CallsBack({"object"})
  /\ Known(Fields(Top), request.strategy, NextName)
  /\ Fields(Top)[NextField].optional /\ IsNull(AfterName)
  /\ Go(Seeing(Advanced)) /\ Source(AfterName)
  /\ UNCHANGED request

\* OptionalFieldOf, Optional: a null is an absent field.
TolerateNull ==
  /\ CallsBack({"object"})
  /\ Known(Fields(Top), request.strategy, NextName)
  /\ Fields(Top)[NextField].optional /\ IsNull(AfterName)
  /\ Go(Seeing(Advanced)) /\ Source(Take(AfterName))
  /\ UNCHANGED request

EnterField ==
  /\ CallsBack({"object"})
  /\ Known(Fields(Top), request.strategy, NextName)
  /\ ~(Fields(Top)[NextField].optional /\ IsNull(AfterName))
  /\ Enter(Seeing(Advanced), Fields(Top)[NextField].of) /\ Source(AfterName)
  /\ UNCHANGED request

LeaveField ==
  /\ Resuming({"object"})
  /\ LET name == Top.label[1].part
         i == ByName(Fields(Top), request.strategy, name)
     IN  Go([Top EXCEPT !.acc[i] = <<returned[1]>>])
  /\ UNCHANGED <<request, sources>>

EnterEntry ==
  /\ CallsBack({"map"})
  /\ Enter([Advanced EXCEPT !.label = Label("map", NextName)], Shape[Top.shape].of)
  /\ Source(AfterName)
  /\ UNCHANGED request

LeaveEntry ==
  /\ Resuming({"map"})
  /\ Go([Top EXCEPT !.acc = (Top.label[1].part :> returned[1]) @@ @])
  /\ UNCHANGED <<request, sources>>

\* decodeVariant: one member, whose name is a variant's.
VariantNamed(f, name) == {i \in DOMAIN Variants(f) : Variants(f)[i].name = name}

EnterUnion ==
  /\ CallsBack({"union"})
  /\ Top.acc = <<>> /\ VariantNamed(Top, NextName) # {}
  /\ LET i == CHOOSE i \in VariantNamed(Top, NextName) : TRUE
     IN  Enter([Advanced EXCEPT !.label = Label("union", NextName), !.acc = <<i>>], Variants(Top)[i].of)
  /\ Source(AfterName)
  /\ UNCHANGED request

RefuseUnion ==
  /\ CallsBack({"union"})
  /\ Top.acc # <<>> \/ VariantNamed(Top, NextName) = {}
  /\ Fail(<<>>)
  /\ UNCHANGED <<request, sources>>

LeaveUnion ==
  /\ Resuming({"union"})
  /\ Go([Top EXCEPT !.acc = Append(@, returned[1])])
  /\ UNCHANGED <<request, sources>>

\* Slip: the names seen are counted, not compared.
MissingByCount(f) ==
  {i \in DOMAIN Fields(f) :
     /\ ~Fields(f)[i].optional /\ SpelledName(Fields(f), request.strategy, i) \notin f.seen
     /\ Cardinality(f.seen) < Cardinality(Required(Fields(f), request.strategy))}

\* The required fields no member was seen of.
Missing(f) ==
  {i \in DOMAIN Fields(f) :
     ~Fields(f)[i].optional /\ SpelledName(Fields(f), request.strategy, i) \notin f.seen}

\* The first of them, in declaration order.
FirstMissing(f) ==
  SpelledName(Fields(f), request.strategy,
              CHOOSE i \in Missing(f) : \A j \in Missing(f) : i <= j)

\* Slip: the end of the input ends an object too.
EndObjectAtEnd ==
  /\ Reading(ObjectLike)
  /\ AtEnd(CloseObject) \/ (Current.kind = "json" /\ ~HasNext(Current))
  /\ CASE Kind(Top) = "object" /\ Missing(Top) # {} -> Fail(Label("object", FirstMissing(Top)))
       [] Kind(Top) = "union" /\ Top.acc = <<>>       -> Fail(<<>>)
       [] OTHER                                       -> Return(Top.acc)
  /\ Source(IF Current.kind = "json" /\ HasNext(Current) THEN Take(Current) ELSE Current)
  /\ UNCHANGED request

EndObject ==
  /\ Reading(ObjectLike) /\ AtEnd(CloseObject)
  /\ CASE Kind(Top) = "object" /\ Missing(Top) # {} -> Fail(Label("object", FirstMissing(Top)))
       [] Kind(Top) = "union" /\ Top.acc = <<>>       -> Fail(<<>>)
       [] OTHER                                       -> Return(Top.acc)
  /\ Source(IF Current.kind = "json" THEN Take(Current) ELSE Current)
  /\ UNCHANGED request

EnterElement ==
  /\ Reading({"list"}) /\ ~AtEnd(CloseList)
  /\ Enter([Advanced EXCEPT !.label = Label("list", ToString(Len(Top.acc)))], Shape[Top.shape].of)
  /\ Source(IF Current.kind = "json" THEN Current
            ELSE DynamicSource(Append(Current.stack, Head(Top.members))))
  /\ UNCHANGED request

LeaveElement ==
  /\ Resuming({"list"})
  /\ Go([Top EXCEPT !.acc = Append(@, returned[1])])
  /\ UNCHANGED <<request, sources>>

EndList ==
  /\ Reading({"list"}) /\ AtEnd(CloseList)
  /\ Return(Top.acc)
  /\ Source(IF Current.kind = "json" THEN Take(Current) ELSE Current)
  /\ UNCHANGED request

----------------------------------------------------------------------------
(***************************************************************************)
(* decodeTagged: the object is read whole, the tag found in it, and the    *)
(* variant read from the object without its tag.                           *)
(***************************************************************************)
Tag(f) == Spell[request.strategy][Shape[f.shape].tag]

TagText(object, name) == MemberOf(object, name).text

BufferFault(document, f) ==
  \/ document.is # "Object"
  \/ ~Carries(document, Tag(f))
  \/ MemberOf(document, Tag(f)).is = "Text" /\ VariantNamed(f, TagText(document, Tag(f))) = {}

NotText(document, f) ==
  document.is = "Object" /\ Carries(document, Tag(f)) /\ MemberOf(document, Tag(f)).is # "Text"

RefuseTagged ==
  /\ Entering({"tagged"})
  /\ CASE ~HasWhole(Current) ->
            Fail(Labels(IF Current.kind = "json" THEN Interrupted(Buffer(Current.rest)) ELSE <<>>, "buffer"))
       [] HasWhole(Current) /\ BufferFault(NextValue(Current), Top) -> Fail(<<>>)
       [] HasWhole(Current) /\ NotText(NextValue(Current), Top) -> Fail(Label("object", Tag(Top)))
       [] OTHER -> FALSE
  /\ UNCHANGED <<request, sources>>

\* Slip: the variant reads the object with the tag still in it.
EnterTagged ==
  /\ Entering({"tagged"})
  /\ HasWhole(Current)
  /\ LET document == NextValue(Current)
     IN  /\ ~BufferFault(document, Top) /\ ~NotText(document, Top)
         /\ LET name == TagText(document, Tag(Top))
                i == CHOOSE i \in VariantNamed(Top, name) : TRUE
            IN  /\ Enter([Top EXCEPT !.begun = TRUE, !.label = Label("tagged", name), !.acc = <<i>>],
                         Variants(Top)[i].of)
                /\ sources' = Append([sources EXCEPT ![Len(sources)] = Skip(Current)],
                                     DynamicSource(<<document>>))
  /\ UNCHANGED request

EnterVariant ==
  /\ Entering({"tagged"})
  /\ HasWhole(Current)
  /\ LET document == NextValue(Current)
     IN  /\ ~BufferFault(document, Top) /\ ~NotText(document, Top)
         /\ LET name == TagText(document, Tag(Top))
                i == CHOOSE i \in VariantNamed(Top, name) : TRUE
            IN  /\ Enter([Top EXCEPT !.begun = TRUE, !.label = Label("tagged", name), !.acc = <<i>>],
                         Variants(Top)[i].of)
                /\ sources' = Append([sources EXCEPT ![Len(sources)] = Skip(Current)],
                                     DynamicSource(<<Omit(document, Tag(Top))>>))
  /\ UNCHANGED request

LeaveVariant ==
  /\ Resuming({"tagged"})
  /\ Return(Append(Top.acc, returned[1]))
  /\ sources' = Front(sources)
  /\ UNCHANGED request

----------------------------------------------------------------------------
\* Slip: ReadList goes on when an element fails.
UnwindElement ==
  /\ frames # <<>> /\ failure # <<>>
  /\ IF Kind(Top) = "list" THEN failure' = <<>> /\ UNCHANGED frames
     ELSE failure' = <<Top.label \o failure[1]>> /\ frames' = Front(frames)
  /\ sources' = IF Kind(Top) = "tagged" THEN Front(sources) ELSE sources
  /\ UNCHANGED <<request, returned>>

\* The failure returns through one record, which adds the part it was reading.
Unwind ==
  /\ frames # <<>> /\ failure # <<>>
  /\ failure' = <<Top.label \o failure[1]>>
  /\ frames' = Front(frames)
  /\ sources' = IF Kind(Top) = "tagged" THEN Front(sources) ELSE sources
  /\ UNCHANGED <<request, returned>>

Step ==
  \/ Refuse \/ ReadScalar
  \/ ReadNull \/ EnterInner \/ LeaveInner
  \/ BeginContainer \/ NoName
  \/ SkipUnknown \/ TolerateNull \/ EnterField \/ LeaveField
  \/ EnterEntry \/ LeaveEntry
  \/ EnterUnion \/ RefuseUnion \/ LeaveUnion
  \/ EndObject
  \/ EnterElement \/ LeaveElement \/ EndList
  \/ RefuseTagged \/ EnterVariant \/ LeaveVariant
  \/ Unwind

\* The decode has returned: a value, or an error.
Decoded == frames = <<>> /\ failure = <<>> /\ returned # <<>>
Rejected == frames = <<>> /\ failure # <<>>

----------------------------------------------------------------------------
(* Properties *)

DecoderTypeOK ==
  /\ \A i \in DOMAIN frames :
       /\ frames[i].shape \in DOMAIN Shape
       /\ frames[i].begun \in BOOLEAN
       /\ Len(frames[i].label) \in {0, 1}
       /\ Kind(frames[i]) = "object" /\ frames[i].begun =>
            DOMAIN frames[i].acc = DOMAIN Fields(frames[i])
  /\ sources # <<>>
  /\ Len(returned) \in {0, 1} /\ Len(failure) \in {0, 1}
  /\ returned = <<>> \/ failure = <<>>

\* Whether the top record is about to read a value, and so needs one to be next.
AboutToRead == frames # <<>> /\ returned = <<>> /\ ~Top.begun

\* A tagged union's variant, and all that is under it, reads from a source of
\* its own: how many of the records 1..i are in S tells which a record reads.
Count(i, S) == Cardinality(S \cap (1..i))

TaggedRecords == {i \in DOMAIN frames : frames[i].begun /\ Kind(frames[i]) = "tagged"}

SourcePerVariant == Len(sources) = 1 + Count(Len(frames), TaggedRecords)

\* A dynamicSource holds the value about to be read and no other: a callback
\* that left its member unread, or read past it, would give the next field its
\* neighbour's value without any error.  Skip, a consumed null, a member handed
\* over by ReadObject and a buffered object all have to keep to this.
DynamicSourceHoldsOne ==
  failure = <<>> =>
    \A k \in DOMAIN sources :
      sources[k].kind = "dynamic" =>
        Len(sources[k].stack) = IF k = Len(sources) /\ AboutToRead THEN 1 ELSE 0

\* Where tokens leave off: the containers entered and not left, outermost first,
\* and whether each is an object that awaits the value of a member.
Entered(is) == [is |-> is, pending |-> FALSE]

AwaitsName(open) == open # <<>> /\ Last(open).is = "Object" /\ ~Last(open).pending

AfterValue(open) == IF open = <<>> THEN open ELSE [open EXCEPT ![Len(open)].pending = FALSE]

Past(open, token) ==
  CASE token = OpenObject                  -> Append(open, Entered("Object"))
    [] token = OpenList                    -> Append(open, Entered("List"))
    [] token \in Closing                   -> AfterValue(Front(open))
    [] token.t = "string" /\ AwaitsName(open)  -> [open EXCEPT ![Len(open)].pending = TRUE]
    [] OTHER                               -> AfterValue(open)

StandsIn(tokens) ==
  LET in[i \in 0..Len(tokens)] == IF i = 0 THEN <<>> ELSE Past(in[i - 1], tokens[i])
  IN  in[Len(tokens)]

\* The records whose containers are in the JSON document, not in a buffered part.
OuterRecords ==
  {i \in DOMAIN frames : /\ frames[i].begun /\ Kind(frames[i]) \in ObjectLike \cup {"list"}
                         /\ Count(i - 1, TaggedRecords) = 0}

\* The same of jsonSource: it stands inside exactly the containers its records
\* have begun, the innermost being an object that awaits a member's value just
\* when a record is about to read one.
JsonSourceInStep ==
  (failure = <<>> /\ request.kind = "json") =>
    LET unread == Len(sources[1].rest)
        open == StandsIn(SubSeq(request.document, 1, Len(request.document) - unread))
    IN  /\ Len(open) = Count(Len(frames), OuterRecords)
        /\ \A i \in OuterRecords :
             open[Count(i, OuterRecords)].is = IF Kind(frames[i]) = "list" THEN "List" ELSE "Object"
        /\ open # <<>> /\ Last(open).is = "Object" =>
             (Last(open).pending <=> Len(sources) = 1 /\ AboutToRead)
=============================================================================
