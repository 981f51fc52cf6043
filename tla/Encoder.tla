------------------------------- MODULE Encoder -------------------------------
(***************************************************************************)
(* Encode: a schema drives a Sink through a value (object_codec.go,        *)
(* collection.go, union.go, union_tagged.go, schema.go).                   *)
(*                                                                         *)
(* frames is the Go call stack, one activation record of a schema's encode *)
(* per shape being written; a wrapper (nullable, refined, suspend) ends in *)
(* the call of its inner schema's, so the inner record takes its place.    *)
(* Under the stack is the sink the program gave, and over that one tagSink *)
(* per tagged union whose variant is being written.                        *)
(***************************************************************************)
EXTENDS Shapes, Sinks, FiniteSets

CONSTANTS
  Literal,    \* the strategy that spells a name as it was declared
  Inputs,     \* the encodings attempted: [shape, value, kind, strategy, fails]
  Keys,       \* the keys of maps, in sorted order
  Values      \* Values[s]: the Go values of shape s in them

VARIABLES
  input,      \* the encoding under way
  frames,     \* the call stack, outermost first: [shape, value, begun, at]
  tags,       \* the tagSinks, outermost first: [name, value, depth]
  sink,       \* the sink underneath
  failure     \* <<>>, or <<path>> once a call has failed

vars == <<input, frames, tags, sink, failure>>

\* dynamicSink states no strategy, so names stay as declared.
ASSUME InputAssumption ==
  \A i \in Inputs :
    /\ i.shape \in DOMAIN Shape /\ i.value \in Values[i.shape]
    /\ i.kind \in {"json", "dynamic"}
    /\ i.kind = "dynamic" => i.strategy = Literal

\* A field that is not optional is never absent, and narrow finds the variant a
\* value is, or none: what Go's types say of the value a schema is given.
ASSUME ValueAssumption ==
  \A s \in DOMAIN Shape : \A v \in Values[s] :
    LET shape == Shape[s]
    IN  CASE shape.kind = "object" ->
               \A i \in DOMAIN shape.fields :
                 /\ v[i] = <<>> => shape.fields[i].optional
                 /\ v[i] # <<>> => v[i][1] \in Values[shape.fields[i].of]
          [] shape.kind \in {"union", "tagged"} ->
               /\ v[1] \in 0..Len(shape.variants)
               /\ v[1] # 0 => v[2] \in Values[shape.variants[v[1]].of]
          [] shape.kind = "list"     -> v \in Seq(Values[shape.of])
          [] shape.kind = "map"      -> \A key \in DOMAIN v : v[key] \in Values[shape.of]
          [] shape.kind = "nullable" -> v # <<>> => v[1] \in Values[shape.of]
          [] shape.kind \in {"refined", "suspend"} -> v \in Values[shape.of]
          [] OTHER -> TRUE

\* The literal strategy leaves every declared name as it is, and a map has a key
\* once.
ASSUME NameAssumption ==
  /\ \A n \in DOMAIN Spell[Literal] : Spell[Literal][n] = n
  /\ \A s \in DOMAIN Shape :
       /\ Shape[s].kind = "object" =>
            \A i \in DOMAIN Shape[s].fields : Shape[s].fields[i].name \in DOMAIN Spell[Literal]
       /\ Shape[s].kind = "tagged" => Shape[s].tag \in DOMAIN Spell[Literal]
  /\ Keys \in Seq(STRING)
  /\ \A i, j \in DOMAIN Keys : Keys[i] = Keys[j] => i = j

\* The values there are to write, what each is made of, and how deep that goes: an
\* encode of a value that holds itself would not return.
Writable == UNION {{s} \X Values[s] : s \in DOMAIN Shape}

MadeOf(p) ==
  LET shape == Shape[p[1]]
      v == p[2]
  IN  CASE shape.kind = "object" ->
             {<<shape.fields[i].of, v[i][1]>> : i \in {j \in DOMAIN shape.fields : v[j] # <<>>}}
        [] shape.kind \in {"union", "tagged"} ->
             IF v[1] = 0 THEN {} ELSE {<<shape.variants[v[1]].of, v[2]>>}
        [] shape.kind \in {"list", "map"}        -> {<<shape.of, v[i]>> : i \in DOMAIN v}
        [] shape.kind = "nullable"              -> IF v = <<>> THEN {} ELSE {<<shape.of, v[1]>>}
        [] shape.kind \in {"refined", "suspend"} -> {<<shape.of, v>>}
        [] OTHER                                -> {}

Height[p \in Writable] ==
  IF MadeOf(p) = {} THEN 0 ELSE Max({Height[q] : q \in MadeOf(p)}) + 1

ASSUME HeightAssumption ==
  \A p \in Writable :
    Height[p] \in Nat /\ \A q \in MadeOf(p) : q \in Writable /\ Height[q] < Height[p]

Frame(s, v) == [shape |-> s, value |-> v, begun |-> FALSE, at |-> 0]

Init ==
  /\ input \in Inputs
  /\ frames = <<Frame(input.shape, input.value)>>
  /\ tags = <<>>
  /\ sink = IF input.kind = "json" THEN JsonSink ELSE DynamicSink
  /\ failure = <<>>

----------------------------------------------------------------------------
Kind(f) == Shape[f.shape].kind
Top == Last(frames)
Running == frames # <<>> /\ failure = <<>>

Containers == {"object", "union", "list", "map"}

\* The members of S among 1..n, in order.
InOrder(S, n) ==
  LET upTo[i \in 0..n] ==
        IF i = 0 THEN <<>> ELSE IF i \in S THEN Append(upTo[i - 1], i) ELSE upTo[i - 1]
  IN  upTo[n]

\* What f writes, in order: the part's name or position, its shape, its value.
\* An absent optional field is no part: it is omitted rather than written null.
Part(in, name, of, value) == [label |-> [in |-> in, part |-> name], of |-> of, value |-> value]

FieldParts(f) ==
  LET fields == Shape[f.shape].fields
      written == InOrder({i \in DOMAIN fields : ~(fields[i].optional /\ f.value[i] = <<>>)},
                         Len(fields))
  IN  [k \in DOMAIN written |->
        Part("object", SpelledName(fields, input.strategy, written[k]),
             fields[written[k]].of, f.value[written[k]][1])]

VariantPart(f) ==
  LET variant == Shape[f.shape].variants[f.value[1]]
  IN  Part(Kind(f), variant.name, variant.of, f.value[2])

ElementParts(f) ==
  [k \in DOMAIN f.value |-> Part("list", ToString(k - 1), Shape[f.shape].of, f.value[k])]

EntryParts(f) ==
  LET held == InOrder({i \in DOMAIN Keys : Keys[i] \in DOMAIN f.value}, Len(Keys))
  IN  [k \in DOMAIN held |->
        Part("map", Keys[held[k]], Shape[f.shape].of, f.value[Keys[held[k]]])]

Parts(f) ==
  CASE Kind(f) = "object"             -> FieldParts(f)
    [] Kind(f) \in {"union", "tagged"} -> <<VariantPart(f)>>
    [] Kind(f) = "list"               -> ElementParts(f)
    [] Kind(f) = "map"                -> EntryParts(f)

----------------------------------------------------------------------------
\* The top record's function returns nil, or an error with no path yet.
Return == frames' = Front(frames) /\ UNCHANGED failure
Fail == frames' = Front(frames) /\ failure' = <<<<>>>>

\* The sink is now as it was after the calls made; a refused call fails.
After(called, Then) ==
  /\ sink' = called
  /\ IF sink'.err = "none" THEN Then ELSE Fail

Emit(op, v, Then) == After(SinkCall(sink, Call(op, v)), Then)

\* Encode(part.of, part.value, into): a new record on top.
Enter(part) ==
  /\ frames' = Append([frames EXCEPT ![Len(frames)].at = @ + 1], Frame(part.of, part.value))
  /\ UNCHANGED failure

\* An encode that ends in the call of another's.
Become(s, v) ==
  /\ frames' = [frames EXCEPT ![Len(frames)] = Frame(s, v)]
  /\ UNCHANGED failure

\* Slip: the tag goes into every object begun while the variant is written.
TaggedAnew(into) ==
  LET layer[i \in 0..Len(tags)] ==
        IF i = 0 THEN into ELSE SinkTag(layer[i - 1], tags[i].name, tags[i].value)
  IN  layer[Len(tags)]

\* tagSink.BeginObject, outermost layer first: the object has begun in into, and
\* each of the first n layers whose first object this is has written its tag.
Layered(into, n) ==
  LET layer[i \in 0..n] ==
        IF i = 0 THEN into
        ELSE IF tags[i].depth = 0 THEN SinkTag(layer[i - 1], tags[i].name, tags[i].value)
        ELSE layer[i - 1]
  IN  layer[n]

Tagged(into) == Layered(into, Len(tags))

Deepen(by) == tags' = [i \in DOMAIN tags |-> [tags[i] EXCEPT !.depth = @ + by]]

----------------------------------------------------------------------------
\* What the encode of a shape refuses before it calls the sink: a schema with
\* a fault, two fields the strategy spells alike, a value no variant matches,
\* a value a refinement does not admit, a number that is not finite.
Refuses(f) ==
  CASE Kind(f) = "faulty"              -> TRUE
    [] Kind(f) = "object"              -> SpellingFault(Shape[f.shape].fields, input.strategy)
    [] Kind(f) \in {"union", "tagged"} -> f.value[1] = 0
    [] Kind(f) = "refined"             -> f.value \notin Shape[f.shape].admits
    [] Kind(f) = "number"              -> f.value \in NotFinite
    [] OTHER                           -> FALSE

Refuse ==
  /\ Running /\ ~Top.begun /\ Refuses(Top)
  /\ Fail
  /\ UNCHANGED <<input, tags, sink>>

ScalarOp == [text |-> "Text", integer |-> "Integer", number |-> "Number",
             bytes |-> "Bytes", timestamp |-> "Timestamp"]

WriteScalar ==
  /\ Running /\ Kind(Top) \in Scalars /\ ~Refuses(Top)
  /\ Emit(ScalarOp[Kind(Top)], Top.value, Return)
  /\ UNCHANGED <<input, tags>>

WriteNil ==
  /\ Running /\ Kind(Top) = "nullable" /\ Top.value = <<>>
  /\ Emit("Null", "", Return)
  /\ UNCHANGED <<input, tags>>

\* Slip: a suspended schema resolves to itself.
EnterItself ==
  /\ Running /\ Kind(Top) \in Wrappers /\ ~Refuses(Top)
  /\ Kind(Top) = "nullable" => Top.value # <<>>
  /\ Become(IF Kind(Top) = "suspend" THEN Top.shape ELSE Shape[Top.shape].of,
            IF Kind(Top) = "nullable" THEN Top.value[1] ELSE Top.value)
  /\ UNCHANGED <<input, tags, sink>>

\* A set pointer, an admitted value, a schema now resolved.
EnterInner ==
  /\ Running /\ Kind(Top) \in Wrappers /\ ~Refuses(Top)
  /\ Kind(Top) = "nullable" => Top.value # <<>>
  /\ Become(Shape[Top.shape].of, IF Kind(Top) = "nullable" THEN Top.value[1] ELSE Top.value)
  /\ UNCHANGED <<input, tags, sink>>

\* Slip: a tagged union in another's variant names the variant around it.
EnterVariantAround ==
  /\ Running /\ Kind(Top) = "tagged" /\ ~Top.begun /\ ~Refuses(Top)
  /\ frames' = Append([frames EXCEPT ![Len(frames)].begun = TRUE, ![Len(frames)].at = 1],
                      Frame(VariantPart(Top).of, VariantPart(Top).value))
  /\ tags' = Append(tags, [name |-> Spell[input.strategy][Shape[Top.shape].tag],
                           value |-> IF tags = <<>> THEN VariantPart(Top).label.part
                                     ELSE Last(tags).value,
                           depth |-> 0])
  /\ UNCHANGED <<input, sink, failure>>

\* encodeTagged: the variant is written to a sink that writes the tag.
EnterVariant ==
  /\ Running /\ Kind(Top) = "tagged" /\ ~Top.begun /\ ~Refuses(Top)
  /\ frames' = Append([frames EXCEPT ![Len(frames)].begun = TRUE, ![Len(frames)].at = 1],
                      Frame(VariantPart(Top).of, VariantPart(Top).value))
  /\ tags' = Append(tags, [name |-> Spell[input.strategy][Shape[Top.shape].tag],
                           value |-> VariantPart(Top).label.part, depth |-> 0])
  /\ UNCHANGED <<input, sink, failure>>

\* Slip: the tagSink of a variant is still there after it.
LeaveTagSink ==
  /\ Running /\ Kind(Top) = "tagged" /\ Top.begun
  /\ Return
  /\ UNCHANGED <<input, tags, sink>>

LeaveVariant ==
  /\ Running /\ Kind(Top) = "tagged" /\ Top.begun
  /\ Return
  /\ tags' = Front(tags)
  /\ UNCHANGED <<input, sink>>

BeginContainer ==
  /\ Running /\ Kind(Top) \in Containers /\ ~Top.begun /\ ~Refuses(Top)
  /\ LET begun == frames' = [frames EXCEPT ![Len(frames)].begun = TRUE] /\ UNCHANGED failure
     IN  IF Kind(Top) = "list"
         THEN Emit("BeginList", "", begun) /\ UNCHANGED tags
         ELSE After(Tagged(SinkCall(sink, Call("BeginObject", ""))), begun) /\ Deepen(1)
  /\ UNCHANGED input

WritePart ==
  /\ Running /\ Kind(Top) \in Containers /\ Top.begun
  /\ Top.at < Len(Parts(Top))
  /\ LET part == Parts(Top)[Top.at + 1]
     IN  IF Kind(Top) = "list"
         THEN Enter(part) /\ UNCHANGED sink
         ELSE Emit("FieldName", part.label.part, Enter(part))
  /\ UNCHANGED <<input, tags>>

EndContainer ==
  /\ Running /\ Kind(Top) \in Containers /\ Top.begun
  /\ Top.at = Len(Parts(Top))
  /\ IF Kind(Top) = "list"
     THEN Emit("EndList", "", Return) /\ UNCHANGED tags
     ELSE Emit("EndObject", "", Return) /\ Deepen(-1)
  /\ UNCHANGED input

\* Whether f is about to call the sink: a list does only to begin and to end.
Writing(f) ==
  \/ Kind(f) \in Scalars
  \/ Kind(f) = "nullable" /\ f.value = <<>>
  \/ Kind(f) \in Containers /\ (f.begun /\ Kind(f) = "list" => f.at = Len(Parts(f)))

EndsObject(f) == Kind(f) \in Containers \ {"list"} /\ f.begun /\ f.at = Len(Parts(f))

\* EncodeJSONTo: the io.Writer under the encoder refuses the call of the sink that
\* a record makes.  The tagSinks have left the object before they end it.
WriterFails ==
  /\ Running /\ input.kind = "json" /\ input.fails
  /\ Writing(Top) /\ (Top.begun \/ ~Refuses(Top))
  /\ Fail
  /\ IF EndsObject(Top) THEN Deepen(-1) ELSE UNCHANGED tags
  /\ UNCHANGED <<input, sink>>

\* Or it refuses the name of a tag, or its value, which a tagSink writes within
\* BeginObject: the object has begun, and the layers that far have counted it.
TagFails ==
  /\ Running /\ input.kind = "json" /\ input.fails
  /\ Kind(Top) \in Containers \ {"list"} /\ ~Top.begun /\ ~Refuses(Top)
  /\ \E i \in DOMAIN tags :
       LET begun == Layered(SinkCall(sink, Call("BeginObject", "")), i - 1)
           named == SinkCall(begun, Call("FieldName", tags[i].name))
       IN  /\ tags[i].depth = 0
           /\ sink' \in {begun, named} /\ sink'.err = "none"
           /\ tags' = [j \in DOMAIN tags |->
                         IF j <= i THEN [tags[j] EXCEPT !.depth = @ + 1] ELSE tags[j]]
  /\ Fail
  /\ UNCHANGED input

\* Slip: the part is added after the path it leads to.
UnwindInward ==
  /\ frames # <<>> /\ failure # <<>>
  /\ failure' = <<Append(failure[1], Parts(Top)[Top.at].label)>>
  /\ frames' = Front(frames)
  /\ tags' = IF Kind(Top) = "tagged" THEN Front(tags) ELSE tags
  /\ UNCHANGED <<input, sink>>

\* The failure returns through one record, which adds the part it was writing.
Unwind ==
  /\ frames # <<>> /\ failure # <<>>
  /\ failure' = <<<<Parts(Top)[Top.at].label>> \o failure[1]>>
  /\ frames' = Front(frames)
  /\ tags' = IF Kind(Top) = "tagged" THEN Front(tags) ELSE tags
  /\ UNCHANGED <<input, sink>>

\* The program has its document or its error.
Finished == frames = <<>> /\ UNCHANGED vars

Step ==
  \/ Refuse
  \/ WriteScalar \/ WriteNil
  \/ EnterInner
  \/ EnterVariant \/ LeaveVariant
  \/ BeginContainer \/ WritePart \/ EndContainer
  \/ WriterFails \/ TagFails
  \/ Unwind

Next == Step \/ Finished

Spec == Init /\ [][Next]_vars

\* One goroutine runs an encode to its end.
FairSpec == Spec /\ WF_vars(Step)
----------------------------------------------------------------------------
(* Properties *)

TypeOK ==
  /\ \A i \in DOMAIN frames :
       /\ frames[i].shape \in DOMAIN Shape
       /\ frames[i].begun \in BOOLEAN
       /\ frames[i].at \in Nat
       /\ frames[i].at > 0 => frames[i].at \in DOMAIN Parts(frames[i])
  /\ \A i \in DOMAIN tags : tags[i].depth \in Nat
  /\ sink.kind = input.kind
  /\ sink.err \in {"none", "misplaced", "duplicate"}
  /\ Len(failure) \in {0, 1}

\* Sink's contract, which no sink checks: FieldName before each member's value
\* and nowhere else, every container ended by its own end.  It holds through
\* any nesting of unions, tagged unions, lists and maps (sink.go:16).
CallsInOrder == sink.err # "misplaced"

\* How many of the records 1..i are in S: the container a record opened, and the
\* tagSink a tagged union put on, are found by how many were before.
Count(i, S) == Cardinality(S \cap (1..i))

OpenRecords == {i \in DOMAIN frames : frames[i].begun /\ Kind(frames[i]) \in Containers}
TaggedRecords == {i \in DOMAIN frames : frames[i].begun /\ Kind(frames[i]) = "tagged"}

\* Whether record i awaits the value of its last part.
Inside(i) == \E j \in (i + 1)..Len(frames) : j \notin TaggedRecords

TagOver(i) ==
  IF i > 1 /\ Kind(frames[i - 1]) = "tagged"
  THEN <<Spell[input.strategy][Shape[frames[i - 1].shape].tag]>> ELSE <<>>

\* The members a record has given the sink so far.  dynamicSink knows a member
\* once it is whole, jsontext as soon as its name is written.
NamesGiven(i) ==
  LET whole == IF sink.kind = "dynamic" /\ Inside(i) THEN frames[i].at - 1 ELSE frames[i].at
  IN  TagOver(i) \o [k \in 1..whole |-> Parts(frames[i])[k].label.part]

\* The document is where the call stack is: every container open in the sink
\* is a record's, in the same order, and holds exactly the members that record
\* has written, after the tag if, and only if, it is a tagged union's variant.
\* The tag is written by a sink the variant knows nothing of, which must tell
\* the variant's own object from those nested in it, tagged ones included.
DocumentTracksStack ==
  failure = <<>> =>
    /\ Len(OpenIn(sink)) = Count(Len(frames), OpenRecords)
    /\ \A i \in OpenRecords :
         LET k == Count(i, OpenRecords)
         IN  IF Kind(frames[i]) = "list" THEN OpenIn(sink)[k].is = "List"
             ELSE OpenIn(sink)[k].is = "Object" /\ NamesIn(sink, k) = NamesGiven(i)

\* What holds between any two steps.
EncodesInStep == TypeOK /\ CallsInOrder /\ DocumentTracksStack

\* As long as names are as declared, what the constructors refuse is enough for
\* no object to have two members of one name: a tag can only meet a field that
\* a strategy spells like it (firstFieldFault, firstTaggedFault).
DuplicatesNeedStrategy == sink.err = "duplicate" => input.strategy # Literal

\* Where a partial JSON document stops: the member or the element under way in
\* each container still open.  Only the innermost can be between two members.
Cursor(open) ==
  LET n == Len(open)
      between == n > 0 /\ open[n].is = "Object" /\ ~open[n].pending
  IN  [k \in 1..(IF between THEN n - 1 ELSE n) |->
        IF open[k].is = "List" THEN ToString(open[k].count) ELSE Last(open[k].names)]

\* The places a path names, from the inside out: all but a tagged union's
\* variant, which has none of its own in the document.
Under(label, places) == IF label.in = "tagged" THEN places ELSE <<label.part>> \o places

Places(path) ==
  LET n == Len(path)
      within[i \in 0..n] == IF i = 0 THEN <<>> ELSE Under(path[n - i + 1], within[i - 1])
  IN  within[n]

\* The innermost container stops at the value of a tag.
AtTag(open) ==
  /\ Last(open).is = "Object" /\ Last(open).pending
  /\ \E s \in DOMAIN Shape :
       /\ Shape[s].kind = "tagged"
       /\ Last(open).names = <<Spell[input.strategy][Shape[s].tag]>>

\* The path of a failure leads to where the document it left behind stops: no
\* function on the way out forgot its part or named it twice.  What is no part of
\* the value has no place in a path: a list that cannot be closed is reported
\* itself, not an element it does not have, and so is a tagged union's variant
\* whose tag cannot be written.
FailureLocated ==
  (frames = <<>> /\ failure # <<>> /\ sink.kind = "json") =>
    LET path == Places(failure[1])
        cursor == Cursor(sink.open)
    IN  \/ path = cursor
        \/ /\ input.fails /\ cursor # <<>> /\ path = Front(cursor)
           /\ \/ Last(sink.open).is = "List"
              \/ AtTag(sink.open) /\ failure[1] # <<>> /\ Last(failure[1]).in = "tagged"

\* What a value is for a sink, [calls, tree]: the calls it takes and the tree they
\* build, by what the value is made of.  A value no variant matches is made of
\* nothing.
Leaf(f) ==
  LET call == IF Kind(f) = "nullable" THEN Call("Null", "") ELSE Call(ScalarOp[Kind(f)], f.value)
  IN  [calls |-> <<call>>, tree |-> ScalarTree(call)]

\* The calls for the last n parts of f, and for its end.
Ending(f, inner, n) ==
  LET name(part) ==
        IF Kind(f) = "list" THEN <<>> ELSE <<Call("FieldName", part.label.part)>>
      last[i \in 0..n] ==
        IF i = 0 THEN <<Call(IF Kind(f) = "list" THEN "EndList" ELSE "EndObject", "")>>
        ELSE LET k == Len(Parts(f)) - i + 1
             IN  name(Parts(f)[k]) \o inner[k].calls \o last[i - 1]
  IN  last[n]

Assembled(f, inner) ==
  LET begin == Call(IF Kind(f) = "list" THEN "BeginList" ELSE "BeginObject", "")
  IN  [calls |-> <<begin>> \o Ending(f, inner, Len(Parts(f))),
       tree  |-> IF Kind(f) = "list" THEN List([k \in DOMAIN inner |-> inner[k].tree])
                 ELSE Object([k \in DOMAIN inner |->
                                Member(Parts(f)[k].label.part, inner[k].tree)])]

\* A variant with its union's tag, which goes before its own members.
Labelled(f, variant) ==
  LET tag == Spell[input.strategy][Shape[f.shape].tag]
      name == VariantPart(f).label.part
  IN  [calls |-> <<Call("BeginObject", ""), Call("FieldName", tag), Call("Text", name)>>
                   \o Tail(variant.calls),
       tree  |-> Object(<<Member(tag, Text(name))>> \o variant.tree.members)]

Document[p \in Writable] ==
  LET f == Frame(p[1], p[2])
      inner == [k \in DOMAIN Parts(f) |-> Document[<<Parts(f)[k].of, Parts(f)[k].value>>]]
      matched == Kind(f) \in {"union", "tagged"} => f.value[1] # 0
  IN  CASE Kind(f) = "nullable" /\ f.value # <<>>  -> Document[<<Shape[f.shape].of, f.value[1]>>]
        [] Kind(f) \in {"refined", "suspend"}      -> Document[<<Shape[f.shape].of, f.value>>]
        [] Kind(f) = "tagged" /\ matched           -> Labelled(f, inner[1])
        [] Kind(f) \in Containers /\ matched       -> Assembled(f, inner)
        [] OTHER                                   -> Leaf(f)

\* An encode that returns nil has written its value, once and whole: what its sink
\* was told is what the value is made of, in order, whatever stood on the stack.
WholeDocument ==
  (frames = <<>> /\ failure = <<>>) =>
    LET document == Document[<<input.shape, input.value>>]
    IN  IF sink.kind = "json"
        THEN /\ sink.open = <<>> /\ HasValue(sink.out) /\ ValueLength(sink.out) = Len(sink.out)
             /\ sink.out = [k \in DOMAIN document.calls |-> JsonToken(document.calls[k])]
        ELSE sink.build.stack = <<>> /\ sink.build.root = <<document.tree>>

\* An encode returns, whatever the value and whatever fails on the way.
EveryEncodeEnds == <>(frames = <<>>)
=============================================================================
