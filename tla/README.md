# effect-golang-schema in TLA+

Specifications of the schema library under `src/`, the TLC runs that check them
on small instances, and the proofs that hold for every instance.

## 1. The system

A schema is declared once, in Go, and does three things: it **encodes** a value
to a format, it **decodes** one, and it **describes** itself, as a tree of nodes
that projections turn into protobuf, JSON Schema or TypeScript files.

```
   schema.Schema[A] ──encode──▶ Sink ────▶ jsonSink ──▶ JSON text
          │  │                    └──────▶ dynamicSink ─▶ dynamic.Value ──▶ protobuf.Encode ─▶ bytes
          │  └──────decode──◀ Source ◀── jsonSource / dynamicSource ◀── protobuf.Decode
          │
          └──structure──▶ structure.Node ──▶ protobuf / jsonschema / typescript projection
```

A codec never knows its format: it makes calls on a `Sink` or takes them from a
`Source`, and neither checks the order of the calls. A `Schema` is immutable
once declared, except for one cache: the names its fields have in each format.

| component | source | state | operations | status |
|---|---|---|---|---|
| member-name cache | `schema/object_naming.go` | a `sync.Map` from strategy name to spelling, per object and per tag, shared by goroutines | `memberNames.under`, `nameSpelling.under`, `spellFields` | modelled, proved |
| encoding | `schema/object*.go`, `collection.go`, `union*.go`, `schema.go`, `scalar.go` | the Go call stack, the sink, the error on its way out, `tagSink.depth` | one `encode` per constructor | modelled, proved |
| sinks | `schema/json_encode.go`, `dynamic_bridge.go` | jsontext's open containers and their names; `dynamicSink`'s stack and pending field | `BeginObject`, `FieldName`, `EndObject`, `BeginList`, `EndList`, scalars | modelled, text of scalars aside |
| decoding | the same files | the call stack, what was read so far | one `decode` per constructor | modelled, proved |
| sources | `schema/json_decode.go`, `json_buffer.go`, `dynamic_source.go` | the rest of the stream; `dynamicSource`'s stack of values | `ReadObject`, `ReadList`, `ReadNull`, `Skip`, `Buffer`, scalars | modelled, proved; text aside |
| protobuf codec | `schema/protobuf/{codec,encode*,decode*,wire}.go` | none | `Encode`, `Decode` | modelled over records; bytes are not |
| protobuf projection | `schema/protobuf/{project*,document}.go` | the projector: messages, declared names, ancestors, imports; the call stack | `Project`, `ProjectServices` | modelled, proved; text aside |
| JSON Schema projection | `schema/jsonschema` | the projector: components, ancestors; the call stack | `Project`, `ProjectAll` | modelled, proved; text aside |
| TypeScript projection | `schema/typescript` | the module: components, declared, declaring, recursive, declarations | `Module` | modelled, proved; text aside |
| declaring objects | `schema/object*.go` | slices of fields that schemas share; handles | `Struct`, `Object`, `Omit`, `Rename`, `Describe`, `Represent`, `Reshape` | modelled, proved |
| a schema's own names | `schema/naming_fixed.go` | a sink or a source around another | `WithNaming` | modelled around objects |
| schemas from descriptions | `schema/dynamic*.go` | none | `Dynamic`, `DynamicField`, `DynamicVariant` | objects |
| derived variants | `schema/variant` | the call stack | `Insert`, `Update`, each with entities or without | modelled |
| descriptions | `schema/structure` | none | node kinds, `Resolve`, `Spell`, `IsEntity`, `WithTargets` | as graphs; not defaults and storage targets |
| constraints and widths | `schema/constraint.go`, `bounds.go`, `integer.go` | none | `Check`, `AtLeast`, `MinLength`, `MinItems`, … | bounds of whole numbers and lengths; not widths |
| naming strategies | `schema/naming` | none | `Literal`, `SnakeCase`, `CamelCase`, `Custom` | a constant function per strategy |
| formats, durations, references | `schema/format.go`, `duration.go`, `reference.go`, `lazy.go` | none | parsers of one value | not modelled: regular expressions and tables |
| code generation | `schemagen` | none | Go source from a description | not modelled: its output is text, which the tests compile |
| examples and tests | `examples`, `test` | | | not modelled |

**What is hard here.**
*Concurrency:* one schema is used by any number of goroutines at once, and the
cache is filled without a lock.
*Order:* sinks trust their callers; a tag is written by a wrapper that counts
objects to find its place, and read from wherever in the object it is; the
protobuf file is written after what it refers to; a message may arrive in any
order.
*Failure:* an error leaves through every caller, each adding its part of the
path; a document may stop, or be damaged, anywhere.
*Stale state:* `ReadObject` pushes a value and trusts the callback to consume
it; a name stands for the first shape declared under it; a spelling is found by
its strategy's name; a chain of projections shares the fields of the schema it
began with.
*Long sequences of legal calls:* any projection may follow any other, of any
schema made so far, one object's in another's.
*Recursion:* three projections and a derivation follow references, each with
its own rule for where to stop.
*Boundaries:* which zero may be left out depends on presence, which lists,
unions, instants and nullables have each in their own way.
There is no persistence, no retry and no timeout, so no property is about them.
`PROJECT.json` lists each hazard at its line.

**What makes each part correct.**
The cache: one spelling per strategy, for ever, whoever raced.
Encoding: exactly one whole value, calls in order, the tag in the variant's own
object, a failure reported where the document stops.
Decoding: what was written is read back, in whatever order and among whatever
unknown members; what is missing, of another type, or cut off is refused, with
its path.
The protobuf codec: the same under every liberty protobuf gives its writers.
The projections: each named shape once, nothing referred to and not declared, no
endless walk; what a JSON Schema admits is what the codec reads and writes; a
TypeScript module reads nothing before it is declared.
Declaring objects: a handle names its own field for ever, a schema never
changes, and what it describes is what it writes and reads.
Derived variants: what a caller supplies, at every level, and nothing else.

## 2. The modules

| module | models | by |
|---|---|---|
| `SpellOnce` | what the cache promises | a memo filled in one step |
| `FieldSpelling` | `spellFields` | operators |
| `MemberNames` | `memberNames.under` and the `sync.Map` beneath it | an action per step of a goroutine |
| `MemberNamesProofs` | | theorems about it |
| `Shapes` | schemas, as a graph; what constructors refuse, as an assumption | constants |
| `Documents` | JSON tokens, `dynamic.Value`, `jsonSource.Buffer` | operators |
| `Sinks` | the sinks, and `jsontext.Encoder` beneath (external) | operators on a sink record |
| `Encoder` | every `encode` | a stack of call records; an action per step |
| `ShapeValues` | which values each shape may be given, of those named | operators, for the instances |
| `DocumentFacts` | | lemmas: induction over sets of numbers, sequences, the containers that tokens leave open, what a call does to either sink, a tree under construction |
| `EncoderProofs` | | theorems about `Encoder` |
| `Decoder` | every `decode`, and the sources | a stack of call records and a stack of sources |
| `Decoding` | one decode, of any document | `Decoder` with an initial state, a next step and its fairness |
| `DecodingProofs` | | theorems about it |
| `RoundTrip` | `Encoder`, then `Decoder` on what was written, edited or cut | composition by `INSTANCE` |
| `ProtoWire` | writing and reading a message | operators |
| `ProtoExchange` | `Encoder`, `ProtoWire`, rewrites, `Decoder`: `protobuf.Encode` to `protobuf.Decode` | composition by `INSTANCE` |
| `DeclareOnce` | what a projection promises of names | two actions |
| `ProtoProject` | `projector` and `Project`, `ProjectServices` | a stack of open messages and wrappers; an action per step |
| `ProtoProjectProofs` | | theorems about it |
| `SchemaProject` | the JSON Schema `projector`, `Project`, `ProjectAll` | a stack of calls with the schemas of their parts; an action per step |
| `SchemaDocuments` | the codec and a validator (external), as judges of documents | operators; a composition with `SchemaProject` |
| `SchemaProjectProofs` | | theorems about `SchemaProject` |
| `TypeScriptModule` | `Module`: `collect` and `declare` | a list of nodes to collect, then a stack of calls; an action per step |
| `TypeScriptProofs` | | theorems about it |
| `Published` | what declaring and projecting objects promises | a map from handles to members per schema |
| `ObjectBuilder` | `Struct`, `Object`, `Omit`, `Rename`, `Describe`, `Represent`, `Reshape`, `WithNaming` | an action per call; slices as an array memory |
| `ObjectBuilderProofs` | | theorems about it |
| `ObjectDocuments` | what those schemas write and read, and what `Dynamic` rebuilds of them | operators |
| `Derive` | `deriveNode` and `derive.go`'s four policies | a stack of calls; an action per step |
| `MCShapes`, `MC…` | | instances for TLC |

A Go call is a record of `frames` (the encoder, the decoder, `declare`,
`deriveNode`) or of `stack` (the projectors) and returns by popping it;
`failure` holds an error on its way out, and in the codecs every record that `Unwind` pops adds its label, which is the path the error
reports. Where the code calls a callback (`ReadObject`'s, `ReadList`'s, a
variant's) the callback's caller stays below it on the stack. Encoding and
decoding are sequential inside one goroutine and share nothing but the cache, so
the interleavings are those of `MemberNames`; the codec modules use
`FieldSpelling` directly, which `MemberNames` shows is what the cache returns.

A recursion that nothing bounds ends a Go program when its stack is full:
`SchemaProject` and `Derive` have a `StackLimit` and an action for that,
`overflown`. `collect` of `TypeScriptModule` has a list in place of a stack,
since it passes nothing up, and there an endless walk is an infinite behaviour.

In `ObjectBuilder` a schema's fields are an index into `arrays`, the memory Go's
slices point to, so that two schemas *can* share fields and a projection that
wrote to them in place would be seen by both. A field's closures are reduced to
what tells them apart: the form they read and write, whether `read` looks for a
null, whether there is a `decode`. Calls that Go's types refuse (a handle of
another type) are no actions.

A value is opaque where nothing looks inside it: a text, an integer, an instant
and a byte string are strings, and constants say which are finite, zero,
whole-numbered, or the text of which. A Boolean scalar is one scalar more and is
left out of the codecs.

`expect = "violation"` runs state what a comment or a document says and the code
does not do. They are in section 4.

Some definitions are preceded by `Slip:`. Each is a slightly wrong version of
the definition after it, of a kind a change to the code could bring: a forgotten
guard, a wrong order, a missing reset. No specification uses one. With any of
them in place of the definition after it, the property that `PROJECT.json` names
fails, which is how we know what each property guards against.

## 3. What the runs check

**`member_names`** (`MCMemberNames.cfg`). Two goroutines call `under` with the
literal strategy and two others over an object with an exactly named field that
snake_case spells like another one. `CacheInv` is the inductive invariant of
the proofs; among its parts, all that were given a spelling of a strategy were
given one allocation, and the map's spelling is that of the strategy it is filed
under. `WriterAndReaderAgree`: unless the strategy is refused, a name one
goroutine writes is read as the same field by any other. `ImplementsSpellOnce`
(refinement: the map is the memo, the strategy asked for is what is waited for).
`EveryCallReturns`, under weak fairness of each goroutine's own steps inside a
call: the Go scheduler preempts and runs every runnable goroutine, and no step
waits for another. Nothing makes a goroutine call, so `Under` is not fair. Two
goroutines are as many as it takes to lose a race; the theorems are for any
number. `MaxSpellings = 4` is enough: a goroutine can miss each of two
strategies once, so no behaviour allocates more than 2 × 2.

**`encoder`** (`MCEncoder.cfg`). The schemas of `MCShapes` have every
constructor, a tagged union that holds a list of itself, an optional field
that snake_case spells like the tag, a pair of fields it spells alike, and a
fault behind `Suspend`; values nest three unions deep, as much as it takes for a
tag sink inside a tag sink inside a tag sink, and are refused at each depth; the
writer may fail at any call, which writes nothing of it (`WriterFails`), and at the
name and at the value of a tag (`TagFails`), which `tagSink.BeginObject` writes after the
object has begun (`union_tagged.go:120`, `123`). `EncodesInStep`: sinks are never called out of
turn, and after each step the open containers are those of the
calls in progress and hold what these have written, and the tag is in the
variant's object and in no other. `DuplicatesNeedStrategy`: a member twice takes
a strategy that spells two names alike. `FailureLocated`: the error's path leads
to where the partial document stops; `Cursor` reads that place off the
containers still open, and `Places` what the path names, a tagged union's
variant having no place of its own. What is no part of the value has no place in a
path either, and two things may be refused that are none: the end of a list, whose path
leads to the list and not to an element, and a tag, whose path leads to the variant's
object and not to the member that is awaited there (`AtTag`). `WholeDocument`: no error means no container
is open and what was written is the value: `Document` says, by recursion on the
value, which calls a sink takes for it and which tree they build, and the JSON
written is those calls' tokens, from the first to the last, the tree that tree.
The encoder works with a stack and tag sinks around tag sinks, and `Document`
with neither: a tagged union's document is its variant's with a member put first
(`Labelled`). `EveryEncodeEnds`, under weak fairness of `Step`: one
goroutine runs an encode, and always can.

**`round_trip`** (`MCRoundTrip.cfg`). Each value, as JSON with and without a
strategy and as a tree, is encoded and delivered as it is, with one edit
anywhere in it, or cut after any token. One edit at a time is what an error
path can be attributed to. `RoundTrips`: as written, reordered, with unknown
members, or with an explicit null for an absent optional field, it is read as
what was written. `DamageIsRejected`: a required part missing, null, of
another type or inadmissible is an error at that path, and so are the end of the
stream and a member twice, which a tree does not notice and reads as `RoundTrips`
says.

**`decoder`** (`MCDecoding.cfg`). Decoding what no `Encoder` wrote: every document
of up to four tokens, for shapes of each kind, and longer ones with tagged unions
in tagged unions, members nobody declared and nulls, cut after each token or
followed by another value; as JSON, and the whole ones as trees; under two
strategies. Four tokens are what it takes to open an object, name a member and
give it a value that is wrong, or to nest one container in another.
`DecodesInStep`: between any two steps each source stands where the call stack
stands. There is a source per tagged union whose variant is being read; a
`dynamicSource` holds a value when a call is about to read one and is
empty otherwise; `jsonSource` has entered the containers the calls are in and no
others. `OneValueRead`: a decode that returns a value has read one value, from its
first token to its last, and nothing of what follows. `ObjectsAreWhole`: no
object is returned without a field that is required; the code marks a name as
seen before its value is read, in one place, and keeps the value in another.
`EveryDecodeEnds`: the loops of `ReadObject` and `ReadList` do not ask for the end
of the input, so what stops them there is that the next call fails and that they
pass its failure on. The fairness is that of one goroutine, which goes on while
it has a step to take: weak fairness of `Step`, said without ENABLED, which TLC
evaluates slowly where a value is buffered. The two agree when only what has
ended is without a step that changes something; any other state would be a
deadlock, for which the run looks, `Moves` asking of a step that it does.

**`proto_exchange`** (`MCProtoExchange.cfg`). A recursive message and one with
packed and unpacked lists, a map and optional zeros, with numbers that are not in
the order of declaration, goes through up to two rewrites (`MaxRewrites`), so
that each pair of liberties is tried: records swapped, unknown ones, one written over
by the next, packed lists in pieces or unpacked, zeros spelled out.
`ReadAsWritten`, `ForwardsTheSame`: it is read as what it was written for, and
would be forwarded as the message that was sent. `ImpliedZeroIsChecked`: a
field the writer did not have is zero, absent or missing as its presence says,
and a zero the schema does not admit is refused under its name.
`OtherLayoutRefused`: another layout is never read as a value.

**`proto_project`** (`MCProtoProject.cfg`). Descriptions that share, contain and
refer to each other and themselves, and each one that is refused, alone and as
what one of two or three procedures asks for. `WalkInv`, `NothingDangles` and
`ImplementsDeclareOnce` say that names are opened, closed and declared once and
always resolve. `FileSaysItsShapes` has three parts. `MessagesSayTheirShapes`
compares each message with its shape by another definition: what the wrappers
around a member make of it, whatever was projected before the next member.
`WidthsAreKept`: an integer's type is the narrowest of its sign that holds it.
`ImportsAreUsed`: the timestamp import is there exactly when a message uses it.
`EndsWithItsShapes`, under weak fairness of `Step`: the projection, one
sequential call, ends with an error or with the messages of the shapes that can be
reached and no other, which `MessagesAreTheShapesReached` finds by a search of its
own.

**`objects`** (`MCObjects.cfg`). A program declares a studio and a film, which
holds one, as a `Struct` and as an `Object`, and three objects that are refused;
then any two projections follow (`MaxSchemas = 8`: six declarations and two
more), of any schema there is, the result of the first one included, with a new
name that meets another field's, or none, or that a strategy would respell.
Two are enough for one projection to disturb what another has made, in either
order, and to nest one in the other. `HandlesNameOneField`: a handle names
at most one field, whatever was renamed. `DescriptionsInStep`: no projection
changes what another schema holds. `WrittenAsDescribed`: what a schema writes,
under each strategy, is what its description, as `structure.Spell` gives it to a
projection, says. `ReadsBack`: it reads that as the part of the value it
published, an absent member as null too, and refuses exactly when a member was
left out and nothing decides what it holds. `RebuiltAgrees`: the schema `Dynamic`
makes of the description passes on what the typed one wrote, unchanged.
`ImplementsPublished`: the slices and indices implement maps from handles to
members. The three about documents leave out names spelled by two strategies;
section 4 says why.

**`json_schema`** (`MCSchemaProject.cfg`). Descriptions with every kind of node
and constraint, that share, contain and refer to each other, projected alone and
together. `WrittenIsAdmitted`: a validator that has the schemas admits whatever
the codec writes (recursion unrolled `Depth = 1` times, which is a value inside
a value of its own shape). `AdmittedIsRead`: of these documents with one thing
changed anywhere in them, and of two of them merged, none is admitted that the
codec cannot read. `Measures = 0..3` has values below, at and above every bound
used. `NothingDangles`: every pointer in a finished document leads to a
component, or is the name of a reference that has one; `Layers` is how deep a
walk that fits its stack can nest schemas, so none is passed over. `ProjectionEnds`:
but for a shape that holds itself without a name, where the stack overflows
(`StackLimit = 24` is more than any other walk here needs).

**`typescript`** (`MCTypeScript.cfg`). Components that use each other in cycles
through unions of both kinds, in modules of one, two and three roots, with names
that become one identifier, and with a variant whose name another shape has,
with other shapes behind the same fields. `LoadsInOrder`: what a declaration reads as the module
loads is above it. `SuspendedAreAnnotated`: what any suspends, before it or
after, is annotated. `Resolves`: a declaration refers to what is declared, or to
the name of a reference within it that leads to no shape of that name; this is asked of
declarations whose tagged variants are the shapes their names stand for, and section 4
has what happens to the others. `ModuleEnds`, with the same exception as above.

**`derive`** (`MCDerive.cfg`). Seventeen descriptions, with entities held by lists,
maps, nullables, references and by each other, in each of the four roles.
`DerivedAsPromised`: the result, at every level, is what `derive.go`'s comments
promise, which the module defines by recursion on the description.
`ErrNothingLeft` comes exactly when some object in it would hold nothing.
`DerivationEnds`, except for an entity that holds itself, in the roles
that reach into entities (`StackLimit = 5`: no other nests deeper).

**`proto_zero_choice`, `derive_wrappers`**: section 4.

The liveness of the last four, and of `encoder` and `proto_project`, is under weak
fairness of the next step, since each is one sequential call in one
goroutine, which the Go scheduler goes on running.
Deadlock is checked where what has ended stutters in an action of its own; the
last four runs' systems stop when a call has returned or the bound on schemas is
reached, and there it is not checked: that a call returns is what their
liveness properties say.

## 4. Where the code and its documentation differ

Each run checks one property that a comment or a document states and finds a
behaviour that breaks it. `PROJECT.json` quotes the lines.

| run | what happens |
|---|---|
| `proto_zero_choice` | a chosen scalar variant that is zero is not written |
| `derive_wrappers` | a list of nullable entities is derived as a list of entities: `rewrapNode` puts back the outermost wrapper alone |

Others met while modelling, without a run of their own; the models behave as the
code does, and the passing runs' inputs leave these cases out, as they leave out
those of the table (`MCShapes`'s `media`; in `MCProtoExchange` and
`MCProtoProject`, what no input of a run uses). Where a definition is named, it
states what is promised, and putting it in the cfg of its run shows the
behaviour.

*The codecs and the protobuf projection.*
- `VariantReadsWhatItWrote` (`RoundTrip`): a byte string in a tagged union's variant
  is written to JSON and not read back (`dynamic_source.go:105`), since `Buffer` keeps
  it as text (`union_tagged.go:166` says the variant reads the object it would have
  written). `MCRoundTrip` has the inputs, `MCBytesInVariant`.
- Of several variants on the wire the one declared last is read, not the one
  written last (`protobuf/decode_scalar.go:62`; line 19 says the last wins).
- A required nullable that is null is not written, and is then missing
  (`protobuf/decode.go:142`; `protobuf/encode.go:101` says it is the field's
  absence).
- An empty string in a list is not written (`protobuf/encode.go:156`; line 138
  says strings are written one field each).
- A recursive type made with `Suspend` is refused as unnamed
  (`protobuf/project.go:191`; `schema.go:216` says a reference is what ends the
  projection).
- An optional field's decode takes a null for absence before a nullable inside
  it can read it (`object_fields.go:219`; `collection.go:105` says the two differ).
- A nullable list that is null is read as empty (`protobuf/decode.go:135`; line
  140 says an absent nullable stays absent).
- The zero instant is not written, and is then missing
  (`protobuf/encode_scalar.go:24`; line 20 and `docs/reference/protobuf.md:90`
  give what has presence its zero).
- Messages come in the order they were finished, the root last
  (`protobuf/project.go:151`; lines 6 and `document.go:20` say as first reached).
- Two shapes of one name become one message with the first one's fields
  (`protobuf/project.go:136`).
- Two fields of one number are projected into one message
  (`protobuf/project_field.go:14`).
- A nullable or optional map becomes an optional map field, and a list of maps a
  repeated one, neither of which is proto3 (`protobuf/project_field.go:31`).

*Objects* (`ObjectDocuments`).
- `NeverDisagrees`: a schema spelled by `WithNaming` inside another that a format
  spells, or spelled twice, describes its names as respelled by both strategies
  in turn, and writes those of one.
- `SamePath`: the rebuilt schema does not know which names were given exactly,
  and a format that spells respells them (`dynamic_build.go:39`; `dynamic.go` says
  the typed schema and the rebuilt one cannot disagree).

*JSON Schema.*
- "Projection is total" (`jsonschema/project.go:14`): `ProjectionIsTotal` fails
  for a shape that holds itself without a name, which overflows the stack.
- `RefusedIsNotAdmitted`: an untagged union with two members set, which the
  codec refuses, is admitted (`docs/reference/schema.md:660` says a schema refuses every
  document the codec refuses).
- A null in a nullable of a nullable matches both alternatives of its `oneOf`, and
  is refused. Of two constraints of one keyword the last is written, though both
  are enforced (`project_scalar.go:51`). A derived variant keeps its entity's
  name, so `ProjectAll` of both describes the first twice. An unresolved
  reference is described as admitting anything.

*TypeScript* (`MCTypeScript`).
- `NoShapeIsLost`: a union whose name is taken is passed over, and an object is
  if its fields have the same names, whatever their types
  (`components.go:29`, `57`; `typescript.go:34` says two different shapes are refused).
- A variant told apart by a field is written out from its own fields
  (`value.go:83`), but if another shape with the same field names has its name,
  or its reference's, `collect` never looked into it (`components.go:14`, `46`):
  the module then refers to names it does not declare; `MCTypeScript`'s `ring` does it.
  `Resolves` sets aside (`SpeaksPlainly`) a little more: every module with a variant
  whose members are not those of the component of its name, or that is a reference to
  no shape of the reference's name, whether or not what is spelled in its place
  goes undeclared.
- An unnamed tagged union that holds, by reference, a variant that holds the
  union again is written out without end, and `objectBehind` follows references
  that lead to each other without end. `ExpressionAssumption` says that there are none.

*Derived variants.*
- An entity behind a reference to a list is not found by `entityInside`, which
  follows references to objects alone, and is kept whole
  (`variant/walk.go:136`).

## 5. What is proved

For every set of goroutines, strategies, fields and allocations
(`MemberNamesProofs`, from `StrategyAssumption`, `FieldAssumption` and
`BoundAssumption`):
`CacheInvariant`, `OneSpelling`, `Filed`, `StoredOnce` (the map never replaces a
spelling, an action property), `WriterReader`, and `Implements`, that the
lock-free cache implements `SpellOnce`. The invariant is
`CacheInv`. That all goroutines have one allocation does not follow from the
step before: a goroutine may be given it long after another. `GivenIsFiled`
says why they agree — what was given is what the map holds now, under that
strategy's name — and needs `CallsConsistent`, that an offer is of the strategy
asked for, and `LiteralNeverFiled`. That the map only grows is then the whole
argument. `StrategyAssumption` has what `naming.Custom` asks of its callers, that
a name stands for one strategy; without it `FiledUnderItsName` says nothing of
content.

For every description, cyclic ones and those that are refused included, and
every sequence of procedures (`ProtoProjectProofs`, from `NodeAssumption` and
`JobAssumption`): `Walk`, `Closed`, and
`Implements`, that the walk implements `DeclareOnce`. The invariant is
`IInv == TypeOK /\ Nesting /\ Scoped /\ NamesResolve`. `NamesResolve` speaks of
names declared or open, and of the calls in progress as well as the file; that
nothing dangles follows when the stack is empty, since then `ScopesClose` leaves
no name open. `Nesting` is what makes `ScopesClose` inductive: a message is
closed by the step that pops its frame because only the last frame is between
two members.

With `WrapperAssumption`, that wrappers come to an end, since Go makes what is inside
a wrapper before it: `FileSays`, that the file says what its shapes say. A message is
finished long after its first field, and others are projected in between, so
the invariant, `SayInv`, adds to `IInv` what has been said of shapes not yet finished.
`CallsSay`: the fields a message has so far say what its members do; each call in
progress, and the one to make, is about what the one below it waits for, or about
what a reference there leads to; and a shape that was returned tells what was waited for.
`ImportsHeld`: the import is there exactly when a message has an instant, finished or in
progress, or the shape returned is one. What is inside a node's wrappers,
`Unwrapped`, is a recursive function, and what the proofs use of it is its
equation, which holds by induction on `Depth` (`UnwrappedIs`).

For every set of handles, every program and every bound on schemas
(`ObjectBuilderProofs`, from `HandleAssumption`, `ProgramAssumption` and
`NameAssumption`): `OneField`, `InStep`, `BothWays` (a member that may be absent
may be null, and no other, whatever it was represented by), and `Implements`,
that the builder implements `Published`. The invariant is
`BuilderInv == TypeOK /\ HandlesNameOneField /\ DescriptionsInStep /\ OptionalBothWays`.
It is inductive because an object is only `sound` if no two names are the same
(`NamesDiffer`), and keys differ with them (`KeysDiffer`): copies of a handle have
one name when they are declared, and after that no projection adds a field or
changes a key, so that a rename cannot make two fields answer to one handle.
`DescriptionsInStep` holds because every projection allocates: the slice a schema
points to is never assigned again. The refinement needs `HandlesNameOneField`,
since the map it shows is from keys.

For every description and every list of roots (`TypeScriptProofs`, from
`NodeAssumption` and `ModuleAssumption`): `InOrder`, `AllAnnotated`,
`OneDeclaration` and `DeclaresOnce`, that the module implements `DeclareOnce`. What
makes it work is that `declared` grows only after an expression is written, so
that a component is in its own `recursive` if it refers to itself, and that a
reference marks what it suspends before anything asks whether it is marked.
`AllAnnotated` speaks of a declaration suspended before it is written as well as
after: `Annotated` says that what is marked and declared is annotated, and what
is suspended is marked.

With `ExpressionAssumption`, that what `objectBehind` and `expression` follow comes to an
end: `AllResolve`, that a finished module declares what it refers to. Two walks have to
agree: `collect` passes over a node for its name or that of its reference, and
`expression` writes a tagged variant's fields in place, whatever its name is. `Gathers` says
that there is a set of nodes that `collect` was called with which `Covers` the
components: each has its name among them, or what is directly beneath it was seen too
or is in `todo`, or it is a reference whose name is known or whose node was seen or is
in `todo`; and what every component holds was seen or is in `todo`. No component becomes another
(`Keeps`), so the set only grows, and when `todo` is empty everything written for a
component was seen, by induction on the depth of what is written. A tagged variant
is where that could stop short, since nobody looks inside a reference or an object whose
name is known: what is spelled in its place was seen if it has the members of the component
of its name, which is what `Displaced` denies. `Speaks`: a declaration
refers to what its component does. `Recursion` stands in for the theorem on
recursive functions, which takes an operator: an equation that says of each
element what it does by what it says of those of less rank has a solution.

For every description, and every list of nodes asked for (`SchemaProjectProofs`,
from `NodeAssumption` and `JobAssumption`): `Scopes`, `Implements`
(`DeclareOnce` again), `Kept`, an action property: a component, once
described, is never described again, so a pointer given out keeps its meaning;
and `PointersLead`, that no pointer of a finished document dangles. A schema
holds schemas, so the invariant, `Pointers`, would be said by recursion; it is
said by sets in its place. A schema is `Sound` for a set of names if it is in
*some* set of schemas that say only these names and hold no schema outside it.
Whatever a step makes around sound schemas is sound (`SoundAround`, then a lemma
for each thing the projector makes), and a schema goes on being sound as names
are added. The names are those described, being described, or named by a
reference (`Meant`): a pointer may be given out long before its component is
there. When the walk is over, `ScopesClose` leaves none that is only being
described. `NestedSound` holds at every depth, so `Layers` bounds what TLC looks
at and nothing that is proved.

For every set of schemas that constructors accept, every value, set of keys and
strategy (`EncoderProofs`, from `ShapeAssumption`, `InputAssumption`,
`ValueAssumption`, `NameAssumption` and `HeightAssumption`), and with a writer that may fail at any
call, a tag's among them: `EncodesInStepAlways`, `DuplicatesNeedStrategyAlways`,
`WholeDocumentAlways` and `FailureLocatedAlways`, which are all the safety
properties that the `encoder` run checks. The assumptions say what Go's types say of a
value (a field that is not optional is there, a list holds values of its element
type, `narrow` finds a variant or none), that a map has a key once, that the
literal strategy changes no name, what constructors refuse, and that no value
holds itself (`HeightAssumption`), as a pointer behind `Suspend` might: such an encode
would not return, and there would be no document to speak of.

The inductive invariant, `IInv`, is that *the document stands where the call
stack stands*. `EncodesInStep` alone is not inductive: it says what is open, and
not why the next call will find it so. While nothing has failed (`Goes`):

- every record but the top one is in the middle of a part (`Active`), and over a
  tagged union's record there is an object's, or a refinement of one
  (`Variants`);
- there is one `tagSink` per tagged union under way (`TagsFit`), and its depth is
  the number of objects open above that union's record (`Depths`): this is why
  the wrapper, which only counts calls, puts the tag in the variant's own object
  and in no other, with tagged unions nested to any depth;
- each container open in the sink is a container record's, in order, of its
  kind, with the names this record has given it, as many elements as it has written,
  and awaiting a value just when a record that is no tagged union's is
  above (`DocFits`); with no container open, the sink is at its root (`RootFits`).

Once something has failed nothing more is written and every record left was
writing a part (`Failed`). What a call does to a sink is stated once for both
(`DocumentFacts`), and the proof of a step never looks into either. That a prefix of
tokens is the beginning of one value, with so many containers open, is part of
the type of a `jsonSink`; that an encode which returns nil wrote *one* value is
then a matter of there being no record left.

That it wrote *its* value takes an invariant of another kind, `WrittenInv`, which
speaks of what is still to be written. `Finish` is what the sink will have been
told once a record has written what it has left: all of `Document`, if it has not
begun, with the tag if a tagged union called it; nothing, for a tagged union that
has; the parts after the current one and the end, for a container. `Reaches` finishes
the records from the top one down, and `WrittenInv` says that this comes to `Final`,
the whole document and no more. A step writes what the top record had left or
divides it between that record and one above it, so `Final` never moves: what a
container has left is one part more and what it has left then (`Ending`), and to write
a part into a container under construction and close it is to close it with that part
in front of the rest (`Topped`, `More`, `Closed`). When no record is left, `Reaches` says that what the sink
was told is `Final`. `Document` is a recursive function, and that there is one with
those values is proved from `HeightAssumption` by induction over heights.

`FailureLocated` needs one invariant more, `LocatedInv`: the labels of the records that
have still to return, then the path so far, lead to where the document
stops. Each `Unwind` moves one label from the first to the second and changes
neither the whole nor the document, so at the end the path alone leads there. It
is established at the step that fails, from `DocFits`: the name or count of each
open container is the label of its record's part. For a tag that is refused
(`TagFailsStep`) the document may be a member further than the labels, and `Located` says
so: its last name is then that of a tag, and the innermost of the labels a tagged union's
(`TagLocated`), which is where the exception of `FailureLocated` comes from.

Inductions over positions are by `SetInduction` of `DocumentFacts`, a set of numbers
without a least missing one, from the library's theorem that `<` is well-founded:
its induction theorems take a predicate as a parameter, which cannot be
instantiated here. For the same reason `InOrder`, `Layered`, `Places`,
`FirstValue` and `Nested` are recursive functions over positions, not folds.

For every set of schemas that constructors accept, every set of requests, and
every document, whether it is JSON of the schema's shape or of any other, or ends
anywhere, or is a tree (`DecodingProofs`, from `ShapeAssumption` and
`RequestAssumption`, which says only that a request asks for a schema there is,
and that JSON is a sequence of tokens): `DecodesInStepAlways`,
`OneValueReadAlways` and `ObjectsWholeAlways`, an action property. They are all
the safety properties that the `decoder` run checks.

`DecodesInStep` is not inductive: that a `dynamicSource` is empty now does not
say that the next member will be pushed to it and taken. The invariant, `IInv`,
relates the document to the call stack instead. While nothing has failed:

- a source is there for the request and one for each tagged union on the stack
  that has begun (`Sourced`);
- a JSON document has been read up to some token (`Place`), and what these tokens
  leave open are the containers that the records outside any tagged union have
  begun, in order and of their kinds (`Fits`);
- the last source has the value that a record is about to read (`Poised`), and
  every other source has nothing to give: a `dynamicSource` is empty, a JSON object
  awaits a name or its end (`Rests`). A call that returns leaves its source at
  rest, whatever it read or skipped;
- each record but the top one has called the one above it, for a part it has
  (`Settled`), and an object's has read a value of each required field it has
  `seen` (`ReadAll`), but the one it is calling for now (`ReadBut`).

After a failure nothing is read and each record returns, with the source it was
given. The proof has three layers: what a token, a skipped value and a buffered
one do to a document read so far; what that means for either source; what a
call makes of a source without knowing which it is. An action's lemma looks at
the third alone, as the code does. That a value that is skipped is exactly one
value is by induction over its tokens (`SkippedOn`, `PlaceSkip`).

`OneValueRead` follows when no record is left: by `Fits` nothing is open, so the
tokens read are a value, and the first prefix that is one (`OneLength`).
`ObjectsAreWhole` follows from `ReadAll`: an object returns only when every
required name has been seen.

**Only model-checked**, and why:

- *Liveness*, everywhere: `EveryCallReturns`, `EveryEncodeEnds`, `EveryDecodeEnds`,
  `EndsWithItsShapes`, `ProjectionEnds`, `ModuleEnds`, `DerivationEnds`. It rests on fairness and ENABLED, which are out of
  the prover's reach.
- *Inductions over trees*: that what is written is read back, `RoundTrips` and the other properties of `RoundTrip` that
  relate what is read to what was written (what is written for a value is proved, above), the properties of `ProtoExchange`,
  `ObjectDocuments` and `Derive`, and `WrittenIsAdmitted` and `AdmittedIsRead`
  of `SchemaDocuments`. Each compares two recursive definitions over a document or a
  description; the modules that hold the reference definitions use recursive
  operators, which cost the prover its SMT backend.
- *Reachability in a graph*: that a protobuf file has a message for every shape that
  can be reached, and for no other, is `MessagesAreTheShapesReached`, a part of
  `EndsWithItsShapes`, which searches a graph with cycles by recursion. What the theorems say
  of the same walk is that every message says what its shape does and that every name
  it refers to has a message.

## 6. What is not modelled

- The text of numbers, instants and base64; `float64` and its exactness; the
  widths of integers. A scalar round-trips or it does not, by a constant.
- Bytes: varints, lengths, truncation. A message is a sequence of records.
- A member twice inside a value that is skipped or buffered from JSON.
- Names as words; comments, notes, defaults and everything a projection renders
  as text, the JSON Schema of formats and patterns included.
- `WithNaming` around a tagged union, which it has to buffer for; `Dynamic` of
  unions and constrained scalars.
- A `Custom` strategy that gives one name to two strategies.
- What a constructor does beyond reading its fields, and the conversions given to
  `Represent`, which are the caller's.
- `format.go`, `duration.go`, `reference.go`, `lazy.go`: parsers of one value, and
  regular expressions. `schemagen`: it prints Go, and its tests compile it.
  `structure.WithTargets` and defaults: read by storage outside this repository.

## 7. Plan

Done, in this order, which is that of how much of the library rests on them:
the cache, encoding, decoding and the round trip, the protobuf codec, the
protobuf projection; then declaring and projecting objects with what they write
and read, the JSON Schema and TypeScript projections, the derived variants; and
the proofs of the cache, the encoder, the decoder, the three projections and the
builder.

What would come next, modelling: `WithNaming` between a tagged union and what it
buffers from, as a composition with `Encoder` and `Decoder`; `Widths`: `int64`,
`float64` and bounds at their edges, with `% 2^w`, and `Dynamic`'s constraints
with them; the byte level of `wire.go`, with truncation.

Proofs: that `RoundTrip`'s second half is a behaviour of `Decoding`, so that its
theorems hold there; that the member a decode reads is the one its schema names,
under any strategy; that `Derive` keeps no computed field; that
`WriterAndReaderAgree` and `EncodesInStep` compose, through `FieldSpelling`.
