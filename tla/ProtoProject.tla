---------------------------- MODULE ProtoProject -----------------------------
(***************************************************************************)
(* Projecting descriptions into one proto3 file (schema/protobuf:          *)
(* project.go, project_field.go, project_scalar.go).                       *)
(*                                                                         *)
(* A description is a graph: Node[n] is a structure.Node, and only a       *)
(* reference closes a cycle.  The projector walks it depth first.  stack   *)
(* holds the calls in progress of message, oneOf, sequence, mapping and    *)
(* shape's Nullable case, the last one called last; visit is the call      *)
(* about to be made and returned what the last one gave.                   *)
(*                                                                         *)
(*   kind      scalar, object, union, reference, list, map or nullable     *)
(*   name      of an object, union or reference; "" is none                *)
(*   tagged    whether a union has a Discriminator                         *)
(*   members   fields or variants: [name, number, optional, of]            *)
(*   of        the node inside a wrapper or behind a reference             *)
(*   textual   whether a map's key is a text                               *)
(*   scalar    [kind, precision] of a scalar                               *)
(***************************************************************************)
EXTENDS Integers, Sequences

CONSTANTS
  Node,       \* the description
  NoNode,     \* what a reference without a Resolve resolves to
  Jobs        \* the sequences of procedures that may be asked for

Named == {"object", "union"}
Wrappers == {"list", "map", "nullable"}
Kinds == Named \cup Wrappers \cup {"scalar", "reference"}
Precisions == {"none", "int", "int8", "int16", "int32", "int64",
               "uint", "uint8", "uint16", "uint32", "uint64", "float32", "float64"}
ScalarKinds == {"Text", "Integer", "Number", "Boolean", "Bytes", "Timestamp"}

Nodes == DOMAIN Node
Names == {Node[n].name : n \in Nodes}
Members == UNION {{Node[n].members[i] : i \in DOMAIN Node[n].members} : n \in Nodes}

ASSUME NodeAssumption ==
  /\ NoNode \notin Nodes
  /\ \A n \in Nodes :
       /\ Node[n].kind \in Kinds
       /\ Node[n].scalar \in [kind : ScalarKinds, precision : Precisions]
       /\ Node[n].members \in Seq([name : STRING, number : Int, optional : BOOLEAN, of : Nodes])
       /\ Node[n].kind \in Wrappers => Node[n].of \in Nodes
       /\ Node[n].kind = "reference" => Node[n].of \in Nodes \cup {NoNode}

\* A procedure asks for a request and a response; Project, for its root alone,
\* of no service.
NoService == "no service"

ASSUME JobAssumption ==
  Jobs \subseteq Seq([service : STRING, asks : Seq(Nodes)])

\* The wrappers around a node, which come to an end: what is inside a wrapper is
\* there before it, and only a reference is resolved later.
Depth[n \in Nodes] == IF Node[n].kind \in Wrappers THEN Depth[Node[n].of] + 1 ELSE 0

ASSUME WrapperAssumption ==
  \A n \in Nodes :
    /\ Depth[n] \in Nat
    /\ Node[n].kind \in Wrappers => Depth[Node[n].of] < Depth[n]

VARIABLES
  job,        \* the procedures asked for
  at,         \* the one being projected
  types,      \* the messages its request and response became, so far
  services,   \* document.Services: [name, methods]
  root,       \* document.Root, <<>> until it is known
  messages,   \* projection.messages: [name, node, fields]
  declared,   \* projection.declared
  ancestors,  \* projection.ancestors
  imports,    \* projection.imports
  stack,      \* the calls in progress: [node, fields]
  visit,      \* the call to make: [node, message], message for typeNameOf
  returned,   \* the shape a call returned
  failure     \* the error, with which the whole projection returns

file == <<messages, declared, imports>>
calls == <<stack, visit, returned>>
asked == <<job, at, types, services, root>>
vars == <<asked, file, ancestors, calls, failure>>

----------------------------------------------------------------------------
\* integerType
IntegerType(precision) ==
  CASE precision \in {"int8", "int16", "int32"}    -> "int32"
    [] precision \in {"uint8", "uint16", "uint32"} -> "uint32"
    [] precision \in {"uint64", "uint"}            -> "uint64"
    [] OTHER                                       -> "int64"

ScalarType(scalar) ==
  CASE scalar.kind = "Text"      -> "string"
    [] scalar.kind = "Boolean"   -> "bool"
    [] scalar.kind = "Bytes"     -> "bytes"
    [] scalar.kind = "Timestamp" -> "google.protobuf.Timestamp"
    [] scalar.kind = "Number"    -> IF scalar.precision = "float32" THEN "float" ELSE "double"
    [] scalar.kind = "Integer"   -> IntegerType(scalar.precision)

\* A type is a scalar keyword or a message's name, inside maps map<string, ...>.
Type(of, name, maps) == [of |-> of, name |-> name, maps |-> maps]
Shape(type) == [type |-> type, repeated |-> FALSE, nullable |-> FALSE]
Message(name) == Shape(Type("message", name, 0))
ScalarShape(scalar) == Shape(Type("scalar", ScalarType(scalar), 0))

\* The field a member is, once its shape is known.  A oneof member has no
\* presence of its own.
Field(kind, member, shape) ==
  [name |-> member.name, number |-> member.number, type |-> shape.type,
   repeated |-> shape.repeated,
   optional |-> kind = "object" /\ (member.optional \/ shape.nullable) /\ ~shape.repeated]

\* Slip: a nullable list is taken for a nullable element.
WrappedOnce(kind, shape) ==
  CASE kind = "list"     -> [Shape(shape.type) EXCEPT !.repeated = TRUE]
    [] kind = "map"      -> Shape([shape.type EXCEPT !.maps = @ + 1])
    [] kind = "nullable" -> [Shape(shape.type) EXCEPT !.nullable = TRUE]

\* What a wrapper makes of the shape inside it.
Wrapped(kind, shape) ==
  CASE kind = "list"     -> [Shape(shape.type) EXCEPT !.repeated = TRUE]
    [] kind = "map"      -> Shape([shape.type EXCEPT !.maps = @ + 1])
    [] kind = "nullable" -> [shape EXCEPT !.nullable = TRUE]

----------------------------------------------------------------------------
Running == failure = <<>>
Known(name) == name \in declared \cup ancestors
Top == stack[Len(stack)]
TopNode == Node[Top.node]
Popped == SubSeq(stack, 1, Len(stack) - 1)

Init ==
  /\ job \in Jobs
  /\ at = 1 /\ types = <<>> /\ services = <<>> /\ root = <<>>
  /\ messages = <<>> /\ declared = {} /\ ancestors = {} /\ imports = {}
  /\ stack = <<>> /\ visit = <<>> /\ returned = <<>>
  /\ failure = <<>>

Visit(node, message) == visit' = <<[node |-> node, message |-> message]>>
Return(shape) == visit' = <<>> /\ returned' = <<shape>>

Reasons == {"not a message", "unnamed", "discriminated", "not described", "map key", "unnumbered",
            "repeated variant", "nested list"}

\* The whole projection returns an error.
Refuse(reason) ==
  /\ failure' = <<reason>>
  /\ UNCHANGED <<asked, file, ancestors, calls>>

----------------------------------------------------------------------------
(* Project and ProjectServices *)

Between == Running /\ stack = <<>> /\ visit = <<>> /\ at <= Len(job)

Ask ==
  /\ Between /\ returned = <<>>
  /\ Len(types) < Len(job[at].asks)
  /\ Visit(job[at].asks[Len(types) + 1], TRUE)
  /\ UNCHANGED <<asked, file, ancestors, stack, returned, failure>>

Answer ==
  /\ Between /\ returned # <<>>
  /\ types' = Append(types, returned[1].type.name)
  /\ returned' = <<>>
  /\ UNCHANGED <<job, at, services, root, file, ancestors, stack, visit, failure>>

\* The method joins the service of its name, which is added where it is first
\* named.
AddMethod ==
  /\ Between /\ returned = <<>>
  /\ Len(types) = Len(job[at].asks)
  /\ job[at].service # NoService
  /\ LET service == job[at].service
         known == {i \in DOMAIN services : services[i].name = service}
     IN  services' =
           IF known = {} THEN Append(services, [name |-> service, methods |-> <<types>>])
           ELSE [i \in DOMAIN services |->
                   IF i \in known THEN [services[i] EXCEPT !.methods = Append(@, types)]
                   ELSE services[i]]
  /\ at' = at + 1 /\ types' = <<>>
  /\ UNCHANGED <<job, root, file, ancestors, calls, failure>>

\* Slip: the root is called what the description asked for is called.
SetRootAsAsked ==
  /\ Between /\ returned = <<>>
  /\ Len(types) = Len(job[at].asks)
  /\ job[at].service = NoService
  /\ root' = [i \in DOMAIN types |-> Node[job[at].asks[i]].name]
  /\ at' = at + 1 /\ types' = <<>>
  /\ UNCHANGED <<job, services, file, ancestors, calls, failure>>

SetRoot ==
  /\ Between /\ returned = <<>>
  /\ Len(types) = Len(job[at].asks)
  /\ job[at].service = NoService
  /\ root' = types
  /\ at' = at + 1 /\ types' = <<>>
  /\ UNCHANGED <<job, services, file, ancestors, calls, failure>>

----------------------------------------------------------------------------
(* Reaching a node: typeNameOf, shape *)

Visiting(kinds) == Running /\ visit # <<>> /\ Node[visit[1].node].kind \in kinds
Visited == Node[visit[1].node]

VisitScalar ==
  /\ Visiting({"scalar"}) /\ ~visit[1].message
  /\ imports' = IF Visited.scalar.kind = "Timestamp"
                THEN imports \cup {"google/protobuf/timestamp.proto"} ELSE imports
  /\ Return(ScalarShape(Visited.scalar))
  /\ UNCHANGED <<asked, messages, declared, ancestors, stack, failure>>

\* typeNameOf takes messages only, of a root and behind a reference.
RefuseUnlessMessage ==
  /\ Visiting(Kinds \ (Named \cup {"reference"})) /\ visit[1].message
  /\ Refuse("not a message")

RefuseUnnamed ==
  /\ Visiting(Named \cup {"reference"}) /\ Visited.name = ""
  /\ Refuse("unnamed")

Discriminated == Visited.kind = "union" /\ Visited.tagged

RefuseDiscriminated ==
  /\ Visiting({"union"}) /\ Visited.name # "" /\ Discriminated
  /\ Refuse("discriminated")

VisitKnown ==
  /\ Visiting(Named \cup {"reference"}) /\ Visited.name # "" /\ ~Discriminated
  /\ Known(Visited.name)
  /\ Return(Message(Visited.name))
  /\ UNCHANGED <<asked, file, ancestors, stack, failure>>

\* message and oneOf: the name is an ancestor until the message is declared.
OpenMessage ==
  /\ Visiting(Named) /\ Visited.name # "" /\ ~Discriminated
  /\ ~Known(Visited.name)
  /\ ancestors' = ancestors \cup {Visited.name}
  /\ stack' = Append(stack, [node |-> visit[1].node, fields |-> <<>>])
  /\ visit' = <<>>
  /\ UNCHANGED <<asked, file, returned, failure>>

\* Slip: a reference is followed to itself.
FollowItself ==
  /\ Visiting({"reference"}) /\ Visited.name # "" /\ ~Known(Visited.name)
  /\ Visited.of # NoNode
  /\ Visit(visit[1].node, TRUE)
  /\ UNCHANGED <<asked, file, ancestors, stack, returned, failure>>

FollowReference ==
  /\ Visiting({"reference"}) /\ Visited.name # "" /\ ~Known(Visited.name)
  /\ Visited.of # NoNode
  /\ Visit(Visited.of, TRUE)
  /\ UNCHANGED <<asked, file, ancestors, stack, returned, failure>>

RefuseUndescribed ==
  /\ Visiting({"reference"}) /\ Visited.name # "" /\ ~Known(Visited.name)
  /\ Visited.of = NoNode
  /\ Refuse("not described")

OpenWrapper ==
  /\ Visiting(Wrappers) /\ ~visit[1].message
  /\ Visited.kind = "map" => Visited.textual
  /\ stack' = Append(stack, [node |-> visit[1].node, fields |-> <<>>])
  /\ Visit(Visited.of, FALSE)
  /\ UNCHANGED <<asked, file, ancestors, returned, failure>>

RefuseKey ==
  /\ Visiting({"map"}) /\ ~visit[1].message /\ ~Visited.textual
  /\ Refuse("map key")

----------------------------------------------------------------------------
(* Inside a message: field, variant *)

Inside(kinds) == Running /\ stack # <<>> /\ visit = <<>> /\ TopNode.kind \in kinds
NextMember == TopNode.members[Len(Top.fields) + 1]
Remaining == Len(Top.fields) < Len(TopNode.members)

EnterMember ==
  /\ Inside(Named) /\ returned = <<>> /\ Remaining
  /\ NextMember.number >= 1
  /\ Visit(NextMember.of, FALSE)
  /\ UNCHANGED <<asked, file, ancestors, stack, returned, failure>>

RefuseUnnumbered ==
  /\ Inside(Named) /\ returned = <<>> /\ Remaining
  /\ NextMember.number < 1
  /\ Refuse("unnumbered")

LeaveMember ==
  /\ Inside(Named) /\ returned # <<>>
  /\ TopNode.kind = "union" => ~returned[1].repeated
  /\ stack' = [stack EXCEPT ![Len(stack)].fields =
                 Append(@, Field(TopNode.kind, NextMember, returned[1]))]
  /\ returned' = <<>>
  /\ UNCHANGED <<asked, file, ancestors, visit, failure>>

RefuseRepeatedVariant ==
  /\ Inside({"union"}) /\ returned # <<>> /\ returned[1].repeated
  /\ Refuse("repeated variant")

\* Slip: the name of a described message stays an ancestor.
DeclareAndStay ==
  /\ Inside(Named) /\ returned = <<>> /\ ~Remaining
  /\ declared' = declared \cup {TopNode.name}
  /\ messages' = Append(messages, [name |-> TopNode.name, node |-> Top.node, fields |-> Top.fields])
  /\ stack' = Popped
  /\ Return(Message(TopNode.name))
  /\ UNCHANGED <<asked, ancestors, imports, failure>>

\* Slip: a described message is written and not marked as declared.
DeclareUnmarked ==
  /\ Inside(Named) /\ returned = <<>> /\ ~Remaining
  /\ ancestors' = ancestors \ {TopNode.name}
  /\ messages' = Append(messages, [name |-> TopNode.name, node |-> Top.node, fields |-> Top.fields])
  /\ stack' = Popped
  /\ Return(Message(TopNode.name))
  /\ UNCHANGED <<asked, declared, imports, failure>>

Declare ==
  /\ Inside(Named) /\ returned = <<>> /\ ~Remaining
  /\ ancestors' = ancestors \ {TopNode.name}
  /\ declared' = declared \cup {TopNode.name}
  /\ messages' = Append(messages, [name |-> TopNode.name, node |-> Top.node, fields |-> Top.fields])
  /\ stack' = Popped
  /\ Return(Message(TopNode.name))
  /\ UNCHANGED <<asked, imports, failure>>

(* Inside a wrapper: sequence, mapping, shape's Nullable case *)

CloseWrapper ==
  /\ Inside(Wrappers) /\ returned # <<>>
  /\ TopNode.kind \in {"list", "map"} => ~returned[1].repeated
  /\ stack' = Popped
  /\ Return(Wrapped(TopNode.kind, returned[1]))
  /\ UNCHANGED <<asked, file, ancestors, failure>>

RefuseNestedList ==
  /\ Inside({"list", "map"}) /\ returned # <<>> /\ returned[1].repeated
  /\ Refuse("nested list")

----------------------------------------------------------------------------
Succeeded == Running /\ at > Len(job)

Finished == (Succeeded \/ ~Running) /\ UNCHANGED vars

Step ==
  \/ Ask \/ Answer \/ AddMethod \/ SetRoot
  \/ VisitScalar \/ VisitKnown \/ OpenMessage \/ FollowReference \/ OpenWrapper
  \/ RefuseUnlessMessage \/ RefuseUnnamed \/ RefuseDiscriminated
  \/ RefuseUndescribed \/ RefuseKey
  \/ EnterMember \/ LeaveMember \/ Declare \/ RefuseUnnumbered \/ RefuseRepeatedVariant
  \/ CloseWrapper \/ RefuseNestedList

Next == Step \/ Finished

Spec == Init /\ [][Next]_vars

FairSpec == Spec /\ WF_vars(Step)

----------------------------------------------------------------------------
(* Properties *)

ScalarTypes == {"int32", "int64", "uint32", "uint64", "float", "double", "bool", "bytes", "string",
                "google.protobuf.Timestamp"}
Types == [of : {"scalar"}, name : ScalarTypes, maps : Nat] \cup [of : {"message"}, name : Names, maps : Nat]
Shapes == [type : Types, repeated : BOOLEAN, nullable : BOOLEAN]
Fields == [name : STRING, number : Int, type : Types, repeated : BOOLEAN, optional : BOOLEAN]

\* Every part of the state has its type.
TypeOK ==
  /\ job \in Jobs /\ at \in Nat \ {0}
  /\ types \in Seq(Names) /\ root \in Seq(Names)
  /\ services \in Seq([name : STRING, methods : Seq(Seq(Names))])
  /\ messages \in Seq([name : Names, node : Nodes, fields : Seq(Fields)])
  /\ declared \subseteq Names /\ ancestors \subseteq Names
  /\ imports \subseteq {"google/protobuf/timestamp.proto"}
  /\ stack \in Seq([node : Nodes, fields : Seq(Fields)])
  /\ visit \in Seq([node : Nodes, message : BOOLEAN]) /\ Len(visit) \leq 1
  /\ returned \in Seq(Shapes) /\ Len(returned) \leq 1
  /\ failure \in Seq(Reasons)

\* The message frames of the stack, and their names.
OpenFrames == {i \in DOMAIN stack : Node[stack[i].node].kind \in Named}
NameAt(i) == Node[stack[i].node].name

\* A name is an ancestor exactly while its message is being described, and one
\* message only is being described under it: a name left behind would be
\* referred to from then on and never declared, and one described inside
\* itself would not end (message, oneOf).
ScopesClose ==
  /\ ancestors = {NameAt(i) : i \in OpenFrames}
  /\ \A i, j \in OpenFrames : NameAt(i) = NameAt(j) => i = j

\* A name is declared once, however often and from wherever it is reached, and
\* not while its message is still open (message, oneOf, declare).
DeclaredOnce ==
  /\ declared = {messages[i].name : i \in DOMAIN messages}
  /\ \A i, j \in DOMAIN messages : messages[i].name = messages[j].name => i = j
  /\ declared \cap ancestors = {}

\* The messages a type, or a sequence of names, refers to are among names.
TypeIn(type, names) == type.of = "message" => type.name \in names
FieldsIn(fields, names) == \A i \in DOMAIN fields : TypeIn(fields[i].type, names)
AllIn(sequence, names) == \A i \in DOMAIN sequence : sequence[i] \in names

\* What the file written so far refers to is among names.
FileIn(names) ==
  /\ \A i \in DOMAIN messages : FieldsIn(messages[i].fields, names)
  /\ AllIn(types, names) /\ AllIn(root, names)
  /\ \A i \in DOMAIN services : \A j \in DOMAIN services[i].methods :
       AllIn(services[i].methods[j], names)

\* And so is what the calls in progress hold.
CallsIn(names) ==
  /\ \A i \in DOMAIN stack : FieldsIn(stack[i].fields, names)
  /\ \A i \in DOMAIN returned : TypeIn(returned[i].type, names)

\* Whatever has been referred to is declared or is being described: the cut a
\* known name makes in the walk never leaves a name without a message.
NamesResolve == FileIn(declared \cup ancestors) /\ CallsIn(declared \cup ancestors)

\* What holds between any two steps.
WalkInv == TypeOK /\ ScopesClose /\ DeclaredOnce /\ NamesResolve

\* A file that is handed over refers to no message it does not declare, in a
\* field, a root or a procedure, with recursion and sharing (Project,
\* ProjectServices).
NothingDangles == Succeeded => FileIn(declared)

\* What is inside the wrappers of a node, how many of them are maps, and whether
\* one is a list.
Around(kind, inner) ==
  [core |-> inner.core,
   maps |-> IF kind = "map" THEN inner.maps + 1 ELSE inner.maps,
   list |-> inner.list \/ kind = "list"]
Unwrapped[n \in Nodes] ==
  IF Node[n].kind \in Wrappers THEN Around(Node[n].kind, Unwrapped[Node[n].of])
  ELSE [core |-> n, maps |-> 0, list |-> FALSE]
Core(n) == Unwrapped[n].core

\* A type is what the node inside says: its scalar's, or the message of its name.
\* A reference is called by its own name or, where it was followed, by that of
\* the message behind it.
SaysType(type, n) ==
  LET core == Node[Core(n)]
  IN  /\ type.of = IF core.kind = "scalar" THEN "scalar" ELSE "message"
      /\ core.kind = "scalar" => type.name = ScalarType(core.scalar)
      /\ core.kind \in Named => type.name = core.name
      /\ core.kind = "reference" =>
           \/ type.name = core.name
           \/ /\ core.of # NoNode
              /\ Node[core.of].kind \in Named => type.name = Node[core.of].name
      /\ type.maps = Unwrapped[n].maps

\* What a field of a message says of the member it is, however the member was
\* reached: a list anywhere on the way makes it repeated, and only what is
\* outermost can make it optional.
Says(kind, field, member) ==
  /\ field.name = member.name /\ field.number = member.number
  /\ SaysType(field.type, member.of)
  /\ field.repeated <=> Unwrapped[member.of].list
  /\ field.optional <=> /\ kind = "object" /\ ~field.repeated
                        /\ member.optional \/ Node[member.of].kind = "nullable"

Describes(message, n) ==
  /\ message.name = Node[n].name
  /\ Len(message.fields) = Len(Node[n].members)
  /\ \A i \in DOMAIN message.fields : Says(Node[n].kind, message.fields[i], Node[n].members[i])

\* A message says what its shape says, whatever was projected between its members.
MessagesSayTheirShapes ==
  \A i \in DOMAIN messages : Describes(messages[i], messages[i].node)

\* The bits below and above zero a precision has, and a proto3 type holds.
Bits == [int8 |-> <<7, 7>>, int16 |-> <<15, 15>>, int32 |-> <<31, 31>>, int64 |-> <<63, 63>>,
         int |-> <<63, 63>>, none |-> <<63, 63>>, uint8 |-> <<0, 8>>, uint16 |-> <<0, 16>>,
         uint32 |-> <<0, 32>>, uint64 |-> <<0, 64>>, uint |-> <<0, 64>>]
Holds(type, precision) ==
  /\ \A side \in 1..2 : Bits[type][side] >= Bits[precision][side]
  /\ Bits[type][1] = 0 <=> Bits[precision][1] = 0
Narrowest(type, precision) ==
  /\ type \in {"int32", "uint32", "int64", "uint64"} /\ Holds(type, precision)
  /\ \A other \in {"int32", "uint32"} : Holds(other, precision) => type = other

\* An integer field's type is the narrowest of its sign that holds its precision
\* (integerType).
WidthsAreKept ==
  \A i \in DOMAIN messages : \A j \in DOMAIN messages[i].fields :
    LET core == Node[Core(Node[messages[i].node].members[j].of)]
    IN  (core.kind = "scalar" /\ core.scalar.kind = "Integer" /\ core.scalar.precision \in DOMAIN Bits) =>
          Narrowest(messages[i].fields[j].type.name, core.scalar.precision)

\* The import is there exactly when a message of the file uses it (addImport).
IsInstant(type) == type.of = "scalar" /\ type.name = "google.protobuf.Timestamp"
HasInstant(fields) == \E j \in DOMAIN fields : IsInstant(fields[j].type)
ImportsAreUsed ==
  Succeeded => (imports # {} <=> \E i \in DOMAIN messages : HasInstant(messages[i].fields))

\* A file says what its shapes say, whatever was projected between two of their
\* members: each field as its member has it, in a type that holds its precision,
\* with the imports they need and no other (message, oneOf, shape, addImport).
FileSaysItsShapes == MessagesSayTheirShapes /\ WidthsAreKept /\ ImportsAreUsed

\* Names are given out as DeclareOnce promises.
Catalogue == INSTANCE DeclareOnce WITH open <- ancestors, closed <- declared
ImplementsDeclareOnce == Catalogue!Spec
=============================================================================
