---------------------------- MODULE SchemaProject ----------------------------
(***************************************************************************)
(* Projecting descriptions into JSON Schema (schema/jsonschema/project.go, *)
(* project_scalar.go): several descriptions share one set of components.   *)
(*                                                                         *)
(* A description is a graph: Node[n] is a structure.Node, and only a       *)
(* reference closes a cycle.  The projector walks it depth first.  stack   *)
(* holds the calls of node in progress, the last one called last; visit is *)
(* the call about to be made and returned what the last one gave.          *)
(*                                                                         *)
(*   kind      scalar, object, union, list, map, nullable or reference     *)
(*   name      of an object, union or reference; "" is none                *)
(*   tag       a union's Discriminator; "" is none                         *)
(*   members   fields or variants: [name, optional, of]                    *)
(*   of        the node inside a wrapper, or what a reference resolves to  *)
(*   scalar    a scalar's kind                                             *)
(*   bounds    its constraints, or a list's: [keyword, limit]              *)
(*                                                                         *)
(* A schema is a jsonschema.Node, without the keywords that only annotate. *)
(***************************************************************************)
EXTENDS Integers, Sequences

CONSTANTS
  Node,        \* the descriptions
  NoNode,      \* what a reference without a Resolve resolves to
  Jobs,        \* the sequences of nodes that may be asked for
  StackLimit   \* the calls a goroutine's stack has room for

Nodes == DOMAIN Node
Named == {"object", "union"}
Wrappers == {"list", "map", "nullable"}
Kinds == Named \cup Wrappers \cup {"scalar", "reference"}
Keywords == {"minimum", "maximum", "exclusiveMinimum", "exclusiveMaximum",
             "minLength", "maxLength", "minItems", "maxItems"}
ScalarKinds == {"Text", "Integer", "Number", "Boolean", "Bytes", "Timestamp"}
Names == {Node[n].name : n \in Nodes}

ASSUME NodeAssumption ==
  /\ NoNode \notin Nodes
  /\ \A n \in Nodes :
       /\ Node[n].kind \in Kinds
       /\ Node[n].scalar \in ScalarKinds
       /\ Node[n].members \in Seq([name : STRING, optional : BOOLEAN, of : Nodes])
       /\ Node[n].bounds \in Seq([keyword : Keywords, limit : Int])
       /\ Node[n].kind \in Wrappers => Node[n].of \in Nodes
       /\ Node[n].kind = "reference" => Node[n].of \in Nodes \cup {NoNode}

ASSUME JobAssumption ==
  Jobs \subseteq Seq(Nodes) /\ StackLimit \in Nat

VARIABLES
  job,         \* the nodes asked for
  schemas,     \* the schemas of those done
  components,  \* projector.components: a function from names
  ancestors,   \* projector.ancestors
  stack,       \* the calls in progress: [node, parts]
  visit,       \* the node to call node with
  returned,    \* the schema a call returned
  overflown    \* whether the stack had no room, which ends the program

calls == <<stack, visit, returned>>
vars == <<job, schemas, components, ancestors, calls, overflown>>

----------------------------------------------------------------------------
(* What each shape is written as. *)

Blank == [ref |-> "", type |-> "", properties |-> <<>>, required |-> {}, items |-> <<>>,
          values |-> <<>>, oneOf |-> <<>>, allOf |-> <<>>, const |-> "", bounds |-> <<>>]

Pointer(name) == [Blank EXCEPT !.ref = name]
Typed(type) == [Blank EXCEPT !.type = type]
Property(name, schema) == [name |-> name, schema |-> schema]

\* bounds: of the constraints with one keyword, the last is written.
Bounds(constraints) ==
  [keyword \in {constraints[i].keyword : i \in DOMAIN constraints} |->
     constraints[CHOOSE i \in DOMAIN constraints :
       /\ constraints[i].keyword = keyword
       /\ \A j \in (i + 1)..Len(constraints) : constraints[j].keyword # keyword].limit]

ScalarType(kind) ==
  CASE kind = "Integer" -> "integer"
    [] kind = "Number"  -> "number"
    [] kind = "Boolean" -> "boolean"
    [] OTHER            -> "string"

ScalarSchema(shape) ==
  [Typed(ScalarType(shape.scalar)) EXCEPT !.bounds = Bounds(shape.bounds)]

\* inlineObject
ObjectSchema(members, parts) ==
  [Typed("object") EXCEPT
     !.properties = [i \in DOMAIN parts |-> Property(members[i].name, parts[i])],
     !.required = {members[i].name : i \in {j \in DOMAIN members : ~members[j].optional}}]

\* union: a variant is the one member of an object.
Wrapping(member, part) ==
  [Typed("object") EXCEPT !.properties = <<Property(member.name, part)>>, !.required = {member.name}]

\* Slip: the field is required, and may say anything.
TaggedByAnything(tag, member, part) ==
  [Blank EXCEPT !.allOf =
     <<part, [Typed("object") EXCEPT !.properties = <<Property(tag, Typed("string"))>>, !.required = {tag}]>>]

\* taggedUnion: a variant is its own shape and the field that names it.
Tagging(tag, member, part) ==
  LET named == [Typed("object") EXCEPT
                  !.properties = <<Property(tag, [Typed("string") EXCEPT !.const = member.name])>>,
                  !.required = {tag}]
  IN  [Blank EXCEPT !.allOf = <<part, named>>]

\* Slip: a variant is described by its own shape.
UnionUnwrapped(shape, parts) ==
  [Blank EXCEPT !.oneOf =
     [i \in DOMAIN parts |->
        IF shape.tag # "" THEN Tagging(shape.tag, shape.members[i], parts[i]) ELSE parts[i]]]

UnionSchema(shape, parts) ==
  [Blank EXCEPT !.oneOf =
     [i \in DOMAIN parts |->
        IF shape.tag # "" THEN Tagging(shape.tag, shape.members[i], parts[i])
        ELSE Wrapping(shape.members[i], parts[i])]]

Described(shape, parts) ==
  IF shape.kind = "object" THEN ObjectSchema(shape.members, parts) ELSE UnionSchema(shape, parts)

\* What a wrapper makes of the schema inside it.  A reference is what it
\* resolves to.
Wrapped(shape, inner) ==
  CASE shape.kind = "list"      -> [Typed("array") EXCEPT !.items = <<inner>>, !.bounds = Bounds(shape.bounds)]
    [] shape.kind = "map"       -> [Typed("object") EXCEPT !.values = <<inner>>]
    [] shape.kind = "nullable"  -> [Blank EXCEPT !.oneOf = <<inner, Typed("null")>>]
    [] shape.kind = "reference" -> inner

----------------------------------------------------------------------------
Running == ~overflown
Top == stack[Len(stack)]
TopNode == Node[Top.node]
Popped == SubSeq(stack, 1, Len(stack) - 1)

Known(name) == name \in ancestors \cup DOMAIN components

Init ==
  /\ job \in Jobs
  /\ schemas = <<>> /\ components = <<>> /\ ancestors = {}
  /\ stack = <<>> /\ visit = <<>> /\ returned = <<>>
  /\ overflown = FALSE

Return(schema) == visit' = <<>> /\ returned' = <<schema>>

----------------------------------------------------------------------------
(* Project, ProjectAll *)

Between == Running /\ stack = <<>> /\ visit = <<>>

Ask ==
  /\ Between /\ returned = <<>> /\ Len(schemas) < Len(job)
  /\ visit' = <<job[Len(schemas) + 1]>>
  /\ UNCHANGED <<job, schemas, components, ancestors, stack, returned, overflown>>

Answer ==
  /\ Between /\ returned # <<>>
  /\ schemas' = Append(schemas, returned[1])
  /\ returned' = <<>>
  /\ UNCHANGED <<job, components, ancestors, stack, visit, overflown>>

----------------------------------------------------------------------------
(* node: the call that is made *)

Visiting(kinds) == Running /\ visit # <<>> /\ Node[visit[1]].kind \in kinds
Visited == Node[visit[1]]

VisitScalar ==
  /\ Visiting({"scalar"})
  /\ Return(ScalarSchema(Visited))
  /\ UNCHANGED <<job, schemas, components, ancestors, stack, overflown>>

\* object, union: a name that is described, or is being described.
VisitKnown ==
  /\ Visiting(Named) /\ Visited.name # "" /\ Known(Visited.name)
  /\ Return(Pointer(Visited.name))
  /\ UNCHANGED <<job, schemas, components, ancestors, stack, overflown>>

\* referenceNode: one that has a name is not followed.
NameReference ==
  /\ Visiting({"reference"}) /\ Visited.name # ""
  /\ Return(Pointer(Visited.name))
  /\ UNCHANGED <<job, schemas, components, ancestors, stack, overflown>>

\* And one that cannot be followed is described as admitting anything.
NoReference ==
  /\ Visiting({"reference"}) /\ Visited.name = "" /\ Visited.of = NoNode
  /\ Return(Blank)
  /\ UNCHANGED <<job, schemas, components, ancestors, stack, overflown>>

HasRoom == Len(stack) < StackLimit
Pushed == Append(stack, [node |-> visit[1], parts |-> <<>>])

\* Slip: a shape is described without being an ancestor.
OpenUnmarked ==
  /\ Visiting(Named)
  /\ Visited.name # "" => ~Known(Visited.name)
  /\ HasRoom
  /\ stack' = Pushed /\ visit' = <<>>
  /\ UNCHANGED <<job, schemas, components, ancestors, returned, overflown>>

OpenShape ==
  /\ Visiting(Named)
  /\ Visited.name # "" => ~Known(Visited.name)
  /\ HasRoom
  /\ ancestors' = IF Visited.name = "" THEN ancestors ELSE ancestors \cup {Visited.name}
  /\ stack' = Pushed /\ visit' = <<>>
  /\ UNCHANGED <<job, schemas, components, returned, overflown>>

Followed == Visiting({"reference"}) /\ Visited.name = "" /\ Visited.of # NoNode

OpenWrapper ==
  /\ Visiting(Wrappers) \/ Followed
  /\ HasRoom
  /\ stack' = Pushed /\ visit' = <<Visited.of>>
  /\ UNCHANGED <<job, schemas, components, ancestors, returned, overflown>>

Overflow ==
  /\ \/ Visiting(Named) /\ (Visited.name # "" => ~Known(Visited.name))
     \/ Visiting(Wrappers) \/ Followed
  /\ ~HasRoom
  /\ overflown' = TRUE
  /\ UNCHANGED <<job, schemas, components, ancestors, calls>>

----------------------------------------------------------------------------
(* node: the calls in progress *)

Inside(kinds) == Running /\ stack # <<>> /\ visit = <<>> /\ TopNode.kind \in kinds
Remaining == Len(Top.parts) < Len(TopNode.members)

EnterMember ==
  /\ Inside(Named) /\ returned = <<>> /\ Remaining
  /\ visit' = <<TopNode.members[Len(Top.parts) + 1].of>>
  /\ UNCHANGED <<job, schemas, components, ancestors, stack, returned, overflown>>

LeaveMember ==
  /\ Inside(Named) /\ returned # <<>>
  /\ stack' = [stack EXCEPT ![Len(stack)].parts = Append(@, returned[1])]
  /\ returned' = <<>>
  /\ UNCHANGED <<job, schemas, components, ancestors, visit, overflown>>

\* What is left once every member is described.
CloseInline ==
  /\ Inside(Named) /\ returned = <<>> /\ ~Remaining /\ TopNode.name = ""
  /\ stack' = Popped /\ Return(Described(TopNode, Top.parts))
  /\ UNCHANGED <<job, schemas, components, ancestors, overflown>>

\* Slip: the shape is returned where it is first reached, and is no component.
ReturnInline ==
  /\ Inside(Named) /\ returned = <<>> /\ ~Remaining /\ TopNode.name # ""
  /\ ancestors' = ancestors \ {TopNode.name}
  /\ stack' = Popped /\ Return(Described(TopNode, Top.parts))
  /\ UNCHANGED <<job, schemas, components, overflown>>

Declare ==
  /\ Inside(Named) /\ returned = <<>> /\ ~Remaining /\ TopNode.name # ""
  /\ ancestors' = ancestors \ {TopNode.name}
  /\ components' = [name \in DOMAIN components \cup {TopNode.name} |->
                      IF name = TopNode.name THEN Described(TopNode, Top.parts) ELSE components[name]]
  /\ stack' = Popped /\ Return(Pointer(TopNode.name))
  /\ UNCHANGED <<job, schemas, overflown>>

CloseWrapper ==
  /\ Inside(Wrappers \cup {"reference"}) /\ returned # <<>>
  /\ stack' = Popped /\ Return(Wrapped(TopNode, returned[1]))
  /\ UNCHANGED <<job, schemas, components, ancestors, overflown>>

----------------------------------------------------------------------------
Next ==
  \/ Ask \/ Answer
  \/ VisitScalar \/ VisitKnown \/ NameReference \/ NoReference
  \/ OpenShape \/ OpenWrapper \/ Overflow
  \/ EnterMember \/ LeaveMember
  \/ CloseInline \/ Declare \/ CloseWrapper

Spec == Init /\ [][Next]_vars /\ WF_vars(Next)

Done == Between /\ returned = <<>> /\ Len(schemas) = Len(job)

----------------------------------------------------------------------------
(* Properties *)

\* The shapes with a name that are being described, and their names.
OpenFrames == {i \in DOMAIN stack : Node[stack[i].node].kind \in Named /\ Node[stack[i].node].name # ""}
NameAt(i) == Node[stack[i].node].name

\* A name is an ancestor exactly while its shape is being described, and one
\* shape only is being described under it; a component is none of these: a name
\* left behind would be pointed to and never described, and one described
\* inside itself would not end (object, union).
ScopesClose ==
  /\ ancestors = {NameAt(i) : i \in OpenFrames}
  /\ \A i, j \in OpenFrames : NameAt(i) = NameAt(j) => i = j
  /\ ancestors \cap DOMAIN components = {}

\* Names are given out as DeclareOnce promises: a type used by several of the
\* nodes asked for is described once, also when it is asked for again.
Catalogue == INSTANCE DeclareOnce WITH open <- ancestors, closed <- DOMAIN components
ImplementsDeclareOnce == Catalogue!Spec

\* The schemas directly inside a schema.
Inner(schema) ==
  {schema.properties[i].schema : i \in DOMAIN schema.properties}
  \cup {schema.items[i] : i \in DOMAIN schema.items} \cup {schema.values[i] : i \in DOMAIN schema.values}
  \cup {schema.oneOf[i] : i \in DOMAIN schema.oneOf} \cup {schema.allOf[i] : i \in DOMAIN schema.allOf}

\* Schemas with all that is inside them, so many layers down.
Nested(outer, layers) ==
  LET down[k \in 0..layers] == IF k = 0 THEN outer ELSE outer \cup UNION {Inner(s) : s \in down[k - 1]}
  IN  down[layers]

\* A call puts no more than two layers around what the calls under it return:
\* a union's variants, and what each holds.
Layers == 2 * (StackLimit + 1)

Document == {schemas[i] : i \in DOMAIN schemas} \cup {components[name] : name \in DOMAIN components}
ReferenceNames == {Node[n].name : n \in {m \in Nodes : Node[m].kind = "reference"}} \ {""}

\* Every pointer of the document is to a component in it, with recursion and
\* sharing, or is what a reference with a name of its own names: pointers are
\* given out before what they point to is described (object, union).
NothingDangles ==
  Done => \A s \in Nested(Document, Layers) : s.ref # "" => s.ref \in DOMAIN components \cup ReferenceNames

(* What the documentation says beyond that. *)

\* Projection is total: every structure has a rendering (Project).
ProjectionIsTotal == ~overflown
=============================================================================
