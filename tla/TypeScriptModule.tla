-------------------------- MODULE TypeScriptModule ---------------------------
(***************************************************************************)
(* Projecting descriptions into one TypeScript module (schema/typescript). *)
(* The shapes with a name are collected, and then declared, each after     *)
(* what it uses.  What it refers to that is not declared by then it        *)
(* suspends, to be read when a value is decoded.                           *)
(*                                                                         *)
(* A description is a graph: Node[n] is a structure.Node, and only a       *)
(* reference closes a cycle.                                               *)
(*                                                                         *)
(*   kind      scalar, object, union, list, map, nullable or reference     *)
(*   name      of an object, union or reference; "" is none                *)
(*   tagged    whether a union has a Discriminator                         *)
(*   members   fields or variants: [name, of]                              *)
(*   of        the node inside a wrapper, or what a reference resolves to  *)
(*                                                                         *)
(* A component is written in steps that interleave with those of others:   *)
(* frames holds the calls of declare in progress, the last one called      *)
(* last, each with the uses it has yet to look at.                         *)
(***************************************************************************)
EXTENDS Naturals, Sequences, SequencesExt

CONSTANTS
  Node,        \* the descriptions
  NoNode,      \* what a reference without a Resolve resolves to
  Identifier,  \* the TypeScript name a name is written as
  Alphabet,    \* these names, in the order sort.Strings gives them
  Jobs         \* the sequences of roots that may be asked for

Nodes == DOMAIN Node
Named == {"object", "union"}
Wrappers == {"list", "map", "nullable"}
Kinds == Named \cup Wrappers \cup {"scalar", "reference"}
Identifiers == {Identifier[name] : name \in DOMAIN Identifier}

ASSUME NodeAssumption ==
  /\ NoNode \notin Nodes
  /\ \A n \in Nodes :
       /\ Node[n].kind \in Kinds /\ Node[n].tagged \in BOOLEAN
       /\ Node[n].members \in Seq([name : STRING, of : Nodes])
       /\ Node[n].name \in DOMAIN Identifier
       /\ Node[n].kind \in Wrappers => Node[n].of \in Nodes
       /\ Node[n].kind = "reference" => Node[n].of \in Nodes \cup {NoNode}

ASSUME ModuleAssumption ==
  /\ Identifiers = {Alphabet[i] : i \in DOMAIN Alphabet}
  /\ Jobs \subseteq Seq(Nodes)

VARIABLES
  job,           \* the roots
  todo,          \* the nodes collect has still to be called with, in order
  components,    \* module.components: a function from identifiers
  declared,      \* module.declared
  declaring,     \* module.declaring
  recursive,     \* module.recursive
  frames,        \* the calls of declare in progress: [name, uses]
  declarations,  \* module.declarations: [name, plain, suspended, annotated]
  failure        \* the error Module returned

collected == <<todo, components>>
written == <<declared, declaring, recursive, frames, declarations>>
vars == <<job, collected, written, failure>>

----------------------------------------------------------------------------
(* Names *)

\* referenceName: its own, or that of what it resolves to.
ReferenceName(n) ==
  IF Node[n].name # "" \/ Node[n].of = NoNode THEN Identifier[Node[n].name]
  ELSE IF Node[Node[n].of].kind \in Named THEN Identifier[Node[Node[n].of].name]
  ELSE ""

NameOf(n) == Identifier[Node[n].name]
HasName(n) == Node[n].kind \in Named /\ Node[n].name # ""
Parts(n) == [i \in DOMAIN Node[n].members |-> Node[n].members[i].of]

\* uses: the components a node names, not looking inside them.
UsesOf[n \in Nodes] ==
  CASE HasName(n)                   -> <<NameOf(n)>>
    [] Node[n].kind = "reference"   -> <<ReferenceName(n)>>
    [] Node[n].kind \in Wrappers    -> UsesOf[Node[n].of]
    [] Node[n].kind = "scalar"      -> <<>>
    [] OTHER -> FlattenSeq([i \in DOMAIN Parts(n) |-> UsesOf[Parts(n)[i]]])

Uses(n) == FlattenSeq([i \in DOMAIN Parts(n) |-> UsesOf[Parts(n)[i]]])

\* objectBehind
ObjectBehind[n \in Nodes] ==
  IF Node[n].kind = "object" THEN n
  ELSE IF Node[n].kind = "reference" /\ Node[n].of # NoNode THEN ObjectBehind[Node[n].of]
  ELSE NoNode

\* expression: what a node holds, and what is written for it, down to what is
\* referred to.  A variant told apart by a field is written out, with the name
\* of its shape or without.
Held(n) ==
  CASE Node[n].kind \in Wrappers -> {Node[n].of}
    [] Node[n].kind = "union" /\ Node[n].tagged ->
         UNION {Range(Parts(m)) : m \in {ObjectBehind[v] : v \in Range(Parts(n))} \ {NoNode}}
    [] Node[n].kind \in {"scalar", "reference"} -> {}
    [] OTHER -> Range(Parts(n))

Refers(n) == HasName(n) \/ Node[n].kind = "reference"
Within[n \in Nodes] == {n} \cup (IF Refers(n) THEN {} ELSE UNION {Within[m] : m \in Held(n)})
WrittenFor(n) == UNION {Within[m] : m \in Held(n)}

\* The references from a node on, and how deep what is written for it goes.
\* objectBehind and expression follow them without a check, so a module has an
\* end only if both do.
Chain[n \in Nodes] ==
  IF Node[n].kind = "reference" /\ Node[n].of # NoNode THEN Chain[Node[n].of] + 1 ELSE 0
Depth[n \in Nodes] ==
  IF Refers(n) \/ Held(n) = {} THEN 0 ELSE Max({Depth[m] : m \in Held(n)}) + 1

ASSUME ExpressionAssumption ==
  \A n \in Nodes :
    /\ Chain[n] \in Nat /\ Depth[n] \in Nat
    /\ (Node[n].kind = "reference" /\ Node[n].of # NoNode) => Chain[Node[n].of] < Chain[n]
    /\ ~Refers(n) => \A m \in Held(n) : Depth[m] < Depth[n]

References(n) ==
  {IF HasName(m) THEN NameOf(m) ELSE ReferenceName(m) : m \in {m \in WrittenFor(n) : Refers(m)}}

\* union: a variant told apart by a field has to be an object.
Unspeakable(n) ==
  \E m \in {n} \cup {m \in WrittenFor(n) : ~Refers(m)} :
    /\ Node[m].kind = "union" /\ Node[m].tagged
    /\ \E v \in Range(Parts(m)) : ObjectBehind[v] = NoNode

----------------------------------------------------------------------------
Running == failure = <<>>

Init ==
  /\ job \in Jobs
  /\ todo = job /\ components = <<>>
  /\ declared = {} /\ declaring = {} /\ recursive = {}
  /\ frames = <<>> /\ declarations = <<>>
  /\ failure = <<>>

Refuse(reason) ==
  /\ failure' = <<reason>>
  /\ UNCHANGED <<job, collected, written>>

----------------------------------------------------------------------------
(* collect *)

Collecting(kinds) == Running /\ todo # <<>> /\ Node[Head(todo)].kind \in kinds
Reached == Head(todo)
Known(name) == name \in DOMAIN components

\* sameName: the same fields, under the same names, in the same order.
SameName(m, n) ==
  /\ Node[m].kind = "object"
  /\ [i \in DOMAIN Node[m].members |-> Node[m].members[i].name]
       = [i \in DOMAIN Node[n].members |-> Node[n].members[i].name]

\* Slip: a union is not kept.
CollectObject ==
  /\ Collecting(Named) /\ HasName(Reached) /\ ~Known(NameOf(Reached))
  /\ components' = IF Node[Reached].kind = "union" THEN components
                   ELSE [name \in DOMAIN components \cup {NameOf(Reached)} |->
                           IF name = NameOf(Reached) THEN Reached ELSE components[name]]
  /\ todo' = Parts(Reached) \o Tail(todo)
  /\ UNCHANGED <<job, written, failure>>

CollectComponent ==
  /\ Collecting(Named) /\ HasName(Reached) /\ ~Known(NameOf(Reached))
  /\ components' = [name \in DOMAIN components \cup {NameOf(Reached)} |->
                      IF name = NameOf(Reached) THEN Reached ELSE components[name]]
  /\ todo' = Parts(Reached) \o Tail(todo)
  /\ UNCHANGED <<job, written, failure>>

\* An object reached again, or a union whose name is taken.
CollectAgain ==
  /\ Collecting(Named) /\ HasName(Reached) /\ Known(NameOf(Reached))
  /\ Node[Reached].kind = "object" => SameName(components[NameOf(Reached)], Reached)
  /\ todo' = Tail(todo)
  /\ UNCHANGED <<job, components, written, failure>>

RefuseName ==
  /\ Collecting({"object"}) /\ HasName(Reached) /\ Known(NameOf(Reached))
  /\ ~SameName(components[NameOf(Reached)], Reached)
  /\ Refuse("one name")

CollectInside ==
  /\ Collecting(Kinds \ {"reference"}) /\ ~HasName(Reached)
  /\ todo' = (CASE Node[Reached].kind \in Named    -> Parts(Reached)
                [] Node[Reached].kind \in Wrappers -> <<Node[Reached].of>>
                [] Node[Reached].kind = "scalar"   -> <<>>) \o Tail(todo)
  /\ UNCHANGED <<job, components, written, failure>>

\* Slip: a reference is taken to lead to what is collected anyway.
FollowNone ==
  /\ Collecting({"reference"})
  /\ todo' = Tail(todo)
  /\ UNCHANGED <<job, components, written, failure>>

CollectReference ==
  /\ Collecting({"reference"})
  /\ todo' = (IF Known(ReferenceName(Reached)) \/ Node[Reached].of = NoNode THEN <<>>
              ELSE <<Node[Reached].of>>) \o Tail(todo)
  /\ UNCHANGED <<job, components, written, failure>>

----------------------------------------------------------------------------
(* declare *)

Declaring == Running /\ todo = <<>>
Top == frames[Len(frames)]

Call(name, callers) ==
  /\ declaring' = declaring \cup {name}
  /\ frames' = Append(callers, [name |-> name, uses |-> Uses(components[name])])

\* Module, which asks for each name in order.
DeclareNext ==
  /\ Declaring /\ frames = <<>>
  /\ \E i \in DOMAIN Alphabet :
       /\ Alphabet[i] \in DOMAIN components \ declared
       /\ \A j \in 1..(i - 1) : Alphabet[j] \notin DOMAIN components \ declared
       /\ Call(Alphabet[i], frames)
  /\ UNCHANGED <<job, collected, declared, recursive, declarations, failure>>

Using == Declaring /\ frames # <<>> /\ Top.uses # <<>>
Used == Head(Top.uses)
Looked == [frames EXCEPT ![Len(frames)].uses = Tail(@)]

PassUse ==
  /\ Using
  /\ Used \in declaring \cup declared \/ ~Known(Used)
  /\ frames' = Looked
  /\ UNCHANGED <<job, collected, declared, declaring, recursive, declarations, failure>>

DeclareUse ==
  /\ Using
  /\ Used \notin declaring \cup declared /\ Known(Used)
  /\ Call(Used, Looked)
  /\ UNCHANGED <<job, collected, declared, recursive, declarations, failure>>

Complete == Declaring /\ frames # <<>> /\ Top.uses = <<>>

RefuseVariant ==
  /\ Complete /\ Unspeakable(components[Top.name])
  /\ Refuse("not an object")

\* Slip: it is declared before it is written.
WriteDeclared ==
  /\ Complete /\ ~Unspeakable(components[Top.name])
  /\ declared' = declared \cup {Top.name}
  /\ LET refs == References(components[Top.name])
     IN  /\ recursive' = recursive \cup (refs \ declared')
         /\ declarations' =
              Append(declarations, [name |-> Top.name, plain |-> refs \cap declared',
                                    suspended |-> refs \ declared',
                                    annotated |-> Top.name \in recursive'])
  /\ declaring' = declaring \ {Top.name}
  /\ frames' = SubSeq(frames, 1, Len(frames) - 1)
  /\ UNCHANGED <<job, collected, failure>>

\* Slip: whether it is recursive is asked before it is written.
WriteThenLook ==
  /\ Complete /\ ~Unspeakable(components[Top.name])
  /\ LET refs == References(components[Top.name])
     IN  /\ recursive' = recursive \cup (refs \ declared)
         /\ declarations' =
              Append(declarations, [name |-> Top.name, plain |-> refs \cap declared,
                                    suspended |-> refs \ declared,
                                    annotated |-> Top.name \in recursive])
  /\ declaring' = declaring \ {Top.name}
  /\ declared' = declared \cup {Top.name}
  /\ frames' = SubSeq(frames, 1, Len(frames) - 1)
  /\ UNCHANGED <<job, collected, failure>>

\* Once its uses are looked at.
Write ==
  /\ Complete /\ ~Unspeakable(components[Top.name])
  /\ LET refs == References(components[Top.name])
     IN  /\ recursive' = recursive \cup (refs \ declared)
         /\ declarations' =
              Append(declarations, [name |-> Top.name, plain |-> refs \cap declared,
                                    suspended |-> refs \ declared,
                                    annotated |-> Top.name \in recursive'])
  /\ declaring' = declaring \ {Top.name}
  /\ declared' = declared \cup {Top.name}
  /\ frames' = SubSeq(frames, 1, Len(frames) - 1)
  /\ UNCHANGED <<job, collected, failure>>

----------------------------------------------------------------------------
Next ==
  \/ CollectComponent \/ CollectAgain \/ RefuseName \/ CollectInside \/ CollectReference
  \/ DeclareNext \/ PassUse \/ DeclareUse \/ RefuseVariant \/ Write

Spec == Init /\ [][Next]_vars /\ WF_vars(Next)

Done == Declaring /\ frames = <<>> /\ DOMAIN components \subseteq declared

----------------------------------------------------------------------------
(* Properties *)

NameAt(i) == declarations[i].name

\* Every component is declared once, and a name is being declared in one call
\* only: the calls end though shapes use each other (declare).
DeclaredOnce ==
  /\ declaring = {frames[i].name : i \in DOMAIN frames}
  /\ declared = {NameAt(i) : i \in DOMAIN declarations}
  /\ declaring \cap declared = {}
  /\ \A i, j \in DOMAIN frames : frames[i].name = frames[j].name => i = j
  /\ \A i, j \in DOMAIN declarations : NameAt(i) = NameAt(j) => i = j

\* What a declaration reads as the module loads is declared above it.
LoadsInOrder ==
  \A i \in DOMAIN declarations : \A name \in declarations[i].plain :
    \E j \in 1..(i - 1) : NameAt(j) = name

\* What any declaration suspends is annotated with its type, wherever it comes:
\* TypeScript cannot infer a type through a value that refers to itself.
SuspendedAreAnnotated ==
  \A i, j \in DOMAIN declarations :
    NameAt(j) \in declarations[i].suspended => declarations[j].annotated

\* A reference that leads to no shape of its name.
Astray(n) ==
  /\ Node[n].kind = "reference"
  /\ \/ Node[n].of = NoNode
     \/ ~HasName(Node[n].of)
     \/ NameOf(Node[n].of) # ReferenceName(n)

\* A variant of a shape that is not the one with its name: sameName looks at the
\* names of fields, and a reference is not followed if its name is known.
Displaced(v) ==
  \/ Astray(v)
  \/ /\ ObjectBehind[v] # NoNode
     /\ HasName(ObjectBehind[v])
     /\ Parts(components[NameOf(ObjectBehind[v])]) # Parts(ObjectBehind[v])

\* Of what is written for a component, what is told apart by a field has the
\* variants their names say.
Spelled(n) == {n} \cup {m \in WrittenFor(n) : ~Refers(m)}
SpeaksPlainly(n) ==
  \A m \in Spelled(n) : (Node[m].kind = "union" /\ Node[m].tagged) =>
    \A v \in Range(Parts(m)) : ~Displaced(v)

\* The module declares everything a declaration refers to, however it was
\* reached, unless what it describes refers to what is not there (collect).
Resolves ==
  Done => \A i \in DOMAIN declarations :
    LET component == components[NameAt(i)]
    IN  SpeaksPlainly(component) =>
          \A name \in declarations[i].plain \cup declarations[i].suspended :
            \/ name \in declared
            \/ \E n \in WrittenFor(component) : Astray(n) /\ ReferenceName(n) = name

\* Names are given out as DeclareOnce promises.
Catalogue == INSTANCE DeclareOnce WITH Names <- Identifiers, open <- declaring, closed <- declared
ImplementsDeclareOnce == Catalogue!Spec

=============================================================================
