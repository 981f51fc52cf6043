------------------------------- MODULE Derive --------------------------------
(***************************************************************************)
(* Deriving from one description what a caller supplies to make a thing or *)
(* to change it (schema/variant).  Fields are left out, and an entity      *)
(* inside is derived in turn, or left out as a whole.                      *)
(*                                                                         *)
(* A description is a graph: Node[n] is a structure.Node, and only a       *)
(* reference closes a cycle.                                               *)
(*                                                                         *)
(*   kind      scalar, object, union, list, map, nullable or reference     *)
(*   name      of an object                                                *)
(*   members   an object's fields: [name, optional, computed, identity, of]*)
(*   of        the node inside a wrapper, or what a reference resolves to  *)
(*                                                                         *)
(* What is derived is an object of fields [name, optional, of], of which   *)
(* of is a node as it was, a derived object, or one in a wrapper.          *)
(***************************************************************************)
EXTENDS Naturals, Sequences

CONSTANTS
  Node,       \* the descriptions
  NoNode,     \* what a reference without a Resolve resolves to
  Jobs,       \* what is asked for: [root, keepIdentity, reach, partial]
  StackLimit  \* the calls of deriveNode the stack has room for

Nodes == DOMAIN Node
Wrappers == {"list", "map", "nullable"}
Kinds == Wrappers \cup {"scalar", "object", "union", "reference"}
Members == [name : STRING, optional : BOOLEAN, computed : BOOLEAN, identity : BOOLEAN, of : Nodes]

ASSUME NodeAssumption ==
  /\ NoNode \notin Nodes
  /\ \A n \in Nodes :
       /\ Node[n].kind \in Kinds
       /\ Node[n].members \in Seq(Members)
       /\ Node[n].kind \in Wrappers => Node[n].of \in Nodes
       /\ Node[n].kind = "reference" => Node[n].of \in Nodes \cup {NoNode}

\* The four shapes of derive.go.
Policies ==
  {[keepIdentity |-> insert, reach |-> entities, partial |-> ~insert] :
     insert \in BOOLEAN, entities \in BOOLEAN}

ASSUME JobAssumption ==
  /\ \A job \in Jobs : job.root \in Nodes /\ job.policy \in Policies
  /\ StackLimit \in Nat \ {0}

VARIABLES
  job,        \* what is asked for
  frames,     \* the calls of deriveNode: [object, fields, at, for]
  result,     \* what deriveNode returned to its first caller, once it has
  failure,    \* the error it returned
  overflown   \* whether the stack had no room

vars == <<job, frames, result, failure, overflown>>

----------------------------------------------------------------------------
(* Shapes *)

\* resolveObject: an object, or the one references lead to.
ObjectAt[n \in Nodes] ==
  IF Node[n].kind = "object" THEN n
  ELSE IF Node[n].kind = "reference" /\ Node[n].of # NoNode THEN ObjectAt[Node[n].of]
  ELSE NoNode

IsEntity(n) == \E i \in DOMAIN Node[n].members : Node[n].members[i].identity

\* entityInside: through every wrapper, and then references to an object.
Behind[n \in Nodes] == IF Node[n].kind \in Wrappers THEN Behind[Node[n].of] ELSE ObjectAt[n]

\* Slip: any object is taken for an entity.
AnyObject(n) == Behind[n] # NoNode

Nested(n) == Behind[n] # NoNode /\ IsEntity(Behind[n])

AsItWas(n) == [as |-> "node", of |-> n]
Object(name, fields) == [as |-> "object", name |-> name, fields |-> fields]

\* rewrapNode: what held an entity holds what is derived from it.
Rewrapped(n, inner) ==
  IF Node[n].kind \in Wrappers THEN [as |-> Node[n].kind, of |-> inner] ELSE inner

----------------------------------------------------------------------------
Frame(object, for) == [object |-> object, fields |-> <<>>, at |-> 1, for |-> for]

Init ==
  /\ job \in Jobs
  /\ frames = <<>> /\ result = <<>> /\ failure = <<>> /\ overflown = FALSE

Ended == result # <<>> \/ failure # <<>> \/ overflown
Asked == frames = <<>> /\ ~Ended
HasRoom == Len(frames) < StackLimit

Fail(reason) ==
  /\ failure' = <<reason>>
  /\ UNCHANGED <<job, frames, result, overflown>>

Unresolved ==
  /\ Asked /\ Node[job.root].kind = "reference" /\ Node[job.root].of = NoNode
  /\ Fail("ErrUnresolved")

NotAnObject ==
  /\ Asked /\ ObjectAt[job.root] = NoNode
  /\ ~(Node[job.root].kind = "reference" /\ Node[job.root].of = NoNode)
  /\ Fail("ErrNotAnObject")

Begin ==
  /\ Asked /\ ObjectAt[job.root] # NoNode
  /\ frames' = <<Frame(ObjectAt[job.root], <<>>)>>
  /\ UNCHANGED <<job, result, failure, overflown>>

----------------------------------------------------------------------------
(* deriveField *)

Top == frames[Len(frames)]
Deriving == frames # <<>> /\ ~Ended /\ Top.at <= Len(Node[Top.object].members)
Field == Node[Top.object].members[Top.at]
Moved == [frames EXCEPT ![Len(frames)].at = @ + 1]

\* Slip: the identity of an entity inside is kept.
RootIdentityLeftOut ==
  \/ Field.computed
  \/ Field.identity /\ ~job.policy.keepIdentity /\ Len(frames) = 1
  \/ Nested(Field.of) /\ ~job.policy.reach

LeftOut ==
  \/ Field.computed
  \/ Field.identity /\ ~job.policy.keepIdentity
  \/ Nested(Field.of) /\ ~job.policy.reach

Survivor(field, node) ==
  [name |-> field.name, optional |-> field.optional \/ job.policy.partial, of |-> node]

With(stack, survivor) == [stack EXCEPT ![Len(stack)].fields = Append(@, survivor)]

LeaveOut ==
  /\ Deriving /\ LeftOut
  /\ frames' = Moved
  /\ UNCHANGED <<job, result, failure, overflown>>

Keep ==
  /\ Deriving /\ ~LeftOut /\ ~Nested(Field.of)
  /\ frames' = With(Moved, Survivor(Field, AsItWas(Field.of)))
  /\ UNCHANGED <<job, result, failure, overflown>>

Enters == Deriving /\ ~LeftOut /\ Nested(Field.of)

\* deriveWithin, and the policy is the outer one.
Enter ==
  /\ Enters /\ HasRoom
  /\ frames' = Append(Moved, Frame(Behind[Field.of], <<Field>>))
  /\ UNCHANGED <<job, result, failure, overflown>>

Overflow ==
  /\ Enters /\ ~HasRoom
  /\ overflown' = TRUE
  /\ UNCHANGED <<job, frames, result, failure>>

Derived == frames # <<>> /\ ~Ended /\ Top.at > Len(Node[Top.object].members)

NothingLeft ==
  /\ Derived /\ Top.fields = <<>>
  /\ Fail("ErrNothingLeft")

DerivedObject == Object(Node[Top.object].name, Top.fields)
Callers == SubSeq(frames, 1, Len(frames) - 1)

\* deriveNode returns, to deriveField or to the caller.
Return ==
  /\ Derived /\ Top.fields # <<>>
  /\ frames' = IF Top.for = <<>> THEN <<>>
               ELSE With(Callers, Survivor(Top.for[1], Rewrapped(Top.for[1].of, DerivedObject)))
  /\ result' = IF Top.for = <<>> THEN <<DerivedObject>> ELSE <<>>
  /\ UNCHANGED <<job, failure, overflown>>

Next ==
  \/ Unresolved \/ NotAnObject \/ Begin
  \/ LeaveOut \/ Keep \/ Enter \/ Overflow \/ NothingLeft \/ Return

Spec == Init /\ [][Next]_vars /\ WF_vars(Next)
=============================================================================
