------------------------- MODULE ProtoProjectProofs --------------------------
(***************************************************************************)
(* The projector's invariants, for every description and every sequence of *)
(* procedures. ScopesClose and NamesResolve say nothing of the calls in    *)
(* progress, of which only the last is between two steps while every other *)
(* open message waits for a member; Nesting says so, and IInv adds it.     *)
(* FileSaysItsShapes says nothing of what a call is for either: CallsSay   *)
(* says that it was asked for by the call before it, and SayInv adds it.   *)
(***************************************************************************)
EXTENDS ProtoProject, SequenceTheorems, WellFoundedInduction, TLAPS

\* What the stack holds: a message being described, and its fields so far.
Frames == [node : Nodes, fields : Seq(Fields)]

\* What the calls in progress have in common: only the last call is between two
\* steps of it, every open message but that one waits for a member, and what is
\* asked for by Project or a procedure is a message.
Nesting ==
  /\ visit # <<>> => returned = <<>>
  /\ \A i \in OpenFrames :
       (i < Len(stack) \/ visit # <<>> \/ returned # <<>>) =>
         Len(stack[i].fields) < Len(Node[stack[i].node].members)
  /\ stack # <<>> => 1 \in OpenFrames
  /\ (stack = <<>> /\ visit # <<>>) => visit[1].message
  /\ (stack = <<>> /\ returned # <<>>) => returned[1].type.of = "message"
  /\ at > Len(job) => stack = <<>> /\ visit = <<>> /\ returned = <<>>

Scoped == ScopesClose /\ DeclaredOnce

IInv == TypeOK /\ Nesting /\ Scoped /\ NamesResolve

----------------------------------------------------------------------------
(* Shapes, and frames pushed and popped. *)

\* The shapes the calls return are shapes, and refer to what they should.
LEMMA ScalarShapes ==
  \A n \in Nodes : ScalarShape(Node[n].scalar) \in Shapes
                   /\ ScalarShape(Node[n].scalar).type.of = "scalar"
  <1>1. \A precision \in Precisions : IntegerType(precision) \in ScalarTypes
    BY DEF IntegerType, Precisions, ScalarTypes
  <1>2. ASSUME NEW scalar \in [kind : ScalarKinds, precision : Precisions]
        PROVE  ScalarType(scalar) \in ScalarTypes
    <2>1. CASE scalar.kind = "Integer"
      BY <1>1, <2>1 DEF ScalarType
    <2>2. CASE scalar.kind # "Integer"
      BY <2>2 DEF ScalarType, ScalarTypes, ScalarKinds
    <2> QED
      BY <2>1, <2>2
  <1> QED
    BY <1>2, NodeAssumption DEF ScalarShape, Shape, Type, Shapes, Types

\* A message's shape is a shape, and refers to its name.
LEMMA MessageShapes ==
  \A name \in Names : Message(name) \in Shapes /\ Message(name).type.of = "message"
                       /\ Message(name).type.name = name
  BY DEF Message, Shape, Type, Shapes, Types

\* A wrapper keeps what the shape inside it refers to.
LEMMA WrappedShapes ==
  \A kind \in Wrappers, shape \in Shapes :
    /\ Wrapped(kind, shape) \in Shapes
    /\ Wrapped(kind, shape).type.of = shape.type.of
    /\ Wrapped(kind, shape).type.name = shape.type.name
  <1> TAKE kind \in Wrappers, shape \in Shapes
  <1>1. [shape.type EXCEPT !.maps = @ + 1] \in Types
    BY DEF Shapes, Types
  <1>2. CASE kind = "list"
    BY <1>2 DEF Wrapped, Shape, Shapes
  <1>3. CASE kind = "map"
    BY <1>1, <1>3 DEF Wrapped, Shape, Shapes, Types
  <1>4. CASE kind = "nullable"
    BY <1>4 DEF Wrapped, Shapes
  <1> QED
    BY <1>2, <1>3, <1>4 DEF Wrappers

\* So does a field.
LEMMA FieldShapes ==
  ASSUME NEW kind, NEW shape \in Shapes,
         NEW member \in [name : STRING, number : Int, optional : BOOLEAN, of : Nodes]
  PROVE  Field(kind, member, shape) \in Fields /\ Field(kind, member, shape).type = shape.type
  <1>1. (kind = "object" /\ (member.optional \/ shape.nullable) /\ ~shape.repeated) \in BOOLEAN
    OBVIOUS
  <1> QED
    BY <1>1 DEF Field, Fields, Shapes

\* One thing, as a sequence.
LEMMA Alone ==
  \A S : \A x \in S : <<x>> \in Seq(S) /\ Len(<<x>>) = 1 /\ <<x>>[1] = x
  OBVIOUS

\* A function on 1..n is a sequence.
LEMMA FunctionsAreSequences ==
  \A S : \A n \in Nat : \A f \in [1..n -> S] : f \in Seq(S)
  BY SeqDef

\* The empty sequence is a sequence of at most one.
LEMMA NoneLeft ==
  \A S : <<>> \in Seq(S) /\ Len(<<>>) <= 1
  OBVIOUS

\* Visit makes a node the one call in progress.
LEMMA Visits ==
  ASSUME NEW n \in Nodes, NEW m \in BOOLEAN, Visit(n, m)
  PROVE  /\ visit' \in Seq([node : Nodes, message : BOOLEAN]) /\ Len(visit') <= 1
         /\ visit' # <<>> /\ visit'[1].node = n /\ visit'[1].message = m
  <1>1. [node |-> n, message |-> m] \in [node : Nodes, message : BOOLEAN]
    OBVIOUS
  <1> QED
    BY <1>1, Alone DEF Visit

\* Return makes a shape the one result in progress.
LEMMA Returns ==
  ASSUME NEW shape \in Shapes, Return(shape)
  PROVE  /\ visit' \in Seq([node : Nodes, message : BOOLEAN]) /\ Len(visit') <= 1 /\ visit' = <<>>
         /\ returned' \in Seq(Shapes) /\ Len(returned') <= 1
         /\ returned' # <<>> /\ returned'[1] = shape
  BY Alone DEF Return

\* A stack without its last frame.
LEMMA Popping ==
  ASSUME TypeOK, stack # <<>>
  PROVE  /\ Popped \in Seq(Frames) /\ Len(Popped) = Len(stack) - 1
         /\ DOMAIN Popped = 1..(Len(stack) - 1)
         /\ \A i \in DOMAIN Popped : Popped[i] = stack[i]
         /\ Top \in Frames /\ Len(stack) \in DOMAIN stack
  <1>1. stack \in Seq(Frames) /\ Len(stack) \in Nat \ {0}
    BY DEF TypeOK, Frames
  <1>a. \A i \in 1..(Len(stack) - 1) : stack[i] \in Frames
    BY <1>1, ElementOfSeq
  <1>b. Len(stack) - 1 \in Int /\ 1 \in Int
    BY <1>1
  <1>2. Popped \in Seq(Frames) /\ Len(Popped) = Len(stack) - 1
    <2>1. \A n \in Nat : (\A i \in 1..n : stack[i] \in Frames) =>
            SubSeq(stack, 1, n) \in Seq(Frames) /\ Len(SubSeq(stack, 1, n)) = n
      <3> TAKE n \in Nat
      <3> HAVE \A i \in 1..n : stack[i] \in Frames
      <3>1. SubSeq(stack, 1, n) \in Seq(Frames)
        BY SubSeqProperties
      <3>2. Len(SubSeq(stack, 1, n)) = IF 1 <= n THEN n - 1 + 1 ELSE 0
        BY SubSeqProperties
      <3>3. (IF 1 <= n THEN n - 1 + 1 ELSE 0) = n
        OBVIOUS
      <3> QED
        BY <3>1, <3>2, <3>3
    <2>2. Len(stack) - 1 \in Nat
      BY <1>1
    <2> QED
      BY <1>a, <2>1, <2>2 DEF Popped
  <1>3. DOMAIN Popped = 1..(Len(stack) - 1)
    BY <1>2, LenProperties
  <1>4. \A i \in DOMAIN Popped : Popped[i] = stack[i]
    BY <1>1, <1>3, SubSeqProperties DEF Popped
  <1>5. Top \in Frames /\ Len(stack) \in DOMAIN stack
    BY <1>1, ElementOfSeq, LenProperties DEF Top
  <1> QED
    BY <1>2, <1>3, <1>4, <1>5

\* A stack with one frame more.
LEMMA Pushing ==
  ASSUME TypeOK, NEW n \in Nodes, stack' = Append(stack, [node |-> n, fields |-> <<>>])
  PROVE  /\ stack' \in Seq(Frames) /\ Len(stack') = Len(stack) + 1
         /\ DOMAIN stack' = 1..(Len(stack) + 1)
         /\ \A i \in DOMAIN stack : stack'[i] = stack[i]
         /\ stack'[Len(stack')] = [node |-> n, fields |-> <<>>]
  <1>1. [node |-> n, fields |-> <<>>] \in Frames
    BY DEF Frames
  <1> QED
    BY <1>1 DEF TypeOK, Frames

----------------------------------------------------------------------------
(* The steps, by what they disturb. *)

Refused ==
  \/ RefuseUnlessMessage \/ RefuseUnnamed \/ RefuseDiscriminated \/ RefuseUndescribed
  \/ RefuseKey \/ RefuseUnnumbered \/ RefuseRepeatedVariant \/ RefuseNestedList

\* A refusal changes nothing but the failure.
LEMMA RefusalsKeep ==
  ASSUME Refused
  PROVE  UNCHANGED <<asked, file, ancestors, calls>> /\ failure' # <<>> /\ failure' \in Seq(Reasons)
  <1>1. \A reason \in Reasons :
          Refuse(reason) => /\ UNCHANGED <<asked, file, ancestors, calls>>
                            /\ failure' # <<>> /\ failure' \in Seq(Reasons)
    BY DEF Refuse
  <1>2. \E reason \in Reasons : Refuse(reason)
    <2>1. CASE RefuseUnlessMessage
      BY <2>1 DEF RefuseUnlessMessage, Reasons
    <2>2. CASE RefuseUnnamed
      BY <2>2 DEF RefuseUnnamed, Reasons
    <2>3. CASE RefuseDiscriminated
      BY <2>3 DEF RefuseDiscriminated, Reasons
    <2>4. CASE RefuseUndescribed
      BY <2>4 DEF RefuseUndescribed, Reasons
    <2>5. CASE RefuseKey
      BY <2>5 DEF RefuseKey, Reasons
    <2>6. CASE RefuseUnnumbered
      BY <2>6 DEF RefuseUnnumbered, Reasons
    <2>7. CASE RefuseRepeatedVariant
      BY <2>7 DEF RefuseRepeatedVariant, Reasons
    <2>8. CASE RefuseNestedList
      BY <2>8 DEF RefuseNestedList, Reasons
    <2> QED
      BY <2>1, <2>2, <2>3, <2>4, <2>5, <2>6, <2>7, <2>8 DEF Refused
  <1> QED
    BY <1>1, <1>2

\* The node a call is about is one of the description, and so is the frame's.
LEMMA VisitedNode ==
  ASSUME TypeOK, visit # <<>>
  PROVE  visit[1].node \in Nodes /\ visit[1].message \in BOOLEAN /\ Visited.name \in Names
  <1>1. visit \in Seq([node : Nodes, message : BOOLEAN]) /\ 1 \in 1..Len(visit)
    BY DEF TypeOK
  <1>2. visit[1] \in [node : Nodes, message : BOOLEAN]
    BY <1>1, ElementOfSeq
  <1> QED
    BY <1>2 DEF Visited, Names

\* The procedure whose turn it is asks for a sequence of nodes.
LEMMA ProcedureAsked ==
  ASSUME TypeOK, at <= Len(job)
  PROVE  job[at].service \in STRING /\ job[at].asks \in Seq(Nodes) /\ Len(types) \in Nat
         /\ Len(job[at].asks) \in Nat
  <1>1. job \in Seq([service : STRING, asks : Seq(Nodes)])
    BY JobAssumption DEF TypeOK
  <1>2. at \in 1..Len(job)
    BY <1>1 DEF TypeOK
  <1>3. job[at] \in [service : STRING, asks : Seq(Nodes)]
    BY <1>1, <1>2, ElementOfSeq
  <1> QED
    BY <1>3 DEF TypeOK

\* What was returned is a shape.
LEMMA ReturnedShape ==
  ASSUME TypeOK, returned # <<>>
  PROVE  returned[1] \in Shapes /\ 1 \in DOMAIN returned /\ \A i \in DOMAIN returned : i = 1
  <1>1. returned \in Seq(Shapes) /\ Len(returned) \in Nat \ {0} /\ Len(returned) <= 1
    BY DEF TypeOK
  <1>a. \A n \in Nat \ {0} : n <= 1 => n = 1
    OBVIOUS
  <1>b. Len(returned) = 1
    BY <1>1, <1>a
  <1>2. DOMAIN returned = 1..Len(returned) /\ Len(returned) = 1
    BY <1>1, <1>b, LenProperties
  <1> QED
    BY <1>1, <1>2, ElementOfSeq

\* The frame on top of the stack, and the member it waits for, are typed.
LEMMA TopIsTyped ==
  ASSUME TypeOK, stack # <<>>
  PROVE  /\ Top.node \in Nodes /\ Top.fields \in Seq(Fields) /\ TopNode.name \in Names
         /\ Len(Top.fields) \in Nat
         /\ Len(Top.fields) < Len(TopNode.members) =>
              NextMember \in [name : STRING, number : Int, optional : BOOLEAN, of : Nodes]
  <1>1. Top.node \in Nodes /\ Top.fields \in Seq(Fields)
    BY Popping DEF Frames
  <1>2. TopNode.members \in Seq([name : STRING, number : Int, optional : BOOLEAN, of : Nodes])
    BY <1>1, NodeAssumption DEF TopNode
  <1>3. Len(Top.fields) \in Nat /\ Len(TopNode.members) \in Nat
    BY <1>1, <1>2
  <1>4. ASSUME Len(Top.fields) < Len(TopNode.members)
        PROVE  NextMember \in [name : STRING, number : Int, optional : BOOLEAN, of : Nodes]
    <2>1. Len(Top.fields) + 1 \in 1..Len(TopNode.members)
      BY <1>3, <1>4
    <2> QED
      BY <1>2, <2>1, ElementOfSeq DEF NextMember
  <1> QED
    BY <1>1, <1>3, <1>4 DEF TopNode, Names

\* A message that a shape was returned to waits for that member.
LEMMA MemberWaits ==
  ASSUME TypeOK, Nesting, stack # <<>>, TopNode.kind \in Named, returned # <<>>
  PROVE  Len(Top.fields) < Len(TopNode.members)
  <1>1. Len(stack) \in OpenFrames
    BY Popping DEF OpenFrames, Top, TopNode
  <1> QED
    BY <1>1 DEF Nesting, Top, TopNode

\* A frame with one field more.
LEMMA Filling ==
  ASSUME TypeOK, stack # <<>>, NEW field \in Fields,
         stack' = [stack EXCEPT ![Len(stack)].fields = Append(@, field)]
  PROVE  /\ stack' \in Seq(Frames) /\ Len(stack') = Len(stack) /\ DOMAIN stack' = DOMAIN stack
         /\ \A i \in DOMAIN stack : i # Len(stack) => stack'[i] = stack[i]
         /\ stack'[Len(stack)].node = Top.node
         /\ stack'[Len(stack)].fields = Append(Top.fields, field)
  <1>1. stack \in Seq(Frames) /\ Len(stack) \in Nat \ {0} /\ Len(stack) \in DOMAIN stack /\ Top \in Frames
    BY Popping DEF TypeOK, Frames
  <1>2. Append(Top.fields, field) \in Seq(Fields)
    BY <1>1, AppendProperties DEF Frames
  <1>3. [Top EXCEPT !.fields = Append(Top.fields, field)] \in Frames
    BY <1>1, <1>2 DEF Frames
  <1>4. stack' = [stack EXCEPT ![Len(stack)] = [Top EXCEPT !.fields = Append(Top.fields, field)]]
    BY DEF Top
  <1>5. stack' \in Seq(Frames) /\ Len(stack') = Len(stack)
    <2> DEFINE top == [Top EXCEPT !.fields = Append(Top.fields, field)]
               n == Len(stack)
    <2>1. n \in 1..Len(stack) /\ top \in Frames
      BY <1>1, <1>3
    <2>2. stack' = [stack EXCEPT ![n] = top]
      BY <1>4
    <2> HIDE DEF top, n
    <2>3. [stack EXCEPT ![n] = top] \in Seq(Frames) /\ Len([stack EXCEPT ![n] = top]) = Len(stack)
      BY <1>1, <2>1, ExceptSeq
    <2> QED
      BY <2>2, <2>3
  <1>6. DOMAIN stack' = DOMAIN stack
    BY <1>1, <1>4
  <1>7. stack'[Len(stack)] = [Top EXCEPT !.fields = Append(Top.fields, field)]
    BY <1>1, <1>4
  <1>8. \A i \in DOMAIN stack : i # Len(stack) => stack'[i] = stack[i]
    BY <1>4
  <1> QED
    BY <1>1, <1>5, <1>6, <1>7, <1>8 DEF Frames

----------------------------------------------------------------------------
(* Types *)

\* The initial states are typed.
LEMMA TypeInit == Init => TypeOK
  <1> SUFFICES ASSUME Init PROVE TypeOK
    OBVIOUS
  <1> QED
    BY DEF Init, TypeOK

\* Every step keeps the types.
LEMMA TypeStep ==
  ASSUME TypeOK, Nesting, [Next]_vars
  PROVE  TypeOK'
  <1> USE DEF TypeOK
  <1>1. CASE Refused
    BY <1>1, RefusalsKeep DEF asked, file, calls
  <1>2. CASE Ask
    <2>1. job[at].asks \in Seq(Nodes) /\ Len(types) + 1 \in 1..Len(job[at].asks)
      BY <1>2, ProcedureAsked DEF Ask, Between
    <2>2. job[at].asks[Len(types) + 1] \in Nodes
      BY <2>1, ElementOfSeq
    <2> QED
      BY <1>2, <2>2, Visits DEF Ask, asked, file
  <1>3. CASE Answer
    <2>1. returned[1].type.name \in Names
      BY <1>3, ReturnedShape DEF Answer, Between, Nesting, Shapes, Types
    <2> QED
      BY <1>3, <2>1 DEF Answer, file
  <1>4. CASE AddMethod
    <2> DEFINE S == [name : STRING, methods : Seq(Seq(Names))]
               service == job[at].service
               known == {i \in DOMAIN services : services[i].name = service}
               joined == [i \in DOMAIN services |->
                            IF i \in known THEN [services[i] EXCEPT !.methods = Append(@, types)]
                            ELSE services[i]]
    <2>1. types \in Seq(Names) /\ service \in STRING /\ services \in Seq(S)
      BY <1>4, ProcedureAsked DEF AddMethod, Between
    <2>2. [name |-> service, methods |-> <<types>>] \in S
      BY <2>1, Alone
    <2>3. ASSUME NEW held \in S
          PROVE  [held EXCEPT !.methods = Append(@, types)] \in S
      <3>1. held.methods \in Seq(Seq(Names))
        OBVIOUS
      <3>2. Append(held.methods, types) \in Seq(Seq(Names))
        BY <2>1, <3>1, AppendProperties
      <3> QED
        BY <3>2
    <2>4. services' = Append(services, [name |-> service, methods |-> <<types>>]) \/ services' = joined
      BY <1>4 DEF AddMethod
    <2> HIDE DEF S
    <2>5. DOMAIN services = 1..Len(services) /\ \A i \in DOMAIN services : services[i] \in S
      BY <2>1, LenProperties, ElementOfSeq
    <2>6. joined \in [1..Len(services) -> S]
      BY <2>3, <2>5
    <2>7. joined \in Seq(S)
      <3>1. Len(services) \in Nat
        BY <2>1, LenProperties
      <3> HIDE DEF joined
      <3> QED
        BY <2>6, <3>1, FunctionsAreSequences, Zenon
    <2> HIDE DEF joined
    <2>8. services' \in Seq(S)
      <3>1. Append(services, [name |-> service, methods |-> <<types>>]) \in Seq(S)
        BY <2>1, <2>2, AppendProperties
      <3> QED
        BY <2>4, <2>7, <3>1
    <2>9. at' \in Nat \ {0} /\ types' \in Seq(Names)
      BY <1>4 DEF AddMethod
    <2> QED
      BY <1>4, <2>8, <2>9 DEF AddMethod, file, calls, S
  <1>5. CASE SetRoot
    BY <1>5 DEF SetRoot, file, calls
  <1>6. CASE VisitScalar
    BY <1>6, VisitedNode, ScalarShapes, Returns DEF VisitScalar, Visiting, Visited, asked
  <1>7. CASE VisitKnown
    BY <1>7, VisitedNode, MessageShapes, Returns DEF VisitKnown, Visiting, asked, file
  <1>8. CASE OpenMessage
    <2>1. visit[1].node \in Nodes /\ Visited.name \in Names
      BY <1>8, VisitedNode DEF OpenMessage, Visiting
    <2>2. ancestors' \subseteq Names /\ stack' \in Seq(Frames)
      BY <1>8, <2>1, Pushing DEF OpenMessage
    <2> QED
      BY <1>8, <2>2, NoneLeft DEF OpenMessage, asked, file, Frames
  <1>9. CASE FollowReference
    <2>1. Visited.of \in Nodes
      BY <1>9, VisitedNode, NodeAssumption DEF FollowReference, Visiting, Visited
    <2> QED
      BY <1>9, <2>1, Visits DEF FollowReference, asked, file
  <1>10. CASE OpenWrapper
    <2>1. visit[1].node \in Nodes /\ Visited.of \in Nodes
      BY <1>10, VisitedNode, NodeAssumption DEF OpenWrapper, Visiting, Visited
    <2> QED
      BY <1>10, <2>1, Pushing, Visits DEF OpenWrapper, asked, file, Frames
  <1>11. CASE EnterMember
    BY <1>11, TopIsTyped, Visits DEF EnterMember, Inside, Remaining, asked, file
  <1>12. CASE LeaveMember
    <2>1. NextMember \in [name : STRING, number : Int, optional : BOOLEAN, of : Nodes]
      BY <1>12, MemberWaits, TopIsTyped DEF LeaveMember, Inside
    <2>2. Field(TopNode.kind, NextMember, returned[1]) \in Fields
      BY <1>12, <2>1, FieldShapes, ReturnedShape DEF LeaveMember
    <2> QED
      BY <1>12, <2>2, Filling, NoneLeft DEF LeaveMember, Inside, asked, file, Frames
  <1>13. CASE Declare
    <2>1. stack # <<>>
      BY <1>13 DEF Declare, Inside
    <2>2. Popped \in Seq(Frames) /\ Top.node \in Nodes /\ Top.fields \in Seq(Fields) /\ TopNode.name \in Names
      BY <2>1, Popping, TopIsTyped
    <2>3. messages' \in Seq([name : Names, node : Nodes, fields : Seq(Fields)])
      <3>1. [name |-> TopNode.name, node |-> Top.node, fields |-> Top.fields]
              \in [name : Names, node : Nodes, fields : Seq(Fields)]
        BY <2>2
      <3> QED
        BY <1>13, <3>1, AppendProperties DEF Declare
    <2>4. declared' \subseteq Names /\ ancestors' \subseteq Names /\ stack' \in Seq(Frames)
      BY <1>13, <2>2 DEF Declare
    <2>5. Message(TopNode.name) \in Shapes
      BY <2>2, MessageShapes
    <2> QED
      BY <1>13, <2>3, <2>4, <2>5, Returns DEF Declare, asked, Frames
  <1>14. CASE CloseWrapper
    BY <1>14, Popping, ReturnedShape, WrappedShapes, Returns DEF CloseWrapper, Inside, asked, file, Frames
  <1>15. CASE UNCHANGED vars
    BY <1>15 DEF vars, asked, file, calls
  <1> QED
    BY <1>1, <1>2, <1>3, <1>4, <1>5, <1>6, <1>7, <1>8, <1>9, <1>10, <1>11, <1>12, <1>13, <1>14, <1>15
       DEF Next, Step, Finished, Refused

----------------------------------------------------------------------------
(* The calls in progress *)

\* An open frame is a frame of the stack.
LEMMA OpenIsInside ==
  ASSUME TypeOK
  PROVE  Len(stack) \in Nat /\ DOMAIN stack = 1..Len(stack) /\ OpenFrames \subseteq 1..Len(stack)
  <1>1. stack \in Seq(Frames)
    BY DEF TypeOK, Frames
  <1>2. Len(stack) \in Nat /\ DOMAIN stack = 1..Len(stack)
    BY <1>1, LenProperties
  <1> QED
    BY <1>2 DEF OpenFrames

\* Pushing, popping and filling a frame, as the open messages see it.
LEMMA PushedFrames ==
  ASSUME TypeOK, NEW n \in Nodes, stack' = Append(stack, [node |-> n, fields |-> <<>>])
  PROVE  /\ OpenFrames' = IF Node[n].kind \in Named THEN OpenFrames \cup {Len(stack) + 1} ELSE OpenFrames
         /\ \A i \in OpenFrames : NameAt(i)' = NameAt(i)
         /\ stack'[Len(stack) + 1].node = n
         /\ Len(stack) + 1 \notin OpenFrames
  <1>1. /\ DOMAIN stack = 1..Len(stack) /\ Len(stack) \in Nat
        /\ DOMAIN stack' = 1..(Len(stack) + 1)
        /\ \A i \in DOMAIN stack : stack'[i] = stack[i]
        /\ stack'[Len(stack) + 1] = [node |-> n, fields |-> <<>>]
    BY Pushing DEF TypeOK
  <1>2. /\ DOMAIN stack' = DOMAIN stack \cup {Len(stack) + 1}
        /\ Len(stack) + 1 \notin DOMAIN stack
    BY <1>1
  <1>3. \A i \in DOMAIN stack : stack'[i].node = stack[i].node
    BY <1>1
  <1>4. stack'[Len(stack) + 1].node = n
    BY <1>1
  <1> DEFINE top == Len(stack) + 1
  <1>5. OpenFrames' = {i \in DOMAIN stack \cup {top} : Node[stack'[i].node].kind \in Named}
    BY <1>2 DEF OpenFrames
  <1>6. /\ top \notin DOMAIN stack /\ stack'[top].node = n
    BY <1>2, <1>4
  <1> HIDE DEF top
  <1>7. OpenFrames' = IF Node[n].kind \in Named THEN OpenFrames \cup {top} ELSE OpenFrames
    BY <1>3, <1>5, <1>6 DEF OpenFrames
  <1>8. \A i \in OpenFrames : NameAt(i)' = NameAt(i)
    BY <1>3 DEF OpenFrames, NameAt
  <1>9. top \notin OpenFrames
    BY <1>6 DEF OpenFrames
  <1> QED
    BY <1>4, <1>7, <1>8, <1>9 DEF top

\* Popping a frame leaves the open messages below it as they were.
LEMMA PoppedFrames ==
  ASSUME TypeOK, stack # <<>>, stack' = Popped
  PROVE  /\ OpenFrames' = OpenFrames \ {Len(stack)}
         /\ \A i \in OpenFrames' : NameAt(i)' = NameAt(i)
  <1>1. /\ DOMAIN stack = 1..Len(stack) /\ Len(stack) \in Nat \ {0}
        /\ DOMAIN stack' = 1..(Len(stack) - 1)
        /\ \A i \in DOMAIN stack' : stack'[i] = stack[i]
    BY Popping DEF TypeOK
  <1>2. DOMAIN stack' = DOMAIN stack \ {Len(stack)}
    BY <1>1
  <1> QED
    BY <1>1, <1>2 DEF OpenFrames, NameAt

\* A field more in the top frame leaves the open messages as they were.
LEMMA FilledFrames ==
  ASSUME TypeOK, stack # <<>>, NEW field \in Fields,
         stack' = [stack EXCEPT ![Len(stack)].fields = Append(@, field)]
  PROVE  /\ OpenFrames' = OpenFrames
         /\ \A i \in OpenFrames : NameAt(i)' = NameAt(i)
  <1>1. DOMAIN stack' = DOMAIN stack /\ \A i \in DOMAIN stack : stack'[i].node = stack[i].node
    BY Filling DEF Top
  <1> QED
    BY <1>1 DEF OpenFrames, NameAt

\* No call is in progress at first.
LEMMA NestingInit == Init => Nesting
  <1> SUFFICES ASSUME Init PROVE Nesting
    OBVIOUS
  <1>1. OpenFrames = {}
    BY DEF Init, OpenFrames
  <1>2. ~(at > Len(job)) \/ (stack = <<>> /\ visit = <<>> /\ returned = <<>>)
    BY DEF Init
  <1> QED
    BY <1>1, <1>2 DEF Init, Nesting

\* Every step keeps the nesting.
LEMMA NestingStep ==
  ASSUME TypeOK, Nesting, [Next]_vars
  PROVE  Nesting'
  <1> USE DEF Nesting
  <1>1. CASE Refused
    BY <1>1, RefusalsKeep DEF asked, file, calls, OpenFrames
  <1>2. CASE Ask
    <2>1. OpenFrames = {} /\ OpenFrames' = {} /\ stack' = <<>> /\ stack = <<>>
      BY <1>2 DEF Ask, Between, OpenFrames
    <2>2. visit' # <<>> /\ visit'[1].message /\ returned' = <<>>
      BY <1>2, Alone DEF Ask, Visit
    <2>3. ~(at > Len(job)) /\ UNCHANGED <<at, job>>
      <3>1. at \in Nat /\ Len(job) \in Nat
        BY JobAssumption DEF TypeOK
      <3> QED
        BY <1>2, <3>1 DEF Ask, Between, asked
    <2> QED
      BY <2>1, <2>2, <2>3
  <1>3. CASE Answer
    BY <1>3 DEF Answer, Between, OpenFrames
  <1>4. CASE AddMethod \/ SetRoot
    BY <1>4 DEF AddMethod, SetRoot, Between, calls, OpenFrames
  <1>5. CASE VisitScalar
    <2>1. stack # <<>> /\ visit # <<>> /\ UNCHANGED <<stack, job, at>>
      BY <1>5 DEF VisitScalar, Visiting, asked
    <2>2. visit' = <<>> /\ OpenFrames' = OpenFrames
      BY <1>5, <2>1 DEF VisitScalar, Return, OpenFrames
    <2> QED
      BY <2>1, <2>2
  <1>6. CASE VisitKnown
    <2>1. visit # <<>> /\ UNCHANGED <<stack, job, at>>
      BY <1>6 DEF VisitKnown, Visiting, asked
    <2>2. visit' = <<>> /\ OpenFrames' = OpenFrames
      BY <1>6, <2>1 DEF VisitKnown, Return, OpenFrames
    <2>3. returned' = <<Message(Visited.name)>> /\ Message(Visited.name).type.of = "message"
      BY <1>6, <2>1, VisitedNode, MessageShapes DEF VisitKnown, Return
    <2> QED
      BY <2>1, <2>2, <2>3
  <1>7. CASE OpenMessage
    <2>1. visit # <<>> /\ returned = <<>> /\ visit[1].node \in Nodes /\ Node[visit[1].node].kind \in Named
          /\ UNCHANGED <<job, at, returned>> /\ visit' = <<>>
          /\ stack' = Append(stack, [node |-> visit[1].node, fields |-> <<>>])
      BY <1>7, VisitedNode DEF OpenMessage, Visiting, asked
    <2>2. /\ OpenFrames' = OpenFrames \cup {Len(stack) + 1} /\ Len(stack') = Len(stack) + 1
          /\ \A i \in OpenFrames : stack'[i] = stack[i]
      BY <2>1, PushedFrames, Pushing DEF OpenFrames
    <2>3. 1 \in OpenFrames' /\ stack' # <<>>
      <3>1. CASE stack = <<>>
        BY <2>1, <2>2, <3>1
      <3>2. CASE stack # <<>>
        BY <2>1, <2>2, <3>2
      <3> QED
        BY <3>1, <3>2
    <2>4. ASSUME NEW i \in OpenFrames', i < Len(stack')
          PROVE  Len(stack'[i].fields) < Len(Node[stack'[i].node].members)
      <3>1. Len(stack) \in Nat /\ OpenFrames \subseteq 1..Len(stack)
        BY OpenIsInside
      <3>2. i \in OpenFrames
        BY <2>2, <2>4, <3>1
      <3> QED
        BY <2>1, <2>2, <3>2
    <2> QED
      BY <2>1, <2>3, <2>4
  <1>8. CASE FollowReference
    <2>1. visit # <<>> /\ UNCHANGED <<stack, job, at, returned>>
      BY <1>8 DEF FollowReference, Visiting, asked
    <2>2. visit' # <<>> /\ visit'[1].message /\ OpenFrames' = OpenFrames
      BY <1>8, <2>1, Alone DEF FollowReference, Visit, OpenFrames
    <2> QED
      BY <2>1, <2>2
  <1>9. CASE OpenWrapper
    <2>1. visit # <<>> /\ returned = <<>> /\ stack # <<>> /\ visit[1].node \in Nodes
          /\ Node[visit[1].node].kind \notin Named
          /\ UNCHANGED <<job, at, returned>>
          /\ stack' = Append(stack, [node |-> visit[1].node, fields |-> <<>>])
      BY <1>9, VisitedNode DEF OpenWrapper, Visiting, asked, Wrappers, Named
    <2>2. /\ OpenFrames' = OpenFrames /\ \A i \in OpenFrames : stack'[i] = stack[i]
          /\ stack' # <<>>
      BY <2>1, PushedFrames, Pushing DEF OpenFrames
    <2> QED
      BY <2>1, <2>2
  <1>10. CASE EnterMember
    <2>1. /\ stack # <<>> /\ visit = <<>> /\ returned = <<>> /\ UNCHANGED <<stack, job, at, returned>>
          /\ visit' # <<>> /\ Len(Top.fields) < Len(TopNode.members)
      BY <1>10 DEF EnterMember, Inside, Visit, asked, Remaining
    <2>2. OpenFrames' = OpenFrames
      BY <2>1 DEF OpenFrames
    <2>3. \A i \in OpenFrames : ~(i < Len(stack)) => i = Len(stack)
      BY DEF TypeOK, OpenFrames
    <2> QED
      BY <2>1, <2>2, <2>3 DEF Top, TopNode
  <1>11. CASE LeaveMember
    <2>1. /\ stack # <<>> /\ visit = <<>> /\ UNCHANGED <<job, at, visit>> /\ returned' = <<>>
          /\ TopNode.kind \in Named /\ returned # <<>>
          /\ stack' = [stack EXCEPT ![Len(stack)].fields =
                         Append(@, Field(TopNode.kind, NextMember, returned[1]))]
      BY <1>11 DEF LeaveMember, Inside, asked
    <2>2. Field(TopNode.kind, NextMember, returned[1]) \in Fields
      BY <2>1, FieldShapes, ReturnedShape, MemberWaits, TopIsTyped
    <2>3. /\ OpenFrames' = OpenFrames /\ Len(stack') = Len(stack) /\ stack' # <<>>
          /\ \A i \in DOMAIN stack : i # Len(stack) => stack'[i] = stack[i]
      <3>1. stack' # <<>>
        BY <2>1, <2>2, Filling DEF TypeOK
      <3> QED
        BY <2>1, <2>2, <3>1, FilledFrames, Filling
    <2>4. \A i \in OpenFrames : i \in DOMAIN stack /\ (i < Len(stack) => i # Len(stack))
      BY DEF TypeOK, OpenFrames
    <2> QED
      BY <2>1, <2>3, <2>4
  <1>12. CASE Declare \/ CloseWrapper
    <2>1. /\ stack # <<>> /\ visit = <<>> /\ visit' = <<>> /\ stack' = Popped /\ UNCHANGED <<job, at>>
          /\ returned' # <<>>
      BY <1>12 DEF Declare, CloseWrapper, Inside, Return, asked
    <2>2. /\ OpenFrames' = OpenFrames \ {Len(stack)} /\ \A i \in DOMAIN stack' : stack'[i] = stack[i]
      BY <2>1, PoppedFrames, Popping
    <2>3. \A i \in OpenFrames' : i \in OpenFrames /\ i < Len(stack) /\ i \in DOMAIN stack'
      <3>1. DOMAIN stack' = 1..(Len(stack) - 1)
        BY <2>1, Popping
      <3> QED
        BY <2>2, <3>1, OpenIsInside
    <2>4. stack' # <<>> => 1 \in OpenFrames'
      BY <2>1, <2>2, Popping DEF TypeOK
    <2>5. stack' = <<>> => returned'[1].type.of = "message"
      <3>1. CASE Declare
        BY <3>1, <2>1, TopIsTyped, MessageShapes DEF Declare, Return
      <3>2. CASE CloseWrapper
        <4>1. Len(stack) \notin OpenFrames
          BY <3>2 DEF CloseWrapper, Inside, OpenFrames, Top, TopNode, Wrappers, Named
        <4>2. 1 \in OpenFrames'
          BY <2>1, <2>2, <4>1
        <4> QED
          BY <4>2 DEF OpenFrames
      <3> QED
        BY <1>12, <3>1, <3>2
    <2> QED
      BY <2>1, <2>2, <2>3, <2>4, <2>5
  <1>13. CASE UNCHANGED vars
    BY <1>13 DEF vars, asked, calls, OpenFrames
  <1> QED
    BY <1>1, <1>2, <1>3, <1>4, <1>5, <1>6, <1>7, <1>8, <1>9, <1>10, <1>11, <1>12, <1>13
       DEF Next, Step, Finished, Refused

----------------------------------------------------------------------------
(* Scopes and declarations *)

\* The steps that neither open nor close a frame nor declare.
LEMMA OtherSteps ==
  ASSUME [Next]_vars
  PROVE  \/ OpenMessage \/ OpenWrapper \/ LeaveMember \/ Declare \/ CloseWrapper
         \/ UNCHANGED <<stack, ancestors, declared, messages>>
  <1>1. CASE Refused
    BY <1>1, RefusalsKeep DEF file, calls
  <1>2. CASE Ask \/ Answer \/ AddMethod \/ SetRoot
    BY <1>2 DEF Ask, Answer, AddMethod, SetRoot, file, calls
  <1>3. CASE VisitScalar \/ VisitKnown \/ FollowReference \/ EnterMember
    BY <1>3 DEF VisitScalar, VisitKnown, FollowReference, EnterMember, file
  <1>4. CASE UNCHANGED vars
    BY <1>4 DEF vars, file, calls
  <1> QED
    BY <1>1, <1>2, <1>3, <1>4 DEF Next, Step, Finished, Refused

\* Nothing is declared or open at first.
LEMMA ScopedInit == Init => Scoped
  BY DEF Init, Scoped, ScopesClose, DeclaredOnce, OpenFrames

\* Every step keeps ancestors the names of the open messages, and declared those
\* of the messages, all of them different.
LEMMA ScopedStep ==
  ASSUME TypeOK, Nesting, Scoped, [Next]_vars
  PROVE  Scoped'
  <1>1. CASE OpenMessage
    <2>1. /\ visit[1].node \in Nodes /\ visit # <<>> /\ Visited = Node[visit[1].node]
          /\ Visited.kind \in Named /\ ~Known(Visited.name)
          /\ ancestors' = ancestors \cup {Visited.name}
          /\ stack' = Append(stack, [node |-> visit[1].node, fields |-> <<>>])
          /\ UNCHANGED <<declared, messages>>
      BY <1>1, VisitedNode DEF OpenMessage, Visiting, Visited, file
    <2>a. /\ OpenFrames' = OpenFrames \cup {Len(stack) + 1} /\ Len(stack) + 1 \notin OpenFrames
          /\ \A i \in OpenFrames : NameAt(i)' = NameAt(i)
          /\ Node[stack'[Len(stack) + 1].node].name = Visited.name
      BY <2>1, PushedFrames
    <2>2. PICK top : /\ OpenFrames' = OpenFrames \cup {top} /\ top \notin OpenFrames
                     /\ \A i \in OpenFrames : NameAt(i)' = NameAt(i)
                     /\ NameAt(top)' = Visited.name
      BY <2>a DEF NameAt
    <2>3. ancestors = {NameAt(i) : i \in OpenFrames}
      BY DEF Scoped, ScopesClose
    <2>4. \A i \in OpenFrames : NameAt(i) # Visited.name
      BY <2>1, <2>3 DEF Known
    <2>5. ScopesClose'
      <3>1. ancestors' = {NameAt(i)' : i \in OpenFrames'}
        BY <2>1, <2>2, <2>3
      <3>2. \A i, j \in OpenFrames' : NameAt(i)' = NameAt(j)' => i = j
        BY <2>2, <2>4 DEF Scoped, ScopesClose
      <3> QED
        BY <3>1, <3>2 DEF ScopesClose
    <2>6. DeclaredOnce'
      BY <2>1 DEF Scoped, DeclaredOnce, Known
    <2> QED
      BY <2>5, <2>6 DEF Scoped
  <1>2. CASE OpenWrapper
    <2>1. /\ visit # <<>> /\ visit[1].node \in Nodes /\ Node[visit[1].node].kind \notin Named
          /\ stack' = Append(stack, [node |-> visit[1].node, fields |-> <<>>])
          /\ UNCHANGED <<declared, messages, ancestors>>
      BY <1>2, VisitedNode DEF OpenWrapper, Visiting, Wrappers, Named, file
    <2>2. OpenFrames' = OpenFrames /\ \A i \in OpenFrames : NameAt(i)' = NameAt(i)
      BY <2>1, PushedFrames
    <2> QED
      BY <2>1, <2>2 DEF Scoped, ScopesClose, DeclaredOnce
  <1>3. CASE LeaveMember
    <2>1. /\ stack # <<>> /\ TopNode.kind \in Named /\ returned # <<>>
          /\ stack' = [stack EXCEPT ![Len(stack)].fields =
                         Append(@, Field(TopNode.kind, NextMember, returned[1]))]
          /\ UNCHANGED <<declared, messages, ancestors>>
      BY <1>3 DEF LeaveMember, Inside, file
    <2>2. Field(TopNode.kind, NextMember, returned[1]) \in Fields
      BY <2>1, FieldShapes, ReturnedShape, MemberWaits, TopIsTyped
    <2>3. OpenFrames' = OpenFrames /\ \A i \in OpenFrames : NameAt(i)' = NameAt(i)
      BY <2>1, <2>2, FilledFrames
    <2> QED
      BY <2>1, <2>3 DEF Scoped, ScopesClose, DeclaredOnce
  <1>4. CASE CloseWrapper
    <2>1. /\ stack # <<>> /\ stack' = Popped /\ UNCHANGED <<declared, messages, ancestors>>
          /\ TopNode.kind \notin Named
      BY <1>4 DEF CloseWrapper, Inside, Wrappers, Named, file
    <2>2. Len(stack) \notin OpenFrames
      BY <2>1 DEF OpenFrames, Top, TopNode
    <2>3. OpenFrames' = OpenFrames /\ \A i \in OpenFrames : NameAt(i)' = NameAt(i)
      BY <2>1, <2>2, PoppedFrames
    <2> QED
      BY <2>1, <2>3 DEF Scoped, ScopesClose, DeclaredOnce
  <1>5. CASE Declare
    <2> DEFINE message == [name |-> TopNode.name, node |-> Top.node, fields |-> Top.fields]
    <2>1. /\ stack # <<>> /\ stack' = Popped /\ TopNode.kind \in Named
          /\ ancestors' = ancestors \ {TopNode.name}
          /\ declared' = declared \cup {TopNode.name}
          /\ messages' = Append(messages, message)
      BY <1>5 DEF Declare, Inside
    <2>2. Len(stack) \in OpenFrames /\ NameAt(Len(stack)) = TopNode.name
      BY <2>1, Popping DEF OpenFrames, NameAt, Top, TopNode
    <2>3. OpenFrames' = OpenFrames \ {Len(stack)} /\ \A i \in OpenFrames' : NameAt(i)' = NameAt(i)
      BY <2>1, PoppedFrames
    <2>4. ScopesClose'
      <3> DEFINE top == Len(stack)
      <3>1. /\ ancestors = {NameAt(i) : i \in OpenFrames} /\ top \in OpenFrames
            /\ \A i, j \in OpenFrames : NameAt(i) = NameAt(j) => i = j
        BY <2>2 DEF Scoped, ScopesClose
      <3>2. ancestors' = ancestors \ {NameAt(top)}
        BY <2>1, <2>2
      <3>3. OpenFrames' = OpenFrames \ {top}
        BY <2>3
      <3> HIDE DEF top
      <3>4. ancestors' = {NameAt(i) : i \in OpenFrames \ {top}}
        BY <3>1, <3>2
      <3>5. ancestors' = {NameAt(i)' : i \in OpenFrames'}
        BY <3>3, <3>4, <2>3
      <3> QED
        BY <3>1, <3>3, <3>5, <2>3 DEF ScopesClose
    <2>5. TopNode.name \in ancestors
      BY <2>2 DEF Scoped, ScopesClose
    <2>6. /\ DOMAIN messages' = DOMAIN messages \cup {Len(messages) + 1}
          /\ Len(messages) + 1 \notin DOMAIN messages
          /\ \A i \in DOMAIN messages : messages'[i] = messages[i]
          /\ messages'[Len(messages) + 1].name = TopNode.name
      BY <2>1 DEF TypeOK
    <2>7. DeclaredOnce'
      BY <2>1, <2>5, <2>6 DEF Scoped, DeclaredOnce
    <2> QED
      BY <2>4, <2>7 DEF Scoped
  <1>6. CASE UNCHANGED <<stack, ancestors, declared, messages>>
    BY <1>6 DEF Scoped, ScopesClose, DeclaredOnce, OpenFrames, NameAt
  <1> QED
    BY <1>1, <1>2, <1>3, <1>4, <1>5, <1>6, OtherSteps

----------------------------------------------------------------------------
(* Names *)

Given == declared \cup ancestors

\* A name that has been given out stays given out.
LEMMA GivenGrows ==
  ASSUME Nesting, Scoped, [Next]_vars
  PROVE  Given \subseteq Given'
  <1>1. CASE OpenMessage
    BY <1>1 DEF OpenMessage, Given, file
  <1>2. CASE Declare
    BY <1>2 DEF Declare, Given
  <1>3. CASE OpenWrapper \/ LeaveMember \/ CloseWrapper
    BY <1>3 DEF OpenWrapper, LeaveMember, CloseWrapper, Given, file
  <1> QED
    BY <1>1, <1>2, <1>3, OtherSteps DEF Given

\* What is among some names is among more.
LEMMA AmongMore ==
  ASSUME NEW fewer, NEW more, fewer \subseteq more
  PROVE  /\ FileIn(fewer) => FileIn(more)
         /\ CallsIn(fewer) => CallsIn(more)
         /\ \A fields : FieldsIn(fields, fewer) => FieldsIn(fields, more)
         /\ \A sequence : AllIn(sequence, fewer) => AllIn(sequence, more)
         /\ \A type : TypeIn(type, fewer) => TypeIn(type, more)
  <1>1. \A type : TypeIn(type, fewer) => TypeIn(type, more)
    BY DEF TypeIn
  <1>2. \A fields : FieldsIn(fields, fewer) => FieldsIn(fields, more)
    BY <1>1 DEF FieldsIn
  <1>3. \A sequence : AllIn(sequence, fewer) => AllIn(sequence, more)
    BY DEF AllIn
  <1>4. FileIn(fewer) => FileIn(more)
    BY <1>2, <1>3 DEF FileIn
  <1>5. CallsIn(fewer) => CallsIn(more)
    BY <1>1, <1>2 DEF CallsIn
  <1> QED
    BY <1>1, <1>2, <1>3, <1>4, <1>5

\* Nothing refers to anything at first.
LEMMA NamesInit == Init => NamesResolve
  BY DEF Init, NamesResolve, FileIn, CallsIn, FieldsIn, AllIn

\* The file of the next state refers to given names.
LEMMA FileStep ==
  ASSUME TypeOK, Nesting, Scoped, NamesResolve, [Next]_vars
  PROVE  FileIn(declared \cup ancestors)'
  <1> DEFINE names == declared' \cup ancestors'
  <1>1. FileIn(names) /\ CallsIn(names)
    BY GivenGrows, AmongMore DEF Given, NamesResolve
  <1> HIDE DEF names
  <1>2. /\ \A i \in DOMAIN messages : FieldsIn(messages[i].fields, names)
        /\ AllIn(types, names) /\ AllIn(root, names)
        /\ \A i \in DOMAIN services : \A j \in DOMAIN services[i].methods :
             AllIn(services[i].methods[j], names)
    BY <1>1 DEF FileIn
  <1> SUFFICES /\ \A i \in DOMAIN messages' : FieldsIn(messages'[i].fields, names)
               /\ AllIn(types', names) /\ AllIn(root', names)
               /\ \A i \in DOMAIN services' : \A j \in DOMAIN services'[i].methods :
                    AllIn(services'[i].methods[j], names)
    BY DEF FileIn, FieldsIn, AllIn, TypeIn, names
  <1>3. CASE UNCHANGED <<messages, types, root, services>>
    BY <1>2, <1>3
  <1>4. CASE Answer
    <2>1. returned # <<>> /\ stack = <<>> /\ types' = Append(types, returned[1].type.name)
          /\ UNCHANGED <<messages, root, services>>
      BY <1>4 DEF Answer, Between, file
    <2>2. returned[1].type.name \in names
      BY <1>1, <2>1, ReturnedShape DEF CallsIn, TypeIn, Nesting
    <2>3. AllIn(types', names)
      BY <1>2, <2>1, <2>2 DEF AllIn, TypeOK
    <2> QED
      BY <1>2, <2>1, <2>3
  <1>5. CASE SetRoot
    BY <1>2, <1>5 DEF SetRoot, file, AllIn
  <1>6. CASE AddMethod
    <2> DEFINE service == job[at].service
               known == {i \in DOMAIN services : services[i].name = service}
               added == [name |-> service, methods |-> <<types>>]
               joined == [i \in DOMAIN services |->
                            IF i \in known THEN [services[i] EXCEPT !.methods = Append(@, types)]
                            ELSE services[i]]
               in(held) == \A j \in DOMAIN held.methods : AllIn(held.methods[j], names)
    <2>1. /\ types' = <<>> /\ UNCHANGED <<messages, root>>
          /\ services' = Append(services, added) \/ services' = joined
      BY <1>6 DEF AddMethod, file
    <2>2. in(added)
      BY <1>2
    <2>3. services \in Seq([name : STRING, methods : Seq(Seq(Names))])
      BY DEF TypeOK
    <2>4. ASSUME NEW i \in DOMAIN services
          PROVE  in([services[i] EXCEPT !.methods = Append(@, types)])
      <3> DEFINE methods == services[i].methods
      <3>1. methods \in Seq(Seq(Names)) /\ types \in Seq(Names)
        <4>1. services[i] \in [name : STRING, methods : Seq(Seq(Names))]
          BY <2>3, <2>4, ElementOfSeq, LenProperties
        <4> QED
          BY <4>1 DEF TypeOK
      <3>2. \A j \in DOMAIN methods : AllIn(methods[j], names)
        BY <1>2
      <3>3. [services[i] EXCEPT !.methods = Append(@, types)].methods = Append(methods, types)
        <4>1. services[i] \in [name : STRING, methods : Seq(Seq(Names))]
          BY <2>3, <2>4, ElementOfSeq, LenProperties
        <4> QED
          BY <4>1
      <3> HIDE DEF methods
      <3>4. \A j \in DOMAIN Append(methods, types) : AllIn(Append(methods, types)[j], names)
        BY <1>2, <3>1, <3>2
      <3> QED
        BY <3>3, <3>4
    <2>5. \A i \in DOMAIN services : in(services[i])
      BY <1>2
    <2>6. CASE services' = Append(services, added)
      <3>1. /\ DOMAIN services' = DOMAIN services \cup {Len(services) + 1}
            /\ \A i \in DOMAIN services : services'[i] = services[i]
            /\ services'[Len(services) + 1] = added
        BY <2>3, <2>6
      <3> HIDE DEF in, added
      <3>2. \A i \in DOMAIN services' : in(services'[i])
        BY <2>2, <2>5, <3>1
      <3> QED
        BY <1>2, <2>1, <3>2 DEF in, AllIn
    <2>7. CASE services' = joined
      <3>1. /\ DOMAIN services' = DOMAIN services
            /\ \A i \in DOMAIN services :
                 \/ services'[i] = services[i]
                 \/ services'[i] = [services[i] EXCEPT !.methods = Append(@, types)]
        BY <2>7
      <3> HIDE DEF in
      <3>2. \A i \in DOMAIN services' : in(services'[i])
        BY <2>4, <2>5, <3>1
      <3> QED
        BY <1>2, <2>1, <3>2 DEF in, AllIn
    <2> QED
      BY <2>1, <2>6, <2>7
  <1>7. CASE Declare
    <2>1. /\ stack # <<>> /\ UNCHANGED <<types, root, services>>
          /\ messages' = Append(messages, [name |-> TopNode.name, node |-> Top.node, fields |-> Top.fields])
      BY <1>7 DEF Declare, Inside, asked
    <2>2. FieldsIn(Top.fields, names)
      BY <1>1, <2>1, Popping DEF CallsIn, Top
    <2>3. /\ DOMAIN messages' = DOMAIN messages \cup {Len(messages) + 1}
          /\ \A i \in DOMAIN messages : messages'[i] = messages[i]
          /\ messages'[Len(messages) + 1].fields = Top.fields
      BY <2>1 DEF TypeOK
    <2> QED
      BY <1>2, <2>1, <2>2, <2>3
  <1>8. CASE Refused
    BY <1>3, <1>8, RefusalsKeep DEF asked, file
  <1>9. CASE \/ Ask \/ VisitScalar \/ VisitKnown \/ OpenMessage \/ FollowReference \/ OpenWrapper
             \/ EnterMember \/ LeaveMember \/ CloseWrapper \/ UNCHANGED vars
    BY <1>3, <1>9 DEF Ask, VisitScalar, VisitKnown, OpenMessage, FollowReference, OpenWrapper,
                     EnterMember, LeaveMember, CloseWrapper, vars, asked, file
  <1> QED
    BY <1>4, <1>5, <1>6, <1>7, <1>8, <1>9 DEF Next, Step, Finished, Refused

\* The calls of the next state hold given names.
LEMMA CallsStep ==
  ASSUME TypeOK, Nesting, Scoped, NamesResolve, [Next]_vars
  PROVE  CallsIn(declared \cup ancestors)'
  <1> DEFINE names == declared' \cup ancestors'
  <1>1. CallsIn(names)
    BY GivenGrows, AmongMore DEF Given, NamesResolve
  <1> HIDE DEF names
  <1>2. /\ \A i \in DOMAIN stack : FieldsIn(stack[i].fields, names)
        /\ \A i \in DOMAIN returned : TypeIn(returned[i].type, names)
    BY <1>1 DEF CallsIn
  <1>3. FieldsIn(<<>>, names)
    BY DEF FieldsIn
  <1> DEFINE Stacked == \A i \in DOMAIN stack' : FieldsIn(stack'[i].fields, names)
             Given1 == \A i \in DOMAIN returned' : TypeIn(returned'[i].type, names)
  <1> SUFFICES Stacked /\ Given1
    BY DEF CallsIn, FieldsIn, TypeIn, names
  <1>4. ASSUME NEW shape \in Shapes, Return(shape), TypeIn(shape.type, names)
        PROVE  Given1
    BY <1>4 DEF Return
  <1>5. UNCHANGED stack => Stacked
    BY <1>2
  <1>6. UNCHANGED returned \/ returned' = <<>> => Given1
    BY <1>2
  <1>7. stack # <<>> /\ stack' = Popped => Stacked
    BY <1>2, Popping
  <1>8. ASSUME NEW n \in Nodes, stack' = Append(stack, [node |-> n, fields |-> <<>>])
        PROVE  Stacked
    <2>1. /\ DOMAIN stack' = DOMAIN stack \cup {Len(stack) + 1}
          /\ \A i \in DOMAIN stack : stack'[i] = stack[i]
          /\ stack'[Len(stack) + 1].fields = <<>>
      BY <1>8, Pushing, OpenIsInside
    <2> QED
      BY <1>2, <1>3, <2>1
  <1> HIDE DEF Stacked, Given1
  <1>9. CASE Answer \/ Ask \/ AddMethod \/ SetRoot \/ FollowReference \/ EnterMember
    BY <1>5, <1>6, <1>9 DEF Answer, Ask, AddMethod, SetRoot, FollowReference, EnterMember, calls
  <1>10. CASE Refused \/ UNCHANGED vars
    BY <1>5, <1>6, <1>10, RefusalsKeep DEF vars, calls
  <1>11. CASE VisitScalar
    <2>1. ScalarShape(Visited.scalar) \in Shapes /\ TypeIn(ScalarShape(Visited.scalar).type, names)
      BY <1>11, VisitedNode, ScalarShapes DEF VisitScalar, Visiting, Visited, TypeIn
    <2> QED
      BY <1>4, <1>5, <1>11, <2>1 DEF VisitScalar
  <1>12. CASE VisitKnown
    <2>1. Message(Visited.name) \in Shapes /\ TypeIn(Message(Visited.name).type, names)
      BY <1>12, VisitedNode, MessageShapes DEF VisitKnown, Visiting, Known, TypeIn, names, file
    <2> QED
      BY <1>4, <1>5, <1>12, <2>1 DEF VisitKnown
  <1>13. CASE OpenMessage
    BY <1>6, <1>8, <1>13, VisitedNode DEF OpenMessage, Visiting
  <1>14. CASE OpenWrapper
    BY <1>6, <1>8, <1>14, VisitedNode DEF OpenWrapper, Visiting
  <1>15. CASE LeaveMember
    <2> DEFINE field == Field(TopNode.kind, NextMember, returned[1])
    <2>1. /\ stack # <<>> /\ TopNode.kind \in Named /\ returned # <<>> /\ returned' = <<>>
          /\ stack' = [stack EXCEPT ![Len(stack)].fields = Append(@, field)]
      BY <1>15 DEF LeaveMember, Inside
    <2>2. field \in Fields /\ field.type = returned[1].type
      BY <2>1, FieldShapes, ReturnedShape, MemberWaits, TopIsTyped
    <2>3. TypeIn(field.type, names)
      BY <1>2, <2>1, <2>2, ReturnedShape
    <2> HIDE DEF field
    <2>4. Top.fields \in Seq(Fields) /\ FieldsIn(Top.fields, names)
      BY <1>2, <2>1, TopIsTyped, Popping DEF Top
    <2>5. FieldsIn(Append(Top.fields, field), names)
      BY <2>2, <2>3, <2>4 DEF FieldsIn
    <2>6. Stacked
      BY <1>2, <2>1, <2>2, <2>5, Filling DEF Stacked
    <2> QED
      BY <1>6, <2>1, <2>6
  <1>16. CASE Declare
    <2>1. /\ stack # <<>> /\ stack' = Popped /\ Return(Message(TopNode.name))
          /\ TopNode.name \in names
      BY <1>16 DEF Declare, Inside, names
    <2>2. Message(TopNode.name) \in Shapes /\ TypeIn(Message(TopNode.name).type, names)
      BY <2>1, TopIsTyped, MessageShapes DEF TypeIn
    <2> QED
      BY <1>4, <1>7, <2>1, <2>2
  <1>17. CASE CloseWrapper
    <2> DEFINE shape == Wrapped(TopNode.kind, returned[1])
    <2>1. /\ stack # <<>> /\ stack' = Popped /\ Return(shape) /\ returned # <<>> /\ TopNode.kind \in Wrappers
      BY <1>17 DEF CloseWrapper, Inside
    <2>2. shape \in Shapes /\ shape.type.of = returned[1].type.of /\ shape.type.name = returned[1].type.name
      BY <2>1, ReturnedShape, WrappedShapes
    <2>3. TypeIn(shape.type, names)
      BY <1>2, <2>1, <2>2, ReturnedShape DEF TypeIn
    <2> HIDE DEF shape
    <2> QED
      BY <1>4, <1>7, <2>1, <2>2, <2>3
  <1> QED
    BY <1>9, <1>10, <1>11, <1>12, <1>13, <1>14, <1>15, <1>16, <1>17
       DEF Next, Step, Finished, Refused

----------------------------------------------------------------------------
(* The theorems *)

\* The inductive invariant holds before the first procedure.
LEMMA InvariantInit == Init => IInv
  BY TypeInit, NestingInit, ScopedInit, NamesInit DEF IInv

\* Every step keeps the inductive invariant.
LEMMA InvariantStep == IInv /\ [Next]_vars => IInv'
  BY TypeStep, NestingStep, ScopedStep, FileStep, CallsStep DEF IInv, NamesResolve

\* The inductive invariant holds of every projection, of every description.
THEOREM Invariant == Spec => []IInv
  BY InvariantInit, InvariantStep, PTL DEF Spec

\* Between any two steps a name is an ancestor exactly while its one message is
\* open, is declared at most once, and is one or the other if it was referred to.
THEOREM Walk == Spec => []WalkInv
  <1>1. IInv => WalkInv
    BY DEF IInv, Scoped, WalkInv
  <1> QED
    BY <1>1, Invariant, PTL

\* A file that is handed over declares every message it refers to: when all was
\* asked for no call is in progress, so no name is open and whatever has been
\* referred to is declared.
THEOREM Closed == Spec => []NothingDangles
  <1>1. IInv => NothingDangles
    <2> SUFFICES ASSUME IInv, at > Len(job)
                 PROVE  FileIn(declared)
      BY DEF NothingDangles, Succeeded
    <2>1. stack = <<>>
      BY DEF IInv, Nesting
    <2>2. ancestors = {}
      BY <2>1 DEF IInv, Scoped, ScopesClose, OpenFrames
    <2>3. declared \cup ancestors = declared
      BY <2>2
    <2> QED
      BY <2>3 DEF IInv, NamesResolve
  <1> QED
    BY <1>1, Invariant, PTL

\* The projector gives names out as DeclareOnce promises: it opens a name that is
\* neither open nor closed, closes one that is open, and no other step touches
\* either set.
THEOREM Implements == Spec => ImplementsDeclareOnce
  <1>1. Init => Catalogue!Init
    BY DEF Init, Catalogue!Init
  <1>2. IInv /\ [Next]_vars => [Catalogue!Next]_<<ancestors, declared>>
    <2> SUFFICES ASSUME IInv, [Next]_vars
                 PROVE  [Catalogue!Next]_<<ancestors, declared>>
      OBVIOUS
    <2>1. CASE OpenMessage
      <3>1. Visited.name \in Names /\ Catalogue!Open(Visited.name)
        BY <2>1, VisitedNode DEF IInv, OpenMessage, Visiting, Known, file, Catalogue!Open
      <3> QED
        BY <3>1 DEF Catalogue!Next
    <2>2. CASE Declare
      <3>1. stack # <<>> /\ TopNode.kind \in Named
        BY <2>2 DEF Declare, Inside
      <3>2. Len(stack) \in OpenFrames /\ NameAt(Len(stack)) = TopNode.name
        BY <3>1, Popping DEF IInv, OpenFrames, NameAt, Top, TopNode
      <3>3. TopNode.name \in ancestors /\ TopNode.name \in Names
        BY <3>1, <3>2, TopIsTyped DEF IInv, Scoped, ScopesClose
      <3>4. Catalogue!Close(TopNode.name)
        BY <2>2, <3>3 DEF Declare, Catalogue!Close
      <3> QED
        BY <3>3, <3>4 DEF Catalogue!Next
    <2>3. CASE OpenWrapper \/ LeaveMember \/ CloseWrapper
      BY <2>3 DEF OpenWrapper, LeaveMember, CloseWrapper, file
    <2> QED
      BY <2>1, <2>2, <2>3, OtherSteps
  <1> QED
    BY <1>1, <1>2, Invariant, PTL DEF Spec, ImplementsDeclareOnce, Catalogue!Spec

----------------------------------------------------------------------------
(* What a file says *)

\* Induction, over a set in place of a predicate: a set of numbers without a
\* least missing one misses none.
LEMMA SetInduction ==
  ASSUME NEW S, 0 \in S, \A n \in Nat : n \in S => n + 1 \in S
  PROVE  Nat \subseteq S
  <1> DEFINE R == OpToRel(<, Nat)
             T == Nat \ S
  <1>1. IsWellFoundedOn(R, Nat)
    BY NatLessThanWellFounded
  <1>2. SUFFICES ASSUME T # {} PROVE FALSE
    OBVIOUS
  <1>3. T \subseteq Nat
    OBVIOUS
  <1> HIDE DEF R, T
  <1>4. PICK x \in T : \A y \in T : ~(<<y, x>> \in R)
    BY <1>1, <1>2, <1>3, WFMin
  <1>5. x \in Nat /\ x \notin S /\ x # 0
    BY DEF T
  <1>6. x - 1 \in Nat /\ x - 1 \notin S
    BY <1>5
  <1>7. <<x - 1, x>> \in R
    BY <1>5, <1>6 DEF R, OpToRel
  <1> QED
    BY <1>4, <1>6, <1>7 DEF T

\* What Unwrapped says of a node, if f says what it does of the nodes inside.
Unwraps(f, n) ==
  IF Node[n].kind \in Wrappers THEN Around(Node[n].kind, f[Node[n].of])
  ELSE [core |-> n, maps |-> 0, list |-> FALSE]

\* f unwraps the nodes of less than k wrappers.
UnwrapsTo(f, k) == \A n \in Nodes : Depth[n] < k => f[n] = Unwraps(f, n)

\* Nodes of any number of wrappers can be unwrapped.
LEMMA UnwrapsExist ==
  \A k \in Nat : \E f : UnwrapsTo(f, k)
  <1> DEFINE N == {k \in Nat : \E f : UnwrapsTo(f, k)}
  <1>1. 0 \in N
    <2>1. UnwrapsTo([n \in Nodes |-> n], 0)
      BY WrapperAssumption DEF UnwrapsTo
    <2> QED
      BY <2>1
  <1>2. ASSUME NEW k \in Nat, k \in N PROVE k + 1 \in N
    <2>1. PICK f : UnwrapsTo(f, k)
      BY <1>2
    <2> DEFINE q == [n \in Nodes |-> Unwraps(f, n)]
    <2>2. ASSUME NEW n \in Nodes, Depth[n] < k + 1
          PROVE  q[n] = Unwraps(q, n)
      <3>1. CASE Node[n].kind \in Wrappers
        <4>1. Node[n].of \in Nodes
          BY <3>1, NodeAssumption
        <4>2. Depth[Node[n].of] < k
          BY <2>2, <3>1, <4>1, WrapperAssumption
        <4>3. f[Node[n].of] = q[Node[n].of]
          BY <2>1, <4>1, <4>2 DEF UnwrapsTo
        <4>4. q[n] = Unwraps(f, n)
          OBVIOUS
        <4> HIDE DEF q
        <4> QED
          BY <4>3, <4>4 DEF Unwraps
      <3>2. CASE Node[n].kind \notin Wrappers
        BY <3>2 DEF Unwraps
      <3> QED
        BY <3>1, <3>2
    <2> HIDE DEF q
    <2>3. UnwrapsTo(q, k + 1)
      BY <2>2 DEF UnwrapsTo
    <2> QED
      BY <2>3
  <1>3. Nat \subseteq N
    BY <1>1, <1>2, SetInduction
  <1> QED
    BY <1>3

\* And in one way.
LEMMA UnwrapsAgree ==
  ASSUME NEW f, NEW g, NEW k \in Nat, NEW m \in Nat, UnwrapsTo(f, k), UnwrapsTo(g, m),
         NEW n \in Nodes, Depth[n] < k, Depth[n] < m
  PROVE  f[n] = g[n]
  <1> DEFINE N == {d \in Nat : \A x \in Nodes : (Depth[x] < d /\ Depth[x] < k /\ Depth[x] < m) => f[x] = g[x]}
  <1>1. 0 \in N
    BY WrapperAssumption
  <1>2. ASSUME NEW d \in Nat, d \in N PROVE d + 1 \in N
    <2> SUFFICES ASSUME NEW x \in Nodes, Depth[x] < d + 1, Depth[x] < k, Depth[x] < m
                 PROVE  f[x] = g[x]
      OBVIOUS
    <2>1. f[x] = Unwraps(f, x) /\ g[x] = Unwraps(g, x)
      BY DEF UnwrapsTo
    <2>2. CASE Node[x].kind \in Wrappers
      <3>1. Node[x].of \in Nodes
        BY <2>2, NodeAssumption
      <3>2. Depth[Node[x].of] < d /\ Depth[Node[x].of] < k /\ Depth[Node[x].of] < m
        BY <2>2, <3>1, WrapperAssumption
      <3>3. f[Node[x].of] = g[Node[x].of]
        BY <1>2, <3>1, <3>2
      <3> QED
        BY <2>1, <3>3 DEF Unwraps
    <2>3. CASE Node[x].kind \notin Wrappers
      BY <2>1, <2>3 DEF Unwraps
    <2> QED
      BY <2>2, <2>3
  <1>3. Nat \subseteq N
    BY <1>1, <1>2, SetInduction
  <1>4. Depth[n] + 1 \in N /\ Depth[n] < Depth[n] + 1
    BY <1>3, WrapperAssumption
  <1> QED
    BY <1>4

\* So Unwrapped is what its definition says, at every node.
LEMMA UnwrappedIs ==
  \A n \in Nodes : Unwrapped[n] = Unwraps(Unwrapped, n)
  <1> DEFINE At(n) == CHOOSE f : UnwrapsTo(f, Depth[n] + 1)
             G == [n \in Nodes |-> At(n)[n]]
  <1>1. ASSUME NEW n \in Nodes
        PROVE  UnwrapsTo(At(n), Depth[n] + 1) /\ Depth[n] \in Nat /\ Depth[n] + 1 \in Nat
    <2>1. Depth[n] \in Nat /\ Depth[n] + 1 \in Nat
      BY WrapperAssumption
    <2>2. \E f : UnwrapsTo(f, Depth[n] + 1)
      BY <2>1, UnwrapsExist
    <2> QED
      BY <2>1, <2>2
  <1> HIDE DEF At
  <1>2. ASSUME NEW n \in Nodes PROVE G[n] = Unwraps(G, n)
    <2>1. At(n)[n] = Unwraps(At(n), n)
      BY <1>1 DEF UnwrapsTo
    <2>2. CASE Node[n].kind \in Wrappers
      <3>1. Node[n].of \in Nodes
        BY <2>2, NodeAssumption
      <3> DEFINE x == Node[n].of
      <3>2. /\ UnwrapsTo(At(x), Depth[x] + 1) /\ UnwrapsTo(At(n), Depth[n] + 1)
            /\ Depth[x] < Depth[x] + 1 /\ Depth[x] < Depth[n] + 1
            /\ Depth[x] + 1 \in Nat /\ Depth[n] + 1 \in Nat
        BY <1>1, <2>2, <3>1, WrapperAssumption
      <3>3. At(n)[x] = At(x)[x]
        BY <3>1, <3>2, UnwrapsAgree
      <3>4. G[n] = At(n)[n] /\ G[x] = At(x)[x]
        BY <3>1
      <3> HIDE DEF G
      <3> QED
        BY <2>1, <2>2, <3>3, <3>4 DEF Unwraps
    <2>3. CASE Node[n].kind \notin Wrappers
      BY <2>1, <2>3 DEF Unwraps
    <2> QED
      BY <2>2, <2>3
  <1>3. G = [n \in Nodes |-> G[n]]
    OBVIOUS
  <1> HIDE DEF G
  <1>4. G = [n \in Nodes |-> Unwraps(G, n)]
    BY <1>2, <1>3
  <1>5. Unwrapped = [n \in Nodes |-> Unwraps(Unwrapped, n)]
    BY <1>4 DEF Unwrapped, Unwraps
  <1> QED
    BY <1>5

----------------------------------------------------------------------------
(* What a message says *)

\* The node whose shape the frame i waits for.
ChildAt(i) ==
  LET n == Node[stack[i].node]
  IN  IF n.kind \in Wrappers THEN n.of ELSE n.members[Len(stack[i].fields) + 1].of

\* What is reached from a reference by following it: the message behind it, if
\* one is right behind it.
Leads(n, child) ==
  /\ Node[child].kind = "reference" /\ Node[child].of # NoNode
  /\ Node[Node[child].of].kind \in Named => n = Node[child].of

\* A shape says what a node does.
Tells(shape, n) ==
  /\ SaysType(shape.type, n)
  /\ shape.repeated <=> Unwrapped[n].list
  /\ shape.nullable <=> Node[n].kind = "nullable"

\* An open message's fields are what its first members say.
Described(i) ==
  LET n == Node[stack[i].node]
  IN  /\ Len(stack[i].fields) <= Len(n.members)
      /\ \A j \in DOMAIN stack[i].fields : Says(n.kind, stack[i].fields[j], n.members[j])

\* The stack is of messages and wrappers, each of them what the one below waits for
\* or leads to, and every open message is described so far.
StackSays ==
  /\ \A i \in DOMAIN stack : Node[stack[i].node].kind \in Named \cup Wrappers
  /\ \A i \in OpenFrames : Described(i)
  /\ \A i \in DOMAIN stack : i < Len(stack) =>
       \/ stack[i + 1].node = ChildAt(i)
       \/ Node[stack[i + 1].node].kind \in Named /\ Leads(stack[i + 1].node, ChildAt(i))

\* The call to make is about what the last one in progress waits for, or about
\* what that leads to, and a shape that was returned says what was waited for.
CallsSay ==
  /\ StackSays
  /\ (visit # <<>> /\ stack # <<>>) =>
       IF visit[1].message THEN Leads(visit[1].node, ChildAt(Len(stack)))
       ELSE visit[1].node = ChildAt(Len(stack))
  /\ (returned # <<>> /\ stack # <<>>) => Tells(returned[1], ChildAt(Len(stack)))

\* The import is there exactly when an instant was met.
ImportsHeld ==
  imports # {} <=>
    \/ \E i \in DOMAIN messages : HasInstant(messages[i].fields)
    \/ \E i \in OpenFrames : HasInstant(stack[i].fields)
    \/ returned # <<>> /\ IsInstant(returned[1].type)

\* A node that is no wrapper is what is inside.
LEMMA NotWrapped ==
  ASSUME NEW n \in Nodes, Node[n].kind \notin Wrappers
  PROVE  Unwrapped[n] = [core |-> n, maps |-> 0, list |-> FALSE] /\ Core(n) = n
  BY UnwrappedIs DEF Unwraps, Core

\* A scalar's shape says what it does.
LEMMA ScalarTells ==
  ASSUME NEW n \in Nodes, Node[n].kind = "scalar"
  PROVE  Tells(ScalarShape(Node[n].scalar), n)
  <1>1. Unwrapped[n] = [core |-> n, maps |-> 0, list |-> FALSE] /\ Core(n) = n
    BY NotWrapped DEF Wrappers
  <1> QED
    BY <1>1 DEF Tells, SaysType, ScalarShape, Shape, Type, Named

\* A message's name says what its node does, or the reference that has the name
\* or led to the message.
LEMMA MessageTells ==
  ASSUME NEW n \in Nodes, NEW x \in Nodes, Node[n].kind \in Named \cup {"reference"},
         x = n \/ Leads(x, n)
  PROVE  Tells(Message(Node[x].name), n)
  <1>1. Unwrapped[n] = [core |-> n, maps |-> 0, list |-> FALSE] /\ Core(n) = n
    BY NotWrapped DEF Wrappers, Named
  <1>2. Message(Node[x].name) = [type |-> [of |-> "message", name |-> Node[x].name, maps |-> 0],
                                 repeated |-> FALSE, nullable |-> FALSE]
    BY DEF Message, Shape, Type
  <1>3. CASE x = n
    BY <1>1, <1>2, <1>3 DEF Tells, SaysType, Named
  <1>4. CASE Leads(x, n)
    BY <1>1, <1>2, <1>4 DEF Tells, SaysType, Named, Leads
  <1> QED
    BY <1>3, <1>4

\* What a wrapper makes of the shape inside says what the wrapper does.
LEMMA WrappedTells ==
  ASSUME NEW n \in Nodes, Node[n].kind \in Wrappers, NEW shape \in Shapes, Tells(shape, Node[n].of),
         Node[n].kind \in {"list", "map"} => ~shape.repeated
  PROVE  Tells(Wrapped(Node[n].kind, shape), n)
  <1> DEFINE inner == Unwrapped[Node[n].of]
             kind == Node[n].kind
             made == Wrapped(kind, shape)
  <1>1. Unwrapped[n] = Around(kind, inner)
    BY UnwrappedIs DEF Unwraps
  <1>2. /\ Core(n) = Core(Node[n].of)
        /\ Unwrapped[n].maps = IF kind = "map" THEN inner.maps + 1 ELSE inner.maps
        /\ Unwrapped[n].list <=> (inner.list \/ kind = "list")
    <2>1. \A k, r : /\ Around(k, r).core = r.core
                    /\ Around(k, r).maps = IF k = "map" THEN r.maps + 1 ELSE r.maps
                    /\ Around(k, r).list <=> (r.list \/ k = "list")
      BY DEF Around
    <2> HIDE DEF inner, kind
    <2>2. /\ Unwrapped[n].core = inner.core
          /\ Unwrapped[n].maps = IF kind = "map" THEN inner.maps + 1 ELSE inner.maps
          /\ Unwrapped[n].list <=> (inner.list \/ kind = "list")
      BY <1>1, <2>1
    <2> QED
      BY <2>2 DEF Core, inner
  <1>3. /\ SaysType(shape.type, Node[n].of) /\ (shape.repeated <=> inner.list)
        /\ shape.type.maps = inner.maps /\ shape.repeated \in BOOLEAN
    BY DEF Tells, SaysType, Shapes
  <1>4. made.type.of = shape.type.of /\ made.type.name = shape.type.name
    BY WrappedShapes
  <1>5. /\ made.type.maps = IF kind = "map" THEN shape.type.maps + 1 ELSE shape.type.maps
        /\ made.repeated <=> (shape.repeated \/ kind = "list")
        /\ made.nullable <=> kind = "nullable"
    <2>1. CASE kind = "list"
      BY <1>3, <2>1 DEF Wrapped, Shape, Shapes, Types
    <2>2. CASE kind = "map"
      BY <1>3, <2>2 DEF Wrapped, Shape, Shapes, Types
    <2>3. CASE kind = "nullable"
      BY <1>3, <2>3 DEF Wrapped, Shape, Shapes, Types
    <2> QED
      BY <2>1, <2>2, <2>3 DEF Wrappers
  <1> HIDE DEF inner, kind, made
  <1>6. SaysType(made.type, n)
    BY <1>2, <1>3, <1>4, <1>5 DEF SaysType, inner
  <1>7. (made.repeated <=> Unwrapped[n].list) /\ (made.nullable <=> kind = "nullable")
    BY <1>2, <1>3, <1>5
  <1> QED
    BY <1>6, <1>7 DEF Tells, made, kind

\* A field says what its member does, if the member's shape says what its node does.
LEMMA FieldSays ==
  ASSUME NEW kind \in Named, NEW shape \in Shapes,
         NEW member \in [name : STRING, number : Int, optional : BOOLEAN, of : Nodes],
         Tells(shape, member.of)
  PROVE  Says(kind, Field(kind, member, shape), member)
  <1>1. shape.repeated \in BOOLEAN /\ shape.nullable \in BOOLEAN
    BY DEF Shapes
  <1> QED
    BY <1>1 DEF Says, Field, Tells

\* The type an integer becomes is the narrowest that holds it.
LEMMA IntegersHold ==
  \A precision \in DOMAIN Bits : Narrowest(IntegerType(precision), precision)
  BY DEF Bits, Narrowest, Holds, IntegerType

----------------------------------------------------------------------------
(* The calls in progress, and what they have said so far *)

\* The frame on top, as one of the stack.
LEMMA TopFrame ==
  ASSUME TypeOK, stack # <<>>
  PROVE  /\ Len(stack) \in Nat \ {0} /\ DOMAIN stack = 1..Len(stack) /\ Len(stack) \in DOMAIN stack
         /\ Top = stack[Len(stack)] /\ TopNode = Node[stack[Len(stack)].node]
         /\ \A i \in DOMAIN stack : stack[i].node \in Nodes /\ stack[i].fields \in Seq(Fields)
  <1>1. stack \in Seq(Frames)
    BY DEF TypeOK, Frames
  <1>2. Len(stack) \in Nat \ {0} /\ DOMAIN stack = 1..Len(stack) /\ Len(stack) \in DOMAIN stack
    BY <1>1, Popping
  <1>3. \A i \in DOMAIN stack : stack[i] \in Frames
    BY <1>1, <1>2, ElementOfSeq
  <1> QED
    BY <1>2, <1>3 DEF Top, TopNode, Frames

\* What a frame waits for is a node, and a member if the frame is a message.
LEMMA ChildIsANode ==
  ASSUME TypeOK, NEW i \in DOMAIN stack, stack # <<>>,
         \/ Node[stack[i].node].kind \in Wrappers
         \/ Len(stack[i].fields) < Len(Node[stack[i].node].members)
  PROVE  ChildAt(i) \in Nodes
  <1> DEFINE n == Node[stack[i].node]
             S == [name : STRING, number : Int, optional : BOOLEAN, of : Nodes]
  <1>1. stack[i].node \in Nodes /\ stack[i].fields \in Seq(Fields)
    BY TopFrame
  <1>2. n.members \in Seq(S) /\ (n.kind \in Wrappers => n.of \in Nodes)
    BY <1>1, NodeAssumption
  <1>3. CASE n.kind \in Wrappers
    BY <1>2, <1>3 DEF ChildAt
  <1>4. CASE n.kind \notin Wrappers
    <2>1. Len(stack[i].fields) + 1 \in 1..Len(n.members)
      BY <1>1, <1>2, <1>4
    <2>2. n.members[Len(stack[i].fields) + 1] \in S
      BY <1>2, <2>1, ElementOfSeq
    <2> QED
      BY <1>4, <2>2 DEF ChildAt
  <1> QED
    BY <1>3, <1>4

\* What the top frame waits for, while a call or a shape is under way.
LEMMA TopChild ==
  ASSUME TypeOK, Nesting, StackSays, stack # <<>>, visit # <<>> \/ returned # <<>>
  PROVE  ChildAt(Len(stack)) \in Nodes
  <1>1. Len(stack) \in DOMAIN stack
    BY TopFrame
  <1>2. Node[stack[Len(stack)].node].kind \in Named \cup Wrappers
    BY <1>1 DEF StackSays
  <1>3. Len(stack) \in OpenFrames =>
          Len(stack[Len(stack)].fields) < Len(Node[stack[Len(stack)].node].members)
    BY DEF Nesting
  <1> QED
    BY <1>1, <1>2, <1>3, ChildIsANode DEF OpenFrames

\* A frame that stays waits for what it did, and a new one is described so far.
LEMMA FrameStays ==
  ASSUME NEW i, stack'[i] = stack[i]
  PROVE  ChildAt(i)' = ChildAt(i) /\ (Described(i) => Described(i)')
  BY DEF ChildAt, Described

\* A frame without fields is described so far, and one of a wrapper waits for what
\* is inside.
LEMMA FrameBegins ==
  ASSUME NEW i, NEW n \in Nodes, stack'[i].fields = <<>>, stack'[i].node = n
  PROVE  Described(i)' /\ (Node[n].kind \in Wrappers => ChildAt(i)' = Node[n].of)
  <1>1. Len(Node[n].members) \in Nat
    BY NodeAssumption
  <1>2. Described(i)'
    BY <1>1 DEF Described
  <1>3. Node[n].kind \in Wrappers => ChildAt(i)' = Node[n].of
    BY DEF ChildAt
  <1> QED
    BY <1>2, <1>3

\* A frame more, of what the last one waits for.
LEMMA PushedSays ==
  ASSUME TypeOK, StackSays, NEW n \in Nodes, Node[n].kind \in Named \cup Wrappers,
         stack # <<>> => \/ n = ChildAt(Len(stack))
                         \/ Node[n].kind \in Named /\ Leads(n, ChildAt(Len(stack))),
         stack' = Append(stack, [node |-> n, fields |-> <<>>])
  PROVE  /\ StackSays'
         /\ stack' # <<>>
         /\ Len(stack') = Len(stack) + 1
         /\ \A i : i = Len(stack) + 1 => (Node[n].kind \in Wrappers => ChildAt(i)' = Node[n].of)
  <1> DEFINE top == Len(stack) + 1
  <1>1. /\ DOMAIN stack = 1..Len(stack) /\ Len(stack) \in Nat /\ Len(stack') = top
        /\ DOMAIN stack' = 1..top
        /\ \A i \in DOMAIN stack : stack'[i] = stack[i]
        /\ stack'[top] = [node |-> n, fields |-> <<>>]
    BY Pushing, OpenIsInside
  <1>2. \A i \in DOMAIN stack : ChildAt(i)' = ChildAt(i)
    BY <1>1 DEF ChildAt
  <1>3. \A i \in DOMAIN stack' : Node[stack'[i].node].kind \in Named \cup Wrappers
    BY <1>1 DEF StackSays
  <1>4. ASSUME NEW i \in OpenFrames' PROVE Described(i)'
    <2>1. CASE i \in DOMAIN stack
      <3>1. i \in OpenFrames
        BY <1>1, <1>4, <2>1 DEF OpenFrames
      <3> QED
        BY <1>1, <2>1, <3>1 DEF StackSays, Described
    <2>2. CASE i = top
      <3>1. stack'[i].fields = <<>> /\ stack'[i].node = n
        BY <1>1, <2>2
      <3> QED
        BY <3>1, FrameBegins
    <2> QED
      BY <1>1, <1>4, <2>1, <2>2 DEF OpenFrames
  <1>5. ASSUME NEW i \in DOMAIN stack', i < Len(stack')
        PROVE  \/ stack'[i + 1].node = ChildAt(i)'
               \/ Node[stack'[i + 1].node].kind \in Named /\ Leads(stack'[i + 1].node, ChildAt(i)')
    <2>1. i \in DOMAIN stack /\ ChildAt(i)' = ChildAt(i)
      BY <1>1, <1>2, <1>5
    <2>2. CASE i = Len(stack)
      <3>1. stack # <<>> /\ stack'[i + 1].node = n
        BY <1>1, <2>1, <2>2
      <3> QED
        BY <2>1, <2>2, <3>1
    <2>3. CASE i < Len(stack)
      <3>1. i + 1 \in DOMAIN stack /\ stack'[i + 1] = stack[i + 1]
        BY <1>1, <2>1, <2>3
      <3> QED
        BY <2>1, <2>3, <3>1 DEF StackSays
    <2> QED
      BY <1>1, <2>1, <2>2, <2>3
  <1>6. StackSays'
    BY <1>3, <1>4, <1>5 DEF StackSays, Leads
  <1>7. \A i : i = top => (Node[n].kind \in Wrappers => ChildAt(i)' = Node[n].of)
    <2> TAKE i
    <2> HAVE i = top
    <2>1. stack'[i].fields = <<>> /\ stack'[i].node = n
      BY <1>1
    <2> QED
      BY <2>1, FrameBegins
  <1> QED
    BY <1>1, <1>6, <1>7

\* A frame less.
LEMMA PoppedSays ==
  ASSUME TypeOK, StackSays, stack # <<>>, stack' = Popped
  PROVE  /\ StackSays'
         /\ Len(stack') = Len(stack) - 1
         /\ \A i \in DOMAIN stack' : i \in DOMAIN stack /\ ChildAt(i)' = ChildAt(i)
  <1>1. /\ DOMAIN stack = 1..Len(stack) /\ Len(stack) \in Nat \ {0} /\ Len(stack') = Len(stack) - 1
        /\ DOMAIN stack' = 1..(Len(stack) - 1)
        /\ \A i \in DOMAIN stack' : i \in DOMAIN stack /\ stack'[i] = stack[i]
    BY Popping, TopFrame
  <1>2. \A i \in DOMAIN stack' : ChildAt(i)' = ChildAt(i)
    BY <1>1 DEF ChildAt
  <1>3. \A i \in DOMAIN stack' : Node[stack'[i].node].kind \in Named \cup Wrappers
    BY <1>1 DEF StackSays
  <1>4. \A i \in OpenFrames' : Described(i)'
    BY <1>1 DEF StackSays, Described, OpenFrames
  <1>5. ASSUME NEW i \in DOMAIN stack', i < Len(stack')
        PROVE  \/ stack'[i + 1].node = ChildAt(i)'
               \/ Node[stack'[i + 1].node].kind \in Named /\ Leads(stack'[i + 1].node, ChildAt(i)')
    <2>1. /\ i \in DOMAIN stack /\ i < Len(stack) /\ ChildAt(i)' = ChildAt(i)
          /\ i + 1 \in DOMAIN stack'
      BY <1>1, <1>2, <1>5
    <2>2. stack'[i + 1] = stack[i + 1]
      BY <1>1, <2>1
    <2> QED
      BY <2>1, <2>2 DEF StackSays
  <1> QED
    BY <1>1, <1>2, <1>3, <1>4, <1>5 DEF StackSays, Leads

\* A field more in the top frame.
LEMMA FilledSays ==
  ASSUME TypeOK, StackSays, stack # <<>>, TopNode.kind \in Named, NEW field \in Fields,
         Len(Top.fields) < Len(TopNode.members), Says(TopNode.kind, field, NextMember),
         stack' = [stack EXCEPT ![Len(stack)].fields = Append(@, field)]
  PROVE  StackSays'
  <1>1. /\ DOMAIN stack = 1..Len(stack) /\ Len(stack) \in Nat \ {0} /\ Len(stack) \in DOMAIN stack
        /\ Top = stack[Len(stack)] /\ TopNode = Node[stack[Len(stack)].node]
        /\ Top.fields \in Seq(Fields)
    BY TopFrame
  <1>2. /\ Len(stack') = Len(stack) /\ DOMAIN stack' = DOMAIN stack
        /\ \A i \in DOMAIN stack : i # Len(stack) => stack'[i] = stack[i]
        /\ stack'[Len(stack)].node = Top.node
        /\ stack'[Len(stack)].fields = Append(Top.fields, field)
    BY Filling
  <1>3. \A i \in DOMAIN stack : stack'[i].node = stack[i].node
    BY <1>1, <1>2
  <1>4. OpenFrames' = OpenFrames
    BY <1>2, <1>3 DEF OpenFrames
  <1>5. ASSUME NEW i \in OpenFrames PROVE Described(i)'
    <2>1. i \in DOMAIN stack /\ Described(i)
      BY <1>5 DEF StackSays, OpenFrames
    <2>2. CASE i # Len(stack)
      BY <1>2, <2>1, <2>2 DEF Described
    <2>3. CASE i = Len(stack)
      <3> DEFINE fields == Top.fields
                 members == TopNode.members
      <3>1. /\ Len(fields) <= Len(members) /\ Len(fields) \in Nat /\ Len(members) \in Nat
            /\ \A j \in DOMAIN fields : Says(TopNode.kind, fields[j], members[j])
            /\ DOMAIN fields = 1..Len(fields) /\ fields \in Seq(Fields)
        <4>1. TopNode.members \in Seq([name : STRING, number : Int, optional : BOOLEAN, of : Nodes])
          BY TopIsTyped, NodeAssumption DEF TopNode
        <4>2. Len(TopNode.members) \in Nat
          BY <4>1
        <4>3. Len(fields) \in Nat /\ DOMAIN fields = 1..Len(fields)
          BY <1>1, LenProperties
        <4> QED
          BY <1>1, <2>1, <2>3, <4>2, <4>3 DEF Described
      <3>2. /\ stack'[i].fields = Append(fields, field) /\ Node[stack'[i].node] = TopNode
        BY <1>1, <1>2, <2>3 DEF TopNode
      <3>3. NextMember = members[Len(fields) + 1]
        BY DEF NextMember
      <3>4. /\ Len(Append(fields, field)) = Len(fields) + 1
            /\ DOMAIN Append(fields, field) = 1..(Len(fields) + 1)
            /\ \A j \in 1..Len(fields) : Append(fields, field)[j] = fields[j]
            /\ Append(fields, field)[Len(fields) + 1] = field
        BY <3>1
      <3> HIDE DEF fields, members
      <3>5. Len(Append(fields, field)) <= Len(members)
        BY <3>1, <3>4 DEF fields, members
      <3>6. \A j \in DOMAIN Append(fields, field) :
              Says(TopNode.kind, Append(fields, field)[j], members[j])
        <4> TAKE j \in DOMAIN Append(fields, field)
        <4>1. j \in 1..Len(fields) \/ j = Len(fields) + 1
          BY <3>1, <3>4
        <4> QED
          BY <3>1, <3>3, <3>4, <4>1
      <3> QED
        BY <3>2, <3>5, <3>6 DEF Described, members
    <2> QED
      BY <2>2, <2>3
  <1>6. ASSUME NEW i \in DOMAIN stack', i < Len(stack')
        PROVE  \/ stack'[i + 1].node = ChildAt(i)'
               \/ Node[stack'[i + 1].node].kind \in Named /\ Leads(stack'[i + 1].node, ChildAt(i)')
    <2>1. /\ i \in DOMAIN stack /\ i < Len(stack) /\ i # Len(stack) /\ i + 1 \in DOMAIN stack
      BY <1>1, <1>2, <1>6
    <2>2. stack'[i] = stack[i] /\ stack'[i + 1].node = stack[i + 1].node
      BY <1>2, <1>3, <2>1
    <2>3. ChildAt(i)' = ChildAt(i)
      BY <2>2, FrameStays
    <2> QED
      BY <2>1, <2>2, <2>3 DEF StackSays
  <1> QED
    BY <1>2, <1>3, <1>4, <1>5, <1>6 DEF StackSays, Leads

\* Nothing is being said at first.
LEMMA SayingInit == Init => CallsSay /\ MessagesSayTheirShapes /\ ImportsHeld
  BY DEF Init, CallsSay, StackSays, OpenFrames, MessagesSayTheirShapes, ImportsHeld, HasInstant

\* Every step keeps the calls in progress about what was waited for.
LEMMA SayingStep ==
  ASSUME TypeOK, Nesting, CallsSay, [Next]_vars
  PROVE  CallsSay'
  <1>0. StackSays
    BY DEF CallsSay
  <1>a. UNCHANGED stack => StackSays' /\ \A i \in DOMAIN stack : ChildAt(i)' = ChildAt(i)
    <2> HAVE UNCHANGED stack
    <2>1. \A i \in DOMAIN stack : ChildAt(i)' = ChildAt(i)
      BY FrameStays
    <2> QED
      BY <1>0, <2>1 DEF StackSays, OpenFrames, Described, Leads, ChildAt
  <1>b. \A i \in Nodes, m \in BOOLEAN :
          Visit(i, m) => visit' # <<>> /\ visit'[1].node = i /\ visit'[1].message = m
    BY Visits
  <1>c. stack # <<>> => Len(stack) \in DOMAIN stack
    BY TopFrame
  <1>1. CASE Refused \/ UNCHANGED vars
    <2>1. UNCHANGED <<stack, visit, returned>>
      BY <1>1, RefusalsKeep DEF calls, vars
    <2> QED
      BY <1>0, <1>a, <1>c, <2>1 DEF CallsSay, Tells, SaysType, Leads
  <1>2. CASE Ask \/ Answer \/ AddMethod \/ SetRoot
    <2>1. stack = <<>> /\ stack' = <<>>
      BY <1>2 DEF Ask, Answer, AddMethod, SetRoot, Between, calls
    <2> QED
      BY <1>a, <2>1 DEF CallsSay
  <1>3. CASE VisitScalar
    <2>1. /\ visit # <<>> /\ ~visit[1].message /\ Visited.kind = "scalar" /\ UNCHANGED stack
          /\ visit' = <<>> /\ returned' = <<ScalarShape(Visited.scalar)>>
      BY <1>3 DEF VisitScalar, Visiting, Visited, Return
    <2>2. visit[1].node \in Nodes /\ Visited = Node[visit[1].node]
      BY <2>1, VisitedNode DEF Visited
    <2>3. stack # <<>> => Tells(returned'[1], ChildAt(Len(stack)))
      BY <2>1, <2>2, ScalarTells DEF CallsSay
    <2> QED
      BY <1>a, <1>c, <2>1, <2>3 DEF CallsSay, Tells, SaysType
  <1>4. CASE VisitKnown
    <2>1. /\ visit # <<>> /\ Visited.kind \in Named \cup {"reference"} /\ UNCHANGED stack
          /\ visit' = <<>> /\ returned' = <<Message(Visited.name)>>
      BY <1>4 DEF VisitKnown, Visiting, Visited, Return
    <2>2. visit[1].node \in Nodes /\ Visited = Node[visit[1].node]
      BY <2>1, VisitedNode DEF Visited
    <2>3. ASSUME stack # <<>> PROVE Tells(returned'[1], ChildAt(Len(stack)))
      <3>1. ChildAt(Len(stack)) \in Nodes
        BY <1>0, <2>1, <2>3, TopChild
      <3>2. visit[1].node = ChildAt(Len(stack)) \/ Leads(visit[1].node, ChildAt(Len(stack)))
        BY <2>1, <2>3 DEF CallsSay
      <3>3. Node[ChildAt(Len(stack))].kind \in Named \cup {"reference"}
        BY <2>1, <2>2, <3>2 DEF Leads
      <3>4. Tells(Message(Node[visit[1].node].name), ChildAt(Len(stack)))
        BY <2>2, <3>1, <3>2, <3>3, MessageTells
      <3> QED
        BY <2>1, <2>2, <3>4
    <2> QED
      BY <1>a, <1>c, <2>1, <2>3 DEF CallsSay, Tells, SaysType
  <1>5. CASE OpenMessage
    <2>1. /\ visit # <<>> /\ Visited.kind \in Named /\ visit' = <<>> /\ UNCHANGED returned
          /\ stack' = Append(stack, [node |-> visit[1].node, fields |-> <<>>])
      BY <1>5 DEF OpenMessage, Visiting, Visited
    <2>2. visit[1].node \in Nodes /\ Visited = Node[visit[1].node] /\ returned = <<>>
      BY <2>1, VisitedNode DEF Visited, Nesting
    <2>3. stack # <<>> => \/ visit[1].node = ChildAt(Len(stack))
                          \/ Leads(visit[1].node, ChildAt(Len(stack)))
      BY <2>1 DEF CallsSay
    <2>4. StackSays'
      BY <1>0, <2>1, <2>2, <2>3, PushedSays
    <2> QED
      BY <2>1, <2>2, <2>4 DEF CallsSay
  <1>6. CASE FollowReference
    <2>1. /\ visit # <<>> /\ Visited.kind = "reference" /\ Visited.of # NoNode
          /\ Visit(Visited.of, TRUE) /\ UNCHANGED <<stack, returned>>
      BY <1>6 DEF FollowReference, Visiting, Visited
    <2>2. visit[1].node \in Nodes /\ Visited = Node[visit[1].node] /\ returned = <<>>
      BY <2>1, VisitedNode DEF Visited, Nesting
    <2>3. Visited.of \in Nodes
      BY <2>1, <2>2, NodeAssumption
    <2>4. visit' # <<>> /\ visit'[1].node = Visited.of /\ visit'[1].message
      BY <1>b, <2>1, <2>3
    <2>5. ASSUME stack # <<>> PROVE Leads(visit'[1].node, ChildAt(Len(stack)))
      <3>1. visit[1].node = ChildAt(Len(stack)) \/ Leads(visit[1].node, ChildAt(Len(stack)))
        BY <2>1, <2>5 DEF CallsSay
      <3>2. CASE visit[1].node = ChildAt(Len(stack))
        BY <2>1, <2>2, <2>4, <3>2 DEF Leads
      <3>3. CASE Leads(visit[1].node, ChildAt(Len(stack)))
        BY <2>1, <2>2, <3>3 DEF Leads, Named
      <3> QED
        BY <3>1, <3>2, <3>3
    <2> QED
      BY <1>a, <1>c, <2>1, <2>2, <2>4, <2>5 DEF CallsSay, Leads
  <1>7. CASE OpenWrapper
    <2>1. /\ visit # <<>> /\ Visited.kind \in Wrappers /\ ~visit[1].message
          /\ Visit(Visited.of, FALSE) /\ UNCHANGED returned
          /\ stack' = Append(stack, [node |-> visit[1].node, fields |-> <<>>])
      BY <1>7 DEF OpenWrapper, Visiting, Visited
    <2>2. visit[1].node \in Nodes /\ Visited = Node[visit[1].node] /\ returned = <<>>
      BY <2>1, VisitedNode DEF Visited, Nesting
    <2>3. stack # <<>> => visit[1].node = ChildAt(Len(stack))
      BY <2>1 DEF CallsSay
    <2>4. /\ StackSays' /\ Len(stack') = Len(stack) + 1
          /\ \A i : i = Len(stack) + 1 => ChildAt(i)' = Visited.of
      BY <1>0, <2>1, <2>2, <2>3, PushedSays
    <2>5. visit' # <<>> /\ visit'[1].node = Visited.of /\ ~visit'[1].message
      <3>1. Visited.of \in Nodes
        BY <2>1, <2>2, NodeAssumption
      <3> QED
        BY <1>b, <2>1, <3>1
    <2> QED
      BY <2>1, <2>2, <2>4, <2>5 DEF CallsSay
  <1>8. CASE EnterMember
    <2>1. /\ stack # <<>> /\ TopNode.kind \in Named /\ Visit(NextMember.of, FALSE)
          /\ UNCHANGED <<stack, returned>> /\ returned = <<>> /\ Len(Top.fields) < Len(TopNode.members)
      BY <1>8 DEF EnterMember, Inside, Remaining
    <2>2. ChildAt(Len(stack)) = NextMember.of
      BY <2>1, TopFrame DEF ChildAt, NextMember, Top, TopNode, Named, Wrappers
    <2>3. visit' # <<>> /\ visit'[1].node = NextMember.of /\ ~visit'[1].message
      <3>1. NextMember.of \in Nodes
        BY <2>1, TopIsTyped
      <3> QED
        BY <1>b, <2>1, <3>1
    <2> QED
      BY <1>a, <1>c, <2>1, <2>2, <2>3 DEF CallsSay
  <1>9. CASE LeaveMember
    <2> DEFINE field == Field(TopNode.kind, NextMember, returned[1])
    <2>1. /\ stack # <<>> /\ TopNode.kind \in Named /\ returned # <<>> /\ visit' = <<>> /\ returned' = <<>>
          /\ stack' = [stack EXCEPT ![Len(stack)].fields = Append(@, field)]
      BY <1>9 DEF LeaveMember, Inside
    <2>2. /\ Len(Top.fields) < Len(TopNode.members)
          /\ NextMember \in [name : STRING, number : Int, optional : BOOLEAN, of : Nodes]
          /\ returned[1] \in Shapes
      BY <2>1, MemberWaits, TopIsTyped, ReturnedShape
    <2>3. ChildAt(Len(stack)) = NextMember.of
      BY <2>1, TopFrame DEF ChildAt, NextMember, Top, TopNode, Named, Wrappers
    <2>4. Tells(returned[1], NextMember.of)
      BY <2>1, <2>3 DEF CallsSay
    <2>5. field \in Fields /\ Says(TopNode.kind, field, NextMember)
      BY <2>1, <2>2, <2>4, FieldShapes, FieldSays
    <2> HIDE DEF field
    <2>6. StackSays'
      BY <1>0, <2>1, <2>2, <2>5, FilledSays
    <2> QED
      BY <2>1, <2>6 DEF CallsSay
  <1>10. CASE Declare \/ CloseWrapper
    <2>1. /\ stack # <<>> /\ stack' = Popped /\ visit' = <<>> /\ returned' # <<>>
      <3>1. CASE Declare
        BY <3>1 DEF Declare, Inside, Return
      <3>2. CASE CloseWrapper
        BY <3>2 DEF CloseWrapper, Inside, Return
      <3> QED
        BY <1>10, <3>1, <3>2
    <2>2. /\ StackSays' /\ Len(stack') = Len(stack) - 1
          /\ \A i \in DOMAIN stack' : i \in DOMAIN stack /\ ChildAt(i)' = ChildAt(i)
      BY <1>0, <2>1, PoppedSays
    <2>3. ASSUME stack' # <<>>
          PROVE  Tells(returned'[1], ChildAt(Len(stack) - 1)) /\ Len(stack) - 1 \in DOMAIN stack'
      <3> DEFINE under == Len(stack) - 1
                 top == stack[Len(stack)].node
      <3>1. /\ under \in DOMAIN stack' /\ under \in DOMAIN stack /\ under < Len(stack)
            /\ under + 1 = Len(stack) /\ Len(stack) \in DOMAIN stack
            /\ top \in Nodes /\ TopNode = Node[top] /\ stack[under].node \in Nodes
        <4>1. DOMAIN stack' = 1..under /\ stack' \in Seq(Frames)
          BY <2>1, Popping
        <4>2. Len(stack') = under /\ under # 0
          <5>1. Len(stack') # 0
            BY <2>3, <4>1, EmptySeq
          <5> QED
            BY <2>2, <5>1
        <4> QED
          BY <2>1, <4>1, <4>2, TopFrame
      <3>2. top = ChildAt(under) \/ (Node[top].kind \in Named /\ Leads(top, ChildAt(under)))
        BY <1>0, <3>1 DEF StackSays
      <3>3. ChildAt(under) \in Nodes
        <4>1. under \in OpenFrames => Len(stack[under].fields) < Len(Node[stack[under].node].members)
          BY <3>1 DEF Nesting
        <4>2. Node[stack[under].node].kind \in Named \cup Wrappers
          BY <1>0, <3>1 DEF StackSays
        <4> QED
          BY <2>1, <3>1, <4>1, <4>2, ChildIsANode DEF OpenFrames
      <3> HIDE DEF under, top
      <3>4. CASE Declare
        <4>1. returned' = <<Message(Node[top].name)>> /\ Node[top].kind \in Named
          BY <3>1, <3>4 DEF Declare, Inside, Return
        <4>2. Node[ChildAt(under)].kind \in Named \cup {"reference"}
          BY <3>2, <4>1 DEF Leads
        <4>3. Tells(Message(Node[top].name), ChildAt(under))
          BY <3>1, <3>2, <3>3, <4>2, MessageTells
        <4> QED
          BY <3>1, <4>1, <4>3 DEF under
      <3>5. CASE CloseWrapper
        <4>1. /\ returned # <<>> /\ returned' = <<Wrapped(Node[top].kind, returned[1])>>
              /\ Node[top].kind \in Wrappers
              /\ Node[top].kind \in {"list", "map"} => ~returned[1].repeated
          BY <3>1, <3>5 DEF CloseWrapper, Inside, Return
        <4>2. returned[1] \in Shapes
          BY <4>1, ReturnedShape
        <4>3. ChildAt(Len(stack)) = Node[top].of
          BY <4>1 DEF ChildAt, top
        <4>4. Tells(returned[1], Node[top].of)
          BY <2>1, <4>1, <4>3 DEF CallsSay
        <4>5. Tells(Wrapped(Node[top].kind, returned[1]), top)
          BY <3>1, <4>1, <4>2, <4>4, WrappedTells
        <4>6. top = ChildAt(under)
          BY <3>2, <4>1 DEF Named, Wrappers
        <4> QED
          BY <3>1, <4>1, <4>5, <4>6 DEF under
      <3> QED
        BY <1>10, <3>4, <3>5
    <2> QED
      BY <2>1, <2>2, <2>3 DEF CallsSay, Tells, SaysType
  <1> QED
    BY <1>1, <1>2, <1>3, <1>4, <1>5, <1>6, <1>7, <1>8, <1>9, <1>10
       DEF Next, Step, Finished, Refused

\* Only Declare adds a message, and its fields are described.
LEMMA MessagesStep ==
  ASSUME TypeOK, CallsSay, MessagesSayTheirShapes, [Next]_vars
  PROVE  MessagesSayTheirShapes'
  <1>1. CASE UNCHANGED messages
    <2>1. \A i \in DOMAIN messages' : Describes(messages'[i], messages'[i].node)
      BY <1>1 DEF MessagesSayTheirShapes
    <2> QED
      BY <2>1 DEF MessagesSayTheirShapes, Describes, Says, SaysType
  <1>2. CASE Declare
    <2> DEFINE message == [name |-> TopNode.name, node |-> Top.node, fields |-> Top.fields]
    <2>1. /\ stack # <<>> /\ TopNode.kind \in Named /\ messages' = Append(messages, message)
          /\ ~(Len(Top.fields) < Len(TopNode.members))
      BY <1>2 DEF Declare, Inside, Remaining
    <2>2. /\ Len(stack) \in DOMAIN stack /\ Top = stack[Len(stack)]
          /\ Top.node \in Nodes /\ Top.fields \in Seq(Fields) /\ TopNode = Node[Top.node]
      BY <2>1, TopFrame DEF TopNode
    <2>3. Described(Len(stack))
      BY <2>1, <2>2 DEF CallsSay, StackSays, OpenFrames
    <2>4. Len(Top.fields) = Len(TopNode.members)
      <3>1. Len(Top.fields) <= Len(TopNode.members)
        BY <2>2, <2>3 DEF Described
      <3>2. TopNode.members \in Seq([name : STRING, number : Int, optional : BOOLEAN, of : Nodes])
        BY <2>2, NodeAssumption
      <3>3. Len(TopNode.members) \in Nat /\ Len(Top.fields) \in Nat
        BY <2>2, <3>2
      <3> QED
        BY <2>1, <3>1, <3>3
    <2>5. Describes(message, message.node)
      BY <2>2, <2>3, <2>4 DEF Described, Describes
    <2>6. /\ DOMAIN messages' = DOMAIN messages \cup {Len(messages) + 1}
          /\ \A i \in DOMAIN messages : messages'[i] = messages[i]
          /\ messages'[Len(messages) + 1] = message
      BY <2>1 DEF TypeOK
    <2> HIDE DEF message
    <2>7. \A i \in DOMAIN messages' : Describes(messages'[i], messages'[i].node)
      BY <2>5, <2>6 DEF MessagesSayTheirShapes
    <2> QED
      BY <2>7 DEF MessagesSayTheirShapes, Describes, Says, SaysType
  <1>3. CASE OpenMessage \/ OpenWrapper \/ LeaveMember \/ CloseWrapper
    BY <1>1, <1>3 DEF OpenMessage, OpenWrapper, LeaveMember, CloseWrapper, file
  <1> QED
    BY <1>1, <1>2, <1>3, OtherSteps

----------------------------------------------------------------------------
(* Imports *)

\* Whether an instant is among what was written, what is being described and what
\* was returned.
InstantWritten == \E i \in DOMAIN messages : HasInstant(messages[i].fields)
InstantOpen == \E i \in OpenFrames : HasInstant(stack[i].fields)
InstantReturned == returned # <<>> /\ IsInstant(returned[1].type)

\* A message's name is no instant, a scalar's shape is one if the scalar is, and a
\* wrapper keeps what is inside.
LEMMA Instants ==
  /\ \A name \in Names : ~IsInstant(Message(name).type)
  /\ \A n \in Nodes : IsInstant(ScalarShape(Node[n].scalar).type) <=> Node[n].scalar.kind = "Timestamp"
  /\ \A kind \in Wrappers, shape \in Shapes : IsInstant(Wrapped(kind, shape).type) <=> IsInstant(shape.type)
  <1>1. \A name \in Names : ~IsInstant(Message(name).type)
    BY MessageShapes DEF IsInstant
  <1>2. ASSUME NEW scalar \in [kind : ScalarKinds, precision : Precisions]
        PROVE  ScalarType(scalar) = "google.protobuf.Timestamp" <=> scalar.kind = "Timestamp"
    <2>1. \A precision : IntegerType(precision) # "google.protobuf.Timestamp"
      BY DEF IntegerType
    <2>2. scalar.kind \in ScalarKinds
      OBVIOUS
    <2> QED
      BY <2>1, <2>2 DEF ScalarType, ScalarKinds
  <1>3. \A n \in Nodes : IsInstant(ScalarShape(Node[n].scalar).type) <=> Node[n].scalar.kind = "Timestamp"
    BY <1>2, NodeAssumption DEF IsInstant, ScalarShape, Shape, Type
  <1>4. \A kind \in Wrappers, shape \in Shapes : IsInstant(Wrapped(kind, shape).type) <=> IsInstant(shape.type)
    BY WrappedShapes DEF IsInstant
  <1> QED
    BY <1>1, <1>3, <1>4

\* Every step keeps the import there exactly when an instant was met.
LEMMA ImportsStep ==
  ASSUME TypeOK, Nesting, ImportsHeld, [Next]_vars
  PROVE  ImportsHeld'
  <1>0. imports # {} <=> (InstantWritten \/ InstantOpen \/ InstantReturned)
    BY DEF ImportsHeld, InstantWritten, InstantOpen, InstantReturned
  <1> SUFFICES imports' # {} <=> (InstantWritten' \/ InstantOpen' \/ InstantReturned')
    BY DEF ImportsHeld, InstantWritten, InstantOpen, InstantReturned
  <1>a. UNCHANGED messages => (InstantWritten' <=> InstantWritten)
    BY DEF InstantWritten, HasInstant, IsInstant
  <1>b. UNCHANGED stack => (InstantOpen' <=> InstantOpen)
    BY DEF InstantOpen, OpenFrames, HasInstant, IsInstant
  <1>c. UNCHANGED returned => (InstantReturned' <=> InstantReturned)
    BY DEF InstantReturned, IsInstant
  <1>1. CASE Refused \/ UNCHANGED vars
    <2>1. UNCHANGED <<messages, stack, returned, imports>>
      BY <1>1, RefusalsKeep DEF vars, calls, file
    <2> QED
      BY <1>0, <1>a, <1>b, <1>c, <2>1
  <1>2. CASE Ask \/ AddMethod \/ SetRoot \/ FollowReference \/ EnterMember
    <2>1. UNCHANGED <<messages, stack, returned, imports>>
      BY <1>2 DEF Ask, AddMethod, SetRoot, FollowReference, EnterMember, calls, file
    <2> QED
      BY <1>0, <1>a, <1>b, <1>c, <2>1
  <1>3. CASE Answer
    <2>1. /\ UNCHANGED <<messages, stack, imports>> /\ returned # <<>> /\ stack = <<>> /\ returned' = <<>>
      BY <1>3 DEF Answer, Between, file
    <2>2. ~InstantReturned /\ ~InstantReturned'
      BY <2>1 DEF InstantReturned, Nesting, IsInstant
    <2> QED
      BY <1>0, <1>a, <1>b, <2>1, <2>2
  <1>4. CASE VisitScalar
    <2>1. /\ UNCHANGED <<messages, stack>> /\ visit # <<>> /\ Visited = Node[visit[1].node]
          /\ returned' = <<ScalarShape(Visited.scalar)>>
          /\ imports' = IF Visited.scalar.kind = "Timestamp"
                        THEN imports \cup {"google/protobuf/timestamp.proto"} ELSE imports
      BY <1>4 DEF VisitScalar, Visiting, Visited, Return
    <2>2. visit[1].node \in Nodes /\ ~InstantReturned
      BY <2>1, VisitedNode DEF Nesting, InstantReturned
    <2>3. InstantReturned' <=> Visited.scalar.kind = "Timestamp"
      BY <2>1, <2>2, Instants DEF InstantReturned
    <2> QED
      BY <1>0, <1>a, <1>b, <2>1, <2>2, <2>3
  <1>5. CASE VisitKnown
    <2>1. /\ UNCHANGED <<messages, stack, imports>> /\ visit # <<>> /\ returned' = <<Message(Visited.name)>>
      BY <1>5 DEF VisitKnown, Visiting, Return, file
    <2>2. ~InstantReturned /\ ~InstantReturned'
      BY <2>1, VisitedNode, Instants DEF Nesting, InstantReturned
    <2> QED
      BY <1>0, <1>a, <1>b, <2>1, <2>2
  <1>6. CASE OpenMessage \/ OpenWrapper
    <2>1. /\ UNCHANGED <<messages, returned, imports>> /\ visit # <<>>
          /\ stack' = Append(stack, [node |-> visit[1].node, fields |-> <<>>])
      BY <1>6 DEF OpenMessage, OpenWrapper, Visiting, file
    <2>2. visit[1].node \in Nodes
      BY <2>1, VisitedNode
    <2>3. /\ DOMAIN stack' = DOMAIN stack \cup {Len(stack) + 1}
          /\ \A i \in DOMAIN stack : stack'[i] = stack[i]
          /\ stack'[Len(stack) + 1].fields = <<>>
      BY <2>1, <2>2, Pushing, OpenIsInside
    <2>4. \A i \in DOMAIN stack : HasInstant(stack[i].fields)' <=> HasInstant(stack[i].fields)
      BY <2>3 DEF HasInstant, IsInstant
    <2>5. \A i : i = Len(stack) + 1 => ~HasInstant(stack[i].fields)'
      BY <2>3 DEF HasInstant
    <2>6. InstantOpen' <=> InstantOpen
      BY <2>3, <2>4, <2>5 DEF InstantOpen, OpenFrames
    <2> QED
      BY <1>0, <1>a, <1>c, <2>1, <2>6
  <1>7. CASE LeaveMember
    <2> DEFINE field == Field(TopNode.kind, NextMember, returned[1])
    <2>1. /\ stack # <<>> /\ TopNode.kind \in Named /\ returned # <<>> /\ returned' = <<>>
          /\ stack' = [stack EXCEPT ![Len(stack)].fields = Append(@, field)]
          /\ UNCHANGED <<messages, imports>>
      BY <1>7 DEF LeaveMember, Inside, file
    <2>2. field \in Fields /\ field.type = returned[1].type
      BY <2>1, FieldShapes, ReturnedShape, MemberWaits, TopIsTyped
    <2> HIDE DEF field
    <2>3. /\ Len(stack) \in OpenFrames /\ Top = stack[Len(stack)] /\ Top.fields \in Seq(Fields)
          /\ Len(stack) \in DOMAIN stack
      BY <2>1, TopFrame DEF OpenFrames
    <2>4. /\ OpenFrames' = OpenFrames
          /\ \A i \in OpenFrames : i \in DOMAIN stack /\ (i # Len(stack) => stack'[i] = stack[i])
          /\ stack'[Len(stack)].fields = Append(Top.fields, field)
      BY <2>1, <2>2, Filling, FilledFrames DEF OpenFrames
    <2>5. HasInstant(Append(Top.fields, field)) <=> HasInstant(Top.fields) \/ IsInstant(field.type)
      <3>1. /\ DOMAIN Append(Top.fields, field) = DOMAIN Top.fields \cup {Len(Top.fields) + 1}
            /\ \A j \in DOMAIN Top.fields : Append(Top.fields, field)[j] = Top.fields[j]
            /\ Append(Top.fields, field)[Len(Top.fields) + 1] = field
        BY <2>3
      <3> QED
        BY <3>1 DEF HasInstant
    <2>6. InstantOpen' <=> InstantOpen \/ IsInstant(field.type)
      <3>1. InstantOpen' <=> \E i \in OpenFrames : HasInstant(stack'[i].fields)
        BY <2>4 DEF InstantOpen, HasInstant, IsInstant
      <3>2. \A i \in OpenFrames : i # Len(stack) => (HasInstant(stack'[i].fields) <=> HasInstant(stack[i].fields))
        BY <2>4
      <3>3. HasInstant(stack'[Len(stack)].fields) <=> HasInstant(stack[Len(stack)].fields) \/ IsInstant(field.type)
        BY <2>3, <2>4, <2>5
      <3> QED
        BY <2>3, <3>1, <3>2, <3>3 DEF InstantOpen
    <2>7. (InstantReturned <=> IsInstant(field.type)) /\ ~InstantReturned'
      BY <2>1, <2>2 DEF InstantReturned
    <2> QED
      BY <1>0, <1>a, <2>1, <2>6, <2>7
  <1>8. CASE Declare
    <2> DEFINE message == [name |-> TopNode.name, node |-> Top.node, fields |-> Top.fields]
    <2>1. /\ stack # <<>> /\ TopNode.kind \in Named /\ stack' = Popped /\ returned = <<>>
          /\ messages' = Append(messages, message) /\ UNCHANGED imports
          /\ returned' = <<Message(TopNode.name)>>
      BY <1>8 DEF Declare, Inside, Return
    <2>2. ~InstantReturned /\ ~InstantReturned'
      BY <2>1, TopIsTyped, Instants DEF InstantReturned
    <2>3. /\ DOMAIN messages' = DOMAIN messages \cup {Len(messages) + 1}
          /\ \A i \in DOMAIN messages : messages'[i] = messages[i]
          /\ messages'[Len(messages) + 1].fields = Top.fields
      BY <2>1 DEF TypeOK
    <2>4. InstantWritten' <=> InstantWritten \/ HasInstant(Top.fields)
      <3>1. InstantWritten' <=> \E i \in DOMAIN messages' : HasInstant(messages'[i].fields)
        BY DEF InstantWritten, HasInstant, IsInstant
      <3> QED
        BY <2>3, <3>1 DEF InstantWritten
    <2>5. InstantOpen <=> InstantOpen' \/ HasInstant(Top.fields)
      <3>1. /\ OpenFrames' = OpenFrames \ {Len(stack)} /\ Len(stack) \in OpenFrames
            /\ \A i \in OpenFrames' : stack'[i] = stack[i]
        <4>1. OpenFrames' = OpenFrames \ {Len(stack)}
          BY <2>1, PoppedFrames
        <4>2. Len(stack) \in OpenFrames
          BY <2>1, TopFrame DEF OpenFrames
        <4>3. \A i \in OpenFrames' : i \in DOMAIN Popped
          BY <2>1 DEF OpenFrames
        <4> QED
          BY <2>1, <4>1, <4>2, <4>3, Popping
      <3>2. InstantOpen' <=> \E i \in OpenFrames' : HasInstant(stack'[i].fields)
        BY DEF InstantOpen, HasInstant, IsInstant
      <3>3. Top.fields = stack[Len(stack)].fields
        BY DEF Top
      <3> QED
        BY <3>1, <3>2, <3>3 DEF InstantOpen
    <2> QED
      BY <1>0, <2>1, <2>2, <2>4, <2>5
  <1>9. CASE CloseWrapper
    <2>1. /\ stack # <<>> /\ TopNode.kind \in Wrappers /\ stack' = Popped /\ returned # <<>>
          /\ UNCHANGED <<messages, imports>> /\ returned' = <<Wrapped(TopNode.kind, returned[1])>>
      BY <1>9 DEF CloseWrapper, Inside, Return, file
    <2>2. InstantReturned' <=> InstantReturned
      BY <2>1, ReturnedShape, Instants DEF InstantReturned
    <2>3. InstantOpen' <=> InstantOpen
      <3>1. OpenFrames' = OpenFrames
        BY <2>1, PoppedFrames, TopFrame DEF OpenFrames, Named, Wrappers
      <3>2. \A i \in OpenFrames : stack'[i] = stack[i]
        BY <2>1, <3>1, Popping DEF OpenFrames
      <3>3. InstantOpen' <=> \E i \in OpenFrames' : HasInstant(stack'[i].fields)
        BY DEF InstantOpen, HasInstant, IsInstant
      <3> QED
        BY <3>1, <3>2, <3>3 DEF InstantOpen
    <2> QED
      BY <1>0, <1>a, <2>1, <2>2, <2>3
  <1> QED
    BY <1>1, <1>2, <1>3, <1>4, <1>5, <1>6, <1>7, <1>8, <1>9
       DEF Next, Step, Finished, Refused

----------------------------------------------------------------------------
\* What IInv adds to say what a file says.
SayInv == IInv /\ CallsSay /\ MessagesSayTheirShapes /\ ImportsHeld

\* Every message of a projection says what its shape does, in types that hold
\* what its members do, and the import is there when a message uses it: whatever
\* was projected between two members of a message.
THEOREM FileSays == Spec => []FileSaysItsShapes
  <1>1. Init => SayInv
    BY InvariantInit, SayingInit DEF SayInv
  <1>2. SayInv /\ [Next]_vars => SayInv'
    BY InvariantStep, SayingStep, MessagesStep, ImportsStep DEF SayInv, IInv
  <1>3. SayInv => WidthsAreKept
    <2> SUFFICES ASSUME SayInv, NEW i \in DOMAIN messages, NEW j \in DOMAIN messages[i].fields,
                        NEW scalar, NEW core, core = Node[Core(Node[messages[i].node].members[j].of)],
                        core.kind = "scalar", scalar = core.scalar, scalar.kind = "Integer",
                        scalar.precision \in DOMAIN Bits
                 PROVE  Narrowest(messages[i].fields[j].type.name, scalar.precision)
      BY DEF WidthsAreKept
    <2>1. messages[i].fields[j].type.name = ScalarType(scalar)
      BY DEF SayInv, MessagesSayTheirShapes, Describes, Says, SaysType
    <2>2. ScalarType(scalar) = IntegerType(scalar.precision)
      BY DEF ScalarType
    <2> QED
      BY <2>1, <2>2, IntegersHold
  <1>4. SayInv => ImportsAreUsed
    <2> SUFFICES ASSUME SayInv, at > Len(job)
                 PROVE  imports # {} <=> \E i \in DOMAIN messages : HasInstant(messages[i].fields)
      BY DEF ImportsAreUsed, Succeeded
    <2>1. stack = <<>> /\ returned = <<>>
      BY DEF SayInv, IInv, Nesting
    <2> QED
      BY <2>1 DEF SayInv, ImportsHeld, OpenFrames
  <1>5. SayInv => FileSaysItsShapes
    BY <1>3, <1>4 DEF SayInv, FileSaysItsShapes
  <1> QED
    BY <1>1, <1>2, <1>5, PTL DEF Spec
=============================================================================
