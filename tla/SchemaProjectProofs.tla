------------------------- MODULE SchemaProjectProofs -------------------------
(***************************************************************************)
(* The names a JSON Schema projection gives out and where its pointers     *)
(* lead, for every description, every sequence of nodes and a stack of any *)
(* size.  ScopesClose says nothing of the calls in progress; Calls does    *)
(* so.  The parts of a call are typed by their own elements; what they     *)
(* point to is Pointers, the inductive invariant of the last theorem.      *)
(***************************************************************************)
EXTENDS SchemaProject, SequenceTheorems, WellFoundedInduction, TLAPS

Elements(s) == {s[i] : i \in DOMAIN s}
Sequence(s) == s \in Seq(Elements(s))
Frame(n, parts) == [node |-> n, parts |-> parts]

Calls ==
  /\ Sequence(stack)
  /\ \A i \in 1..Len(stack) :
       /\ stack[i] = Frame(stack[i].node, stack[i].parts)
       /\ stack[i].node \in Nodes /\ Sequence(stack[i].parts)
  /\ visit \in Seq(Nodes)
  /\ job \in Seq(Nodes) /\ Len(schemas) \in Nat

IInv == Calls /\ ScopesClose

----------------------------------------------------------------------------
(* Sequences *)

\* A sequence is one of its own elements.
LEMMA OwnElements ==
  ASSUME NEW S, NEW s \in Seq(S)
  PROVE  Sequence(s) /\ DOMAIN s = 1..Len(s) /\ Len(s) \in Nat
  <1>1. s \in [1..Len(s) -> S] /\ Len(s) \in Nat
    BY LenProperties
  <1>2. s \in [1..Len(s) -> Elements(s)]
    BY <1>1 DEF Elements
  <1> QED
    BY <1>1, <1>2 DEF Sequence

\* What Append adds comes last, and the rest stays where it is.
LEMMA Appended ==
  ASSUME NEW s, Sequence(s), NEW e
  PROVE  /\ Sequence(Append(s, e))
         /\ Len(s) \in Nat /\ DOMAIN s = 1..Len(s)
         /\ Len(Append(s, e)) = Len(s) + 1
         /\ DOMAIN Append(s, e) = 1..(Len(s) + 1)
         /\ \A i \in 1..Len(s) : Append(s, e)[i] = s[i]
         /\ Append(s, e)[Len(s) + 1] = e
  <1> DEFINE S == Elements(s) \cup {e}
  <1>1. s \in Seq(S)
    <2>1. s \in [1..Len(s) -> Elements(s)] /\ Len(s) \in Nat
      BY LenProperties DEF Sequence
    <2>2. s \in [1..Len(s) -> S]
      BY <2>1
    <2> QED
      BY <2>1, <2>2
  <1>2. /\ Append(s, e) \in Seq(S)
        /\ Len(Append(s, e)) = Len(s) + 1
        /\ \A i \in 1..Len(s) : Append(s, e)[i] = s[i]
        /\ Append(s, e)[Len(s) + 1] = e
    BY <1>1, AppendProperties
  <1>3. Sequence(Append(s, e)) /\ DOMAIN Append(s, e) = 1..Len(Append(s, e))
    BY <1>2, OwnElements
  <1> QED
    BY <1>1, <1>2, <1>3, OwnElements

\* All of a sequence but the last.
LEMMA Shortened ==
  ASSUME NEW s, Sequence(s), s # <<>>
  PROVE  LET t == SubSeq(s, 1, Len(s) - 1)
         IN  /\ Sequence(t)
             /\ Len(s) \in Nat \ {0} /\ Len(t) = Len(s) - 1
             /\ DOMAIN t = 1..(Len(s) - 1) /\ DOMAIN s = 1..Len(s)
             /\ \A i \in 1..(Len(s) - 1) : t[i] = s[i]
  <1> DEFINE t == SubSeq(s, 1, Len(s) - 1)
  <1>1. Len(s) \in Nat \ {0} /\ DOMAIN s = 1..Len(s) /\ \A i \in 1..(Len(s) - 1) : s[i] \in Elements(s)
    <2>1. s \in [1..Len(s) -> Elements(s)] /\ Len(s) \in Nat
      BY LenProperties DEF Sequence
    <2>2. Len(s) # 0
      BY EmptySeq DEF Sequence
    <2> QED
      BY <2>1, <2>2
  <1>2. /\ t \in Seq(Elements(s)) /\ Len(t) = Len(s) - 1
        /\ \A i \in 1..(Len(s) - 1) : t[i] = s[i]
    <2>1. Len(s) - 1 \in Int /\ s \in Seq(Elements(s))
      BY <1>1 DEF Sequence
    <2>2. /\ t \in Seq(Elements(s))
          /\ Len(t) = IF 1 <= Len(s) - 1 THEN (Len(s) - 1) - 1 + 1 ELSE 0
          /\ \A i \in 1..((Len(s) - 1) - 1 + 1) : t[i] = s[1 + i - 1]
      BY <1>1, <2>1, SubSeqProperties
    <2> QED
      BY <1>1, <2>2
  <1>3. Sequence(t) /\ DOMAIN t = 1..Len(t)
    BY <1>2, OwnElements
  <1> QED
    BY <1>1, <1>2, <1>3

----------------------------------------------------------------------------
(* The stack *)

\* The call on top of the stack, and what is left without it.
LEMMA Popping ==
  ASSUME Calls, stack # <<>>
  PROVE  /\ Len(stack) \in Nat \ {0} /\ DOMAIN stack = 1..Len(stack)
         /\ Top = stack[Len(stack)] /\ Top.node \in Nodes /\ Sequence(Top.parts)
         /\ Sequence(Popped) /\ Len(Popped) = Len(stack) - 1
         /\ DOMAIN Popped = 1..(Len(stack) - 1)
         /\ \A i \in 1..(Len(stack) - 1) : Popped[i] = stack[i]
  <1>1. Sequence(stack) /\ Len(stack) \in Nat \ {0}
    BY Shortened DEF Calls
  <1>2. Top.node \in Nodes /\ Sequence(Top.parts)
    BY <1>1 DEF Calls, Top
  <1> QED
    BY <1>1, <1>2, Shortened DEF Top, Popped

\* A node that is visited is one of the description.
LEMMA VisitedNode ==
  ASSUME Calls, visit # <<>>
  PROVE  visit[1] \in Nodes
  <1>1. 1 \in 1..Len(visit) /\ visit \in Seq(Nodes)
    BY DEF Calls
  <1> QED
    BY <1>1, ElementOfSeq

\* One node is a sequence of nodes, and so is none.
LEMMA OneVisit ==
  <<>> \in Seq(Nodes) /\ \A n \in Nodes : <<n>> \in Seq(Nodes)
  OBVIOUS

\* The stack with one call more.
LEMMA Pushing ==
  ASSUME Calls, visit # <<>>, stack' = Pushed
  PROVE  /\ Sequence(stack') /\ Len(stack) \in Nat /\ Len(stack') = Len(stack) + 1
         /\ DOMAIN stack = 1..Len(stack) /\ DOMAIN stack' = 1..(Len(stack) + 1)
         /\ \A i \in 1..Len(stack) : stack'[i] = stack[i]
         /\ stack'[Len(stack) + 1] = Frame(visit[1], <<>>)
         /\ Sequence(<<>>)
  <1>1. Sequence(<<>>)
    BY EmptySeq DEF Sequence, Elements
  <1> QED
    BY <1>1, Appended DEF Calls, Pushed, Frame

\* And a stack whose last call has one part more.
LEMMA Extending ==
  ASSUME Calls, stack # <<>>, NEW part,
         stack' = [stack EXCEPT ![Len(stack)].parts = Append(@, part)]
  PROVE  /\ Sequence(stack') /\ Len(stack') = Len(stack) /\ DOMAIN stack' = DOMAIN stack
         /\ DOMAIN stack = 1..Len(stack)
         /\ \A i \in 1..Len(stack) : /\ stack'[i] = Frame(stack'[i].node, stack'[i].parts)
                                     /\ Sequence(stack'[i].parts)
                                     /\ stack'[i].node = stack[i].node
  <1>1. Len(stack) \in Nat \ {0} /\ DOMAIN stack = 1..Len(stack)
    BY Popping
  <1>2. ASSUME NEW i \in 1..Len(stack)
        PROVE  /\ stack'[i] = Frame(stack'[i].node, stack'[i].parts) /\ Sequence(stack'[i].parts)
               /\ stack'[i].node = stack[i].node
    <2>1. stack[i] = Frame(stack[i].node, stack[i].parts) /\ Sequence(stack[i].parts)
      BY DEF Calls
    <2>2. CASE i = Len(stack)
      <3>1. stack'[i] = [stack[i] EXCEPT !.parts = Append(stack[i].parts, part)]
        BY <1>1, <2>2
      <3>2. stack'[i] = Frame(stack[i].node, Append(stack[i].parts, part))
        BY <2>1, <3>1 DEF Frame
      <3>3. Sequence(Append(stack[i].parts, part))
        BY <2>1, Appended
      <3>4. stack'[i].parts = Append(stack[i].parts, part) /\ stack'[i].node = stack[i].node
        BY <3>2 DEF Frame
      <3> QED
        BY <3>2, <3>3, <3>4
    <2>3. CASE i # Len(stack)
      BY <1>1, <2>1, <2>3
    <2> QED
      BY <2>2, <2>3
  <1>3. DOMAIN stack' = 1..Len(stack)
    BY <1>1
  <1>4. stack' \in [1..Len(stack) -> Elements(stack')]
    <2>1. stack' = [i \in 1..Len(stack) |-> stack'[i]]
      BY <1>1
    <2> QED
      BY <1>3, <2>1 DEF Elements
  <1>5. stack' \in Seq(Elements(stack'))
    <2>1. \A S, s : \A n \in Nat : s \in [1..n -> S] => s \in Seq(S)
      OBVIOUS
    <2> QED
      BY <1>1, <1>4, <2>1, Zenon
  <1>6. Len(stack') = Len(stack)
    BY <1>1, <1>3, <1>5, LenProperties
  <1> QED
    BY <1>1, <1>2, <1>3, <1>5, <1>6 DEF Sequence

----------------------------------------------------------------------------
(* The calls in progress *)

\* The initial states have no call.
LEMMA CallsInit == Init => Calls
  <1> SUFFICES ASSUME Init PROVE Calls
    OBVIOUS
  <1>1. Sequence(<<>>) /\ <<>> \in Seq(Nodes) /\ Len(<<>>) = 0
    BY EmptySeq DEF Sequence, Elements
  <1>2. job \in Seq(Nodes)
    BY JobAssumption DEF Init
  <1> QED
    BY <1>1, <1>2 DEF Init, Calls

\* Every step makes calls of nodes.
LEMMA CallsStep ==
  ASSUME Calls, [Next]_vars
  PROVE  Calls'
  <1>1. CASE Ask
    <2>1. Len(schemas) + 1 \in 1..Len(job) /\ job \in Seq(Nodes)
      BY <1>1, LenProperties DEF Ask, Calls
    <2>2. job[Len(schemas) + 1] \in Nodes
      BY <2>1, ElementOfSeq
    <2> QED
      BY <1>1, <2>2, OneVisit DEF Ask, Calls
  <1>2. CASE Answer
    <2>1. Len(schemas') \in Nat
      BY <1>2 DEF Answer, Calls
    <2> QED
      BY <1>2, <2>1 DEF Answer, Calls
  <1>3. CASE VisitScalar \/ VisitKnown \/ NameReference \/ NoReference
    BY <1>3, OneVisit DEF VisitScalar, VisitKnown, NameReference, NoReference, Return, Calls
  <1>4. CASE OpenShape
    <2>1. visit # <<>> /\ stack' = Pushed /\ visit' = <<>> /\ UNCHANGED <<job, schemas>>
      BY <1>4 DEF OpenShape, Visiting
    <2> QED
      BY <2>1, Pushing, VisitedNode, OneVisit DEF Calls, Frame
  <1>5. CASE OpenWrapper
    <2>1. visit # <<>> /\ stack' = Pushed /\ visit' = <<Visited.of>> /\ UNCHANGED <<job, schemas>>
      BY <1>5 DEF OpenWrapper, Visiting, Followed
    <2>2. Visited.of \in Nodes
      <3>1. visit[1] \in Nodes
        BY <2>1, VisitedNode
      <3> QED
        BY <1>5, <3>1, NodeAssumption DEF OpenWrapper, Visiting, Followed, Visited
    <2> QED
      BY <2>1, <2>2, Pushing, VisitedNode, OneVisit DEF Calls, Frame
  <1>6. CASE EnterMember
    <2>1. stack # <<>> /\ Len(Top.parts) < Len(TopNode.members)
      BY <1>6 DEF EnterMember, Inside, Remaining
    <2>2. Top.node \in Nodes /\ Len(Top.parts) \in Nat
      BY <2>1, Popping, LenProperties DEF Sequence
    <2> DEFINE M == [name : STRING, optional : BOOLEAN, of : Nodes]
    <2>3. TopNode.members \in Seq(M)
      BY <2>2, NodeAssumption DEF TopNode
    <2>4. Len(Top.parts) + 1 \in 1..Len(TopNode.members)
      BY <2>1, <2>2, <2>3, LenProperties
    <2>5. TopNode.members[Len(Top.parts) + 1] \in M
      BY <2>3, <2>4, ElementOfSeq
    <2>6. visit' \in Seq(Nodes)
      BY <1>6, <2>5, OneVisit DEF EnterMember
    <2> QED
      BY <1>6, <2>6 DEF EnterMember, Calls
  <1>7. CASE LeaveMember
    <2>1. /\ stack # <<>> /\ stack' = [stack EXCEPT ![Len(stack)].parts = Append(@, returned[1])]
          /\ UNCHANGED <<job, schemas, visit>>
      BY <1>7 DEF LeaveMember, Inside
    <2> QED
      BY <2>1, Extending DEF Calls
  <1>8. CASE CloseInline \/ Declare \/ CloseWrapper
    <2>1. stack # <<>> /\ stack' = Popped /\ visit' = <<>> /\ UNCHANGED <<job, schemas>>
      BY <1>8 DEF CloseInline, Declare, CloseWrapper, Inside, Return
    <2>2. /\ Sequence(stack') /\ Len(stack') = Len(stack) - 1 /\ Len(stack) \in Nat \ {0}
          /\ \A i \in 1..(Len(stack) - 1) : stack'[i] = stack[i]
      BY <2>1, Popping
    <2>3. \A i \in 1..Len(stack') : i \in 1..Len(stack) /\ stack'[i] = stack[i]
      BY <2>2
    <2> QED
      BY <2>1, <2>2, <2>3, OneVisit DEF Calls
  <1>9. CASE Overflow \/ UNCHANGED vars
    BY <1>9 DEF Overflow, vars, calls, Calls
  <1> QED
    BY <1>1, <1>2, <1>3, <1>4, <1>5, <1>6, <1>7, <1>8, <1>9 DEF Next

----------------------------------------------------------------------------
(* The names given out *)

\* What opening a shape does to the names.
Opens(name) ==
  /\ name # "" => ~Known(name) /\ ancestors' = ancestors \cup {name}
  /\ name = "" => ancestors' = ancestors
  /\ UNCHANGED components

\* A shape that is opened was not known by its name.
LEMMA Opening ==
  ASSUME Calls, OpenShape
  PROVE  Opens(Visited.name) /\ Visited.kind \in Named /\ Visited = Node[visit[1]]
         /\ visit # <<>> /\ stack' = Pushed
  BY DEF OpenShape, Visiting, Opens, Visited

\* A call that returns closes its shape, and leaves those below it.
LEMMA OpenPopped ==
  ASSUME Calls, stack # <<>>, stack' = Popped
  PROVE  /\ OpenFrames' = OpenFrames \ {Len(stack)}
         /\ \A i \in OpenFrames' : NameAt(i)' = NameAt(i)
         /\ Len(stack) \in OpenFrames <=> (TopNode.kind \in Named /\ TopNode.name # "")
         /\ NameAt(Len(stack)) = TopNode.name
  <1>1. /\ DOMAIN stack = 1..Len(stack) /\ Len(stack) \in Nat \ {0} /\ Top = stack[Len(stack)]
        /\ DOMAIN stack' = 1..(Len(stack) - 1)
        /\ \A i \in 1..(Len(stack) - 1) : stack'[i] = stack[i]
    BY Popping
  <1>2. DOMAIN stack' = DOMAIN stack \ {Len(stack)} /\ Len(stack) \in DOMAIN stack
    BY <1>1
  <1>3. \A i \in DOMAIN stack' : stack'[i] = stack[i]
    BY <1>1
  <1>4. OpenFrames' = OpenFrames \ {Len(stack)} /\ \A i \in OpenFrames' : NameAt(i)' = NameAt(i)
    BY <1>2, <1>3 DEF OpenFrames, NameAt
  <1>5. Len(stack) \in OpenFrames <=> (TopNode.kind \in Named /\ TopNode.name # "")
    BY <1>1, <1>2 DEF OpenFrames, TopNode
  <1> QED
    BY <1>1, <1>4, <1>5 DEF NameAt, TopNode

\* A call more opens a shape, if it is one with a name.
LEMMA OpenPushed ==
  ASSUME Calls, visit # <<>>, stack' = Pushed
  PROVE  /\ OpenFrames' = IF Visited.kind \in Named /\ Visited.name # ""
                          THEN OpenFrames \cup {Len(stack) + 1} ELSE OpenFrames
         /\ \A i \in OpenFrames : NameAt(i)' = NameAt(i)
         /\ Node[stack'[Len(stack) + 1].node].name = Visited.name
         /\ Len(stack) + 1 \notin OpenFrames
  <1> DEFINE top == Len(stack) + 1
  <1>1. /\ DOMAIN stack' = DOMAIN stack \cup {top} /\ top \notin DOMAIN stack
        /\ \A i \in DOMAIN stack : stack'[i] = stack[i]
        /\ stack'[top].node = visit[1]
    BY Pushing DEF Frame
  <1> HIDE DEF top
  <1>2. \A i \in DOMAIN stack : stack'[i].node = stack[i].node
    BY <1>1
  <1>3. OpenFrames' = {i \in DOMAIN stack \cup {top} :
                         Node[stack'[i].node].kind \in Named /\ Node[stack'[i].node].name # ""}
    BY <1>1 DEF OpenFrames
  <1>4. OpenFrames' = IF Visited.kind \in Named /\ Visited.name # "" THEN OpenFrames \cup {top} ELSE OpenFrames
    BY <1>1, <1>2, <1>3 DEF OpenFrames, Visited
  <1>5. \A i \in OpenFrames : NameAt(i)' = NameAt(i)
    BY <1>2 DEF OpenFrames, NameAt
  <1>6. Node[stack'[top].node].name = Visited.name /\ top \notin OpenFrames
    BY <1>1 DEF Visited, OpenFrames
  <1> QED
    BY <1>4, <1>5, <1>6 DEF top

\* A part more opens none.
LEMMA OpenExtended ==
  ASSUME Calls, LeaveMember
  PROVE  OpenFrames' = OpenFrames /\ \A i \in OpenFrames : NameAt(i)' = NameAt(i)
  <1>1. stack # <<>> /\ stack' = [stack EXCEPT ![Len(stack)].parts = Append(@, returned[1])]
    BY DEF LeaveMember, Inside
  <1>2. /\ DOMAIN stack' = DOMAIN stack
        /\ \A i \in DOMAIN stack : stack'[i].node = stack[i].node
    BY <1>1, Extending
  <1> QED
    BY <1>2 DEF OpenFrames, NameAt

\* The steps that open no shape with a name and close none.
LEMMA OtherSteps ==
  ASSUME Calls, [Next]_vars, ~OpenShape, ~Declare
  PROVE  /\ UNCHANGED <<ancestors, components>>
         /\ OpenFrames' = OpenFrames
         /\ \A i \in OpenFrames : NameAt(i)' = NameAt(i)
  <1>1. CASE OpenWrapper
    <2>1. /\ visit # <<>> /\ stack' = Pushed /\ UNCHANGED <<ancestors, components>>
          /\ Visited.kind \notin Named
      BY <1>1 DEF OpenWrapper, Visiting, Followed, Visited, Named, Wrappers
    <2> QED
      BY <2>1, OpenPushed
  <1>2. CASE LeaveMember
    BY <1>2, OpenExtended DEF LeaveMember
  <1>3. CASE CloseInline \/ CloseWrapper
    <2>1. /\ stack # <<>> /\ stack' = Popped /\ UNCHANGED <<ancestors, components>>
          /\ ~(TopNode.kind \in Named /\ TopNode.name # "")
      BY <1>3 DEF CloseInline, CloseWrapper, Inside, Named, Wrappers
    <2>2. OpenFrames' = OpenFrames \ {Len(stack)} /\ Len(stack) \notin OpenFrames
          /\ \A i \in OpenFrames' : NameAt(i)' = NameAt(i)
      BY <2>1, OpenPopped
    <2> QED
      BY <2>1, <2>2
  <1>4. CASE \/ Ask \/ Answer \/ VisitScalar \/ VisitKnown \/ NameReference \/ NoReference
             \/ Overflow \/ EnterMember \/ UNCHANGED vars
    <2>1. UNCHANGED <<stack, ancestors, components>>
      BY <1>4 DEF Ask, Answer, VisitScalar, VisitKnown, NameReference, NoReference, Overflow,
                  EnterMember, vars, calls
    <2> QED
      BY <2>1 DEF OpenFrames, NameAt
  <1> QED
    BY <1>1, <1>2, <1>3, <1>4 DEF Next

\* No shape is being described in the initial states.
LEMMA ScopesInit == Init => ScopesClose
  BY DEF Init, ScopesClose, OpenFrames

\* A shape that is opened has a name that no other has, or none.
LEMMA OpeningStep ==
  ASSUME Calls, ScopesClose, OpenShape
  PROVE  ScopesClose'
  <1>1. Opens(Visited.name) /\ Visited.kind \in Named /\ visit # <<>> /\ stack' = Pushed
    BY Opening
  <1>2. CASE Visited.name = ""
    <2>1. OpenFrames' = OpenFrames /\ \A i \in OpenFrames : NameAt(i)' = NameAt(i)
      BY <1>1, <1>2, OpenPushed
    <2>2. UNCHANGED <<ancestors, components>>
      BY <1>1, <1>2 DEF Opens
    <2> QED
      BY <2>1, <2>2 DEF ScopesClose
  <1>3. CASE Visited.name # ""
    <2>1. /\ OpenFrames' = OpenFrames \cup {Len(stack) + 1} /\ Len(stack) + 1 \notin OpenFrames
          /\ \A i \in OpenFrames : NameAt(i)' = NameAt(i)
          /\ Node[stack'[Len(stack) + 1].node].name = Visited.name
      BY <1>1, <1>3, OpenPushed
    <2>2. PICK top : /\ OpenFrames' = OpenFrames \cup {top} /\ top \notin OpenFrames
                     /\ \A i \in OpenFrames : NameAt(i)' = NameAt(i)
                     /\ NameAt(top)' = Visited.name
      BY <2>1 DEF NameAt
    <2>3. ancestors = {NameAt(i) : i \in OpenFrames}
      BY DEF ScopesClose
    <2>4. /\ ancestors' = ancestors \cup {Visited.name} /\ ~Known(Visited.name)
          /\ components' = components
      BY <1>1, <1>3 DEF Opens
    <2>5. \A i \in OpenFrames : NameAt(i) # Visited.name
      BY <2>3, <2>4 DEF Known
    <2>6. ancestors' = {NameAt(i)' : i \in OpenFrames'}
      BY <2>2, <2>3, <2>4
    <2>7. \A i, j \in OpenFrames' : NameAt(i)' = NameAt(j)' => i = j
      BY <2>2, <2>5 DEF ScopesClose
    <2>8. ancestors' \cap DOMAIN components' = {}
      BY <2>4 DEF ScopesClose, Known
    <2> QED
      BY <2>6, <2>7, <2>8 DEF ScopesClose
  <1> QED
    BY <1>2, <1>3

\* A shape that is declared takes its own name from the ancestors.
LEMMA DeclaringStep ==
  ASSUME Calls, ScopesClose, Declare
  PROVE  ScopesClose' /\ TopNode.name \in ancestors
  <1> DEFINE top == Len(stack)
  <1>1. /\ stack # <<>> /\ stack' = Popped /\ TopNode.kind \in Named /\ TopNode.name # ""
        /\ ancestors' = ancestors \ {TopNode.name}
        /\ DOMAIN components' = DOMAIN components \cup {TopNode.name}
    BY DEF Declare, Inside
  <1>2. /\ OpenFrames' = OpenFrames \ {top} /\ top \in OpenFrames
        /\ \A i \in OpenFrames' : NameAt(i)' = NameAt(i)
        /\ NameAt(top) = TopNode.name
    BY <1>1, OpenPopped
  <1>3. /\ ancestors = {NameAt(i) : i \in OpenFrames}
        /\ \A i, j \in OpenFrames : NameAt(i) = NameAt(j) => i = j
        /\ ancestors \cap DOMAIN components = {}
    BY DEF ScopesClose
  <1> HIDE DEF top
  <1>4. ancestors' = {NameAt(i) : i \in OpenFrames \ {top}}
    <2>1. top \in OpenFrames /\ ancestors' = ancestors \ {NameAt(top)}
      BY <1>1, <1>2
    <2>2. /\ ancestors = {NameAt(i) : i \in OpenFrames}
          /\ \A i, j \in OpenFrames : NameAt(i) = NameAt(j) => i = j
      BY <1>3
    <2> QED
      BY <2>1, <2>2
  <1>5. ancestors' = {NameAt(i)' : i \in OpenFrames'}
    BY <1>2, <1>4
  <1>6. \A i, j \in OpenFrames' : NameAt(i)' = NameAt(j)' => i = j
    BY <1>2, <1>3
  <1>7. ancestors' \cap DOMAIN components' = {} /\ TopNode.name \in ancestors
    BY <1>1, <1>2, <1>3
  <1> QED
    BY <1>5, <1>6, <1>7 DEF ScopesClose

\* Every step opens and closes scopes as it should.
LEMMA ScopesStep ==
  ASSUME Calls, ScopesClose, [Next]_vars
  PROVE  ScopesClose'
  <1>1. CASE ~OpenShape /\ ~Declare
    BY <1>1, OtherSteps DEF ScopesClose
  <1> QED
    BY <1>1, OpeningStep, DeclaringStep

\* The invariant holds of every step.
LEMMA Inductive ==
  /\ Init => IInv
  /\ IInv /\ [Next]_vars => IInv'
  BY CallsInit, CallsStep, ScopesInit, ScopesStep DEF IInv

\* A name is an ancestor exactly while its one shape is being described, and
\* is then no component, in any projection.
THEOREM Scopes == Spec => []ScopesClose
  <1>1. IInv => ScopesClose
    BY DEF IInv
  <1> QED
    BY <1>1, Inductive, PTL DEF Spec

----------------------------------------------------------------------------
(* What a pointer means *)

\* A component that has been described is not described again, or otherwise,
\* whatever is asked for later: what points to it goes on meaning what it meant.
PointersKeepMeaning ==
  \A name \in DOMAIN components : name \in DOMAIN components' /\ components'[name] = components[name]

\* A later Project of the same projector never changes what a pointer means.
THEOREM Kept == Spec => [][PointersKeepMeaning]_vars
  <1>1. ASSUME IInv, [Next]_vars, vars' # vars
        PROVE  PointersKeepMeaning
    <2>1. CASE Declare
      <3>1. TopNode.name \in ancestors
        BY <1>1, <2>1, DeclaringStep DEF IInv
      <3>2. TopNode.name \notin DOMAIN components
        BY <1>1, <3>1 DEF IInv, ScopesClose
      <3> QED
        BY <2>1, <3>2 DEF Declare, PointersKeepMeaning
    <2>2. CASE ~Declare
      <3>1. UNCHANGED components
        BY <1>1, <2>2, OtherSteps DEF OpenShape, IInv
      <3> QED
        BY <3>1 DEF PointersKeepMeaning
    <2> QED
      BY <2>1, <2>2
  <1>2. IInv /\ [Next]_vars => [PointersKeepMeaning]_vars
    BY <1>1
  <1> QED
    BY <1>2, Inductive, PTL DEF Spec

----------------------------------------------------------------------------
(* DeclareOnce *)

\* Names are opened and closed one at a time.
LEMMA DeclareStep ==
  ASSUME IInv, [Next]_vars
  PROVE  [Catalogue!Next]_<<ancestors, DOMAIN components>>
  <1>1. CASE OpenShape
    <2>1. Opens(Visited.name) /\ visit # <<>> /\ visit[1] \in Nodes /\ Visited = Node[visit[1]]
      BY <1>1, Opening, VisitedNode DEF IInv
    <2>2. CASE Visited.name = ""
      BY <2>1, <2>2 DEF Opens
    <2>3. CASE Visited.name # ""
      <3>1. Visited.name \in Names
        BY <2>1 DEF Names
      <3>2. Catalogue!Open(Visited.name)
        BY <2>1, <2>3 DEF Opens, Known, Catalogue!Open
      <3> QED
        BY <3>1, <3>2 DEF Catalogue!Next
    <2> QED
      BY <2>2, <2>3
  <1>2. CASE Declare
    <2>1. stack # <<>>
      BY <1>2 DEF Declare, Inside
    <2>2. TopNode.name \in ancestors
      BY <1>2, DeclaringStep DEF IInv
    <2>3. TopNode.name \in Names
      BY <2>1, Popping DEF IInv, TopNode, Names
    <2>4. Catalogue!Close(TopNode.name)
      BY <1>2, <2>2 DEF Declare, Catalogue!Close
    <2> QED
      BY <2>3, <2>4 DEF Catalogue!Next
  <1>3. CASE ~OpenShape /\ ~Declare
    BY <1>3, OtherSteps DEF IInv
  <1> QED
    BY <1>1, <1>2, <1>3

\* A projection gives names out as DeclareOnce promises.
THEOREM Implements == Spec => ImplementsDeclareOnce
  <1>1. Init => Catalogue!Init
    BY DEF Init, Catalogue!Init
  <1>2. IInv /\ [Next]_vars => [Catalogue!Next]_<<ancestors, DOMAIN components>>
    BY DeclareStep
  <1> QED
    BY <1>1, <1>2, Inductive, PTL DEF Spec, ImplementsDeclareOnce, Catalogue!Spec

----------------------------------------------------------------------------
(* Where pointers lead *)

\* A schema says only names in N, as far inside as one looks: it is in a set of
\* schemas that say only these and hold no others.  What is inside a schema is
\* again a schema, and so on, so this is not said by recursion: whatever is
\* made around sound schemas is sound, and a set of sound schemas is closed.
ClosedUnder(N, S) == \A s \in S : s.ref \in N /\ Inner(s) \subseteq S
Sound(N, s) == \E S : s \in S /\ ClosedUnder(N, S)

AllSound(N, T) == \A s \in T : Sound(N, s)

\* The names given out: of what is described, being described, or named.
Meant == DOMAIN components \cup ancestors \cup ReferenceNames \cup {""}

\* The schemas made so far: returned, held by a call or a component, or just made.
Made ==
  {schemas[i] : i \in DOMAIN schemas} \cup {components[name] : name \in DOMAIN components}
  \cup (UNION {Elements(stack[i].parts) : i \in DOMAIN stack})
  \cup {returned[i] : i \in DOMAIN returned}

\* Every schema made so far says only names that are given out, also of shapes
\* that are only being described.
Pointers ==
  /\ Sequence(schemas) /\ (returned = <<>> \/ \E s : returned = <<s>>)
  /\ AllSound(Meant, Made)

\* What sequences of schemas, and of properties, hold.
Only(part, T) == \A i \in DOMAIN part : part[i] \in T
OnlyOf(properties, T) == \A i \in DOMAIN properties : properties[i].schema \in T

\* What short ones hold.
LEMMA ShortSequences ==
  ASSUME NEW T
  PROVE  /\ Only(<<>>, T) /\ OnlyOf(<<>>, T)
         /\ \A s \in T : Only(<<s>>, T) /\ \A name : OnlyOf(<<Property(name, s)>>, T)
         /\ \A s, t \in T : Only(<<s, t>>, T)
  <1>1. /\ DOMAIN <<>> = {}
        /\ \A e : DOMAIN <<e>> = {1} /\ <<e>>[1] = e
        /\ \A e, g : DOMAIN <<e, g>> = {1, 2} /\ <<e, g>>[1] = e /\ <<e, g>>[2] = g
    OBVIOUS
  <1>2. \A name, s : Property(name, s).schema = s
    BY DEF Property
  <1> QED
    BY <1>1, <1>2 DEF Only, OnlyOf

\* A schema whose keywords hold no schemas but those of T.
Holds(s, T) ==
  /\ OnlyOf(s.properties, T) /\ Only(s.items, T) /\ Only(s.values, T)
  /\ Only(s.oneOf, T) /\ Only(s.allOf, T)

\* A schema that says a name, around sound ones, is sound.
LEMMA SoundAround ==
  ASSUME NEW N, NEW s, s.ref \in N, \A t \in Inner(s) : Sound(N, t)
  PROVE  Sound(N, s)
  <1> DEFINE W(t) == CHOOSE S : t \in S /\ ClosedUnder(N, S)
             S == {s} \cup UNION {W(t) : t \in Inner(s)}
  <1>1. \A t \in Inner(s) : t \in W(t) /\ ClosedUnder(N, W(t))
    BY DEF Sound
  <1> HIDE DEF W
  <1>2. s \in S /\ Inner(s) \subseteq S
    BY <1>1
  <1>3. ASSUME NEW t \in S PROVE t.ref \in N /\ Inner(t) \subseteq S
    <2>1. CASE t = s
      BY <1>2, <2>1
    <2>2. CASE t # s
      <3>1. PICK u \in Inner(s) : t \in W(u)
        BY <2>2
      <3>2. t.ref \in N /\ Inner(t) \subseteq W(u)
        BY <1>1, <3>1 DEF ClosedUnder
      <3>3. W(u) \subseteq S
        OBVIOUS
      <3> HIDE DEF S
      <3> QED
        BY <3>2, <3>3
    <2> QED
      BY <2>1, <2>2
  <1> QED
    BY <1>2, <1>3 DEF Sound, ClosedUnder

\* The same, from what its keywords hold.
LEMMA SoundHolding ==
  ASSUME NEW N, NEW s, s.ref \in N, NEW T, Holds(s, T), AllSound(N, T)
  PROVE  Sound(N, s)
  <1>1. Inner(s) \subseteq T
    BY DEF Inner, Holds, Only, OnlyOf
  <1> QED
    BY <1>1, SoundAround DEF AllSound

\* A few sound schemas.
LEMMA FewSound ==
  ASSUME NEW N
  PROVE  /\ AllSound(N, {})
         /\ \A s : Sound(N, s) => AllSound(N, {s})
         /\ \A s, t : Sound(N, s) /\ Sound(N, t) => AllSound(N, {s, t})
  BY DEF AllSound

\* What is sound stays so as names are given out.
LEMMA SoundLater ==
  ASSUME NEW N, NEW M, N \subseteq M, NEW s, Sound(N, s)
  PROVE  Sound(M, s)
  BY DEF Sound, ClosedUnder

\* A schema without others inside says what it points to.
LEMMA PlainSound ==
  ASSUME NEW N, "" \in N
  PROVE  /\ Sound(N, Blank)
         /\ \A type : Sound(N, Typed(type))
         /\ \A shape : Sound(N, ScalarSchema(shape))
         /\ \A name \in N : Sound(N, Pointer(name))
  <1>1. Blank.ref = "" /\ Holds(Blank, {})
    BY ShortSequences DEF Holds, Blank
  <1>2. ASSUME NEW type PROVE Typed(type).ref = "" /\ Holds(Typed(type), {})
    BY ShortSequences DEF Holds, Blank, Typed
  <1>3. ASSUME NEW shape PROVE ScalarSchema(shape).ref = "" /\ Holds(ScalarSchema(shape), {})
    BY ShortSequences DEF Holds, Blank, Typed, ScalarSchema
  <1>4. ASSUME NEW name PROVE Pointer(name).ref = name /\ Holds(Pointer(name), {})
    BY ShortSequences DEF Holds, Blank, Pointer
  <1> QED
    BY <1>1, <1>2, <1>3, <1>4, FewSound, SoundHolding

\* An object whose one property holds a sound schema.
LEMMA WrappingSound ==
  ASSUME NEW N, "" \in N, NEW member, NEW part, Sound(N, part)
  PROVE  Sound(N, Wrapping(member, part))
  <1> DEFINE s == Wrapping(member, part)
  <1>1. s.ref = "" /\ s.properties = <<Property(member.name, part)>> /\ s.items = <<>> /\ s.values = <<>>
        /\ s.oneOf = <<>> /\ s.allOf = <<>>
    BY DEF Wrapping, Typed, Blank
  <1> HIDE DEF s
  <1>3. Holds(s, {part})
    BY <1>1, ShortSequences DEF Holds
  <1> QED
    BY <1>1, <1>3, FewSound, SoundHolding DEF s

\* A variant and the field that names it.
LEMMA TaggingSound ==
  ASSUME NEW N, "" \in N, NEW tag, NEW member, NEW part, Sound(N, part)
  PROVE  Sound(N, Tagging(tag, member, part))
  <1> DEFINE const == [Typed("string") EXCEPT !.const = member.name]
             named == [Typed("object") EXCEPT !.properties = <<Property(tag, const)>>, !.required = {tag}]
             s == Tagging(tag, member, part)
  <1>1. const.ref = "" /\ Holds(const, {})
    BY ShortSequences DEF Holds, Typed, Blank
  <1>2. Sound(N, const)
    BY <1>1, FewSound, SoundHolding
  <1> HIDE DEF const
  <1>3. named.ref = "" /\ named.properties = <<Property(tag, const)>> /\ named.items = <<>>
        /\ named.values = <<>> /\ named.oneOf = <<>> /\ named.allOf = <<>>
    BY DEF Typed, Blank
  <1>5. s = [Blank EXCEPT !.allOf = <<part, named>>]
    BY DEF Tagging, const
  <1> HIDE DEF named
  <1>6. Holds(named, {const})
    BY <1>3, ShortSequences DEF Holds
  <1>7. Sound(N, named)
    BY <1>2, <1>3, <1>6, FewSound, SoundHolding
  <1>8. s.ref = "" /\ s.properties = <<>> /\ s.items = <<>> /\ s.values = <<>> /\ s.oneOf = <<>>
        /\ s.allOf = <<part, named>>
    BY <1>5 DEF Blank
  <1> HIDE DEF s
  <1>9. Holds(s, {part, named})
    BY <1>8, ShortSequences DEF Holds
  <1> QED
    BY <1>7, <1>8, <1>9, FewSound, SoundHolding DEF s

\* What a shape is described as, of sound parts.
LEMMA DescribedSound ==
  ASSUME NEW N, "" \in N, NEW shape, NEW parts, \A i \in DOMAIN parts : Sound(N, parts[i])
  PROVE  Sound(N, Described(shape, parts))
  <1>1. CASE shape.kind = "object"
    <2> DEFINE s == ObjectSchema(shape.members, parts)
    <2>1. /\ s.ref = "" /\ s.items = <<>> /\ s.values = <<>> /\ s.oneOf = <<>> /\ s.allOf = <<>>
          /\ s.properties = [i \in DOMAIN parts |-> Property(shape.members[i].name, parts[i])]
      BY DEF ObjectSchema, Typed, Blank
    <2>2. \A name, part : Property(name, part).schema = part
      BY DEF Property
    <2> DEFINE P(i) == Property(shape.members[i].name, parts[i])
    <2> HIDE DEF s
    <2>3. DOMAIN s.properties = DOMAIN parts /\ \A i \in DOMAIN parts : s.properties[i].schema = parts[i]
      <3>1. s.properties = [i \in DOMAIN parts |-> P(i)] /\ \A i \in DOMAIN parts : P(i).schema = parts[i]
        BY <2>1, <2>2
      <3> HIDE DEF P
      <3> QED
        BY <3>1
    <2> DEFINE T == {parts[i] : i \in DOMAIN parts}
    <2>4. \A i \in DOMAIN parts : parts[i] \in T
      OBVIOUS
    <2>5. AllSound(N, T)
      BY DEF AllSound
    <2> HIDE DEF T
    <2>6. Holds(s, T)
      <3>1. OnlyOf(s.properties, T)
        BY <2>3, <2>4 DEF OnlyOf
      <3> QED
        BY <2>1, <3>1, ShortSequences DEF Holds
    <2>7. Sound(N, s)
      BY <2>1, <2>5, <2>6, FewSound, SoundHolding
    <2> QED
      BY <1>1, <2>7 DEF s, Described
  <1>2. CASE shape.kind # "object"
    <2> DEFINE s == UnionSchema(shape, parts)
               V(i) == IF shape.tag # "" THEN Tagging(shape.tag, shape.members[i], parts[i])
                       ELSE Wrapping(shape.members[i], parts[i])
    <2>1. /\ s.ref = "" /\ s.items = <<>> /\ s.values = <<>> /\ s.properties = <<>> /\ s.allOf = <<>>
          /\ s.oneOf = [i \in DOMAIN parts |-> V(i)]
      BY DEF UnionSchema, Blank
    <2>2. \A i \in DOMAIN parts : Sound(N, V(i))
      BY WrappingSound, TaggingSound
    <2> HIDE DEF s, V
    <2> DEFINE T == {V(i) : i \in DOMAIN parts}
    <2>3. \A i \in DOMAIN parts : V(i) \in T
      OBVIOUS
    <2>4. AllSound(N, T)
      BY <2>2 DEF AllSound
    <2> HIDE DEF T
    <2>5. Holds(s, T)
      <3>1. DOMAIN s.oneOf = DOMAIN parts /\ \A i \in DOMAIN parts : s.oneOf[i] = V(i)
        BY <2>1
      <3>2. Only(s.oneOf, T)
        BY <2>3, <3>1 DEF Only
      <3> QED
        BY <2>1, <3>2, ShortSequences DEF Holds
    <2>6. Sound(N, s)
      BY <2>1, <2>4, <2>5, FewSound, SoundHolding
    <2> QED
      BY <1>2, <2>6 DEF s, Described
  <1> QED
    BY <1>1, <1>2

\* What a wrapper makes of a sound schema.
LEMMA WrappedSound ==
  ASSUME NEW N, "" \in N, NEW shape, shape.kind \in Wrappers \cup {"reference"},
         NEW inner, Sound(N, inner)
  PROVE  Sound(N, Wrapped(shape, inner))
  <1> DEFINE s == Wrapped(shape, inner)
  <1>1. CASE shape.kind = "list"
    <2>1. s.ref = "" /\ s.items = <<inner>> /\ s.values = <<>> /\ s.properties = <<>> /\ s.allOf = <<>>
          /\ s.oneOf = <<>>
      BY <1>1 DEF Wrapped, Typed, Blank
    <2> HIDE DEF s
    <2>2. Holds(s, {inner})
      BY <2>1, ShortSequences DEF Holds
    <2> QED
      BY <2>1, <2>2, FewSound, SoundHolding DEF s
  <1>2. CASE shape.kind = "map"
    <2>1. s.ref = "" /\ s.items = <<>> /\ s.values = <<inner>> /\ s.properties = <<>> /\ s.allOf = <<>>
          /\ s.oneOf = <<>>
      BY <1>2 DEF Wrapped, Typed, Blank
    <2> HIDE DEF s
    <2>2. Holds(s, {inner})
      BY <2>1, ShortSequences DEF Holds
    <2> QED
      BY <2>1, <2>2, FewSound, SoundHolding DEF s
  <1>3. CASE shape.kind = "nullable"
    <2> DEFINE null == Typed("null")
    <2>1. Sound(N, null)
      BY PlainSound
    <2> HIDE DEF null
    <2>2. s.ref = "" /\ s.items = <<>> /\ s.values = <<>> /\ s.properties = <<>> /\ s.allOf = <<>>
          /\ s.oneOf = <<inner, null>>
      BY <1>3 DEF Wrapped, Blank, null
    <2> HIDE DEF s
    <2>3. Holds(s, {inner, null})
      BY <2>2, ShortSequences DEF Holds
    <2> QED
      BY <2>1, <2>2, <2>3, FewSound, SoundHolding DEF s
  <1>4. CASE shape.kind = "reference"
    BY <1>4 DEF Wrapped
  <1> QED
    BY <1>1, <1>2, <1>3, <1>4 DEF Wrappers

\* A name once given out stays so: it is described before its shape is closed.
LEMMA MeantGrows ==
  ASSUME IInv, [Next]_vars
  PROVE  Meant \subseteq Meant'
  <1>1. ReferenceNames' = ReferenceNames
    BY DEF ReferenceNames
  <1>2. DOMAIN components \cup ancestors \subseteq DOMAIN components' \cup ancestors'
    <2>1. CASE OpenShape
      BY <2>1, Opening DEF Opens, IInv
    <2>2. CASE Declare
      BY <2>2 DEF Declare
    <2>3. CASE ~OpenShape /\ ~Declare
      BY <2>3, OtherSteps DEF IInv
    <2> QED
      BY <2>1, <2>2, <2>3
  <1> QED
    BY <1>1, <1>2 DEF Meant

\* A step that makes no schema, or a sound one.
LEMMA PointersGo ==
  ASSUME IInv, Pointers, [Next]_vars, Sequence(schemas'),
         returned' = <<>> \/ \E s : returned' = <<s>>,
         \A s \in Made' : s \in Made \/ Sound(Meant', s)
  PROVE  Pointers'
  <1>1. \A s \in Made' : Sound(Meant', s)
    BY MeantGrows, SoundLater DEF Pointers, AllSound
  <1>2. ASSUME NEW s, Sound(Meant', s) PROVE Sound(Meant, s)'
    BY <1>2 DEF Sound, ClosedUnder, Inner
  <1>3. AllSound(Meant, Made)'
    BY <1>1, <1>2 DEF AllSound
  <1> QED
    BY <1>3 DEF Pointers, Sequence, Elements

\* What the parts of a call say, and what was returned.
LEMMA HeldSound ==
  ASSUME IInv, Pointers
  PROVE  /\ stack # <<>> => \A i \in DOMAIN Top.parts : Sound(Meant, Top.parts[i])
         /\ returned # <<>> => Sound(Meant, returned[1]) /\ returned[1] \in Made
         /\ "" \in Meant
  <1>1. ASSUME stack # <<>>, NEW i \in DOMAIN Top.parts
        PROVE  Top.parts[i] \in Made
    <2>1. Len(stack) \in DOMAIN stack /\ Top = stack[Len(stack)]
      BY <1>1, Popping DEF IInv
    <2>2. Top.parts[i] \in Elements(stack[Len(stack)].parts)
      BY <2>1 DEF Elements
    <2> QED
      BY <2>1, <2>2 DEF Made
  <1>2. ASSUME returned # <<>> PROVE returned[1] \in Made
    <2>1. 1 \in DOMAIN returned
      BY <1>2 DEF Pointers
    <2>2. returned[1] \in {returned[i] : i \in DOMAIN returned}
      BY <2>1
    <2> QED
      BY <2>2 DEF Made
  <1> QED
    BY <1>1, <1>2 DEF Pointers, AllSound, Meant

\* Where the schemas made after a step are.
LEMMA MadeOf ==
  ASSUME NEW s \in Made'
  PROVE  \/ s \in {schemas'[i] : i \in DOMAIN schemas'}
         \/ s \in {components'[name] : name \in DOMAIN components'}
         \/ s \in UNION {Elements(stack'[i].parts) : i \in DOMAIN stack'}
         \/ s \in {returned'[i] : i \in DOMAIN returned'}
  BY DEF Made, Elements

\* A step that returns a schema, whatever else it closes.
LEMMA ReturnsMade ==
  ASSUME NEW schema, returned' = <<schema>>, schemas' = schemas,
         \A name \in DOMAIN components' :
           \/ name \in DOMAIN components /\ components'[name] = components[name]
           \/ Sound(Meant', components'[name]),
         DOMAIN stack' \subseteq DOMAIN stack, \A i \in DOMAIN stack' : stack'[i] = stack[i],
         Sound(Meant', schema)
  PROVE  \A s \in Made' : s \in Made \/ Sound(Meant', s)
  <1>1. DOMAIN returned' = {1} /\ returned'[1] = schema
    OBVIOUS
  <1>2. \A s \in {schemas'[i] : i \in DOMAIN schemas'} : s \in Made
    BY DEF Made
  <1>3. \A s \in {components'[name] : name \in DOMAIN components'} : s \in Made \/ Sound(Meant', s)
    BY DEF Made
  <1>4. \A s \in UNION {Elements(stack'[i].parts) : i \in DOMAIN stack'} : s \in Made
    BY DEF Made
  <1>5. \A s \in {returned'[i] : i \in DOMAIN returned'} : Sound(Meant', s)
    BY <1>1
  <1> QED
    BY <1>2, <1>3, <1>4, <1>5, MadeOf

\* Every step keeps pointers to what is given out.
LEMMA PointersStep ==
  ASSUME IInv, Pointers, [Next]_vars
  PROVE  Pointers'
  <1>1. ASSUME NEW s, Sound(Meant, s) PROVE Sound(Meant', s)
    BY <1>1, MeantGrows, SoundLater
  <1>2. "" \in Meant
    BY DEF Meant
  <1>3. ASSUME NEW schema, Return(schema), Sound(Meant, schema),
               UNCHANGED <<schemas, components>>, stack' = stack \/ (stack # <<>> /\ stack' = Popped)
        PROVE  Pointers'
    <2>1. returned' = <<schema>>
      BY <1>3 DEF Return
    <2>2. DOMAIN stack' \subseteq DOMAIN stack /\ \A i \in DOMAIN stack' : stack'[i] = stack[i]
      BY <1>3, Popping DEF IInv
    <2>3. \A s \in Made' : s \in Made \/ Sound(Meant', s)
      BY <1>1, <1>3, <2>1, <2>2, ReturnsMade
    <2> QED
      BY <1>3, <2>1, <2>3, PointersGo DEF Pointers
  <1>4. CASE VisitScalar
    <2>1. Return(ScalarSchema(Visited)) /\ UNCHANGED <<schemas, components>> /\ stack' = stack
      BY <1>4 DEF VisitScalar
    <2>2. Sound(Meant, ScalarSchema(Visited))
      BY <1>2, PlainSound
    <2> QED
      BY <1>3, <2>1, <2>2
  <1>5. CASE VisitKnown
    <2>1. Visited.name \in Meant
      BY <1>5 DEF VisitKnown, Known, Meant
    <2>2. Return(Pointer(Visited.name)) /\ UNCHANGED <<schemas, components>> /\ stack' = stack
      BY <1>5 DEF VisitKnown
    <2>3. Sound(Meant, Pointer(Visited.name))
      BY <1>2, <2>1, PlainSound
    <2> QED
      BY <1>3, <2>2, <2>3
  <1>6. CASE NameReference
    <2>1. Visited.name \in Meant
      <3>1. visit # <<>> /\ Node[visit[1]].kind = "reference" /\ Visited.name # ""
        BY <1>6 DEF NameReference, Visiting
      <3>2. Visited.name \in ReferenceNames
        <4>1. visit[1] \in {m \in Nodes : Node[m].kind = "reference"}
          BY <3>1, VisitedNode DEF IInv
        <4>2. Visited.name \in {Node[n].name : n \in {m \in Nodes : Node[m].kind = "reference"}}
          BY <4>1 DEF Visited
        <4> QED
          BY <3>1, <4>2 DEF ReferenceNames
      <3> QED
        BY <3>2 DEF Meant
    <2>2. Return(Pointer(Visited.name)) /\ UNCHANGED <<schemas, components>> /\ stack' = stack
      BY <1>6 DEF NameReference
    <2>3. Sound(Meant, Pointer(Visited.name))
      BY <1>2, <2>1, PlainSound
    <2> QED
      BY <1>3, <2>2, <2>3
  <1>7. CASE NoReference
    <2>1. Return(Blank) /\ UNCHANGED <<schemas, components>> /\ stack' = stack
      BY <1>7 DEF NoReference
    <2>2. Sound(Meant, Blank)
      BY <1>2, PlainSound
    <2> QED
      BY <1>3, <2>1, <2>2
  <1>8. CASE CloseInline
    <2>1. stack # <<>> /\ stack' = Popped /\ Return(Described(TopNode, Top.parts))
          /\ UNCHANGED <<schemas, components>>
      BY <1>8 DEF CloseInline, Inside
    <2>2. Sound(Meant, Described(TopNode, Top.parts))
      BY <1>2, <2>1, HeldSound, DescribedSound
    <2> QED
      BY <1>3, <2>1, <2>2
  <1>9. CASE CloseWrapper
    <2>1. stack # <<>> /\ stack' = Popped /\ Return(Wrapped(TopNode, returned[1])) /\ returned # <<>>
          /\ TopNode.kind \in Wrappers \cup {"reference"} /\ UNCHANGED <<schemas, components>>
      BY <1>9 DEF CloseWrapper, Inside
    <2>2. Sound(Meant, Wrapped(TopNode, returned[1]))
      BY <1>2, <2>1, HeldSound, WrappedSound
    <2> QED
      BY <1>3, <2>1, <2>2
  <1>10. CASE Declare
    <2> DEFINE name == TopNode.name
               schema == Described(TopNode, Top.parts)
    <2>1. /\ stack # <<>> /\ stack' = Popped /\ returned' = <<Pointer(name)>> /\ schemas' = schemas
          /\ DOMAIN components' = DOMAIN components \cup {name}
          /\ \A n \in DOMAIN components' : components'[n] = IF n = name THEN schema ELSE components[n]
      BY <1>10 DEF Declare, Inside, Return
    <2>2. Sound(Meant', schema)
      BY <1>1, <1>2, <2>1, HeldSound, DescribedSound
    <2>3. name \in Meant' /\ "" \in Meant'
      BY <2>1 DEF Meant
    <2>4. Sound(Meant', Pointer(name))
      BY <2>3, PlainSound
    <2> HIDE DEF name, schema
    <2>5. \A n \in DOMAIN components' : \/ n \in DOMAIN components /\ components'[n] = components[n]
                                        \/ Sound(Meant', components'[n])
      BY <2>1, <2>2
    <2>6. DOMAIN stack' \subseteq DOMAIN stack /\ \A i \in DOMAIN stack' : stack'[i] = stack[i]
      BY <2>1, Popping DEF IInv
    <2>7. \A s \in Made' : s \in Made \/ Sound(Meant', s)
      BY <2>1, <2>4, <2>5, <2>6, ReturnsMade
    <2> QED
      BY <2>1, <2>7, PointersGo DEF Pointers
  <1>11. CASE Answer
    <2>1. returned # <<>> /\ schemas' = Append(schemas, returned[1]) /\ returned' = <<>>
          /\ UNCHANGED <<components, stack>>
      BY <1>11 DEF Answer
    <2>2. /\ Sequence(schemas') /\ DOMAIN schemas' = 1..(Len(schemas) + 1) /\ DOMAIN schemas = 1..Len(schemas)
          /\ Len(schemas) \in Nat
          /\ \A i \in 1..Len(schemas) : schemas'[i] = schemas[i]
          /\ schemas'[Len(schemas) + 1] = returned[1]
      BY <2>1, Appended DEF Pointers
    <2>3. ASSUME NEW i \in DOMAIN schemas' PROVE schemas'[i] \in Made
      <3>1. CASE i = Len(schemas) + 1
        BY <2>1, <2>2, <3>1, HeldSound
      <3>2. CASE i # Len(schemas) + 1
        <4>1. i \in DOMAIN schemas /\ schemas'[i] = schemas[i]
          BY <2>2, <2>3, <3>2
        <4>2. schemas[i] \in {schemas[j] : j \in DOMAIN schemas}
          BY <4>1
        <4> QED
          BY <4>1, <4>2 DEF Made
      <3> QED
        BY <3>1, <3>2
    <2>4. DOMAIN returned' = {}
      BY <2>1
    <2>5. \A s \in {schemas'[i] : i \in DOMAIN schemas'} : s \in Made
      BY <2>3
    <2>6. \A s \in {returned'[i] : i \in DOMAIN returned'} : s \in Made
      BY <2>4
    <2>7. \A s \in {components'[name] : name \in DOMAIN components'}
                    \cup UNION {Elements(stack'[i].parts) : i \in DOMAIN stack'} : s \in Made
      BY <2>1 DEF Made
    <2>8. \A s \in Made' : s \in Made
      BY <2>5, <2>6, <2>7, MadeOf
    <2> QED
      BY <2>1, <2>2, <2>8, PointersGo
  <1>12. CASE OpenShape \/ OpenWrapper
    <2>1. visit # <<>> /\ stack' = Pushed /\ UNCHANGED <<schemas, components, returned>>
      BY <1>12 DEF OpenShape, OpenWrapper, Visiting, Followed
    <2>2. /\ DOMAIN stack' = DOMAIN stack \cup {Len(stack) + 1}
          /\ \A i \in DOMAIN stack : stack'[i] = stack[i]
          /\ stack'[Len(stack) + 1].parts = <<>>
      BY <2>1, Pushing DEF IInv, Frame
    <2>3. Elements(<<>>) = {}
      BY DEF Elements
    <2>4. \A s \in Made' : s \in Made
      BY <2>1, <2>2, <2>3 DEF Made, Elements
    <2> QED
      BY <2>1, <2>4, PointersGo DEF Pointers
  <1>13. CASE LeaveMember
    <2>1. /\ stack # <<>> /\ returned # <<>> /\ returned' = <<>>
          /\ stack' = [stack EXCEPT ![Len(stack)].parts = Append(@, returned[1])]
          /\ UNCHANGED <<schemas, components>>
      BY <1>13 DEF LeaveMember, Inside
    <2>2. /\ DOMAIN stack' = DOMAIN stack /\ Len(stack) \in DOMAIN stack /\ Sequence(Top.parts)
          /\ Top = stack[Len(stack)]
      BY <2>1, Extending, Popping DEF IInv
    <2>3. ASSUME NEW i \in DOMAIN stack, NEW s \in Elements(stack'[i].parts)
          PROVE  s \in Made
      <3>1. CASE i # Len(stack)
        BY <2>1, <2>3, <3>1 DEF Made
      <3>2. CASE i = Len(stack)
        <4>1. stack'[i].parts = Append(Top.parts, returned[1])
          <5>1. stack[i] = Frame(stack[i].node, stack[i].parts)
            BY <2>2, <3>2, Popping DEF IInv, Calls
          <5> QED
            BY <2>1, <2>2, <3>2, <5>1 DEF Frame
        <4>2. s \in Elements(Top.parts) \cup {returned[1]}
          BY <2>2, <2>3, <4>1, Appended DEF Elements
        <4> QED
          BY <2>1, <2>2, <4>2, HeldSound DEF Made
      <3> QED
        BY <3>1, <3>2
    <2>4. DOMAIN returned' = {}
      BY <2>1
    <2>5. \A s \in {returned'[i] : i \in DOMAIN returned'} : s \in Made
      BY <2>4
    <2>6. \A s \in UNION {Elements(stack'[i].parts) : i \in DOMAIN stack'} : s \in Made
      BY <2>2, <2>3
    <2>7. \A s \in {schemas'[i] : i \in DOMAIN schemas'}
                    \cup {components'[name] : name \in DOMAIN components'} : s \in Made
      BY <2>1 DEF Made
    <2>8. \A s \in Made' : s \in Made
      BY <2>5, <2>6, <2>7, MadeOf
    <2> QED
      BY <2>1, <2>8, PointersGo DEF Pointers
  <1>14. CASE Ask \/ Overflow \/ EnterMember \/ UNCHANGED vars
    <2>1. UNCHANGED <<schemas, components, stack, returned>>
      BY <1>14 DEF Ask, Overflow, EnterMember, vars, calls
    <2>2. \A s \in Made' : s \in Made
      BY <2>1 DEF Made, Elements
    <2> QED
      BY <2>1, <2>2, PointersGo DEF Pointers
  <1> QED
    BY <1>4, <1>5, <1>6, <1>7, <1>8, <1>9, <1>10, <1>11, <1>12, <1>13, <1>14 DEF Next

\* Nothing has been made at first.
LEMMA PointersInit == Init => Pointers
  <1> SUFFICES ASSUME Init PROVE Pointers
    OBVIOUS
  <1>1. schemas = <<>> /\ returned = <<>> /\ stack = <<>> /\ components = <<>>
    BY DEF Init
  <1>2. DOMAIN schemas = {} /\ DOMAIN returned = {} /\ DOMAIN stack = {} /\ DOMAIN components = {}
    BY <1>1
  <1>3. \A s : s \notin Made
    BY <1>2 DEF Made
  <1>4. Sequence(<<>>)
    BY EmptySeq DEF Sequence, Elements
  <1> QED
    BY <1>1, <1>3, <1>4 DEF Pointers, AllSound

----------------------------------------------------------------------------
(* As deep as one looks *)

\* Induction, over a set in place of a predicate: a set of numbers without a
\* least missing one misses none.
LEMMA SetInduction ==
  ASSUME NEW S, 0 \in S, \A n \in Nat : n \in S => n + 1 \in S
  PROVE  Nat \subseteq S
  <1> DEFINE R == OpToRel(<, Nat)
             T == Nat \ S
  <1>1. IsWellFoundedOn(R, Nat)
    BY NatLessThanWellFounded
  <1>2. SUFFICES ASSUME T # {} PROVE FALSE
    OBVIOUS
  <1>3. T \subseteq Nat
    OBVIOUS
  <1> HIDE DEF R, T
  <1>4. PICK x \in T : \A y \in T : ~(<<y, x>> \in R)
    BY <1>1, <1>2, <1>3, WFMin
  <1>5. x \in Nat /\ x \notin S /\ x # 0
    BY DEF T
  <1>6. x - 1 \in Nat /\ x - 1 \notin S
    BY <1>5
  <1>7. <<x - 1, x>> \in R
    BY <1>5, <1>6 DEF R, OpToRel
  <1> QED
    BY <1>4, <1>6, <1>7 DEF T

\* What Nested builds, layer by layer.
Layered(outer, n, f) ==
  f = [k \in 0..n |-> IF k = 0 THEN outer ELSE outer \cup UNION {Inner(s) : s \in f[k - 1]}]

\* That many layers can be built.
LEMMA LayersExist ==
  ASSUME NEW outer, NEW n \in Nat
  PROVE  \E f : Layered(outer, n, f)
  <1> DEFINE More(S) == outer \cup UNION {Inner(s) : s \in S}
             N == {m \in Nat : \E f : f = [k \in 0..m |-> IF k = 0 THEN outer ELSE More(f[k - 1])]}
  <1> HIDE DEF More
  <1>1. 0 \in N
    <2> DEFINE r == [k \in 0..0 |-> outer]
    <2>1. r = [k \in 0..0 |-> IF k = 0 THEN outer ELSE More(r[k - 1])]
      OBVIOUS
    <2> QED
      BY <2>1
  <1>2. ASSUME NEW m \in Nat, m \in N PROVE m + 1 \in N
    <2>1. PICK r : r = [k \in 0..m |-> IF k = 0 THEN outer ELSE More(r[k - 1])]
      BY <1>2
    <2> DEFINE last == More(r[m])
               q == [k \in 0..(m + 1) |-> IF k = m + 1 THEN last ELSE r[k]]
    <2>2. \A k \in 0..(m + 1) : q[k] = IF k = 0 THEN outer ELSE More(q[k - 1])
      <3> TAKE k \in 0..(m + 1)
      <3>1. CASE k = m + 1
        <4>1. k # 0 /\ k - 1 = m /\ m \in 0..(m + 1) /\ m # m + 1
          BY <3>1
        <4>2. q[k] = last /\ q[k - 1] = r[m]
          BY <3>1, <4>1
        <4> HIDE DEF q
        <4> QED
          BY <3>1, <4>1, <4>2
      <3>2. CASE k \in 0..m /\ k # 0
        <4>1. k - 1 \in 0..(m + 1) /\ k - 1 # m + 1 /\ k # m + 1
          BY <3>2
        <4> HIDE DEF last
        <4> QED
          BY <2>1, <3>2, <4>1
      <3>3. CASE k = 0
        BY <2>1, <3>3
      <3> QED
        BY <3>1, <3>2, <3>3
    <2>3. q = [k \in 0..(m + 1) |-> q[k]]
      OBVIOUS
    <2> HIDE DEF q
    <2>4. q = [k \in 0..(m + 1) |-> IF k = 0 THEN outer ELSE More(q[k - 1])]
      BY <2>2, <2>3
    <2> QED
      BY <2>4
  <1>3. Nat \subseteq N
    BY <1>1, <1>2, SetInduction
  <1> QED
    BY <1>3 DEF Layered, More

\* And nothing in them leaves a set that holds what is inside its schemas.
LEMMA NestedStays ==
  ASSUME NEW outer, NEW n \in Nat, NEW S, outer \subseteq S, \A s \in S : Inner(s) \subseteq S
  PROVE  Nested(outer, n) \subseteq S
  <1>1. PICK f : Layered(outer, n, f) /\ Nested(outer, n) = f[n]
    <2>1. \E f : Layered(outer, n, f)
      BY LayersExist
    <2> QED
      BY <2>1 DEF Nested, Layered
  <1> DEFINE N == {k \in Nat : k <= n => f[k] \subseteq S}
  <1>2. 0 \in N
    BY <1>1 DEF Layered
  <1>3. ASSUME NEW k \in Nat, k \in N PROVE k + 1 \in N
    <2> SUFFICES ASSUME k + 1 <= n PROVE f[k + 1] \subseteq S
      OBVIOUS
    <2>1. k + 1 \in 0..n /\ k + 1 # 0 /\ (k + 1) - 1 = k
      OBVIOUS
    <2>2. f[k] \subseteq S
      BY <1>3
    <2>3. f[k + 1] = outer \cup UNION {Inner(s) : s \in f[k]}
      BY <1>1, <2>1 DEF Layered
    <2> QED
      BY <2>2, <2>3
  <1>4. Nat \subseteq N
    BY <1>2, <1>3, SetInduction
  <1>5. f[n] \subseteq S
    BY <1>4
  <1> QED
    BY <1>1, <1>5

\* Schemas that are each sound say only these names, however deep.
LEMMA NestedSound ==
  ASSUME NEW N, NEW outer, AllSound(N, outer), NEW n \in Nat
  PROVE  \A s \in Nested(outer, n) : s.ref \in N
  <1> DEFINE W(t) == CHOOSE S : t \in S /\ ClosedUnder(N, S)
             S == UNION {W(t) : t \in outer}
  <1>1. \A t \in outer : t \in W(t) /\ ClosedUnder(N, W(t))
    BY DEF Sound, AllSound
  <1> HIDE DEF W
  <1>2. outer \subseteq S
    BY <1>1
  <1>3. ASSUME NEW s \in S PROVE s.ref \in N /\ Inner(s) \subseteq S
    <2>1. PICK t \in outer : s \in W(t)
      OBVIOUS
    <2>2. s.ref \in N /\ Inner(s) \subseteq W(t)
      BY <1>1, <2>1 DEF ClosedUnder
    <2>3. W(t) \subseteq S
      OBVIOUS
    <2> HIDE DEF S
    <2> QED
      BY <2>2, <2>3
  <1> HIDE DEF S
  <1>4. Nested(outer, n) \subseteq S
    BY <1>2, <1>3, NestedStays
  <1> QED
    BY <1>3, <1>4

\* What is given out when everything is described is described.
LEMMA MeantAtLast ==
  ASSUME IInv, Done
  PROVE  Meant = DOMAIN components \cup ReferenceNames \cup {""}
  <1>1. OpenFrames = {}
    <2>1. stack = <<>>
      BY DEF Done, Between
    <2> QED
      BY <2>1 DEF OpenFrames
  <1>2. ancestors = {}
    BY <1>1 DEF IInv, ScopesClose
  <1> QED
    BY <1>2 DEF Meant

\* Every pointer of a finished document is to a component in it, or is what a
\* reference with a name names, however the descriptions share and recur
\* (object, union).
THEOREM PointersLead == Spec => []NothingDangles
  <1>1. ASSUME IInv, Pointers PROVE NothingDangles
    <2> SUFFICES ASSUME Done PROVE \A s \in Nested(Document, Layers) :
                                     s.ref # "" => s.ref \in DOMAIN components \cup ReferenceNames
      BY DEF NothingDangles
    <2>1. Layers \in Nat
      BY JobAssumption DEF Layers
    <2>2. AllSound(Meant, Document)
      BY <1>1 DEF Pointers, AllSound, Made, Document
    <2>3. \A s \in Nested(Document, Layers) : s.ref \in Meant
      BY <2>1, <2>2, NestedSound
    <2> QED
      BY <1>1, <2>3, MeantAtLast
  <1>2. IInv /\ Pointers /\ [Next]_vars => Pointers'
    BY PointersStep
  <1> QED
    BY <1>1, <1>2, Inductive, PointersInit, PTL DEF Spec
=============================================================================
