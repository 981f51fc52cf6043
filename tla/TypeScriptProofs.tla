-------------------------- MODULE TypeScriptProofs ---------------------------
(***************************************************************************)
(* What a module declares, for every description and every sequence of     *)
(* roots.  The properties say nothing of the calls in progress; Calls does *)
(* so, and Annotated says for every name what SuspendedAreAnnotated says   *)
(* for a suspended one.                                                    *)
(*                                                                         *)
(* Resolves is about what was collected before, and Gathers says how: what *)
(* collect has seen has its name in components, or leads to what it has    *)
(* seen or will see.  Speaks says that a declaration is its component's.   *)
(*                                                                         *)
(* What uses returns is nowhere looked into: it is recursive, and no       *)
(* property depends on what it finds.  frames is therefore typed by its    *)
(* own elements.                                                           *)
(***************************************************************************)
EXTENDS TypeScriptModule, SequenceTheorems, WellFoundedInduction, TLAPS

Frame(name, uses) == [name |-> name, uses |-> uses]
Collects ==
  /\ todo \in Seq(Nodes)
  /\ DOMAIN components \subseteq Identifiers

Calls ==
  /\ frames \in Seq(Range(frames))
  /\ \A i \in 1..Len(frames) :
       frames[i] = Frame(frames[i].name, frames[i].uses) /\ frames[i].name \in Identifiers
  /\ declarations \in Seq(Range(declarations))

Annotated ==
  /\ \A i \in DOMAIN declarations : declarations[i].suspended \subseteq recursive
  /\ \A i \in DOMAIN declarations : NameAt(i) \in recursive => declarations[i].annotated

IInv == Collects /\ Calls /\ DeclaredOnce /\ LoadsInOrder /\ Annotated

----------------------------------------------------------------------------
(* Sequences *)

\* A sequence is one of its own elements.
LEMMA OwnElements ==
  ASSUME NEW S, NEW s \in Seq(S)
  PROVE  s \in Seq(Range(s)) /\ DOMAIN s = 1..Len(s) /\ Len(s) \in Nat
  <1>1. s \in [1..Len(s) -> S] /\ Len(s) \in Nat
    BY LenProperties
  <1>2. s \in [1..Len(s) -> Range(s)]
    BY <1>1 DEF Range
  <1> QED
    BY <1>1, <1>2

\* What Append adds comes last, and the rest stays where it is.
LEMMA Appended ==
  ASSUME NEW s, s \in Seq(Range(s)), NEW e
  PROVE  /\ Append(s, e) \in Seq(Range(Append(s, e)))
         /\ Len(s) \in Nat /\ DOMAIN s = 1..Len(s)
         /\ Len(Append(s, e)) = Len(s) + 1
         /\ DOMAIN Append(s, e) = 1..(Len(s) + 1)
         /\ \A i \in 1..Len(s) : Append(s, e)[i] = s[i]
         /\ Append(s, e)[Len(s) + 1] = e
  <1> DEFINE S == Range(s) \cup {e}
  <1>1. s \in Seq(S)
    <2>1. s \in [1..Len(s) -> Range(s)] /\ Len(s) \in Nat
      BY LenProperties
    <2>2. s \in [1..Len(s) -> S]
      BY <2>1
    <2> QED
      BY <2>1, <2>2
  <1>2. /\ Append(s, e) \in Seq(S)
        /\ Len(Append(s, e)) = Len(s) + 1
        /\ \A i \in 1..Len(s) : Append(s, e)[i] = s[i]
        /\ Append(s, e)[Len(s) + 1] = e
    BY <1>1, AppendProperties
  <1>3. Append(s, e) \in Seq(Range(Append(s, e))) /\ DOMAIN Append(s, e) = 1..Len(Append(s, e))
    BY <1>2, OwnElements
  <1> QED
    BY <1>1, <1>2, <1>3, OwnElements

\* All of a sequence but the last.
LEMMA Popped ==
  ASSUME NEW s, s \in Seq(Range(s)), s # <<>>
  PROVE  LET t == SubSeq(s, 1, Len(s) - 1)
         IN  /\ t \in Seq(Range(t))
             /\ Len(s) \in Nat \ {0} /\ Len(t) = Len(s) - 1
             /\ DOMAIN t = 1..(Len(s) - 1) /\ DOMAIN s = 1..Len(s)
             /\ \A i \in 1..(Len(s) - 1) : t[i] = s[i]
  <1> DEFINE t == SubSeq(s, 1, Len(s) - 1)
  <1>1. Len(s) \in Nat \ {0} /\ DOMAIN s = 1..Len(s) /\ \A i \in 1..(Len(s) - 1) : s[i] \in Range(s)
    <2>1. s \in [1..Len(s) -> Range(s)] /\ Len(s) \in Nat
      BY LenProperties
    <2>2. Len(s) # 0
      BY EmptySeq
    <2> QED
      BY <2>1, <2>2
  <1>2. /\ t \in Seq(Range(s)) /\ Len(t) = Len(s) - 1
        /\ \A i \in 1..(Len(s) - 1) : t[i] = s[i]
    <2>1. Len(s) - 1 \in Int
      BY <1>1
    <2>2. /\ t \in Seq(Range(s))
          /\ Len(t) = IF 1 <= Len(s) - 1 THEN (Len(s) - 1) - 1 + 1 ELSE 0
          /\ \A i \in 1..((Len(s) - 1) - 1 + 1) : t[i] = s[1 + i - 1]
      BY <1>1, <2>1, SubSeqProperties
    <2> QED
      BY <1>1, <2>2
  <1>3. t \in Seq(Range(t)) /\ DOMAIN t = 1..Len(t)
    BY <1>2, OwnElements
  <1> QED
    BY <1>1, <1>2, <1>3

----------------------------------------------------------------------------
(* Collecting *)

\* What a description holds is described.
LEMMA PartsAreNodes ==
  \A n \in Nodes : Node[n].kind \in Named => Parts(n) \in Seq(Nodes)
  <1> TAKE n \in Nodes
  <1>1. Node[n].members \in Seq([name : STRING, of : Nodes])
    BY NodeAssumption
  <1>2. /\ DOMAIN Node[n].members = 1..Len(Node[n].members) /\ Len(Node[n].members) \in Nat
        /\ \A i \in DOMAIN Node[n].members : Node[n].members[i] \in [name : STRING, of : Nodes]
    BY <1>1, LenProperties
  <1>3. Parts(n) \in [1..Len(Node[n].members) -> Nodes]
    BY <1>2 DEF Parts
  <1> QED
    BY <1>2, <1>3

\* The component a description has is one of the identifiers.
LEMMA NamesAreIdentifiers ==
  \A n \in Nodes : NameOf(n) \in Identifiers
  BY NodeAssumption DEF NameOf, Identifiers

\* Collecting keeps to the description.
LEMMA CollectsHolds ==
  ASSUME Collects, [Next]_vars
  PROVE  Collects'
  <1> USE DEF Collects
  <1>1. ASSUME todo # <<>>
        PROVE  Reached \in Nodes /\ Tail(todo) \in Seq(Nodes)
    BY <1>1, HeadTailProperties DEF Reached
  <1>2. CASE CollectComponent
    <2>1. todo' = Parts(Reached) \o Tail(todo) /\ Node[Reached].kind \in Named /\ todo # <<>>
      BY <1>2 DEF CollectComponent, Collecting, Reached
    <2>2. todo' \in Seq(Nodes)
      BY <1>1, <2>1, PartsAreNodes, ConcatProperties
    <2>3. DOMAIN components' = DOMAIN components \cup {NameOf(Reached)}
      BY <1>2 DEF CollectComponent
    <2> QED
      BY <1>1, <2>1, <2>2, <2>3, NamesAreIdentifiers
  <1>3. CASE CollectAgain
    BY <1>1, <1>3 DEF CollectAgain, Collecting
  <1>4. CASE CollectInside
    <2> DEFINE inside == CASE Node[Reached].kind \in Named    -> Parts(Reached)
                           [] Node[Reached].kind \in Wrappers -> <<Node[Reached].of>>
                           [] Node[Reached].kind = "scalar"   -> <<>>
    <2>1. todo' = inside \o Tail(todo) /\ todo # <<>> /\ components' = components
          /\ Node[Reached].kind \in Kinds \ {"reference"}
      BY <1>4 DEF CollectInside, Collecting, Reached
    <2>2. Reached \in Nodes /\ Tail(todo) \in Seq(Nodes)
      BY <1>1, <2>1
    <2>3. ASSUME Node[Reached].kind \in Named
          PROVE  inside \in Seq(Nodes)
      <3>1. inside = Parts(Reached)
        BY <2>3 DEF Named, Wrappers
      <3> QED
        BY <2>2, <2>3, <3>1, PartsAreNodes
    <2>4. ASSUME Node[Reached].kind \in Wrappers
          PROVE  inside \in Seq(Nodes)
      <3>1. inside = <<Node[Reached].of>>
        BY <2>4 DEF Named, Wrappers
      <3> QED
        BY <2>2, <2>4, <3>1, NodeAssumption
    <2>5. ASSUME Node[Reached].kind = "scalar"
          PROVE  inside \in Seq(Nodes)
      <3>1. inside = <<>>
        BY <2>5 DEF Named, Wrappers
      <3> QED
        BY <3>1, EmptySeq
    <2>6. inside \in Seq(Nodes)
      BY <2>1, <2>3, <2>4, <2>5 DEF Kinds
    <2> QED
      BY <2>1, <2>2, <2>6, ConcatProperties
  <1>5. CASE CollectReference
    <2> DEFINE target == IF Known(ReferenceName(Reached)) \/ Node[Reached].of = NoNode THEN <<>>
                         ELSE <<Node[Reached].of>>
    <2>1. todo' = target \o Tail(todo) /\ todo # <<>> /\ components' = components
          /\ Node[Reached].kind = "reference"
      BY <1>5 DEF CollectReference, Collecting, Reached
    <2>2. target \in Seq(Nodes)
      BY <1>1, <2>1, NodeAssumption
    <2> QED
      BY <1>1, <2>1, <2>2, ConcatProperties
  <1>6. CASE RefuseName \/ RefuseVariant
    BY <1>6 DEF RefuseName, RefuseVariant, Refuse, collected
  <1>7. CASE DeclareNext \/ PassUse \/ DeclareUse \/ Write
    BY <1>7 DEF DeclareNext, PassUse, DeclareUse, Write, collected
  <1>8. CASE UNCHANGED vars
    BY <1>8 DEF vars, collected
  <1> QED
    BY <1>2, <1>3, <1>4, <1>5, <1>6, <1>7, <1>8 DEF Next

----------------------------------------------------------------------------
(* Declaring *)

\* Looking at a use changes what the last call has yet to look at, and no name.
LEMMA LookedAt ==
  ASSUME Calls, frames # <<>>
  PROVE  /\ Looked \in Seq(Range(Looked))
         /\ Len(Looked) = Len(frames) /\ Len(frames) \in Nat \ {0}
         /\ DOMAIN frames = 1..Len(frames) /\ DOMAIN Looked = 1..Len(frames)
         /\ \A i \in 1..Len(frames) :
              Looked[i] = Frame(frames[i].name, Looked[i].uses) /\ Looked[i].name = frames[i].name
  <1>1. frames \in [1..Len(frames) -> Range(frames)] /\ Len(frames) \in Nat
    BY LenProperties DEF Calls
  <1>2. Len(frames) # 0
    BY EmptySeq DEF Calls
  <1>3. \A i \in 1..Len(frames) :
          Looked[i] = IF i = Len(frames) THEN [frames[i] EXCEPT !.uses = Tail(@)] ELSE frames[i]
    BY <1>1, <1>2 DEF Looked
  <1>4. \A i \in 1..Len(frames) : Looked[i] = Frame(frames[i].name, Looked[i].uses)
    <2> TAKE i \in 1..Len(frames)
    <2>1. frames[i] = Frame(frames[i].name, frames[i].uses)
      BY DEF Calls
    <2>2. CASE i = Len(frames)
      <3>1. Looked[i] = [frames[i] EXCEPT !.uses = Tail(@)]
        BY <1>3, <2>2
      <3> QED
        BY <2>1, <3>1 DEF Frame
    <2>3. CASE i # Len(frames)
      BY <1>3, <2>1, <2>3 DEF Frame
    <2> QED
      BY <2>2, <2>3
  <1>5. DOMAIN Looked = 1..Len(frames)
    BY <1>1 DEF Looked
  <1>6. Looked \in [1..Len(frames) -> Range(Looked)]
    <2>1. Looked = [i \in 1..Len(frames) |-> Looked[i]]
      BY <1>1 DEF Looked
    <2> QED
      BY <1>5, <2>1 DEF Range
  <1>7. Looked \in Seq(Range(Looked))
    BY <1>1, <1>6
  <1>8. Len(Looked) = Len(frames)
    BY <1>1, <1>5, <1>7, LenProperties
  <1> QED
    BY <1>1, <1>2, <1>4, <1>5, <1>7, <1>8 DEF Frame

Written == <<declared, declarations, recursive>>

\* A call that opens a name that is neither open nor closed keeps what holds of
\* the calls; callers are the calls in progress, with the names they have.
LEMMA CallHolds ==
  ASSUME IInv, NEW name \in Identifiers, NEW callers,
         name \notin declaring \cup declared, Call(name, callers), UNCHANGED Written,
         callers \in Seq(Range(callers)), Len(callers) = Len(frames), DOMAIN frames = 1..Len(frames),
         \A i \in 1..Len(frames) :
           callers[i] = Frame(frames[i].name, callers[i].uses) /\ callers[i].name = frames[i].name
  PROVE  (Calls /\ DeclaredOnce /\ LoadsInOrder /\ Annotated)'
  <1> DEFINE uses == Uses(components[name])
             new  == Frame(name, uses)
  <1>1. frames' = Append(callers, new) /\ declaring' = declaring \cup {name}
    BY DEF Call, Frame
  <1>2. /\ frames' \in Seq(Range(frames'))
        /\ Len(frames) \in Nat /\ Len(frames') = Len(frames) + 1
        /\ DOMAIN frames' = 1..(Len(frames) + 1)
        /\ \A i \in 1..Len(frames) : frames'[i] = callers[i]
        /\ frames'[Len(frames) + 1] = new
    <2> HIDE DEF new
    <2> QED
      BY <1>1, Appended
  <1>3. \A i \in 1..Len(frames) : frames'[i].name = frames[i].name
    BY <1>2
  <1>4. frames'[Len(frames) + 1].name = name
    BY <1>2 DEF Frame
  <1>5. Calls'
    <2>1. ASSUME NEW i \in 1..Len(frames')
          PROVE  frames'[i] = Frame(frames'[i].name, frames'[i].uses) /\ frames'[i].name \in Identifiers
      <3>1. CASE i = Len(frames) + 1
        BY <1>2, <1>4, <3>1 DEF Frame
      <3>2. CASE i # Len(frames) + 1
        <4>1. i \in 1..Len(frames)
          BY <1>2, <2>1, <3>2
        <4>2. frames[i].name \in Identifiers
          BY <4>1 DEF IInv, Calls
        <4> QED
          BY <1>2, <1>3, <4>1, <4>2
      <3> QED
        BY <3>1, <3>2
    <2> QED
      BY <1>2, <2>1 DEF Calls, IInv, Written
  <1>6. DeclaredOnce'
    <2>1. declaring' = {frames'[i].name : i \in DOMAIN frames'}
      <3>1. declaring = {frames[i].name : i \in DOMAIN frames}
        BY DEF IInv, DeclaredOnce
      <3>2. \A i \in 1..(Len(frames) + 1) : i \in 1..Len(frames) \/ i = Len(frames) + 1
        BY <1>2
      <3>3. Len(frames) + 1 \in 1..(Len(frames) + 1) /\ 1..Len(frames) \subseteq 1..(Len(frames) + 1)
        BY <1>2
      <3> QED
        BY <1>1, <1>2, <1>3, <1>4, <3>1, <3>2, <3>3
    <2>2. ASSUME NEW i \in DOMAIN frames', NEW j \in DOMAIN frames', frames'[i].name = frames'[j].name
          PROVE  i = j
      <3>1. \A k \in 1..Len(frames) : frames[k].name # name
        BY DEF IInv, DeclaredOnce
      <3>2. \A k \in 1..(Len(frames) + 1) : k \in 1..Len(frames) \/ k = Len(frames) + 1
        BY <1>2
      <3> QED
        BY <1>2, <1>3, <1>4, <2>2, <3>1, <3>2 DEF IInv, DeclaredOnce
    <2>3. declared' = declared /\ declarations' = declarations
      BY DEF Written
    <2>4. declaring' \cap declared' = {}
      BY <1>1, <2>3 DEF IInv, DeclaredOnce
    <2>5. /\ declared' = {declarations'[i].name : i \in DOMAIN declarations'}
          /\ \A i, j \in DOMAIN declarations' : declarations'[i].name = declarations'[j].name => i = j
      BY <2>3 DEF IInv, DeclaredOnce, NameAt
    <2> QED
      BY <2>1, <2>2, <2>4, <2>5 DEF DeclaredOnce, NameAt
  <1> QED
    BY <1>5, <1>6 DEF IInv, LoadsInOrder, Annotated, Written, NameAt

\* A component that is written is closed, below what it reads as it loads.
LEMMA WriteHolds ==
  ASSUME IInv, Write
  PROVE  (Calls /\ DeclaredOnce /\ LoadsInOrder /\ Annotated)'
  <1> DEFINE last == Len(frames)
             at   == Len(declarations) + 1
             refs == References(components[Top.name])
             new  == [name |-> Top.name, plain |-> refs \cap declared,
                      suspended |-> refs \ declared, annotated |-> Top.name \in recursive']
  <1>1. /\ frames # <<>> /\ recursive' = recursive \cup (refs \ declared)
        /\ declarations' = Append(declarations, new)
        /\ declaring' = declaring \ {Top.name} /\ declared' = declared \cup {Top.name}
        /\ frames' = SubSeq(frames, 1, last - 1)
    BY DEF Write, Complete
  <1>2. /\ frames' \in Seq(Range(frames')) /\ last \in Nat \ {0}
        /\ Len(frames') = last - 1 /\ DOMAIN frames' = 1..(last - 1) /\ DOMAIN frames = 1..last
        /\ \A i \in 1..(last - 1) : frames'[i] = frames[i]
    BY <1>1, Popped DEF IInv, Calls
  <1>3. /\ declarations' \in Seq(Range(declarations')) /\ at \in Nat \ {0}
        /\ DOMAIN declarations' = 1..at /\ DOMAIN declarations = 1..(at - 1)
        /\ \A i \in 1..(at - 1) : declarations'[i] = declarations[i]
        /\ declarations'[at] = new
    <2>1. declarations \in Seq(Range(declarations))
      BY DEF IInv, Calls
    <2> HIDE DEF new
    <2> QED
      BY <1>1, <2>1, Appended
  <1>4. Top.name \in declaring /\ Top.name \notin declared
    <2>1. Top.name = frames[last].name /\ last \in DOMAIN frames
      BY <1>2 DEF Top
    <2> QED
      BY <2>1 DEF IInv, DeclaredOnce
  <1>5. \A i \in 1..at : i \in 1..(at - 1) \/ i = at
    BY <1>3
  <1>6. \A i \in 1..(at - 1) : declarations[i].name \in declared
    BY <1>3 DEF IInv, DeclaredOnce, NameAt
  <1>7. Calls'
    BY <1>2, <1>3 DEF IInv, Calls
  <1>8. DeclaredOnce'
    <2>1. declaring' = {frames'[i].name : i \in DOMAIN frames'}
      <3>1. declaring = {frames[i].name : i \in 1..last}
        BY <1>2 DEF IInv, DeclaredOnce
      <3>2. \A i \in 1..(last - 1) : frames[i].name # frames[last].name
        BY <1>2 DEF IInv, DeclaredOnce
      <3>3. \A i \in 1..last : i \in 1..(last - 1) \/ i = last
        BY <1>2
      <3>4. 1..(last - 1) \subseteq 1..last /\ Top = frames[last]
        BY <1>2 DEF Top
      <3> QED
        <4>1. ASSUME NEW name, name \in declaring'
              PROVE  \E i \in 1..(last - 1) : frames'[i].name = name
          <5>1. PICK i \in 1..last : frames[i].name = name
            BY <1>1, <3>1, <4>1
          <5>2. i # last
            BY <1>1, <3>4, <4>1, <5>1
          <5> QED
            BY <1>2, <3>3, <5>1, <5>2
        <4>2. ASSUME NEW i \in 1..(last - 1)
              PROVE  frames'[i].name \in declaring'
          BY <1>1, <1>2, <3>1, <3>2, <3>4
        <4> QED
          BY <1>2, <4>1, <4>2
    <2>2. declared' = {declarations'[i].name : i \in DOMAIN declarations'}
      <3>1. declared = {declarations[i].name : i \in 1..(at - 1)}
        BY <1>3 DEF IInv, DeclaredOnce, NameAt
      <3>2. 1..(at - 1) \subseteq 1..at /\ at \in 1..at /\ declarations'[at].name = Top.name
        BY <1>3
      <3> QED
        <4>1. ASSUME NEW name, name \in declared'
              PROVE  \E i \in 1..at : declarations'[i].name = name
          BY <1>1, <1>3, <3>1, <3>2, <4>1
        <4>2. ASSUME NEW i \in 1..at
              PROVE  declarations'[i].name \in declared'
          <5>1. CASE i = at
            BY <1>1, <3>2, <5>1
          <5>2. CASE i \in 1..(at - 1)
            BY <1>1, <1>3, <1>6, <5>2
          <5> QED
            BY <1>5, <5>1, <5>2
        <4> QED
          BY <1>3, <4>1, <4>2
    <2>3. declaring' \cap declared' = {}
      BY <1>1 DEF IInv, DeclaredOnce
    <2>4. \A i, j \in DOMAIN frames' : frames'[i].name = frames'[j].name => i = j
      BY <1>2 DEF IInv, DeclaredOnce
    <2>5. \A i, j \in DOMAIN declarations' : declarations'[i].name = declarations'[j].name => i = j
      <3>1. declarations'[at].name = Top.name
        BY <1>3
      <3>2. \A i \in 1..(at - 1) : declarations'[i].name = declarations[i].name
                                   /\ declarations'[i].name # Top.name
        BY <1>3, <1>4, <1>6
      <3>3. \A i, j \in 1..(at - 1) : declarations[i].name = declarations[j].name => i = j
        BY <1>3 DEF IInv, DeclaredOnce, NameAt
      <3> QED
        BY <1>3, <1>5, <3>1, <3>2, <3>3
    <2> QED
      BY <2>1, <2>2, <2>3, <2>4, <2>5 DEF DeclaredOnce, NameAt
  <1>9. LoadsInOrder'
    <2>1. ASSUME NEW i \in 1..at, NEW name \in declarations'[i].plain
          PROVE  \E j \in 1..(i - 1) : declarations'[j].name = name
      <3>1. CASE i = at
        <4>1. name \in declared
          BY <1>3, <2>1, <3>1
        <4>2. PICK j \in 1..(at - 1) : declarations[j].name = name
          BY <1>3, <4>1 DEF IInv, DeclaredOnce, NameAt
        <4> QED
          BY <1>3, <3>1, <4>2
      <3>2. CASE i \in 1..(at - 1)
        <4>1. name \in declarations[i].plain
          BY <1>3, <2>1, <3>2
        <4>2. PICK j \in 1..(i - 1) : declarations[j].name = name
          BY <1>3, <3>2, <4>1 DEF IInv, LoadsInOrder, NameAt
        <4>3. j \in 1..(at - 1)
          BY <1>3, <3>2
        <4> QED
          BY <1>3, <4>2, <4>3
      <3> QED
        BY <1>5, <3>1, <3>2
    <2> QED
      BY <1>3, <2>1 DEF LoadsInOrder, NameAt
  <1>10. Annotated'
    <2>1. ASSUME NEW i \in 1..at
          PROVE  /\ declarations'[i].suspended \subseteq recursive'
                 /\ declarations'[i].name \in recursive' => declarations'[i].annotated
      <3>1. CASE i = at
        <4>1. declarations'[i] = new
          BY <1>3, <3>1
        <4>2. /\ declarations'[i].suspended = refs \ declared /\ declarations'[i].name = Top.name
              /\ declarations'[i].annotated = (Top.name \in recursive')
          BY <4>1
        <4> QED
          BY <1>1, <4>2
      <3>2. CASE i \in 1..(at - 1)
        <4>1. declarations'[i] = declarations[i] /\ i \in DOMAIN declarations
          BY <1>3, <3>2
        <4>2. /\ declarations[i].suspended \subseteq recursive
              /\ declarations[i].name \in recursive => declarations[i].annotated
          BY <4>1 DEF IInv, Annotated, NameAt
        <4> QED
          BY <1>1, <1>6, <3>2, <4>1, <4>2
      <3> QED
        BY <1>5, <3>1, <3>2
    <2> QED
      BY <1>3, <2>1 DEF Annotated, NameAt
  <1> QED
    BY <1>7, <1>8, <1>9, <1>10

----------------------------------------------------------------------------
(* The invariant *)

\* The invariant holds at first.
LEMMA Initially == Init => IInv
  <1> SUFFICES ASSUME Init PROVE IInv
    OBVIOUS
  <1>1. todo \in Seq(Nodes) /\ DOMAIN components = {}
    BY ModuleAssumption, EmptySeq DEF Init
  <1>2. /\ frames = <<>> /\ declarations = <<>> /\ declared = {} /\ declaring = {}
        /\ DOMAIN frames = {} /\ DOMAIN declarations = {} /\ Len(frames) = 0
    BY DEF Init
  <1>3. Calls
    BY <1>2, EmptySeq DEF Calls
  <1> QED
    BY <1>1, <1>2, <1>3 DEF IInv, Collects, DeclaredOnce, LoadsInOrder, Annotated

\* Every step keeps it.
LEMMA Stepwise == IInv /\ [Next]_vars => IInv'
  <1> SUFFICES ASSUME IInv, [Next]_vars PROVE IInv'
    OBVIOUS
  <1>1. Collects'
    BY CollectsHolds DEF IInv
  <1>2. ASSUME UNCHANGED <<declared, declaring, recursive, frames, declarations>>
        PROVE  (Calls /\ DeclaredOnce /\ LoadsInOrder /\ Annotated)'
    <2>1. Calls'
      BY <1>2 DEF IInv, Calls
    <2>2. DeclaredOnce'
      BY <1>2 DEF IInv, DeclaredOnce, NameAt
    <2>3. LoadsInOrder' /\ Annotated'
      BY <1>2 DEF IInv, LoadsInOrder, Annotated, NameAt
    <2> QED
      BY <2>1, <2>2, <2>3
  <1>3. CASE CollectComponent \/ CollectAgain \/ RefuseName \/ CollectInside \/ CollectReference
             \/ RefuseVariant \/ UNCHANGED vars
    BY <1>1, <1>2, <1>3 DEF CollectComponent, CollectAgain, RefuseName, CollectInside,
       CollectReference, RefuseVariant, Refuse, vars, written, IInv
  <1>4. CASE DeclareNext
    <2>1. PICK i \in DOMAIN Alphabet : Alphabet[i] \in DOMAIN components \ declared
                                       /\ Call(Alphabet[i], frames)
      BY <1>4 DEF DeclareNext
    <2>2. frames = <<>> /\ UNCHANGED <<declared, declarations, recursive>>
      BY <1>4 DEF DeclareNext
    <2>3. DOMAIN frames = 1..Len(frames) /\ Len(frames) = 0 /\ frames \in Seq(Range(frames))
          /\ declaring = {}
      BY <2>2 DEF IInv, Calls, DeclaredOnce
    <2>4. Alphabet[i] \in Identifiers
      BY <2>1 DEF IInv, Collects
    <2>5. (Calls /\ DeclaredOnce /\ LoadsInOrder /\ Annotated)'
      <3>1. UNCHANGED Written
        BY <2>2 DEF Written
      <3>2. \A j \in 1..Len(frames) :
              frames[j] = Frame(frames[j].name, frames[j].uses) /\ frames[j].name = frames[j].name
        BY <2>3
      <3>3. Alphabet[i] \notin declaring \cup declared
        BY <2>1, <2>3
      <3> QED
        BY <2>1, <2>3, <2>4, <3>1, <3>2, <3>3, CallHolds
    <2> QED
      BY <1>1, <2>5 DEF IInv
  <1>5. CASE PassUse
    <2>1. /\ frames # <<>> /\ frames' = Looked
          /\ UNCHANGED <<declared, declaring, recursive, declarations>>
      BY <1>5 DEF PassUse, Using
    <2>2. /\ Looked \in Seq(Range(Looked))
          /\ Len(Looked) = Len(frames) /\ Len(frames) \in Nat \ {0}
          /\ DOMAIN frames = 1..Len(frames) /\ DOMAIN Looked = 1..Len(frames)
          /\ \A i \in 1..Len(frames) :
               Looked[i] = Frame(frames[i].name, Looked[i].uses) /\ Looked[i].name = frames[i].name
      BY <2>1, LookedAt DEF IInv
    <2> HIDE DEF Looked
    <2>3. Calls'
      <3>1. frames' \in Seq(Range(frames')) /\ declarations' \in Seq(Range(declarations'))
        BY <2>1, <2>2 DEF IInv, Calls
      <3>2. \A i \in 1..Len(frames') :
              frames'[i] = Frame(frames'[i].name, frames'[i].uses) /\ frames'[i].name \in Identifiers
        BY <2>1, <2>2 DEF IInv, Calls
      <3> QED
        BY <3>1, <3>2 DEF Calls
    <2>4. DeclaredOnce'
      BY <2>1, <2>2 DEF IInv, DeclaredOnce, NameAt
    <2> QED
      BY <1>1, <2>1, <2>3, <2>4 DEF IInv, LoadsInOrder, Annotated, NameAt
  <1>6. CASE DeclareUse
    <2>1. /\ frames # <<>> /\ Call(Used, Looked) /\ Used \notin declaring \cup declared
          /\ Used \in DOMAIN components /\ UNCHANGED <<declared, declarations, recursive>>
      BY <1>6 DEF DeclareUse, Using, Known
    <2>2. Used \in Identifiers
      BY <2>1 DEF IInv, Collects
    <2>3. /\ Looked \in Seq(Range(Looked)) /\ Len(Looked) = Len(frames)
          /\ DOMAIN frames = 1..Len(frames)
          /\ \A i \in 1..Len(frames) :
               Looked[i] = Frame(frames[i].name, Looked[i].uses) /\ Looked[i].name = frames[i].name
      BY <2>1, LookedAt DEF IInv
    <2>4. (Calls /\ DeclaredOnce /\ LoadsInOrder /\ Annotated)'
      <3>1. UNCHANGED Written
        BY <2>1 DEF Written
      <3> QED
        BY <2>1, <2>2, <2>3, <3>1, CallHolds
    <2> QED
      BY <1>1, <2>4 DEF IInv
  <1>7. CASE Write
    BY <1>1, <1>7, WriteHolds DEF IInv
  <1> QED
    BY <1>3, <1>4, <1>5, <1>6, <1>7 DEF Next

\* It holds in every state.
LEMMA Invariant == Spec => []IInv
  BY Initially, Stepwise, PTL DEF Spec

----------------------------------------------------------------------------
(* Functions by recursion *)

\* Induction, over a set in place of a predicate: a set of numbers without a
\* least missing one misses none.
LEMMA SetInduction ==
  ASSUME NEW S, 0 \in S, \A n \in Nat : n \in S => n + 1 \in S
  PROVE  Nat \subseteq S
  <1> DEFINE R == OpToRel(<, Nat)
             T == Nat \ S
  <1>1. IsWellFoundedOn(R, Nat)
    BY NatLessThanWellFounded
  <1>2. SUFFICES ASSUME T # {} PROVE FALSE
    OBVIOUS
  <1>3. T \subseteq Nat
    OBVIOUS
  <1> HIDE DEF R, T
  <1>4. PICK x \in T : \A y \in T : ~(<<y, x>> \in R)
    BY <1>1, <1>2, <1>3, WFMin
  <1>5. x \in Nat /\ x \notin S /\ x # 0
    BY DEF T
  <1>6. x - 1 \in Nat /\ x - 1 \notin S
    BY <1>5
  <1>7. <<x - 1, x>> \in R
    BY <1>5, <1>6 DEF R, OpToRel
  <1> QED
    BY <1>4, <1>6, <1>7 DEF T

\* F says of each element of S what it does by what it says of those of less rank.
ByRank(F, S, V, rank) ==
  /\ V # {} /\ rank \in [S -> Nat] /\ F \in [[S -> V] -> [S -> V]]
  /\ \A f, g \in [S -> V] : \A n \in S :
       (\A m \in S : rank[m] < rank[n] => f[m] = g[m]) => F[f][n] = F[g][n]

\* A function that F gives back, and one that it does as far as rank k.
Right(F, f, S, rank, k) == \A n \in S : rank[n] < k => F[f][n] = f[n]

\* What is said of each element by what is said of those of less rank can be
\* said of all.
LEMMA Recursion ==
  ASSUME NEW S, NEW V, NEW rank, NEW F, ByRank(F, S, V, rank)
  PROVE  \E f \in [S -> V] : F[f] = f
  <1>0. /\ V # {} /\ rank \in [S -> Nat] /\ F \in [[S -> V] -> [S -> V]]
        /\ \A f, g \in [S -> V] : \A n \in S :
             (\A m \in S : rank[m] < rank[n] => f[m] = g[m]) => F[f][n] = F[g][n]
    BY DEF ByRank
  <1> USE <1>0
  <1> DEFINE Exact(f, k) == Right(F, f, S, rank, k)
  <1>1. \A k \in Nat : \E f \in [S -> V] : Exact(f, k)
    <2> DEFINE K == {k \in Nat : \E f \in [S -> V] : Exact(f, k)}
    <2>1. 0 \in K
      <3>1. PICK v \in V : TRUE
        OBVIOUS
      <3>2. \A f \in [S -> V] : Exact(f, 0)
        BY DEF Right
      <3>3. [n \in S |-> v] \in [S -> V]
        BY <3>1
      <3> QED
        BY <3>2, <3>3
    <2>2. ASSUME NEW k \in Nat, k \in K
          PROVE  k + 1 \in K
      <3>1. PICK f \in [S -> V] : Exact(f, k)
        BY <2>2
      <3>2. F[f] \in [S -> V]
        OBVIOUS
      <3>3. ASSUME NEW n \in S, rank[n] < k + 1
            PROVE  F[F[f]][n] = F[f][n]
        <4>1. \A m \in S : rank[m] < rank[n] => F[f][m] = f[m]
          BY <3>1, <3>3 DEF Right
        <4> QED
          BY <3>2, <4>1
      <3>4. Exact(F[f], k + 1)
        BY <3>3 DEF Right
      <3> QED
        BY <3>2, <3>4
    <2> HIDE DEF K
    <2>3. Nat \subseteq K
      BY <2>1, <2>2, SetInduction
    <2> QED
      BY <2>3 DEF K
  <1>2. \A k \in Nat : \A f, g \in [S -> V] : (Exact(f, k) /\ Exact(g, k)) =>
          \A n \in S : rank[n] < k => f[n] = g[n]
    <2> DEFINE K == {k \in Nat : \A f, g \in [S -> V] : (Exact(f, k) /\ Exact(g, k)) =>
                                   \A n \in S : rank[n] < k => f[n] = g[n]}
    <2>1. 0 \in K
      OBVIOUS
    <2>2. ASSUME NEW k \in Nat, k \in K
          PROVE  k + 1 \in K
      <3> SUFFICES ASSUME NEW f \in [S -> V], NEW g \in [S -> V], Exact(f, k + 1), Exact(g, k + 1),
                          NEW n \in S, rank[n] < k + 1
                   PROVE  f[n] = g[n]
        OBVIOUS
      <3>1. Exact(f, k) /\ Exact(g, k)
        BY DEF Right
      <3>2. \A m \in S : rank[m] < k => f[m] = g[m]
        BY <2>2, <3>1
      <3>3. \A m \in S : rank[m] < rank[n] => f[m] = g[m]
        BY <3>2
      <3>4. F[f][n] = F[g][n]
        BY <3>3
      <3> QED
        BY <3>4 DEF Right
    <2> HIDE DEF K
    <2>3. Nat \subseteq K
      BY <2>1, <2>2, SetInduction
    <2> QED
      BY <2>3 DEF K
  <1> DEFINE at(k) == CHOOSE f \in [S -> V] : Exact(f, k)
             whole == [n \in S |-> at(rank[n] + 1)[n]]
  <1>3. \A k \in Nat : at(k) \in [S -> V] /\ Exact(at(k), k)
    BY <1>1
  <1> HIDE DEF at
  <1>4. whole \in [S -> V]
    BY <1>3
  <1>5. ASSUME NEW n \in S
        PROVE  F[whole][n] = whole[n]
    <2>1. ASSUME NEW m \in S, rank[m] < rank[n]
          PROVE  whole[m] = at(rank[n] + 1)[m]
      <3>1. rank[m] + 1 \in Nat /\ rank[n] + 1 \in Nat
        OBVIOUS
      <3>2. Exact(at(rank[n] + 1), rank[m] + 1)
        BY <1>3, <2>1, <3>1 DEF Right
      <3>3. at(rank[m] + 1)[m] = at(rank[n] + 1)[m]
        BY <1>2, <1>3, <3>1, <3>2
      <3> QED
        BY <3>3
    <2>2. rank[n] + 1 \in Nat /\ rank[n] < rank[n] + 1
      OBVIOUS
    <2>3. at(rank[n] + 1) \in [S -> V] /\ F[at(rank[n] + 1)][n] = at(rank[n] + 1)[n]
      BY <1>3, <2>2 DEF Right
    <2>4. F[whole][n] = F[at(rank[n] + 1)][n]
      BY <1>4, <2>1, <2>3
    <2> QED
      BY <2>3, <2>4
  <1> HIDE DEF whole
  <1>6. F[whole] \in [S -> V]
    BY <1>4
  <1>7. F[whole] = whole
    BY <1>4, <1>5, <1>6
  <1> QED
    BY <1>4, <1>7

----------------------------------------------------------------------------
(* What is written for a component *)

\* objectBehind follows references to an object, or to none.
LEMMA ObjectBehindIs ==
  \A n \in Nodes :
    /\ ObjectBehind[n] = IF Node[n].kind = "object" THEN n
                         ELSE IF Node[n].kind = "reference" /\ Node[n].of # NoNode
                              THEN ObjectBehind[Node[n].of] ELSE NoNode
    /\ ObjectBehind[n] \in Nodes \cup {NoNode}
  <1> DEFINE V == Nodes \cup {NoNode}
             body(f) == [n \in Nodes |-> IF Node[n].kind = "object" THEN n
                                         ELSE IF Node[n].kind = "reference" /\ Node[n].of # NoNode
                                              THEN f[Node[n].of] ELSE NoNode]
             F == [f \in [Nodes -> V] |-> body(f)]
             rank == [n \in Nodes |-> Chain[n]]
  <1>1. \A n \in Nodes : (Node[n].kind = "reference" /\ Node[n].of # NoNode) => Node[n].of \in Nodes
    BY NodeAssumption
  <1>2. \A f \in [Nodes -> V] : body(f) \in [Nodes -> V]
    BY <1>1
  <1>3. F \in [[Nodes -> V] -> [Nodes -> V]]
    BY <1>2
  <1>4. rank \in [Nodes -> Nat]
    BY ExpressionAssumption
  <1>5. ASSUME NEW f \in [Nodes -> V], NEW g \in [Nodes -> V], NEW n \in Nodes,
               \A m \in Nodes : rank[m] < rank[n] => f[m] = g[m]
        PROVE  F[f][n] = F[g][n]
    <2>1. (Node[n].kind = "reference" /\ Node[n].of # NoNode) =>
            Node[n].of \in Nodes /\ rank[Node[n].of] < rank[n]
      BY <1>1, ExpressionAssumption
    <2>2. (Node[n].kind = "reference" /\ Node[n].of # NoNode) => f[Node[n].of] = g[Node[n].of]
      BY <1>5, <2>1
    <2> QED
      BY <2>2
  <1>6. V # {}
    OBVIOUS
  <1> HIDE DEF F, V, rank
  <1>7. PICK f \in [Nodes -> V] : F[f] = f
    <2> HIDE DEF body
    <2>1. ByRank(F, Nodes, V, rank)
      BY <1>3, <1>4, <1>6, <1>5 DEF ByRank
    <2> QED
      BY <2>1, Recursion
  <1> USE DEF F, V
  <1>8. f = body(f)
    BY <1>7
  <1>9. ObjectBehind = body(ObjectBehind)
    BY <1>8 DEF ObjectBehind
  <1> HIDE DEF F
  <1>10. \A n \in Nodes : ObjectBehind[n] = body(ObjectBehind)[n]
    BY <1>9
  <1>11. \A n \in Nodes :
           ObjectBehind[n] = IF Node[n].kind = "object" THEN n
                             ELSE IF Node[n].kind = "reference" /\ Node[n].of # NoNode
                                  THEN ObjectBehind[Node[n].of] ELSE NoNode
    BY <1>10
  <1>12. \A n \in Nodes : ObjectBehind[n] \in V
    <2> DEFINE K == {k \in Nat : \A n \in Nodes : Chain[n] < k => ObjectBehind[n] \in V}
    <2>1. 0 \in K
      BY ExpressionAssumption
    <2>2. ASSUME NEW k \in Nat, k \in K
          PROVE  k + 1 \in K
      <3> SUFFICES ASSUME NEW n \in Nodes, Chain[n] < k + 1
                   PROVE  ObjectBehind[n] \in V
        OBVIOUS
      <3>1. CASE Node[n].kind = "reference" /\ Node[n].of # NoNode
        <4>1. Node[n].of \in Nodes /\ Chain[Node[n].of] < k
          BY <1>1, <3>1, ExpressionAssumption
        <4> QED
          BY <1>11, <2>2, <3>1, <4>1
      <3>2. CASE ~(Node[n].kind = "reference" /\ Node[n].of # NoNode)
        BY <1>11, <3>2
      <3> QED
        BY <3>1, <3>2
    <2> HIDE DEF K
    <2>3. Nat \subseteq K
      BY <2>1, <2>2, SetInduction
    <2> QED
      <3> TAKE n \in Nodes
      <3>1. Chain[n] \in Nat /\ Chain[n] + 1 \in K /\ Chain[n] < Chain[n] + 1
        BY <2>3, ExpressionAssumption
      <3> QED
        BY <3>1 DEF K
  <1> QED
    BY <1>11, <1>12

\* The members of a node with members are in its description.
LEMMA PartsAre ==
  \A n \in Nodes : Node[n].kind \in Named => Range(Parts(n)) \subseteq Nodes
  <1> TAKE n \in Nodes
  <1> HAVE Node[n].kind \in Named
  <1>1. Parts(n) \in Seq(Nodes)
    BY PartsAreNodes
  <1>2. Parts(n) \in [1..Len(Parts(n)) -> Nodes]
    BY <1>1, LenProperties
  <1> QED
    BY <1>2 DEF Range

\* What a node holds, kind by kind.
LEMMA HeldIs ==
  \A n \in Nodes :
    /\ Node[n].kind \in Wrappers => Held(n) = {Node[n].of}
    /\ Node[n].kind \in {"scalar", "reference"} => Held(n) = {}
    /\ Node[n].kind \in Named /\ ~(Node[n].kind = "union" /\ Node[n].tagged) =>
         Held(n) = Range(Parts(n))
    /\ Node[n].kind = "union" /\ Node[n].tagged =>
         Held(n) = UNION {Range(Parts(m)) : m \in {ObjectBehind[v] : v \in Range(Parts(n))} \ {NoNode}}
  BY DEF Held, Wrappers, Named

\* An object found behind a node is one.
LEMMA FoundIsObject ==
  \A n \in Nodes : ObjectBehind[n] # NoNode => Node[ObjectBehind[n]].kind = "object"
  <1> DEFINE K == {k \in Nat : \A n \in Nodes : (Chain[n] < k /\ ObjectBehind[n] # NoNode) =>
                                 Node[ObjectBehind[n]].kind = "object"}
  <1>1. 0 \in K
    BY ExpressionAssumption
  <1>2. ASSUME NEW k \in Nat, k \in K
        PROVE  k + 1 \in K
    <2> SUFFICES ASSUME NEW n \in Nodes, Chain[n] < k + 1, ObjectBehind[n] # NoNode
                 PROVE  Node[ObjectBehind[n]].kind = "object"
      OBVIOUS
    <2>1. CASE Node[n].kind = "object"
      BY <2>1, ObjectBehindIs
    <2>2. CASE Node[n].kind # "object"
      <3>1. Node[n].kind = "reference" /\ Node[n].of # NoNode
        BY <2>2, ObjectBehindIs
      <3>2. ObjectBehind[n] = ObjectBehind[Node[n].of]
        BY <3>1, ObjectBehindIs
      <3>3. Node[n].of \in Nodes /\ Chain[Node[n].of] < k
        BY <3>1, NodeAssumption, ExpressionAssumption
      <3> QED
        BY <1>2, <3>2, <3>3
    <2> QED
      BY <2>1, <2>2
  <1> HIDE DEF K
  <1>3. Nat \subseteq K
    BY <1>1, <1>2, SetInduction
  <1> TAKE n \in Nodes
  <1>4. Chain[n] \in Nat /\ Chain[n] + 1 \in K /\ Chain[n] < Chain[n] + 1
    BY <1>3, ExpressionAssumption
  <1> QED
    BY <1>4 DEF K

\* What a node holds is in its description.
LEMMA HeldAreNodes ==
  \A n \in Nodes : Held(n) \subseteq Nodes
  <1> TAKE n \in Nodes
  <1>1. CASE Node[n].kind \in Wrappers
    BY <1>1, HeldIs, NodeAssumption
  <1>2. CASE Node[n].kind = "union" /\ Node[n].tagged
    <2>1. ASSUME NEW v \in Range(Parts(n)), ObjectBehind[v] # NoNode
          PROVE  Range(Parts(ObjectBehind[v])) \subseteq Nodes
      <3>1. v \in Nodes
        BY <1>2, <2>1, PartsAre DEF Named
      <3>2. ObjectBehind[v] \in Nodes /\ Node[ObjectBehind[v]].kind \in Named
        BY <2>1, <3>1, ObjectBehindIs, FoundIsObject DEF Named
      <3> QED
        BY <3>2, PartsAre
    <2> QED
      BY <1>2, <2>1, HeldIs
  <1>3. CASE Node[n].kind \in Named /\ ~(Node[n].kind = "union" /\ Node[n].tagged)
    BY <1>3, HeldIs, PartsAre
  <1>4. CASE Node[n].kind \in {"scalar", "reference"}
    BY <1>4, HeldIs
  <1> QED
    BY <1>1, <1>2, <1>3, <1>4, NodeAssumption DEF Kinds

\* What is written for a node is the node, and what is written for what it holds
\* unless it is referred to.
LEMMA WithinIs ==
  \A n \in Nodes :
    Within[n] = {n} \cup (IF Refers(n) THEN {} ELSE UNION {Within[m] : m \in Held(n)})
  <1> DEFINE V == SUBSET Nodes
             body(f) == [n \in Nodes |->
                           {n} \cup (IF Refers(n) THEN {} ELSE UNION {f[m] : m \in Held(n)})]
             F == [f \in [Nodes -> V] |-> body(f)]
             rank == [n \in Nodes |-> Depth[n]]
  <1>1. \A f \in [Nodes -> V] : body(f) \in [Nodes -> V]
    <2> SUFFICES ASSUME NEW f \in [Nodes -> V], NEW n \in Nodes
                 PROVE  UNION {f[m] : m \in Held(n)} \subseteq Nodes
      OBVIOUS
    <2> QED
      BY HeldAreNodes
  <1>2. F \in [[Nodes -> V] -> [Nodes -> V]]
    BY <1>1
  <1>3. rank \in [Nodes -> Nat]
    BY ExpressionAssumption
  <1>4. ASSUME NEW f \in [Nodes -> V], NEW g \in [Nodes -> V], NEW n \in Nodes,
               \A m \in Nodes : rank[m] < rank[n] => f[m] = g[m]
        PROVE  F[f][n] = F[g][n]
    <2>1. ~Refers(n) => \A m \in Held(n) : m \in Nodes /\ rank[m] < rank[n]
      BY HeldAreNodes, ExpressionAssumption
    <2>2. ~Refers(n) => \A m \in Held(n) : f[m] = g[m]
      BY <1>4, <2>1
    <2>3. ~Refers(n) => UNION {f[m] : m \in Held(n)} = UNION {g[m] : m \in Held(n)}
      BY <2>2
    <2> QED
      BY <2>3
  <1>5. V # {}
    OBVIOUS
  <1> HIDE DEF F, V, rank
  <1>6. PICK f \in [Nodes -> V] : F[f] = f
    <2> HIDE DEF body
    <2>1. ByRank(F, Nodes, V, rank)
      BY <1>2, <1>3, <1>5, <1>4 DEF ByRank
    <2> QED
      BY <2>1, Recursion
  <1>7. f = body(f)
    BY <1>6 DEF F
  <1>8. Within = body(Within)
    BY <1>7 DEF Within
  <1>9. \A n \in Nodes : Within[n] = body(Within)[n]
    BY <1>8
  <1> QED
    BY <1>9

----------------------------------------------------------------------------
(* What is collected *)

\* What collect goes on with from a node that it has no name for.
Beneath(n) ==
  IF Node[n].kind \in Named THEN Range(Parts(n))
  ELSE IF Node[n].kind \in Wrappers THEN {Node[n].of} ELSE {}

\* seen is what collect was called with: each has its name in components, or what
\* it leads to was seen or is yet to be.
Covers(seen) ==
  /\ \A n \in seen : HasName(n) => Known(NameOf(n))
  /\ \A n \in seen : ~HasName(n) => Beneath(n) \subseteq seen \cup Range(todo)
  /\ \A n \in seen :
       (Node[n].kind = "reference" /\ Node[n].of # NoNode) =>
         Known(ReferenceName(n)) \/ Node[n].of \in seen \cup Range(todo)
  /\ \A name \in DOMAIN components :
       Range(Parts(components[name])) \subseteq seen \cup Range(todo)

Gathers ==
  /\ \A name \in DOMAIN components :
       /\ components[name] \in Nodes /\ HasName(components[name])
       /\ NameOf(components[name]) = name
  /\ \E seen \in SUBSET Nodes : Covers(seen)

\* A declaration refers to what its component does.
Speaks ==
  /\ declaring \cup declared \subseteq DOMAIN components
  /\ \A i \in DOMAIN declarations :
       declarations[i].plain \cup declarations[i].suspended = References(components[NameAt(i)])

\* No component there is becomes another.
Keeps ==
  \A name \in DOMAIN components :
    name \in DOMAIN components' /\ components'[name] = components[name]

\* What is put before the rest of todo, and the rest, is all that is in it.
LEMMA PutBefore ==
  ASSUME NEW s \in Seq(Nodes), s # <<>>, NEW p \in Seq(Nodes)
  PROVE  /\ Range(p) \subseteq Range(p \o Tail(s))
         /\ Range(s) \subseteq {Head(s)} \cup Range(p \o Tail(s))
  <1>1. /\ Tail(s) \in Seq(Nodes) /\ Len(s) \in Nat \ {0} /\ Len(Tail(s)) = Len(s) - 1
        /\ \A i \in 1..Len(Tail(s)) : Tail(s)[i] = s[i + 1]
        /\ Head(s) = s[1]
    BY HeadTailProperties, EmptySeq, LenProperties
  <1> DEFINE t == Tail(s)
             all == p \o t
  <1>2. Len(p) \in Nat /\ Len(t) \in Nat
    BY <1>1, LenProperties
  <1>3. /\ all \in Seq(Nodes) /\ Len(all) = Len(p) + Len(t)
        /\ \A i \in 1..(Len(p) + Len(t)) : all[i] = IF i <= Len(p) THEN p[i] ELSE t[i - Len(p)]
    BY <1>1, ConcatProperties
  <1>4. /\ DOMAIN s = 1..Len(s) /\ DOMAIN p = 1..Len(p) /\ DOMAIN t = 1..Len(t)
        /\ DOMAIN all = 1..Len(all)
    BY <1>1, <1>3, LenProperties
  <1> HIDE DEF t, all
  <1>5. ASSUME NEW i \in DOMAIN p PROVE p[i] \in Range(all)
    <2>1. i \in DOMAIN all /\ all[i] = p[i]
      BY <1>2, <1>3, <1>4
    <2> QED
      BY <2>1 DEF Range
  <1>6. ASSUME NEW i \in DOMAIN s PROVE s[i] \in {Head(s)} \cup Range(all)
    <2>1. CASE i = 1
      BY <1>1, <2>1
    <2>2. CASE i # 1
      <3>1. i - 1 \in 1..Len(t) /\ s[i] = t[i - 1]
        BY <1>1, <1>4, <2>2 DEF t
      <3>2. Len(p) + (i - 1) \in DOMAIN all /\ all[Len(p) + (i - 1)] = t[i - 1]
        BY <1>2, <1>3, <1>4, <3>1
      <3> QED
        BY <3>1, <3>2 DEF Range
    <2> QED
      BY <2>1, <2>2
  <1>7. Range(p) \subseteq Range(all)
    BY <1>5 DEF Range
  <1>8. Range(s) \subseteq {Head(s)} \cup Range(all)
    BY <1>6 DEF Range
  <1> QED
    BY <1>7, <1>8 DEF all, t

\* A step of collect that keeps the components, and looks at what it was called
\* with as seen says, keeps what is covered.
LEMMA Covered ==
  ASSUME Collects, Gathers, Keeps, todo # <<>>,
         Range(todo) \subseteq {Reached} \cup Range(todo'),
         HasName(Reached) => NameOf(Reached) \in DOMAIN components',
         ~HasName(Reached) => Beneath(Reached) \subseteq Range(todo'),
         (Node[Reached].kind = "reference" /\ Node[Reached].of # NoNode) =>
           ReferenceName(Reached) \in DOMAIN components' \/ Node[Reached].of \in Range(todo'),
         \A name \in DOMAIN components' \ DOMAIN components :
           Range(Parts(components'[name])) \subseteq Range(todo')
  PROVE  (\E seen \in SUBSET Nodes : Covers(seen))'
  <1>1. PICK seen \in SUBSET Nodes : Covers(seen)
    BY DEF Gathers
  <1>2. Reached \in Nodes
    BY HeadTailProperties DEF Reached, Collects
  <1> DEFINE now == seen \cup {Reached}
  <1>3. seen \cup Range(todo) \subseteq now \cup Range(todo')
    OBVIOUS
  <1>4. \A name : Known(name) => name \in DOMAIN components'
    BY DEF Keeps, Known
  <1>5. \A n \in now : HasName(n) => NameOf(n) \in DOMAIN components'
    BY <1>1, <1>4 DEF Covers
  <1>6. \A n \in now : ~HasName(n) => Beneath(n) \subseteq now \cup Range(todo')
    BY <1>1, <1>3 DEF Covers
  <1>7. \A n \in now : (Node[n].kind = "reference" /\ Node[n].of # NoNode) =>
          ReferenceName(n) \in DOMAIN components' \/ Node[n].of \in now \cup Range(todo')
    BY <1>1, <1>3, <1>4 DEF Covers
  <1>8. ASSUME NEW name \in DOMAIN components'
        PROVE  Range(Parts(components'[name])) \subseteq now \cup Range(todo')
    <2>1. CASE name \in DOMAIN components
      BY <1>1, <1>3, <2>1 DEF Covers, Keeps
    <2>2. CASE name \notin DOMAIN components
      BY <2>2
    <2> QED
      BY <2>1, <2>2
  <1>9. now \in SUBSET Nodes
    BY <1>2
  <1> HIDE DEF now
  <1> QED
    BY <1>5, <1>6, <1>7, <1>8, <1>9 DEF Covers, Known

\* What collect is called with next is in the description.
LEMMA ReachedIsANode ==
  ASSUME Collects, todo # <<>>
  PROVE  Reached \in Nodes /\ Reached = Head(todo) /\ todo \in Seq(Nodes)
  BY HeadTailProperties DEF Reached, Collects

\* A name that is new leaves the components there are as they were.
LEMMA NewComponent ==
  ASSUME Collects, Gathers, CollectComponent
  PROVE  /\ Keeps
         /\ \A name \in DOMAIN components' :
              \/ name \in DOMAIN components /\ components'[name] = components[name]
              \/ name = NameOf(Reached) /\ components'[name] = Reached
         /\ NameOf(Reached) \in DOMAIN components'
  BY DEF CollectComponent, Keeps, Known

\* Whatever collect is called with, what was seen stays covered.
LEMMA GathersHolds ==
  ASSUME Collects, Gathers, [Next]_vars
  PROVE  Gathers' /\ Keeps
  <1>1. CASE CollectComponent
    <2>1. /\ todo # <<>> /\ Node[Reached].kind \in Named /\ HasName(Reached)
          /\ todo' = Parts(Reached) \o Tail(todo)
      BY <1>1 DEF CollectComponent, Collecting, Reached
    <2>2. Reached \in Nodes /\ todo \in Seq(Nodes) /\ Reached = Head(todo)
      BY <2>1, ReachedIsANode
    <2>3. Parts(Reached) \in Seq(Nodes)
      BY <2>1, <2>2, PartsAreNodes
    <2>4. /\ Range(Parts(Reached)) \subseteq Range(todo')
          /\ Range(todo) \subseteq {Reached} \cup Range(todo')
      BY <2>1, <2>2, <2>3, PutBefore
    <2>5. \A name \in DOMAIN components' \ DOMAIN components :
            Range(Parts(components'[name])) \subseteq Range(todo')
      BY <1>1, <2>4, NewComponent
    <2>6. (\E seen \in SUBSET Nodes : Covers(seen))'
      BY <1>1, <2>1, <2>4, <2>5, NewComponent, Covered DEF Named
    <2>7. \A name \in DOMAIN components' :
            /\ components'[name] \in Nodes /\ HasName(components'[name])
            /\ NameOf(components'[name]) = name
      BY <1>1, <2>1, <2>2, NewComponent DEF Gathers
    <2> QED
      BY <1>1, <2>6, <2>7, NewComponent DEF Gathers
  <1>2. ASSUME components' = components, todo # <<>>, (\E seen \in SUBSET Nodes : Covers(seen))'
        PROVE  Gathers' /\ Keeps
    BY <1>2 DEF Gathers, Keeps
  <1>3. ASSUME components' = components, todo' = todo
        PROVE  Gathers' /\ Keeps
    <2>1. \A seen : Covers(seen) => Covers(seen)'
      BY <1>3 DEF Covers, Known
    <2> QED
      BY <1>3, <2>1 DEF Gathers, Keeps
  <1>4. ASSUME components' = components PROVE Keeps
    BY <1>4 DEF Keeps
  <1>5. CASE CollectAgain
    <2>1. /\ todo # <<>> /\ HasName(Reached) /\ NameOf(Reached) \in DOMAIN components
          /\ todo' = Tail(todo) /\ components' = components /\ Node[Reached].kind \in Named
      BY <1>5 DEF CollectAgain, Collecting, Reached, Known
    <2>2. todo \in Seq(Nodes) /\ Reached = Head(todo)
      BY <2>1, ReachedIsANode
    <2>3. Range(todo) \subseteq {Reached} \cup Range(todo')
      <3>1. <<>> \in Seq(Nodes) /\ Tail(todo) \in Seq(Nodes)
        BY <2>1, <2>2, EmptySeq, HeadTailProperties
      <3>2. <<>> \o Tail(todo) = Tail(todo)
        BY <3>1, ConcatEmptySeq
      <3> QED
        BY <2>1, <2>2, <3>1, <3>2, PutBefore
    <2> QED
      BY <1>2, <1>4, <2>1, <2>3, Covered DEF Named
  <1>6. CASE CollectInside
    <2> DEFINE inside == CASE Node[Reached].kind \in Named    -> Parts(Reached)
                           [] Node[Reached].kind \in Wrappers -> <<Node[Reached].of>>
                           [] Node[Reached].kind = "scalar"   -> <<>>
    <2>1. /\ todo # <<>> /\ todo' = inside \o Tail(todo) /\ components' = components
          /\ Node[Reached].kind \in Kinds \ {"reference"} /\ ~HasName(Reached)
      BY <1>6 DEF CollectInside, Collecting, Reached
    <2>2. Reached \in Nodes /\ todo \in Seq(Nodes) /\ Reached = Head(todo)
      BY <2>1, ReachedIsANode
    <2>3. inside \in Seq(Nodes) /\ Beneath(Reached) \subseteq Range(inside)
      <3>1. CASE Node[Reached].kind \in Named
        <4>1. inside = Parts(Reached)
          BY <3>1 DEF Named, Wrappers
        <4> QED
          BY <2>2, <3>1, <4>1, PartsAreNodes DEF Beneath
      <3>2. CASE Node[Reached].kind \in Wrappers
        <4>1. inside = <<Node[Reached].of>> /\ Node[Reached].kind \notin Named
          BY <3>2 DEF Named, Wrappers
        <4>2. Node[Reached].of \in Nodes
          BY <2>2, <3>2, NodeAssumption
        <4> HIDE DEF inside
        <4>3. Node[Reached].of \in Range(inside) /\ inside \in Seq(Nodes)
          BY <4>1, <4>2 DEF Range
        <4> QED
          BY <3>2, <4>1, <4>3 DEF Beneath
      <3>3. CASE Node[Reached].kind = "scalar"
        <4>1. inside = <<>>
          BY <3>3 DEF Named, Wrappers
        <4>2. Beneath(Reached) = {}
          BY <3>3 DEF Beneath, Named, Wrappers
        <4> HIDE DEF inside
        <4> QED
          BY <4>1, <4>2, EmptySeq
      <3> QED
        BY <2>1, <3>1, <3>2, <3>3 DEF Kinds
    <2> HIDE DEF inside
    <2>4. /\ Range(inside) \subseteq Range(todo')
          /\ Range(todo) \subseteq {Reached} \cup Range(todo')
      BY <2>1, <2>2, <2>3, PutBefore
    <2> QED
      BY <1>2, <1>4, <2>1, <2>3, <2>4, Covered
  <1>7. CASE CollectReference
    <2> DEFINE target == IF Known(ReferenceName(Reached)) \/ Node[Reached].of = NoNode THEN <<>>
                         ELSE <<Node[Reached].of>>
    <2>1. /\ todo # <<>> /\ todo' = target \o Tail(todo) /\ components' = components
          /\ Node[Reached].kind = "reference"
      BY <1>7 DEF CollectReference, Collecting, Reached
    <2>2. Reached \in Nodes /\ todo \in Seq(Nodes) /\ Reached = Head(todo)
      BY <2>1, ReachedIsANode
    <2>3. /\ target \in Seq(Nodes)
          /\ Node[Reached].of # NoNode =>
               ReferenceName(Reached) \in DOMAIN components \/ Node[Reached].of \in Range(target)
      <3>1. CASE Known(ReferenceName(Reached)) \/ Node[Reached].of = NoNode
        BY <3>1 DEF Known
      <3>2. CASE ~(Known(ReferenceName(Reached)) \/ Node[Reached].of = NoNode)
        <4>1. target = <<Node[Reached].of>> /\ Node[Reached].of \in Nodes
          BY <2>1, <2>2, <3>2, NodeAssumption
        <4> HIDE DEF target
        <4> QED
          BY <4>1 DEF Range
      <3> QED
        BY <3>1, <3>2
    <2> HIDE DEF target
    <2>4. /\ Range(target) \subseteq Range(todo')
          /\ Range(todo) \subseteq {Reached} \cup Range(todo')
      BY <2>1, <2>2, <2>3, PutBefore
    <2>5. ~HasName(Reached) /\ Beneath(Reached) = {}
      BY <2>1 DEF HasName, Beneath, Named, Wrappers
    <2> QED
      BY <1>2, <1>4, <2>1, <2>3, <2>4, <2>5, Covered
  <1>8. CASE RefuseName \/ RefuseVariant
    BY <1>3, <1>8 DEF RefuseName, RefuseVariant, Refuse, collected
  <1>9. CASE DeclareNext \/ PassUse \/ DeclareUse \/ Write
    BY <1>3, <1>9 DEF DeclareNext, PassUse, DeclareUse, Write, collected
  <1>10. CASE UNCHANGED vars
    BY <1>3, <1>10 DEF vars, collected
  <1> QED
    BY <1>1, <1>5, <1>6, <1>7, <1>8, <1>9, <1>10 DEF Next

\* A declaration refers to what its component does, which stays what it was.
LEMMA SpeaksHolds ==
  ASSUME IInv, Gathers, Speaks, [Next]_vars
  PROVE  Speaks'
  <1>1. Keeps
    BY GathersHolds DEF IInv
  <1>2. DOMAIN declarations \in SUBSET Nat /\ \A i \in DOMAIN declarations : NameAt(i) \in DOMAIN components
    BY DEF IInv, DeclaredOnce, Speaks, Calls
  <1>3. ASSUME declarations' = declarations, declared' = declared,
               declaring' \subseteq DOMAIN components'
        PROVE  Speaks'
    <2>1. declared \subseteq DOMAIN components'
      BY <1>1 DEF Speaks, Keeps
    <2>2. \A i \in DOMAIN declarations :
            components'[declarations[i].name] = components[declarations[i].name]
      BY <1>1, <1>2 DEF Keeps, NameAt
    <2>3. \A i \in DOMAIN declarations :
            declarations[i].plain \cup declarations[i].suspended
              = References(components'[declarations[i].name])
      BY <2>2 DEF Speaks, NameAt
    <2> QED
      BY <1>3, <2>1, <2>3 DEF Speaks, NameAt
  <1>4. declaring \subseteq DOMAIN components'
    BY <1>1 DEF Speaks, Keeps
  <1>5. CASE CollectComponent \/ CollectAgain \/ RefuseName \/ CollectInside \/ CollectReference
             \/ RefuseVariant \/ PassUse \/ UNCHANGED vars
    BY <1>3, <1>4, <1>5 DEF CollectComponent, CollectAgain, RefuseName, CollectInside,
       CollectReference, RefuseVariant, Refuse, PassUse, vars, written
  <1>6. CASE DeclareNext
    <2>1. PICK i \in DOMAIN Alphabet : Alphabet[i] \in DOMAIN components /\ Call(Alphabet[i], frames)
      BY <1>6 DEF DeclareNext
    <2>2. declaring' = declaring \cup {Alphabet[i]}
      BY <2>1 DEF Call
    <2> QED
      BY <1>1, <1>3, <1>4, <1>6, <2>1, <2>2 DEF DeclareNext, Keeps
  <1>7. CASE DeclareUse
    BY <1>1, <1>3, <1>4, <1>7 DEF DeclareUse, Call, Known, Keeps
  <1>8. CASE Write
    <2> DEFINE refs == References(components[Top.name])
               new  == [name |-> Top.name, plain |-> refs \cap declared,
                        suspended |-> refs \ declared, annotated |-> Top.name \in recursive']
               at   == Len(declarations) + 1
    <2>1. /\ frames # <<>> /\ declarations' = Append(declarations, new)
          /\ declaring' = declaring \ {Top.name} /\ declared' = declared \cup {Top.name}
          /\ components' = components
      BY <1>8 DEF Write, Complete, collected
    <2>2. Top.name \in declaring
      <3>1. Len(frames) \in DOMAIN frames
        BY <2>1, Popped DEF IInv, Calls
      <3> QED
        BY <3>1 DEF Top, IInv, DeclaredOnce
    <2>3. new.name = Top.name /\ new.plain \cup new.suspended = refs
      OBVIOUS
    <2> HIDE DEF new
    <2>4. /\ DOMAIN declarations = 1..Len(declarations) /\ Len(declarations) \in Nat
          /\ DOMAIN declarations' = 1..at /\ declarations'[at] = new
          /\ \A i \in 1..Len(declarations) : declarations'[i] = declarations[i]
      BY <2>1, Appended DEF IInv, Calls
    <2>5. ASSUME NEW i \in DOMAIN declarations'
          PROVE  declarations'[i].plain \cup declarations'[i].suspended
                   = References(components'[declarations'[i].name])
      <3>1. CASE i = at
        BY <2>1, <2>3, <2>4, <3>1
      <3>2. CASE i # at
        <4>1. i \in DOMAIN declarations
          BY <2>4, <3>2
        <4> QED
          BY <2>1, <2>4, <4>1 DEF Speaks, NameAt
      <3> QED
        BY <3>1, <3>2
    <2>6. declaring' \cup declared' \subseteq DOMAIN components'
      BY <2>1, <2>2 DEF Speaks
    <2> QED
      BY <2>5, <2>6 DEF Speaks, NameAt
  <1> QED
    BY <1>5, <1>6, <1>7, <1>8 DEF Next

\* Tells by its variants what it is.
Plainly(n) ==
  (Node[n].kind = "union" /\ Node[n].tagged) => \A v \in Range(Parts(n)) : ~Displaced(v)

\* Once nothing is left to collect, what is seen holds what is seen.
LEMMA HeldIsSeen ==
  ASSUME NEW seen \in SUBSET Nodes, Covers(seen), Gathers, Range(todo) = {}, NEW n \in Nodes,
         Beneath(n) \subseteq seen, Plainly(n)
  PROVE  Held(n) \subseteq seen
  <1>1. CASE Node[n].kind \in Wrappers
    BY <1>1, HeldIs DEF Beneath, Wrappers, Named
  <1>2. CASE Node[n].kind \in {"scalar", "reference"}
    BY <1>2, HeldIs
  <1>3. CASE Node[n].kind \in Named /\ ~(Node[n].kind = "union" /\ Node[n].tagged)
    BY <1>3, HeldIs DEF Beneath
  <1>4. CASE Node[n].kind = "union" /\ Node[n].tagged
    <2>1. Range(Parts(n)) \subseteq seen
      BY <1>4 DEF Beneath, Named
    <2>2. ASSUME NEW v \in Range(Parts(n)), ObjectBehind[v] # NoNode
          PROVE  Range(Parts(ObjectBehind[v])) \subseteq seen
      <3> DEFINE o == ObjectBehind[v]
      <3>1. v \in seen /\ v \in Nodes /\ ~Displaced(v)
        BY <1>4, <2>1, <2>2 DEF Plainly
      <3>2. o \in Nodes /\ Node[o].kind = "object"
        BY <2>2, <3>1, ObjectBehindIs, FoundIsObject
      <3>3. ASSUME HasName(o), NameOf(o) \in DOMAIN components
            PROVE  Range(Parts(o)) \subseteq seen
        <4>1. Parts(components[NameOf(o)]) = Parts(o)
          BY <2>2, <3>1, <3>3 DEF Displaced
        <4> QED
          BY <3>3, <4>1 DEF Covers
      <3>4. CASE Node[v].kind = "object"
        <4>1. o = v
          BY <3>1, <3>4, ObjectBehindIs
        <4>2. CASE HasName(v)
          BY <3>1, <3>3, <4>1, <4>2 DEF Covers, Known
        <4>3. CASE ~HasName(v)
          BY <3>1, <3>4, <4>1, <4>3 DEF Covers, Beneath, Named
        <4> QED
          BY <4>2, <4>3
      <3>5. CASE Node[v].kind # "object"
        <4>1. Node[v].kind = "reference" /\ Node[v].of # NoNode /\ o = ObjectBehind[Node[v].of]
          BY <2>2, <3>1, <3>5, ObjectBehindIs
        <4>2. Node[v].of \in Nodes
          BY <3>1, <4>1, NodeAssumption
        <4>3. HasName(Node[v].of) /\ NameOf(Node[v].of) = ReferenceName(v)
          BY <3>1, <4>1 DEF Displaced, Astray
        <4>4. o = Node[v].of
          BY <2>2, <4>1, <4>2, <4>3, ObjectBehindIs DEF HasName, Named
        <4>5. NameOf(o) \in DOMAIN components
          BY <3>1, <4>1, <4>3, <4>4 DEF Covers, Known
        <4> QED
          BY <3>3, <4>3, <4>4, <4>5
      <3> QED
        BY <3>4, <3>5
    <2> QED
      BY <1>4, <2>2, HeldIs
  <1> QED
    BY <1>1, <1>2, <1>3, <1>4, NodeAssumption DEF Kinds

\* What is written for a seen node was seen.
LEMMA WithinIsSeen ==
  ASSUME NEW seen \in SUBSET Nodes, Covers(seen), Gathers, Range(todo) = {}
  PROVE  \A n \in seen : (\A m \in Within[n] : ~Refers(m) => Plainly(m)) => Within[n] \subseteq seen
  <1> DEFINE K == {k \in Nat : \A n \in seen :
                     (Depth[n] < k /\ \A m \in Within[n] : ~Refers(m) => Plainly(m)) =>
                       Within[n] \subseteq seen}
  <1>1. 0 \in K
    BY ExpressionAssumption
  <1>2. ASSUME NEW k \in Nat, k \in K
        PROVE  k + 1 \in K
    <2> SUFFICES ASSUME NEW n \in seen, Depth[n] < k + 1,
                        \A m \in Within[n] : ~Refers(m) => Plainly(m)
                 PROVE  Within[n] \subseteq seen
      OBVIOUS
    <2>1. Within[n] = {n} \cup (IF Refers(n) THEN {} ELSE UNION {Within[m] : m \in Held(n)})
      BY WithinIs
    <2>2. CASE Refers(n)
      BY <2>1, <2>2
    <2>3. CASE ~Refers(n)
      <3>1. Held(n) \subseteq seen
        <4>1. Plainly(n)
          BY <2>1, <2>3
        <4>2. Beneath(n) \subseteq seen
          BY <2>3 DEF Covers, Refers
        <4> QED
          BY <4>1, <4>2, HeldIsSeen
      <3>2. ASSUME NEW m \in Held(n)
            PROVE  Within[m] \subseteq seen
        <4>1. m \in seen /\ Depth[m] < k
          BY <2>3, <3>1, ExpressionAssumption
        <4>2. Within[m] \subseteq Within[n]
          BY <2>1, <2>3
        <4> QED
          BY <1>2, <4>1, <4>2
      <3> QED
        BY <2>1, <2>3, <3>2
    <2> QED
      BY <2>2, <2>3
  <1> HIDE DEF K
  <1>3. Nat \subseteq K
    BY <1>1, <1>2, SetInduction
  <1> TAKE n \in seen
  <1>4. Depth[n] \in Nat /\ Depth[n] + 1 \in K /\ Depth[n] < Depth[n] + 1
    BY <1>3, ExpressionAssumption
  <1> QED
    BY <1>4 DEF K

\* What a component refers to has a name that is declared, or leads astray.
LEMMA ReferencesResolve ==
  ASSUME Gathers, Range(todo) = {}, NEW at \in DOMAIN components, SpeaksPlainly(components[at]),
         NEW name \in References(components[at])
  PROVE  \/ name \in DOMAIN components
         \/ \E n \in WrittenFor(components[at]) : Astray(n) /\ ReferenceName(n) = name
  <1> DEFINE c == components[at]
  <1>1. PICK seen \in SUBSET Nodes : Covers(seen)
    BY DEF Gathers
  <1>2. c \in Nodes /\ HasName(c) /\ Beneath(c) \subseteq seen
    BY <1>1 DEF Gathers, Covers, Beneath, HasName
  <1>3. Plainly(c) /\ \A m \in WrittenFor(c) : ~Refers(m) => Plainly(m)
    BY DEF SpeaksPlainly, Spelled, Plainly
  <1>4. Held(c) \subseteq seen
    BY <1>1, <1>2, <1>3, HeldIsSeen
  <1>5. WrittenFor(c) \subseteq seen
    <2>1. ASSUME NEW m \in Held(c)
          PROVE  Within[m] \subseteq seen
      <3>1. Within[m] \subseteq WrittenFor(c)
        BY DEF WrittenFor
      <3> QED
        BY <1>1, <1>3, <1>4, <3>1, WithinIsSeen
    <2> QED
      BY <2>1 DEF WrittenFor
  <1>6. PICK m \in WrittenFor(c) : Refers(m) /\ name = IF HasName(m) THEN NameOf(m) ELSE ReferenceName(m)
    BY DEF References
  <1>7. m \in seen
    BY <1>5, <1>6
  <1>8. CASE HasName(m)
    BY <1>1, <1>6, <1>7, <1>8 DEF Covers, Known
  <1>9. CASE ~HasName(m) /\ ~Astray(m)
    <2>1. /\ Node[m].kind = "reference" /\ Node[m].of # NoNode /\ name = ReferenceName(m)
          /\ HasName(Node[m].of) /\ NameOf(Node[m].of) = name
      BY <1>6, <1>9 DEF Refers, Astray
    <2> QED
      BY <1>1, <1>7, <2>1 DEF Covers, Known
  <1>10. CASE ~HasName(m) /\ Astray(m)
    BY <1>6, <1>10
  <1> QED
    BY <1>8, <1>9, <1>10

----------------------------------------------------------------------------
(* Theorems *)

\* Whatever the descriptions are and however they refer to each other, a
\* component is declared in one call and one declaration (declare).
THEOREM OneDeclaration == Spec => []DeclaredOnce
  <1>1. IInv => DeclaredOnce
    BY DEF IInv
  <1> QED
    BY <1>1, Invariant, PTL

\* What a declaration reads while the module loads is declared above it, so a
\* module loads in the order it is written (declare, reference).
THEOREM InOrder == Spec => []LoadsInOrder
  <1>1. IInv => LoadsInOrder
    BY DEF IInv
  <1> QED
    BY <1>1, Invariant, PTL

\* A name is annotated if any declaration, above or below, suspends it: the
\* question is asked before every later reference to it, and answered for good.
THEOREM AllAnnotated == Spec => []SuspendedAreAnnotated
  <1>1. IInv => SuspendedAreAnnotated
    <2> SUFFICES ASSUME IInv, NEW i \in DOMAIN declarations, NEW j \in DOMAIN declarations,
                        NameAt(j) \in declarations[i].suspended
                 PROVE  declarations[j].annotated
      BY DEF SuspendedAreAnnotated
    <2> QED
      BY DEF IInv, Annotated
  <1> QED
    BY <1>1, Invariant, PTL

\* A module refers to nothing it does not declare, whatever it was collected
\* through and in whatever order: unless a description refers to what is not
\* there, or a variant is of another shape than the one with its name.
THEOREM AllResolve == Spec => []Resolves
  <1> DEFINE GInv == IInv /\ Gathers /\ Speaks
  <1>1. Init => GInv
    <2> SUFFICES ASSUME Init PROVE Gathers /\ Speaks
      BY Initially
    <2>1. DOMAIN components = {} /\ declaring = {} /\ declared = {} /\ DOMAIN declarations = {}
      BY DEF Init
    <2>2. Covers({})
      BY <2>1 DEF Covers
    <2> QED
      BY <2>1, <2>2 DEF Gathers, Speaks
  <1>2. GInv /\ [Next]_vars => GInv'
    BY Stepwise, GathersHolds, SpeaksHolds DEF IInv
  <1>3. GInv => Resolves
    <2> SUFFICES ASSUME GInv, Done, NEW i \in DOMAIN declarations,
                        SpeaksPlainly(components[NameAt(i)]),
                        NEW name \in declarations[i].plain \cup declarations[i].suspended
                 PROVE  \/ name \in declared
                        \/ \E n \in WrittenFor(components[NameAt(i)]) :
                             Astray(n) /\ ReferenceName(n) = name
      BY DEF Resolves
    <2>1. todo = <<>> /\ DOMAIN components \subseteq declared
      BY DEF Done, Declaring
    <2>2. Range(todo) = {}
      BY <2>1 DEF Range
    <2>3. NameAt(i) \in DOMAIN components /\ name \in References(components[NameAt(i)])
      BY DEF Speaks, IInv, DeclaredOnce
    <2> QED
      BY <2>1, <2>2, <2>3, ReferencesResolve
  <1> HIDE DEF GInv
  <1> QED
    BY <1>1, <1>2, <1>3, PTL DEF Spec

\* Every step of declaring opens a name, closes an open one, or does neither:
\* names are given out as DeclareOnce promises.
THEOREM DeclaresOnce == Spec => ImplementsDeclareOnce
  <1>1. Init => Catalogue!Init
    BY DEF Init, Catalogue!Init
  <1>2. IInv /\ [Next]_vars => [Catalogue!Next]_<<declaring, declared>>
    <2> SUFFICES ASSUME IInv, [Next]_vars
                 PROVE  [Catalogue!Next]_<<declaring, declared>>
      OBVIOUS
    <2>1. ASSUME NEW name \in Identifiers, name \notin declaring \cup declared,
                 declaring' = declaring \cup {name}, declared' = declared
          PROVE  Catalogue!Next
      BY <2>1 DEF Catalogue!Next, Catalogue!Open
    <2>2. CASE DeclareNext
      <3>1. PICK i \in DOMAIN Alphabet :
              Alphabet[i] \in DOMAIN components \ declared /\ Call(Alphabet[i], frames)
        BY <2>2 DEF DeclareNext
      <3>2. frames = <<>> /\ declared' = declared
        BY <2>2 DEF DeclareNext
      <3>3. declaring = {} /\ declaring' = declaring \cup {Alphabet[i]}
        BY <3>1, <3>2 DEF IInv, DeclaredOnce, Call
      <3> QED
        BY <2>1, <3>1, <3>2, <3>3 DEF IInv, Collects
    <2>3. CASE DeclareUse
      BY <2>1, <2>3 DEF DeclareUse, Call, Known, IInv, Collects
    <2>4. CASE Write
      <3>1. Len(frames) \in DOMAIN frames
        <4>1. Len(frames) \in Nat \ {0} /\ DOMAIN frames = 1..Len(frames)
          BY <2>4, Popped DEF Write, Complete, IInv, Calls
        <4> QED
          BY <4>1
      <3>2. Top.name \in declaring /\ Top.name \in Identifiers
        BY <3>1 DEF Top, IInv, DeclaredOnce, Calls
      <3>3. declaring' = declaring \ {Top.name} /\ declared' = declared \cup {Top.name}
        BY <2>4 DEF Write
      <3> QED
        BY <3>2, <3>3 DEF Catalogue!Next, Catalogue!Close
    <2>5. CASE CollectComponent \/ CollectAgain \/ RefuseName \/ CollectInside \/ CollectReference
               \/ PassUse \/ RefuseVariant \/ UNCHANGED vars
      BY <2>5 DEF CollectComponent, CollectAgain, RefuseName, CollectInside, CollectReference,
         PassUse, RefuseVariant, Refuse, vars, written
    <2> QED
      BY <2>2, <2>3, <2>4, <2>5 DEF Next
  <1> QED
    BY <1>1, <1>2, Invariant, PTL DEF Spec, ImplementsDeclareOnce, Catalogue!Spec
=============================================================================
