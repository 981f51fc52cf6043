------------------------------ MODULE RoundTrip ------------------------------
(***************************************************************************)
(* A value encoded by one program and decoded by another with the same     *)
(* schema and naming strategy.  Between the two the document may be        *)
(* rewritten as a producer of another version would have written it, or    *)
(* damaged: its members in another order, members nobody declared, an      *)
(* explicit null for an absent optional field, a required part missing, a  *)
(* member twice, a value of another type or one a schema does not admit,   *)
(* or the end cut off.                                                     *)
(***************************************************************************)
EXTENDS Shapes, Documents

CONSTANTS Literal, Inputs, Keys, Values

VARIABLES
  phase,                                            \* encode, decode or done
  input, written, tags, sink, refusal,              \* the encoder's
  received,                                         \* the document's Edit
  request, frames, sources, returned, failure       \* the decoder's

encoder == <<input, written, tags, sink, refusal>>
decoder == <<request, frames, sources, returned, failure>>
vars == <<phase, encoder, received, decoder>>

E == INSTANCE Encoder WITH frames <- written, failure <- refusal
D == INSTANCE Decoder

----------------------------------------------------------------------------
(***************************************************************************)
(* An edited document: the tree it now is, whether it must still decode to *)
(* the same value or be rejected (or, having a member twice, the one as a  *)
(* tree and the other as JSON), and the path it is then rejected with.     *)
(***************************************************************************)
Edit(tree, expect, path) == [tree |-> tree, expect |-> expect, path |-> path]
Same(tree) == Edit(tree, "same", <<>>)

Unknown == {Member("extra", Absent),
            Member("extra", Object(<<Member("radius", List(<<Integer("3"), Absent>>)),
                                     Member("extra", Text("t"))>>))}

Without(members, i) == SubSeq(members, 1, i - 1) \o SubSeq(members, i + 1, Len(members))

Reordered(members) == {Reverse(members), Append(Tail(members), Head(members))}

\* A producer's other orders of an object's members, and members of its own.
Tolerated(members) ==
  IF members = <<>> THEN {<<u>> : u \in Unknown}
  ELSE Reordered(members) \cup {<<u>> \o members : u \in Unknown} \cup {Append(members, u) : u \in Unknown}

\* An object shape s written without one of its required members, and with an
\* explicit null for each of its absent ones.
Lacking(s, members, strategy) ==
  {Edit(Object(Without(members, i)), "rejected", <<members[i].name>>) :
     i \in {j \in DOMAIN members : members[j].name \in Required(Shape[s].fields, strategy)}}

\* The same with a null in place of a required member that cannot be null.
Emptied(s, members, strategy) ==
  LET fields == Shape[s].fields
      of(name) == fields[ByName(fields, strategy, name)].of
      filled == {j \in DOMAIN members : /\ members[j].name \in Required(fields, strategy)
                                       /\ Shape[of(members[j].name)].kind \notin Wrappers}
  IN  {Edit(Object([members EXCEPT ![i].value = Absent]), "rejected", <<members[i].name>>) : i \in filled}

Nulled(s, members, strategy) ==
  LET fields == Shape[s].fields
      absent == {SpelledName(fields, strategy, i) :
                   i \in {j \in DOMAIN fields : fields[j].optional}}
                \ {members[i].name : i \in DOMAIN members}
  IN  {Same(Object(<<Member(n, Absent)>> \o members)) : n \in absent}

\* A member written a second time.
Twice(members) ==
  {Edit(Object(Append(members, members[i])), "twice", <<>>) : i \in DOMAIN members}

\* What the schema refuses whatever is in it, because it was declared with a
\* fault or has two fields the strategy spells alike.
RECURSIVE Unusable(_, _)
Unusable(s, strategy) ==
  CASE Shape[s].kind = "faulty"  -> TRUE
    [] Shape[s].kind = "suspend" -> Unusable(Shape[s].of, strategy)
    [] Shape[s].kind = "object"  -> SpellingFault(Shape[s].fields, strategy)
    [] OTHER                     -> FALSE

\* A member for an absent optional field whose schema refuses every value.
Hopeless(s, members, strategy) ==
  LET fields == Shape[s].fields
      hopeless == {i \in DOMAIN fields : fields[i].optional /\ Unusable(fields[i].of, strategy)}
  IN  {Edit(Object(Append(members, Member(SpelledName(fields, strategy, i), Object(<<>>)))),
            "rejected", <<SpelledName(fields, strategy, i)>>) : i \in hopeless}

\* An edit of the part named name at position i of a container.
Within(tree, i, name, edit) ==
  [edit EXCEPT
     !.tree = IF tree.is = "Object" THEN [tree EXCEPT !.members[i].value = edit.tree]
                                    ELSE [tree EXCEPT !.elements[i] = edit.tree],
     !.path = IF edit.expect = "same" THEN @ ELSE <<name>> \o @]

\* Every edit of one place of a tree written with shape s.
RECURSIVE Edits(_, _, _)
Edits(s, tree, strategy) ==
  LET shape == Shape[s]
      inMembers(of(_)) ==
        UNION {{Within(tree, i, tree.members[i].name, edit) :
                  edit \in Edits(of(tree.members[i].name), tree.members[i].value, strategy)} :
               i \in {j \in DOMAIN tree.members : of(tree.members[j].name) # ""}}
      variant(name) == CHOOSE i \in DOMAIN shape.variants : shape.variants[i].name = name
      field(name) == IF Known(shape.fields, strategy, name)
                     THEN shape.fields[ByName(shape.fields, strategy, name)].of ELSE ""
      tag == Spell[strategy][shape.tag]
      tagged(members) == <<Member(tag, MemberOf(tree, tag))>> \o members
  IN  CASE shape.kind \in {"nullable", "refined", "suspend"} ->
             (IF tree = Absent THEN {} ELSE Edits(shape.of, tree, strategy))
             \cup (IF shape.kind = "refined" THEN {Edit(Text("inadmissible"), "rejected", <<>>)} ELSE {})
        [] shape.kind = "object" ->
             {Same(Object(m)) : m \in Tolerated(tree.members)}
             \cup Lacking(s, tree.members, strategy)
             \cup Emptied(s, tree.members, strategy)
             \cup Nulled(s, tree.members, strategy)
             \cup Hopeless(s, tree.members, strategy)
             \cup Twice(tree.members)
             \cup inMembers(field)
        [] shape.kind = "tagged" ->
             LET of == shape.variants[variant(TextOf(MemberOf(tree, tag)))].of
             IN  {Same(Object(m)) : m \in Reordered(tree.members)}
                 \cup {Edit(Omit(tree, tag), "rejected", <<>>),
                       Edit(Object(<<Member(tag, Absent)>> \o Omit(tree, tag).members), "rejected", <<tag>>)}
                 \cup {[edit EXCEPT !.tree = Object(tagged(@.members))] :
                         edit \in {e \in Edits(of, Omit(tree, tag), strategy) :
                                    ~Carries(e.tree, tag) /\ e.expect # "twice"}}
        [] shape.kind = "union" ->
             {Edit(Object(<<>>), "rejected", <<>>),
              Edit(Object(Append(tree.members, Member("another", Absent))), "rejected", <<>>)}
             \cup inMembers(LAMBDA name : shape.variants[variant(name)].of)
        [] shape.kind = "map" ->
             (IF tree.members = <<>> THEN {} ELSE {Same(Object(m)) : m \in Reordered(tree.members)})
             \cup Twice(tree.members)
             \cup inMembers(LAMBDA name : shape.of)
        [] shape.kind = "list" ->
             UNION {{Within(tree, i, ToString(i - 1), edit) :
                       edit \in Edits(shape.of, tree.elements[i], strategy)} : i \in DOMAIN tree.elements}
        [] OTHER -> {Edit(Object(<<>>), "rejected", <<>>)}

\* A tree as JSON tokens.
RECURSIVE Flatten(_)
Flatten(tree) ==
  CASE tree.is = "Object" ->
         <<OpenObject>>
         \o FlattenSeq([i \in DOMAIN tree.members |->
                          <<Str(tree.members[i].name)>> \o Flatten(tree.members[i].value)])
         \o <<CloseObject>>
    [] tree.is = "List" ->
         <<OpenList>> \o FlattenSeq([i \in DOMAIN tree.elements |-> Flatten(tree.elements[i])])
         \o <<CloseList>>
    [] tree.is = "Text"    -> <<Str(tree.text)>>
    [] tree.is = "Integer" -> <<Num(tree.integer)>>
    [] tree.is = "Number"  -> <<Num(tree.number)>>
    [] tree.is = "Absent"  -> <<NullToken>>

----------------------------------------------------------------------------
Idle == [shape |-> input.shape, kind |-> input.kind, strategy |-> input.strategy, document |-> <<>>]

Init ==
  /\ phase = "encode"
  /\ E!Init
  /\ received = <<>>
  /\ request = Idle /\ frames = <<>> /\ sources = <<>> /\ returned = <<>> /\ failure = <<>>

Encode ==
  /\ phase = "encode"
  /\ E!Step
  /\ UNCHANGED <<phase, received, decoder>>

Tree == IF sink.kind = "json" THEN Buffer(sink.out).root[1] ELSE sink.build.root[1]

Decode(document) ==
  /\ phase' = "decode"
  /\ D!Start([Idle EXCEPT !.document = document])
  /\ UNCHANGED encoder

Encoded == phase = "encode" /\ written = <<>> /\ refusal = <<>>

\* The document arrives as it was written.
Deliver ==
  /\ Encoded
  /\ received' = <<Same(Tree)>>
  /\ Decode(IF sink.kind = "json" THEN sink.out ELSE sink.build.root[1])

DeliverEdited ==
  /\ Encoded
  /\ \E edit \in Edits(input.shape, Tree, input.strategy) :
       /\ received' = <<edit>>
       /\ Decode(IF sink.kind = "json" THEN Flatten(edit.tree) ELSE edit.tree)

\* The stream ends early.
DeliverCut ==
  /\ Encoded /\ sink.kind = "json"
  /\ \E n \in 0..(Len(sink.out) - 1) :
       LET cut == SubSeq(sink.out, 1, n)
       IN  /\ received' = <<Edit(Tree, "cut", Interrupted(FoldLeft(Buffered, NothingBuilt, cut)))>>
           /\ Decode(cut)

DecodeStep ==
  /\ phase = "decode"
  /\ D!Step
  /\ UNCHANGED <<phase, encoder, received>>

Finish ==
  /\ \/ phase = "encode" /\ written = <<>> /\ refusal # <<>>
     \/ phase = "decode" /\ frames = <<>>
  /\ phase' = "done"
  /\ UNCHANGED <<encoder, received, decoder>>

Done == phase = "done" /\ UNCHANGED vars

Next ==
  \/ Encode
  \/ Deliver \/ DeliverEdited \/ DeliverCut
  \/ DecodeStep
  \/ Finish
  \/ Done

Spec == Init /\ [][Next]_vars

----------------------------------------------------------------------------
(* Properties *)

Arrived(expect) == phase = "done" /\ received # <<>> /\ received[1].expect = expect

\* What one program writes another reads back as the same value, whatever order
\* the members come in and whatever a newer producer put beside them.  In a tree,
\* the second of two members that agree changes nothing.
RoundTrips ==
  Arrived("same") \/ (Arrived("twice") /\ input.kind = "dynamic") =>
    failure = <<>> /\ returned = <<input.value>>

\* The decode was rejected, at the path where the document was changed.  A tagged
\* union's variant has no place of its own in the document.
RejectedThere ==
  /\ failure # <<>>
  /\ LET labels == SelectSeq(failure[1], LAMBDA label : label.in # "tagged")
     IN  [i \in DOMAIN labels |-> labels[i].part] = received[1].path

\* A document without a part the schema requires is rejected, not completed
\* with a zero value, and so is one with a null, another type or a value not
\* admitted in its place, or with a member twice where it is JSON; the error says
\* which part.  A document cut off anywhere is rejected at the place it ends: a
\* decoder that took the end of input for the end of a container would return a
\* part of the value as the whole.
DamageIsRejected ==
  \/ Arrived("rejected") \/ Arrived("cut")
  \/ Arrived("twice") /\ input.kind = "json"
  => RejectedThere

----------------------------------------------------------------------------
(* What the documentation says beyond that. *)

\* A tagged union's variant reads the object it would have written: its own
\* fields and nothing else (union_tagged.go, decodeTagged).
VariantReadsWhatItWrote ==
  (Arrived("same") /\ Shape[input.shape].kind = "tagged") => failure = <<>>

=============================================================================
