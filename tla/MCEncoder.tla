------------------------------ MODULE MCEncoder ------------------------------
(***************************************************************************)
(* Encoder for TLC.  Documents are whole or refused at any depth: by a     *)
(* value no variant matches, a number that is not finite, a refinement, a  *)
(* fault behind Suspend, two fields spelled alike, a tag spelled like a    *)
(* field, or the writer.                                                   *)
(***************************************************************************)
EXTENDS Encoder, MCShapes

\* A tagged union three deep, with what is refused at each level.
Refused == {<<1, c>> : c \in Circles({"NaN"})} \cup {<<0>>}
Shallow == Flat \cup Refused
Nested == Flat \cup {<<2, g>> : g \in Groups(Lists(Shallow))}
Deep == {<<2, g>> : g \in Groups({<<m>> : m \in Nested})}

Doc(title, index, count, clash, odd) == << <<title>>, <<index>>, <<count>>, clash, odd >>
Indexes == Maps({<<1, m>> : m \in Flat} \cup {<<2, "b1">>, <<0>>})
Clashes == {<<>>, << << <<"1">>, <<"3">> >> >>}

Docs ==
  {Doc("t", x, n, c, <<>>) : x \in Indexes, n \in Perhaps({"1"}), c \in Clashes}
  \cup {Doc(t, <<>>, <<>>, c, <<"any">>) : t \in {"t", "u"}, c \in Clashes}

Input(shape, value, kind, strategy, fails) ==
  [shape |-> shape, value |-> value, kind |-> kind, strategy |-> strategy, fails |-> fails]

MCInputs ==
  LET shallower == ({"shape"} \X (Shallow \cup Nested)) \cup ({"doc"} \X Docs)
  IN  {Input(v[1], v[2], "json", s, FALSE) : v \in shallower, s \in {"literal", "snake"}}
      \cup {Input(v[1], v[2], "dynamic", "literal", FALSE) : v \in shallower}
      \cup {Input("shape", v, kind, "literal", FALSE) : v \in Deep, kind \in {"json", "dynamic"}}
      \cup {Input("shape", v, "json", "literal", TRUE) : v \in Nested}

MCValues == ValuesIn(MCShape, MCInputs)
=============================================================================
