----------------------------- MODULE MCRoundTrip -----------------------------
(***************************************************************************)
(* RoundTrip for TLC: JSON with and without a naming strategy, and the     *)
(* universal representation.                                               *)
(***************************************************************************)
EXTENDS RoundTrip, MCShapes

Two == Flat \cup {<<2, g>> : g \in Groups({<<a>> : a \in Flat} \cup {<< <<2, << <<"i1">>, <<<<>>>> >>>>, <<1, << <<"2">>, <<>> >>>> >>})}

Docs ==
  { << <<"t">>, <<x>>, <<n>>, c, <<>> >> :
      x \in Maps({<<1, <<1, << <<"2">>, <<>> >>>>>>, <<2, "b1">>}),
      n \in Perhaps({"1"}),
      c \in {<<>>, << << <<"1">>, <<"3">> >> >>} }

Input(shape, value, kind, strategy) ==
  [shape |-> shape, value |-> value, kind |-> kind, strategy |-> strategy, fails |-> FALSE]

Formats == {<<"dynamic", "literal">>, <<"json", "literal">>, <<"json", "snake">>}

MCInputs ==
  {Input(v[1], v[2], f[1], f[2]) : v \in ({"shape"} \X Two) \cup ({"doc"} \X Docs), f \in Formats}

\* A byte string in a variant, with which VariantReadsWhatItWrote does not hold.
MCBytesInVariant == {Input("media", <<1, << <<"b1">> >> >>, f[1], f[2]) : f \in Formats}

MCValues == ValuesIn(MCShape, MCInputs \cup MCBytesInVariant)
=============================================================================
