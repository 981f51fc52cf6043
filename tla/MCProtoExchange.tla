--------------------------- MODULE MCProtoExchange ---------------------------
(***************************************************************************)
(* ProtoExchange for TLC: a recursive message with every kind of field,    *)
(* whose numbers are not in declaration order, and for each disagreement   *)
(* of the codec with its own documentation one small message.              *)
(***************************************************************************)
EXTENDS ProtoExchange, ShapeValues, TLC

MCField(name, number, of, optional) ==
  [name |-> name, exact |-> FALSE, optional |-> optional, of |-> of, number |-> number]
MCVariant(name, number, of) == [name |-> name, of |-> of, number |-> number]
Of(kind, of) == [kind |-> kind, of |-> of]
Struct(fields) == [kind |-> "object", fields |-> fields]

MCShape ==
  ("text" :> [kind |-> "text"]) @@
  ("int" :> [kind |-> "integer"]) @@
  ("num" :> [kind |-> "number"]) @@
  ("bytes" :> [kind |-> "bytes"]) @@
  ("time" :> [kind |-> "timestamp"]) @@
  ("positive" :> [kind |-> "refined", of |-> "int", admits |-> {"1", "2"}]) @@
  ("limit" :> Of("nullable", "int")) @@
  ("texts" :> Of("list", "text")) @@
  ("ints" :> Of("list", "int")) @@
  ("counts" :> Of("map", "int")) @@
  ("card" :> Struct(<<MCField("holder", 1, "text", FALSE)>>)) @@
  ("pay" :> [kind |-> "union",
             variants |-> <<MCVariant("card", 2, "card"), MCVariant("points", 1, "int")>>]) @@
  ("self" :> Of("suspend", "order")) @@
  ("selves" :> Of("list", "self")) @@
  ("order" :> Struct(<<MCField("quantity", 3, "positive", FALSE), MCField("count", 1, "int", FALSE),
                       MCField("note", 9, "text", TRUE), MCField("pay", 2, "pay", FALSE),
                       MCField("limit", 5, "limit", FALSE), MCField("lines", 4, "selves", FALSE)>>)) @@
  ("parts" :> Struct(<<MCField("sizes", 2, "ints", FALSE), MCField("names", 1, "texts", FALSE),
                       MCField("by", 4, "counts", FALSE), MCField("at", 3, "time", FALSE),
                       MCField("raw", 6, "bytes", TRUE), MCField("ratio", 5, "num", FALSE)>>)) @@
  ("limited" :> Struct(<<MCField("limit", 1, "limit", FALSE)>>)) @@
  ("unnumbered" :> Struct(<<MCField("count", 1, "int", FALSE), MCField("at", 0, "time", FALSE)>>)) @@
  ("named" :> Struct(<<MCField("tags", 1, "texts", FALSE)>>))

MCNames == {"holder", "quantity", "count", "note", "pay", "limit", "lines", "sizes", "names",
            "by", "at", "raw", "ratio", "tags"}
MCSpell == [s \in {"literal"} |-> [n \in MCNames |-> n]]

MCZero == [text |-> "", integer |-> "0", number |-> "0", bytes |-> "b0", timestamp |-> "i0"]
MCAsText == ("b0" :> "") @@ ("b1" :> "YjE=") @@ ("i0" :> "0001-01-01T00:00:00Z")
            @@ ("i1" :> "2026-01-01T00:00:00Z")
MCKeys == <<"", "k1">>

Input(shape, value) ==
  [shape |-> shape, value |-> value, kind |-> "dynamic", strategy |-> Literal, fails |-> FALSE]

Card(holder) == <<1, << <<holder>> >> >>
Order(quantity, count, note, pay, limit, lines) ==
  << <<quantity>>, <<count>>, note, <<pay>>, << <<limit>> >>, <<lines>> >>
Leaves == {Order("1", "0", <<"">>, Card(""), "0", <<>>), Order("2", "7", <<>>, <<2, "7">>, "5", <<>>)}
Orders == Leaves \cup {Order("1", "0", <<"n">>, Card("me"), "0", <<Order("2", "7", <<>>, <<2, "7">>, "5", <<>>)>>)}
Parts(sizes, names, by, raw, ratio) ==
  << <<sizes>>, <<names>>, <<by>>, <<"i1">>, raw, <<ratio>> >>
AllParts == {Parts(<<"1", "0", "2">>, <<"b", "a">>, ("" :> "3") @@ ("k1" :> "0"), <<"b0">>, "0"),
             Parts(<<>>, <<>>, <<>>, <<>>, "4")}

MCInputs ==
  {Input("order", o) : o \in Orders \cup {Order("0", "1", <<>>, Card("me"), "0", <<>>)}}
  \cup {Input("parts", p) : p \in AllParts}
  \cup {Input("unnumbered", << <<"1">>, <<"i1">> >>)}

\* A choice that is zero.
MCZeroChoice == {Input("pay", v) : v \in {Card(""), <<2, "0">>}}

MCValues == ValuesIn(MCShape, MCInputs \cup MCZeroChoice)
=============================================================================
