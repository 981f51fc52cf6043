------------------------------ MODULE MCShapes ------------------------------
(***************************************************************************)
(* The schemas TLC encodes and decodes with, and their values: every       *)
(* constructor, recursion through Suspend, a tagged union inside a list    *)
(* inside a variant of itself, and an optional field that snake_case       *)
(* spells like the tag of the union its object is a variant of.            *)
(***************************************************************************)
EXTENDS ShapeValues, FiniteSets, TLC

MCField(name, of, optional) == [name |-> name, exact |-> FALSE, optional |-> optional, of |-> of]
MCVariant(name, of) == [name |-> name, of |-> of]

MCShape ==
  ("text"   :> [kind |-> "text"]) @@
  ("int"    :> [kind |-> "integer"]) @@
  ("num"    :> [kind |-> "number"]) @@
  ("bytes"  :> [kind |-> "bytes"]) @@
  ("time"   :> [kind |-> "timestamp"]) @@
  ("title"  :> [kind |-> "refined", of |-> "text", admits |-> {"t"}]) @@
  ("maybe"  :> [kind |-> "nullable", of |-> "int"]) @@
  ("circle" :> [kind |-> "object",
                fields |-> <<MCField("radius", "num", FALSE), MCField("kind_of", "text", TRUE)>>]) @@
  ("later"  :> [kind |-> "suspend", of |-> "shape"]) @@
  ("kids"   :> [kind |-> "list", of |-> "later"]) @@
  ("group"  :> [kind |-> "object", fields |-> <<MCField("madeAt", "time", FALSE),
                                                MCField("members", "kids", FALSE)>>]) @@
  ("shape"  :> [kind |-> "tagged", tag |-> "kindOf",
                variants |-> <<MCVariant("circle", "circle"), MCVariant("group", "group")>>]) @@
  ("choice" :> [kind |-> "union",
                variants |-> <<MCVariant("one", "shape"), MCVariant("raw", "bytes")>>]) @@
  ("index"  :> [kind |-> "map", of |-> "choice"]) @@
  ("clash"  :> [kind |-> "object",
                fields |-> <<MCField("madeAt", "int", FALSE),
                             [MCField("made_at", "int", TRUE) EXCEPT !.exact = TRUE]>>]) @@
  ("bad"    :> [kind |-> "faulty"]) @@
  ("unmade" :> [kind |-> "suspend", of |-> "bad"]) @@
  ("blob"   :> [kind |-> "object", fields |-> <<MCField("raw", "bytes", FALSE)>>]) @@
  ("media"  :> [kind |-> "tagged", tag |-> "kindOf", variants |-> <<MCVariant("blob", "blob")>>]) @@
  ("doc"    :> [kind |-> "object",
                fields |-> <<MCField("title", "title", FALSE), MCField("index", "index", FALSE),
                             MCField("count", "maybe", FALSE), MCField("clash", "clash", TRUE),
                             MCField("odd", "unmade", TRUE)>>])

MCNames == {"radius", "kind_of", "kindOf", "madeAt", "made_at", "members",
            "title", "index", "count", "clash", "odd", "raw"}

MCSpell ==
  [s \in {"literal", "snake"} |->
    [n \in MCNames |->
      CASE s = "snake" /\ n = "kindOf" -> "kind_of"
        [] s = "snake" /\ n = "madeAt" -> "made_at"
        [] OTHER -> n]]

MCAsText == ("b1" :> "YjE=") @@ ("i1" :> "2026-01-01T00:00:00Z")
MCKeys == <<"k1", "k2">>

Perhaps(values) == {<<>>} \cup {<<v>> : v \in values}
Lists(values) == {<<>>} \cup {<<v>> : v \in values} \cup (values \X values)
Maps(values) == UNION {[keys -> values] : keys \in SUBSET {"k1", "k2"}}

\* Values of shape, to depth objects within objects.
Circles(radii) == {<< <<r>>, k >> : r \in radii, k \in Perhaps({"t"})}
Groups(members) == {<< <<"i1">>, <<m>> >> : m \in members}
Flat == {<<1, c>> : c \in Circles({"2"})} \cup {<<2, g>> : g \in Groups({<<>>})}
=============================================================================
