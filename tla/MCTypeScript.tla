---------------------------- MODULE MCTypeScript -----------------------------
(***************************************************************************)
(* TypeScriptModule for TLC: shapes that share, contain and refer to each  *)
(* other and themselves, both kinds of union, names that meet, and what is *)
(* refused.                                                                *)
(***************************************************************************)
EXTENDS TypeScriptModule, TLC

MCNoNode == "no node"

Blank == [kind |-> "scalar", name |-> "", tagged |-> FALSE, members |-> <<>>, of |-> MCNoNode]
Of(kind, node) == [Blank EXCEPT !.kind = kind, !.of = node]
Ref(name, node) == [Of("reference", node) EXCEPT !.name = name]
M(name, of) == [name |-> name, of |-> of]
Obj(name, members) == [Blank EXCEPT !.kind = "object", !.name = name, !.members = members]
One(name, members) == [Obj(name, members) EXCEPT !.kind = "union"]
Tagged(name, members) == [One(name, members) EXCEPT !.tagged = TRUE]

MCNode ==
  ("text" :> Blank) @@ ("texts" :> Of("list", "text")) @@
  \* Shared by others, and reached again as a description of its own.
  ("leaf" :> Obj("Leaf", <<M("a", "text"), M("b", "texts")>>)) @@
  ("leafAgain" :> Obj("Leaf", <<M("a", "text"), M("b", "texts")>>)) @@
  ("leaves" :> Of("map", "leaf")) @@ ("mayLeaf" :> Of("nullable", "leafAgain")) @@
  ("holder" :> Obj("holder", <<M("leaves", "leaves"), M("inline", "inline"), M("later", "laterTree")>>)) @@
  ("inline" :> Obj("", <<M("leaf", "mayLeaf"), M("pair", "pair")>>)) @@
  ("pair" :> One("", <<M("x", "leaf"), M("y", "text")>>)) @@
  \* A tree, through a union, and back.
  ("tree" :> Obj("Tree", <<M("kids", "kids"), M("choice", "choice")>>)) @@
  ("kids" :> Of("list", "laterTree")) @@ ("laterTree" :> Ref("", "tree")) @@
  ("choice" :> One("Choice", <<M("one", "leaf"), M("more", "laterTree"), M("again", "laterChoice")>>)) @@
  ("laterChoice" :> Ref("", "choice")) @@
  \* Told apart by a field: a variant holds the union, and after it a shape
  \* the union has had no reason to declare.
  ("shape" :> Tagged("Shape", <<M("circle", "circle"), M("group", "group")>>)) @@
  ("circle" :> Obj("Circle", <<M("at", "point"), M("label", "text")>>)) @@
  ("point" :> Obj("a.point", <<M("x", "text")>>)) @@
  ("group" :> Obj("Group", <<M("members", "shapes"), M("leaf", "leaf")>>)) @@
  ("shapes" :> Of("list", "laterShape")) @@ ("laterShape" :> Ref("", "shape")) @@
  ("area" :> Obj("Area", <<M("shape", "shape"), M("tagged", "kinds")>>)) @@
  ("kinds" :> Tagged("", <<M("circle", "circle"), M("group", "laterGroup")>>)) @@
  ("laterGroup" :> Ref("Group", "group")) @@
  \* By name: of a shape only reached that way, of none, and of another.
  ("byName" :> Obj("ByName", <<M("point", "pointByName"), M("may", "mayCircle")>>)) @@
  ("pointByName" :> Ref("a.point", "point")) @@
  ("mayCircle" :> Of("nullable", "circleByName")) @@ ("circleByName" :> Ref("Circle", "circle")) @@
  ("elsewhere" :> Obj("Elsewhere", <<M("a", "unresolved"), M("b", "alias")>>)) @@
  ("unresolved" :> Ref("Missing", MCNoNode)) @@ ("alias" :> Ref("Alias", "leaf")) @@
  \* Names that are written alike.
  ("row" :> Obj("card_row", <<M("a", "text")>>)) @@
  ("otherRow" :> Obj("CardRow", <<M("a", "text"), M("b", "text")>>)) @@
  ("rowUnion" :> One("card-row", <<M("a", "leaf"), M("b", "laterRow")>>)) @@
  ("laterRow" :> Ref("", "rowUnion")) @@
  ("rows" :> Obj("Rows", <<M("leaf", "leaf"), M("a", "row"), M("b", "otherRow")>>)) @@
  \* A variant whose name another shape has, with the same fields.
  ("ring" :> Tagged("Ring", <<M("circle", "otherCircle")>>)) @@
  ("otherCircle" :> Obj("Circle", <<M("at", "far"), M("label", "text")>>)) @@
  ("far" :> Obj("Far", <<M("a", "text")>>)) @@
  \* What is refused.
  ("untaggable" :> Tagged("Untaggable", <<M("leaf", "leaf"), M("texts", "texts")>>)) @@
  ("untagged" :> Obj("Untagged", <<M("tree", "tree"), M("inner", "unnamedTagged")>>)) @@
  ("unnamedTagged" :> Tagged("", <<M("leaf", "leaf"), M("lost", "unresolved")>>)) @@
  \* A list of itself, which has no name.
  ("list" :> Of("list", "again")) @@ ("again" :> Ref("", "list"))

MCIdentifier ==
  [name \in {"", "Leaf", "Tree", "Choice", "Shape", "Circle", "Group", "Area", "ByName", "Elsewhere", "Far",
             "Missing", "Alias", "CardRow", "Ring", "Rows", "Untaggable", "Untagged"} |-> name] @@
  ("holder" :> "Holder") @@ ("a.point" :> "Point") @@ ("card_row" :> "CardRow") @@ ("card-row" :> "CardRow")

MCAlphabet ==
  <<"", "Alias", "Area", "ByName", "CardRow", "Choice", "Circle", "Elsewhere", "Far", "Group", "Holder", "Leaf",
    "Missing", "Point", "Ring", "Rows", "Shape", "Tree", "Untaggable", "Untagged">>

Shared == {"leaf", "holder", "tree", "choice", "shape", "group", "area", "byName"}

MCJobs ==
  {<<n>> : n \in Shared \cup {"elsewhere", "rows", "untaggable", "untagged", "list", "text"}}
  \cup {<<m, n>> : m \in {"leaf", "group", "row", "choice"}, n \in Shared \cup {"rowUnion", "otherRow"}}
  \cup {<<"rowUnion", "row">>, <<"holder", "list">>, <<"byName", "tree", "area">>,
        <<"circle", "ring">>, <<"ring", "circle">>}

----------------------------------------------------------------------------
Children(n) ==
  IF Node[n].kind \in Named THEN Range(Parts(n)) ELSE {Node[n].of} \ {NoNode}
RECURSIVE Beyond(_, _, _)
Beyond(seen, new, through) ==
  IF new = {} THEN seen
  ELSE Beyond(seen \cup new,
              UNION {Children(n) : n \in new \cap through} \ (seen \cup new), through)
Reach == Beyond({}, Range(job), Nodes)
NameLess == {n \in Nodes : Node[n].name = ""}
Endless == {n \in NameLess : n \in Beyond({}, Children(n), NameLess)}

\* A projection ends, in a module or an error, but for a shape that contains
\* itself without any name on the way (collect).
ModuleEnds == <>(Done \/ ~Running \/ Reach \cap Endless # {})

\* The module says what every shape asked for is, in the shape's name: "Two
\* different shapes with one name are refused, because one of them would
\* silently be lost" (Module).
NoShapeIsLost ==
  Done => \A n \in {m \in Reach : HasName(m)} :
            /\ Known(NameOf(n))
            /\ LET kept == Node[components[NameOf(n)]]
               IN  Node[n] = [kept EXCEPT !.name = Node[n].name]
=============================================================================
