--------------------------- MODULE MCSchemaProject ---------------------------
(***************************************************************************)
(* SchemaProject for TLC: shapes that share, contain and refer to each     *)
(* other and themselves, with both kinds of union, and what is asked for   *)
(* one after the other.                                                    *)
(***************************************************************************)
EXTENDS SchemaDocuments

MCNoNode == "no node"

Base == [kind |-> "scalar", name |-> "", tag |-> "", members |-> <<>>, of |-> MCNoNode,
          scalar |-> "Text", bounds |-> <<>>]
Scalar(kind) == [Base EXCEPT !.scalar = kind]
Bounded(node, bounds) == [node EXCEPT !.bounds = bounds]
Bound(keyword, limit) == [keyword |-> keyword, limit |-> limit]
Of(kind, node) == [Base EXCEPT !.kind = kind, !.of = node]
Ref(name, node) == [Of("reference", node) EXCEPT !.name = name]
M(name, of) == [name |-> name, optional |-> FALSE, of |-> of]
Maybe(name, of) == [M(name, of) EXCEPT !.optional = TRUE]
Obj(name, members) == [Base EXCEPT !.kind = "object", !.name = name, !.members = members]
One(name, members) == [Obj(name, members) EXCEPT !.kind = "union"]
Tagged(name, tag, members) == [One(name, members) EXCEPT !.tag = tag]

MCNode ==
  ("text" :> Scalar("Text")) @@ ("whole" :> Scalar("Integer")) @@ ("number" :> Scalar("Number")) @@
  ("flag" :> Scalar("Boolean")) @@ ("time" :> Scalar("Timestamp")) @@
  ("count" :> Bounded(Scalar("Integer"), <<Bound("minimum", 1), Bound("exclusiveMaximum", 3)>>)) @@
  ("ratio" :> Bounded(Scalar("Number"), <<Bound("exclusiveMinimum", 0), Bound("maximum", 2)>>)) @@
  ("code" :> Bounded(Scalar("Text"), <<Bound("minLength", 1), Bound("maxLength", 2)>>)) @@
  ("mayText" :> Of("nullable", "text")) @@
  ("counts" :> Bounded(Of("list", "count"), <<Bound("minItems", 1), Bound("maxItems", 1)>>)) @@
  \* Shared by others, and shared again.
  ("leaf" :> Obj("Leaf", <<M("a", "text"), Maybe("b", "count")>>)) @@
  ("mayLeaf" :> Of("nullable", "leaf")) @@ ("leaves" :> Of("map", "mayLeaf")) @@
  ("inline" :> Obj("", <<M("code", "code"), M("ratio", "ratio")>>)) @@
  ("holder" :> Obj("Holder", <<Maybe("leaves", "leaves"), M("b", "inline")>>)) @@
  \* A tree, through a union, and back.
  ("tree" :> Obj("Tree", <<M("kids", "kids"), Maybe("choice", "choice")>>)) @@
  ("kids" :> Of("list", "later")) @@ ("later" :> Ref("", "tree")) @@
  ("choice" :> One("Choice", <<M("one", "flag"), M("more", "later"), M("none", "mayText")>>)) @@
  ("pair" :> One("", <<M("counts", "counts"), M("ratio", "ratio")>>)) @@
  \* Told apart by a field; one variant holds the union again.
  ("shape" :> Tagged("Shape", "kind", <<M("circle", "circle"), M("group", "group")>>)) @@
  ("circle" :> Obj("Circle", <<M("radius", "number"), Maybe("at", "time")>>)) @@
  ("group" :> Obj("Group", <<M("members", "shapes"), Maybe("many", "flag")>>)) @@
  ("shapes" :> Of("list", "laterShape")) @@ ("laterShape" :> Ref("", "shape")) @@
  \* By name, and without one.
  ("named" :> Obj("Named", <<M("a", "leaf"), M("again", "leafByName"), M("later", "laterText")>>)) @@
  ("leafByName" :> Ref("Leaf", "leaf")) @@ ("laterText" :> Ref("", "flag")) @@
  ("nowhere" :> Ref("", MCNoNode)) @@ ("elsewhere" :> Ref("Elsewhere", MCNoNode)) @@
  \* A list of itself, which has no name.
  ("list" :> Of("list", "again")) @@ ("again" :> Ref("", "list")) @@
  ("listed" :> Obj("Listed", <<M("leaf", "leaf"), M("list", "list")>>))

Shared == {"leaf", "holder", "tree", "choice", "pair", "shape", "circle", "named"}

MCJobs ==
  {<<n>> : n \in Shared \cup {"nowhere", "elsewhere", "mayText", "whole", "number"}}
  \cup {<<m, n>> : m \in {"leaf", "named", "choice"}, n \in {"leaf", "choice", "circle", "leaves"}}
  \cup {<<"group", "circle", "shape">>}

MCEndless == {<<"leaf", "list">>, <<"listed">>}
MCAllJobs == MCJobs \cup MCEndless

----------------------------------------------------------------------------
\* The nodes from which a path through no shape with a name leads back.
Children(n) ==
  IF Node[n].kind \in Named THEN {Node[n].members[i].of : i \in DOMAIN Node[n].members}
  ELSE {Node[n].of} \ {NoNode}
RECURSIVE Beyond(_, _, _)
Beyond(seen, new, through) ==
  IF new = {} THEN seen
  ELSE Beyond(seen \cup new,
              UNION {Children(n) : n \in new \cap through} \ (seen \cup new), through)
NameLess == {n \in Nodes : Node[n].name = ""}
Endless == {n \in NameLess : n \in Beyond({}, Children(n), NameLess)}

\* A projection ends in a document, but for a shape that contains itself
\* without any name on the way, which exhausts the stack: an ancestor's name
\* ends every other recursion (object, union).
ProjectionEnds ==
  <>(Done \/ Beyond({}, Range(job), Nodes) \cap Endless # {})
=============================================================================
