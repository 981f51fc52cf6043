---------------------------- MODULE MCProtoProject ---------------------------
(***************************************************************************)
(* ProtoProject for TLC: shapes that share, contain and refer to each      *)
(* other and themselves, each thing the projection refuses, and files of   *)
(* one root and of two procedures.                                         *)
(***************************************************************************)
EXTENDS ProtoProject, FiniteSets, TLC, SequencesExt

MCNoNode == "no node"

Blank == [kind |-> "scalar", name |-> "", tagged |-> FALSE, members |-> <<>>, of |-> MCNoNode,
          textual |-> TRUE, scalar |-> [kind |-> "Text", precision |-> "none"]]
Scalar(kind, precision) == [Blank EXCEPT !.scalar = [kind |-> kind, precision |-> precision]]
Of(kind, node) == [Blank EXCEPT !.kind = kind, !.of = node]
Ref(name, node) == [Of("reference", node) EXCEPT !.name = name]
M(name, number, of) == [name |-> name, number |-> number, optional |-> FALSE, of |-> of]
Maybe(name, number, of) == [M(name, number, of) EXCEPT !.optional = TRUE]
Obj(name, members) == [Blank EXCEPT !.kind = "object", !.name = name, !.members = members]
One(name, members) == [Obj(name, members) EXCEPT !.kind = "union"]

MCNode ==
  ("text" :> Scalar("Text", "none")) @@ ("time" :> Scalar("Timestamp", "none")) @@
  ("flag" :> Scalar("Boolean", "none")) @@ ("blob" :> Scalar("Bytes", "none")) @@
  ("single" :> Scalar("Number", "float32")) @@ ("double" :> Scalar("Number", "none")) @@
  [p \in {"none", "int", "int8", "int32", "int64", "uint", "uint16", "uint32", "uint64"} |->
     Scalar("Integer", p)] @@
  ("texts" :> Of("list", "text")) @@ ("numbered" :> Of("map", "int32")) @@
  ("mayTime" :> Of("nullable", "time")) @@ ("mayTexts" :> Of("nullable", "texts")) @@
  \* Shared by others, and shared again.
  ("leaf" :> Obj("Leaf", <<M("a", 1, "text"), Maybe("b", 2, "int8")>>)) @@
  ("leaves" :> Of("list", "leaf")) @@ ("mayLeaf" :> Of("nullable", "leaf")) @@
  ("stamped" :> Obj("Stamped", <<M("at", 1, "mayTime"), M("leaf", 2, "leaf")>>)) @@
  ("widths" :> Obj("Widths", <<M("a", 1, "none"), M("b", 2, "int"), M("c", 3, "int64"), M("d", 4, "uint"),
                               M("e", 5, "uint16"), M("f", 6, "uint32"), M("g", 7, "uint64"),
                               M("h", 8, "int32"), M("i", 9, "flag"), M("j", 10, "blob"),
                               M("k", 11, "single"), M("l", 12, "double")>>)) @@
  \* A tree, through a union, and back by name.
  ("tree" :> Obj("Tree", <<M("kids", 1, "kids"), M("leaf", 2, "leaf"), Maybe("choice", 3, "choice")>>)) @@
  ("kids" :> Of("list", "backToTree")) @@ ("backToTree" :> Ref("Tree", "tree")) @@
  ("choice" :> One("Choice", <<M("one", 1, "leaf"), M("more", 2, "backToTree"), M("at", 3, "mayTime")>>)) @@
  ("many" :> Obj("Many", <<Maybe("leaves", 1, "leaves"), M("numbered", 2, "numbered"),
                           M("texts", 3, "mayTexts"), M("byName", 4, "stampedMap")>>)) @@
  ("stampedMap" :> Of("map", "stamped")) @@
  ("aliased" :> Obj("Aliased", <<M("a", 1, "alias"), M("b", 2, "mayLeaf")>>)) @@
  ("alias" :> Ref("Other", "leaf")) @@
  \* What is refused.
  ("unnamed" :> Obj("", <<M("a", 1, "text")>>)) @@
  ("holder" :> Obj("Holder", <<M("leaf", 1, "leaf"), M("inner", 2, "unnamed")>>)) @@
  ("unnumbered" :> Obj("Unnumbered", <<M("leaf", 1, "stamped"), M("b", 0, "leaf")>>)) @@
  ("tagged" :> [One("Tagged", <<M("a", 1, "leaf")>>) EXCEPT !.tagged = TRUE]) @@
  ("holdsTagged" :> Obj("HoldsTagged", <<M("a", 1, "leaf"), M("b", 2, "tagged")>>)) @@
  ("grid" :> Of("list", "mayTexts")) @@ ("nested" :> Obj("Nested", <<M("rows", 1, "grid")>>)) @@
  ("mapped" :> Of("map", "texts")) @@ ("mapOfLists" :> Obj("MapOfLists", <<M("rows", 1, "mapped")>>)) @@
  ("repeats" :> One("Repeats", <<M("a", 1, "leaf"), M("many", 2, "leaves")>>)) @@
  ("byInteger" :> [Of("map", "text") EXCEPT !.textual = FALSE]) @@
  ("keyed" :> Obj("Keyed", <<M("a", 1, "byInteger")>>)) @@
  ("elsewhere" :> Ref("Elsewhere", MCNoNode)) @@ ("lost" :> Obj("Lost", <<M("a", 1, "elsewhere")>>)) @@
  ("toText" :> Ref("Text", "text")) @@ ("named" :> Obj("Named", <<M("a", 1, "toText")>>)) @@
  \* Recursive by Suspend alone.
  ("suspended" :> Ref("", "list")) @@ ("suspendedList" :> Of("list", "suspended")) @@
  ("list" :> Obj("List", <<M("next", 1, "suspendedList")>>))

Sound == {"leaf", "stamped", "widths", "tree", "backToTree", "choice", "many", "aliased", "alias"}
Refused == {"text", "texts", "unnamed", "holder", "unnumbered", "tagged", "holdsTagged", "nested",
            "mapOfLists", "repeats", "keyed", "elsewhere", "lost", "named"}

ProjectOf(node) == <<[service |-> NoService, asks |-> <<node>>]>>
Procedure(service, request, response) == [service |-> service, asks |-> <<request, response>>]
Services(requests, responses) ==
  {<<Procedure("S", q1, r1), Procedure(s, q2, r2)>> :
     s \in {"S", "T"}, q1 \in requests, r1 \in responses, q2 \in requests, r2 \in responses}

MCJobs ==
  {ProjectOf(n) : n \in Sound \cup Refused}
  \cup Services({"choice", "many"}, {"stamped", "tree"})
  \cup {<<Procedure("S", "tree", "leaf"), Procedure("T", n, "leaf"), Procedure("S", "leaf", "tree")>> :
          n \in Sound \cup Refused}

----------------------------------------------------------------------------
\* What can be reached from a node.
Next1(n) == {Node[n].members[i].of : i \in DOMAIN Node[n].members} \cup ({Node[n].of} \ {NoNode})
RECURSIVE ReachedFrom(_, _)
ReachedFrom(seen, new) ==
  IF new = {} THEN seen
  ELSE ReachedFrom(seen \cup new, UNION {Next1(n) : n \in new} \ (seen \cup new))

Roots == UNION {Range(job[i].asks) : i \in DOMAIN job}

\* Every named shape reachable from what was asked for becomes a message, and
\* nothing else does (Document.Messages).
MessagesAreTheShapesReached ==
  LET reached == {n \in ReachedFrom({}, Roots) : Node[n].kind \in Named}
  IN  /\ \A n \in reached : \E i \in DOMAIN messages : Describes(messages[i], n)
      /\ \A i \in DOMAIN messages : messages[i].node \in reached

\* A projection ends with an error or with the messages of what it was asked for,
\* for every description in which only references close a cycle.
EndsWithItsShapes == <>((Succeeded /\ MessagesAreTheShapesReached) \/ ~Running)
=============================================================================
