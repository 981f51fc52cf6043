------------------------------ MODULE MCDerive -------------------------------
(***************************************************************************)
(* Derive for TLC: an order with lines, what an order holds in every way   *)
(* an entity can be held, values that are recursive and entities that are, *)
(* each derived in its four roles; and what a derivation promises of them. *)
(***************************************************************************)
EXTENDS Derive, SequencesExt

MCNoNode == "no node"

Blank == [kind |-> "scalar", name |-> "", members |-> <<>>, of |-> MCNoNode]
Of(kind, node) == [Blank EXCEPT !.kind = kind, !.of = node]
Obj(name, members) == [Blank EXCEPT !.kind = "object", !.name = name, !.members = members]
M(name, of) == [name |-> name, optional |-> FALSE, computed |-> FALSE, identity |-> FALSE, of |-> of]
Maybe(field) == [field EXCEPT !.optional = TRUE]
Computed(field) == [field EXCEPT !.computed = TRUE]
Id(field) == [field EXCEPT !.identity = TRUE]

MCNode ==
  ("text" :> Blank) @@ ("texts" :> Of("list", "text")) @@
  ("choice" :> [Blank EXCEPT !.kind = "union"]) @@
  \* A value inside an entity, and an entity inside an entity inside one.
  ("place" :> Obj("Place", <<M("street", "text"), Computed(M("hash", "text"))>>)) @@
  ("tag" :> Obj("Tag", <<Id(M("label", "text")), Maybe(M("colour", "choice"))>>)) @@
  ("line" :> Obj("Line", <<Computed(Id(M("number", "text"))), M("item", "place"), M("tag", "tag"),
                           Computed(M("total", "text"))>>)) @@
  ("lines" :> Of("list", "line")) @@ ("mayLine" :> Of("nullable", "laterLine")) @@
  ("laterLine" :> Of("reference", "line")) @@ ("lineMap" :> Of("map", "line")) @@
  ("order" :> Obj("Order", <<Id(M("id", "text")), M("place", "place"), Maybe(M("lines", "lines")),
                             M("first", "mayLine"), Maybe(M("notes", "texts"))>>)) @@
  ("byItem" :> Obj("ByItem", <<Computed(Id(M("id", "text"))), M("lines", "lineMap"),
                               M("named", "laterLine")>>)) @@
  \* Nothing is left of some of these, in some roles.
  ("key" :> Obj("Key", <<Id(M("id", "text"))>>)) @@ ("keys" :> Of("list", "key")) @@
  ("stamp" :> Obj("Stamp", <<Computed(Id(M("id", "text"))), Computed(M("at", "text"))>>)) @@
  ("keyed" :> Obj("Keyed", <<M("name", "text"), M("key", "keys")>>)) @@
  ("stamped" :> Obj("Stamped", <<M("lines", "lines"), M("stamp", "stamp")>>)) @@
  ("onlyLines" :> Obj("OnlyLines", <<M("lines", "lines")>>)) @@
  \* A value that holds itself, and an entity that does.
  ("tree" :> Obj("Tree", <<M("label", "text"), M("kids", "kids"), M("line", "line")>>)) @@
  ("kids" :> Of("list", "laterTree")) @@ ("laterTree" :> Of("reference", "tree")) @@
  ("film" :> Obj("Film", <<Id(M("id", "text")), M("title", "text"), M("sequel", "maySequel")>>)) @@
  ("maySequel" :> Of("nullable", "laterFilm")) @@ ("laterFilm" :> Of("reference", "film")) @@
  \* An entity in two wrappers, or behind a reference to one.
  ("mayLines" :> Of("list", "mayLine")) @@ ("laterLines" :> Of("reference", "lines")) @@
  ("page" :> Obj("Page", <<M("title", "text"), M("lines", "mayLines")>>)) @@
  ("book" :> Obj("Book", <<M("title", "text"), M("lines", "laterLines")>>)) @@
  ("nowhere" :> Of("reference", MCNoNode)) @@ ("laterNowhere" :> Of("reference", "nowhere"))

MCRoots == {"order", "byItem", "key", "keyed", "stamped", "onlyLines", "tree", "film", "page", "book",
            "line", "laterLine", "lines", "text", "choice", "nowhere", "laterNowhere"}

MCJobs == [root : MCRoots, policy : Policies]

----------------------------------------------------------------------------
(* What is promised *)

\* The entity a field carries, through whatever wraps or names it.
Thing[n \in Nodes] ==
  CASE Node[n].kind \in Wrappers -> Thing[Node[n].of]
    [] Node[n].kind = "reference" /\ Node[n].of # NoNode -> Thing[Node[n].of]
    [] Node[n].kind = "object" /\ IsEntity(n) -> n
    [] OTHER -> NoNode

\* "Every field except the computed ones", and the identity where it selects
\* what is changed; "nested entities are left out" or reached into.
Supplied(n) ==
  SelectSeq(Node[n].members,
            LAMBDA m : /\ ~m.computed
                       /\ m.identity => job.policy.keepIdentity
                       /\ Thing[m.of] # NoNode => job.policy.reach)

RECURSIVE Promise(_), Filled(_)
Promise(n) ==
  Object(Node[n].name, [i \in DOMAIN Supplied(n) |->
                          [name     |-> Supplied(n)[i].name,
                           optional |-> Supplied(n)[i].optional \/ job.policy.partial,
                           of       |-> Filled(Supplied(n)[i].of)]])
Filled(n) ==
  CASE Thing[n] = NoNode            -> AsItWas(n)
    [] Node[n].kind \in Wrappers    -> [as |-> Node[n].kind, of |-> Filled(Node[n].of)]
    [] Node[n].kind = "reference"   -> Filled(Node[n].of)
    [] OTHER                        -> Promise(n)

\* The objects a derivation is made of: its own, and the entities it reaches.
Inside(n) == {Thing[m.of] : m \in Range(Supplied(n))} \ {NoNode}
RECURSIVE Reached(_, _)
Reached(seen, new) ==
  IF new = {} THEN seen ELSE Reached(seen \cup new, UNION {Inside(n) : n \in new} \ (seen \cup new))
Made == Reached({}, {ObjectAt[job.root]} \ {NoNode})

\* An entity that the code finds, in at most one wrapper.
HeldPlainly(n) ==
  /\ Behind[n] = Thing[n]
  /\ Node[n].kind \in Wrappers => Node[Node[n].of].kind \notin Wrappers
Entities(n) == {m \in Range(Node[n].members) : Thing[m.of] # NoNode}
Plain == \A n \in Made : \A m \in Entities(n) : HeldPlainly(m.of)

\* What is derived holds what the caller supplies and nothing else, at every
\* level: no computed field, an identity only where it is the caller's to give,
\* entities wrapped as they were, and on a change every field optional.  A
\* derivation is refused when, and only when, some object it is made of would
\* hold nothing, however deep and whatever its holder still has.
DerivedAsPromised ==
  /\ result # <<>> /\ Plain =>
       result = <<Promise(ObjectAt[job.root])>> /\ \A n \in Made : Supplied(n) # <<>>
  /\ failure = <<"ErrNothingLeft">> => \E n \in Made : Supplied(n) = <<>>
  /\ failure \in {<<"ErrUnresolved">>, <<"ErrNotAnObject">>} <=> Made = {} /\ Ended

\* A derivation ends with a shape or an error, a recursive value included, and
\* only an entity that holds itself has no end when entities are reached into.
HoldsItself == \E n \in Made : n \in Reached({}, Inside(n))
DerivationEnds == <>(result # <<>> \/ failure # <<>> \/ HoldsItself)

\* "The wrapper survives because it says how many there are and whether there
\* is one, which a derivation has no business changing" (deriveWithin).
RECURSIVE HeldIn(_), WrappedIn(_)
HeldIn(n) ==
  IF Node[n].kind \in Wrappers THEN <<Node[n].kind>> \o HeldIn(Node[n].of) ELSE <<>>
WrappedIn(derived) ==
  IF derived.as \in Wrappers THEN <<derived.as>> \o WrappedIn(derived.of) ELSE <<>>

WrappersSurvive ==
  \A i \in DOMAIN result : \A j \in DOMAIN result[i].fields :
    \E m \in Range(Node[ObjectAt[job.root]].members) :
      /\ m.name = result[i].fields[j].name
      /\ result[i].fields[j].of.as # "node" => WrappedIn(result[i].fields[j].of) = HeldIn(m.of)
=============================================================================
