------------------------------ MODULE Published ------------------------------
(***************************************************************************)
(* What projecting objects promises (the comments of Omit, Rename,         *)
(* Describe and Represent in schema/object_projection.go, and of Field in  *)
(* schema/object_fields.go).  A schema publishes members of its type, each *)
(* of them known by its handle's key whatever it is called, and no two     *)
(* under one name.  A projection is a new schema that differs in what it   *)
(* says of the members it was given, and in nothing else.  What is refused *)
(* is closed: it publishes nothing, and nothing can be made of it.         *)
(***************************************************************************)
EXTENDS Naturals, Sequences

CONSTANTS
  Keys,       \* what identifies a member
  NewNames,   \* what a member may be called
  NewDocs,    \* what may be said about it
  Limit       \* how many schemas a program declares, before it projects any

VARIABLE published  \* the schemas: [open, members], members a function of keys

Closed == [open |-> FALSE, members |-> <<>>]
Open(members) == [open |-> TRUE, members |-> members]

NamesDiffer(members) ==
  \A k, l \in DOMAIN members : members[k].name = members[l].name => k = l

Init == published = <<>>

\* A step makes one schema and leaves those there are.
Made == published'[Len(published) + 1]
OneMore ==
  /\ Len(published') = Len(published) + 1
  /\ \A i \in DOMAIN published : published'[i] = published[i]

Close == OneMore /\ Made = Closed

Declare ==
  /\ OneMore
  /\ Len(published) < Limit
  /\ Made = Open(Made.members)
  /\ DOMAIN Made.members \subseteq Keys
  /\ NamesDiffer(Made.members)

Omit(i, K) ==
  /\ OneMore
  /\ published[i].open /\ K \subseteq DOMAIN published[i].members
  /\ Made = Open([k \in DOMAIN published[i].members \ K |-> published[i].members[k]])

\* Schema i with member k as changed.
Change(i, k, changed) ==
  /\ OneMore
  /\ published[i].open
  /\ Made = Open([published[i].members EXCEPT ![k] = changed])
  /\ NamesDiffer(Made.members)

Renamed(member, name) ==
  [name |-> name, exact |-> TRUE, doc |-> member.doc, form |-> member.form]

Rename(i, k, name) == Change(i, k, Renamed(published[i].members[k], name))

Describe(i, k, doc) == Change(i, k, [published[i].members[k] EXCEPT !.doc = doc])

Represent(i, k) ==
  /\ k \in DOMAIN Made.members
  /\ Change(i, k, [published[i].members[k] EXCEPT !.form = Made.members[k].form])

Next ==
  \/ Close
  \/ Declare
  \/ \E i \in DOMAIN published :
       \/ \E K \in SUBSET Keys : Omit(i, K)
       \/ \E k \in DOMAIN published[i].members :
            \/ \E name \in NewNames : Rename(i, k, name)
            \/ \E doc \in NewDocs : Describe(i, k, doc)
            \/ Represent(i, k)

Spec == Init /\ [][Next]_published
=============================================================================
