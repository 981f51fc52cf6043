------------------------------ MODULE Documents ------------------------------
(***************************************************************************)
(* The two forms a value takes outside a Go program: JSON tokens, as       *)
(* jsontext reads and writes them, and the universal representation of     *)
(* schema/dynamic, a tree.  Payloads are opaque; what a conversion does to *)
(* one is given by the constants.                                          *)
(***************************************************************************)
EXTENDS Naturals, Sequences, SequencesExt

CONSTANTS
  AsText,     \* the text JSON carries a byte string or an instant as
  Instants,   \* which of the two are instants
  Utf8,       \* the byte strings that are UTF-8, as the text they spell
  Whole,      \* the numbers that are whole
  NotFinite   \* the numbers JSON cannot write

ASSUME TextAssumption ==
  \A v, w \in DOMAIN AsText : AsText[v] = AsText[w] => v = w

----------------------------------------------------------------------------
(* JSON tokens *)
Token(t, v) == [t |-> t, v |-> v]
Str(v) == Token("string", v)
Num(v) == Token("number", v)
NullToken == Token("null", "")
OpenObject == Token("{", "")
CloseObject == Token("}", "")
OpenList == Token("[", "")
CloseList == Token("]", "")

Opening == {OpenObject, OpenList}
Closing == {CloseObject, CloseList}

\* Reading the first value of tokens, token by token (jsontext's SkipValue): n
\* tokens, with open containers yet to be closed.
ReadOn(done, token) ==
  IF done.n > 0 /\ done.open = 0 THEN done
  ELSE [n    |-> done.n + 1,
        open |-> IF token \in Opening THEN done.open + 1
                 ELSE IF token \in Closing THEN done.open - 1 ELSE done.open]

FirstValue(tokens) ==
  LET read[i \in 0..Len(tokens)] ==
        IF i = 0 THEN [n |-> 0, open |-> 0] ELSE ReadOn(read[i - 1], tokens[i])
  IN  read[Len(tokens)]

\* Whether tokens begins with a whole value, and how long it is.
HasValue(tokens) == LET first == FirstValue(tokens) IN first.n > 0 /\ first.open = 0
ValueLength(tokens) == FirstValue(tokens).n

----------------------------------------------------------------------------
(* dynamic.Value *)
Text(v) == [is |-> "Text", text |-> v]
Integer(v) == [is |-> "Integer", integer |-> v]
Number(v) == [is |-> "Number", number |-> v]
Bytes(v) == [is |-> "Bytes", bytes |-> v]
Timestamp(v) == [is |-> "Timestamp", instant |-> v]
Absent == [is |-> "Absent"]
Object(members) == [is |-> "Object", members |-> members]
List(elements) == [is |-> "List", elements |-> elements]

Member(name, value) == [name |-> name, value |-> value]

Carries(object, name) == \E i \in DOMAIN object.members : object.members[i].name = name

\* Object.Member: the first of that name.
MemberOf(object, name) == SelectSeq(object.members, LAMBDA m : m.name = name)[1].value

\* omit in union_tagged.go: the object without its tag.
Omit(object, name) == Object(SelectSeq(object.members, LAMBDA m : m.name # name))

\* dynamic.TextOf and dynamic.TimestampOf: whether a value reads as one, and as
\* which.
IsText(value) ==
  value.is = "Text" \/ (value.is = "Bytes" /\ value.bytes \in DOMAIN Utf8)
TextOf(value) == IF value.is = "Text" THEN value.text ELSE Utf8[value.bytes]

\* Text as a byte string (base64) or as an instant (RFC 3339).
Binaries == DOMAIN AsText \ Instants
Spells(set, v) == \E w \in set : AsText[w] = v
FromText(v) == CHOOSE w \in DOMAIN AsText : AsText[w] = v

IsTimestamp(value) ==
  value.is = "Timestamp" \/ (IsText(value) /\ Spells(Instants, TextOf(value)))
TimestampOf(value) ==
  IF value.is = "Timestamp" THEN value.instant ELSE FromText(TextOf(value))

----------------------------------------------------------------------------
(***************************************************************************)
(* A tree under construction: the containers being filled, outermost       *)
(* first, each with the name its next member goes under, and the root once *)
(* it is known.  It is dynamicSink, whose put leaves the name in place,    *)
(* and what jsonSource.Buffer keeps on the Go stack while it reads.        *)
(***************************************************************************)
Filling(is) == [is |-> is, field |-> "", parts |-> <<>>]
NothingBuilt == [root |-> <<>>, stack |-> <<>>]

\* dynamicSink.put.
Put(build, value) ==
  IF build.stack = <<>>
  THEN [build EXCEPT !.root = <<value>>]
  ELSE LET top == Last(build.stack)
           part == IF top.is = "Object" THEN Member(top.field, value) ELSE value
       IN  [build EXCEPT !.stack[Len(build.stack)].parts = Append(@, part)]

Begin(build, is) == [build EXCEPT !.stack = Append(@, Filling(is))]
Name(build, name) == [build EXCEPT !.stack[Len(build.stack)].field = name]
End(build) ==
  LET top == Last(build.stack)
  IN  Put([build EXCEPT !.stack = Front(@)],
          IF top.is = "Object" THEN Object(top.parts) ELSE List(top.parts))

\* One token of jsonSource.Buffer.  JSON does not say whether a number is an
\* integer, nor whether text is an instant or a byte string: Buffer keeps a
\* number without a fraction as an integer, and text as text.
Buffered(build, token) ==
  LET top == Last(build.stack)
      isName == build.stack # <<>> /\ top.is = "Object" /\ top.field = "" /\ token.t = "string"
      named(b) ==   \* the value after a name is read: a name or '}' is next
        IF b.stack = <<>> THEN b ELSE Name(b, "")
  IN  CASE isName            -> Name(build, token.v)
        [] token.t = "{"     -> Begin(build, "Object")
        [] token.t = "["     -> Begin(build, "List")
        [] token \in Closing -> named(End(build))
        [] token.t = "null"  -> named(Put(build, Absent))
        [] token.t = "number" ->
             named(Put(build, IF token.v \in Whole THEN Integer(token.v) ELSE Number(token.v)))
        [] OTHER             -> named(Put(build, Text(token.v)))

\* jsonSource.Buffer: the first value of tokens, or how far it was read.
Buffer(tokens) == FoldLeft(Buffered, NothingBuilt, SubSeq(tokens, 1, ValueLength(tokens)))

\* Where a value that ends early ends: the member or element awaited in each
\* container it leaves open.
Interrupted(build) ==
  FlattenSeq([k \in DOMAIN build.stack |->
    LET c == build.stack[k]
    IN  IF c.is = "List" THEN <<ToString(Len(c.parts))>>
        ELSE IF c.field = "" THEN <<>> ELSE <<c.field>>])
=============================================================================
