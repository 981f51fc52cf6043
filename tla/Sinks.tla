-------------------------------- MODULE Sinks --------------------------------
(***************************************************************************)
(* The sinks a schema writes to: jsonSink over jsontext.Encoder            *)
(* (json_encode.go) and dynamicSink (dynamic_bridge.go).  A call is a      *)
(* record [op, v].  The program's sinks validate nothing, so a call out of *)
(* order is "misplaced": dynamicSink panics or keeps a value under a stale *)
(* name, and jsontext.Encoder refuses it.  The encoder also refuses a      *)
(* second member of one name, a "duplicate".                               *)
(***************************************************************************)
EXTENDS Documents

Call(op, v) == [op |-> op, v |-> v]
ScalarCalls == {"Text", "Integer", "Number", "Bytes", "Timestamp"}

JsonSink == [kind |-> "json", out |-> <<>>, open |-> <<>>, err |-> "none"]
DynamicSink == [kind |-> "dynamic", build |-> NothingBuilt, err |-> "none"]

JsonToken(call) ==
  CASE call.op \in {"Text", "FieldName"}     -> Str(call.v)
    [] call.op \in {"Bytes", "Timestamp"}    -> Str(AsText[call.v])
    [] call.op \in {"Integer", "Number"}     -> Num(call.v)
    [] call.op = "Null"                      -> NullToken
    [] call.op = "BeginObject"               -> OpenObject
    [] call.op = "EndObject"                 -> CloseObject
    [] call.op = "BeginList"                 -> OpenList
    [] call.op = "EndList"                   -> CloseList

\* A container jsontext.Encoder has open: its names so far, whether the value
\* of the last of them is awaited, and how many values it holds.
Opened(is) == [is |-> is, names |-> <<>>, pending |-> FALSE, count |-> 0]

WriteToken(json, token) ==
  LET open == json.open
      top == Last(open)
      atName == open # <<>> /\ top.is = "Object" /\ ~top.pending
      misplaced ==
        CASE token = CloseObject -> ~atName
          [] token = CloseList   -> open = <<>> \/ top.is # "List"
          [] OTHER               -> atName /\ token.t # "string"
      duplicate == atName /\ token.t = "string" /\ Contains(top.names, token.v)
      \* A whole value went into the innermost of these containers.
      filled(outer) ==
        IF outer = <<>> THEN outer
        ELSE [outer EXCEPT ![Len(outer)].pending = FALSE, ![Len(outer)].count = @ + 1]
      after ==
        IF token \in Closing THEN filled(Front(open))
        ELSE IF atName THEN [open EXCEPT ![Len(open)].pending = TRUE,
                                         ![Len(open)].names = Append(@, token.v)]
        ELSE CASE token = OpenObject -> Append(open, Opened("Object"))
               [] token = OpenList   -> Append(open, Opened("List"))
               [] OTHER              -> filled(open)
  IN  CASE misplaced -> [json EXCEPT !.err = "misplaced"]
        [] duplicate -> [json EXCEPT !.err = "duplicate"]
        [] OTHER     -> [json EXCEPT !.out = Append(@, token), !.open = after]

ScalarTree(call) ==
  CASE call.op = "Text"      -> Text(call.v)
    [] call.op = "Integer"   -> Integer(call.v)
    [] call.op = "Number"    -> Number(call.v)
    [] call.op = "Bytes"     -> Bytes(call.v)
    [] call.op = "Timestamp" -> Timestamp(call.v)
    [] call.op = "Null"      -> Absent

DynamicCall(dynamic, call) ==
  LET build == dynamic.build
      inside(is) == build.stack # <<>> /\ Last(build.stack).is = is
      misplaced == \/ call.op = "FieldName" /\ build.stack = <<>>
                   \/ call.op = "EndObject" /\ ~inside("Object")
                   \/ call.op = "EndList" /\ ~inside("List")
      after == CASE call.op = "BeginObject"           -> Begin(build, "Object")
                 [] call.op = "BeginList"             -> Begin(build, "List")
                 [] call.op = "FieldName"             -> Name(build, call.v)
                 [] call.op \in {"EndObject", "EndList"} -> End(build)
                 [] OTHER                             -> Put(build, ScalarTree(call))
  IN  IF misplaced THEN [dynamic EXCEPT !.err = "misplaced"] ELSE [dynamic EXCEPT !.build = after]

SinkCall(into, call) ==
  IF into.err # "none" THEN into
  ELSE IF into.kind = "json" THEN WriteToken(into, JsonToken(call))
  ELSE DynamicCall(into, call)

\* What tagSink writes first into an object that has begun.
SinkTag(into, name, value) == SinkCall(SinkCall(into, Call("FieldName", name)), Call("Text", value))

\* The containers a sink has open, outermost first, and the members of one.
OpenIn(into) == IF into.kind = "json" THEN into.open ELSE into.build.stack

NamesIn(into, k) ==
  IF into.kind = "json" THEN into.open[k].names
  ELSE [i \in DOMAIN into.build.stack[k].parts |-> into.build.stack[k].parts[i].name]
=============================================================================
