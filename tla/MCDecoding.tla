----------------------------- MODULE MCDecoding -----------------------------
(***************************************************************************)
(* Decoding for TLC: whatever JSON up to a few tokens, and longer          *)
(* documents at every point they may be cut, with what may follow them.    *)
(***************************************************************************)
EXTENDS Decoding, MCShapes

Payloads == {Str("radius"), Str("kindOf"), Str("circle"), Num("2"), NullToken}

\* What jsontext reads next where tokens leave off.
Allowed(open) ==
  IF AwaitsName(open) THEN {t \in Payloads : t.t = "string"} \cup {CloseObject}
  ELSE Payloads \cup Opening
       \cup IF open # <<>> /\ Last(open).is = "List" THEN {CloseList} ELSE {}

Streams[n \in Nat] ==
  IF n = 0 THEN {<<>>}
  ELSE UNION {{Append(s, t) : t \in Allowed(StandsIn(s))} : s \in Streams[n - 1]}

Circle == <<OpenObject, Str("radius"), Num("2"), Str("kindOf"), Str("circle"), CloseObject>>

Group ==
  <<OpenObject, Str("members"), OpenList>> \o Circle \o Circle \o <<CloseList, Str("extra"),
    OpenList, OpenObject, CloseObject, NullToken, CloseList, Str("kindOf"), Str("group"),
    Str("madeAt"), Str("2026-01-01T00:00:00Z"), CloseObject>>

Doc ==
  <<OpenObject, Str("count"), NullToken, Str("index"), OpenObject, Str("k1"), OpenObject, Str("one")>>
  \o Circle \o <<CloseObject, CloseObject, Str("extra"), OpenObject, Str("title"), OpenList, CloseList,
    CloseObject, Str("clash"), NullToken, Str("title"), Str("t"), CloseObject>>

Cuts(tokens) == {SubSeq(tokens, 1, n) : n \in 0..Len(tokens)}

\* The documents of a shape: cut, without what has been counted as required, and
\* followed by more.
Written ==
  ({"shape"} \X Cuts(Circle \o Circle)) \cup ({"shape"} \X Cuts(Group \o Group))
  \cup ({"doc"} \X Cuts(Doc \o <<OpenList>>))
  \cup ({"circle"} \X {<<OpenObject, Str("kind_of"), Str("t"), CloseObject>>,
                       <<OpenObject, Str("kind_of"), NullToken, Str("radius"), Num("2"), CloseObject, NullToken>>})

Request(s, tokens, kind, strategy) ==
  [shape |-> s, kind |-> kind, strategy |-> strategy, document |-> tokens]

\* The documents as JSON, and those that are whole as trees.
Given(documents, strategies) ==
  {Request(d[1], d[2], "json", s) : d \in documents, s \in strategies}
  \cup {Request(d[1], Buffer(d[2]).root[1], "dynamic", s) :
          d \in {d \in documents : HasValue(d[2])}, s \in strategies}

Brief == UNION {Streams[n] : n \in 0..4}

MCRequests ==
  Given(Written \cup ({"circle", "shape", "kids", "maybe", "index", "blob", "clash", "unmade"} \X Brief),
        {"literal", "snake"})
=============================================================================
