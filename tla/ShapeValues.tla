----------------------------- MODULE ShapeValues -----------------------------
(***************************************************************************)
(* The Go values a set of encodings holds, of each shape: what Encoder's   *)
(* constant Values is for the encodings TLC makes.                         *)
(***************************************************************************)
EXTENDS Naturals, Sequences

\* Every shape inside a value of shape s, with its value.
RECURSIVE Holding(_, _, _)
Holding(shapes, s, v) ==
  LET shape == shapes[s]
      inside ==
        CASE shape.kind = "object" ->
               {<<shape.fields[i].of, v[i][1]>> : i \in {j \in DOMAIN v : v[j] # <<>>}}
          [] shape.kind \in {"union", "tagged"} ->
               IF v[1] = 0 THEN {} ELSE {<<shape.variants[v[1]].of, v[2]>>}
          [] shape.kind \in {"list", "map"}        -> {<<shape.of, v[i]>> : i \in DOMAIN v}
          [] shape.kind = "nullable"              -> IF v = <<>> THEN {} ELSE {<<shape.of, v[1]>>}
          [] shape.kind \in {"refined", "suspend"} -> {<<shape.of, v>>}
          [] OTHER                                -> {}
  IN  {<<s, v>>} \cup UNION {Holding(shapes, p[1], p[2]) : p \in inside}

ValuesIn(shapes, inputs) ==
  LET held == UNION {Holding(shapes, p[1], p[2]) : p \in {<<i.shape, i.value>> : i \in inputs}}
  IN  [s \in DOMAIN shapes |-> {p[2] : p \in {q \in held : q[1] = s}}]
=============================================================================
