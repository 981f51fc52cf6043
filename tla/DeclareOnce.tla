---------------------------- MODULE DeclareOnce ------------------------------
(***************************************************************************)
(* What a projection promises of the names it gives to shapes, whatever    *)
(* format it writes: a name is opened when its shape is first reached and  *)
(* closed when the shape has been written, once, and it is never opened    *)
(* again.  A name met while it is open or closed is only referred to.      *)
(***************************************************************************)
CONSTANT Names

VARIABLES open, closed

Init == open = {} /\ closed = {}

Open(name) ==
  /\ name \notin open \cup closed
  /\ open' = open \cup {name}
  /\ UNCHANGED closed

Close(name) ==
  /\ name \in open
  /\ open' = open \ {name}
  /\ closed' = closed \cup {name}

Next == \E name \in Names : Open(name) \/ Close(name)

Spec == Init /\ [][Next]_<<open, closed>>
=============================================================================
