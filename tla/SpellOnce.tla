------------------------------ MODULE SpellOnce ------------------------------
(***************************************************************************)
(* What an object schema promises every goroutine that uses it: its fields *)
(* are spelled once per naming strategy, and every encoder and decoder     *)
(* that asks for a strategy is given that one spelling, whatever else is   *)
(* going on at the same time.                                              *)
(*                                                                         *)
(* This is the specification the lock-free cache of object_naming.go has   *)
(* to implement; MemberNames is that cache.                                *)
(***************************************************************************)
CONSTANTS
  Goroutines,   \* the callers: each encodes or decodes one value at a time
  Strategies,   \* the naming strategies in use, Literal among them
  Literal,      \* the strategy that spells a name as it was declared
  Names,        \* strategy names, which is what two uses are compared by
  NameOf,       \* the name of each strategy
  Serials,      \* serial numbers of allocations
  None          \* no strategy asked for, no spelling made

(***************************************************************************)
(* A spelling is an allocation, so it has an identity beside its content:  *)
(* the strategy it was spelled by and the serial number of the allocation. *)
(* The literal one is made with the schema, before anything else.          *)
(***************************************************************************)
Spelling == [of : Strategies, serial : Serials]
NoSpelling == [of |-> None, serial |-> 0]
LiteralSpelling == [of |-> Literal, serial |-> 0]

VARIABLES
  memo,     \* memo[n]: the one spelling of the strategy named n, once there is one
  want,     \* want[g]: the strategy goroutine g is waiting for, or None
  answer    \* answer[g]: the spelling g was last given

vars == <<memo, want, answer>>

Init ==
  /\ memo = [n \in Names |-> NoSpelling]
  /\ want = [g \in Goroutines |-> None]
  /\ answer = [g \in Goroutines |-> NoSpelling]

Ask(g) ==
  /\ want[g] = None
  /\ \E s \in Strategies : want' = [want EXCEPT ![g] = s]
  /\ UNCHANGED <<memo, answer>>

ReplyLiteral(g) ==
  /\ want[g] = Literal
  /\ answer' = [answer EXCEPT ![g] = LiteralSpelling]
  /\ want' = [want EXCEPT ![g] = None]
  /\ UNCHANGED memo

ReplyKnown(g) ==
  /\ want[g] \in Strategies \ {Literal}
  /\ memo[NameOf[want[g]]] # NoSpelling
  /\ answer' = [answer EXCEPT ![g] = memo[NameOf[want[g]]]]
  /\ want' = [want EXCEPT ![g] = None]
  /\ UNCHANGED memo

ReplyFirst(g) ==
  /\ want[g] \in Strategies \ {Literal}
  /\ memo[NameOf[want[g]]] = NoSpelling
  /\ \E spelling \in Spelling :
       /\ spelling.of = want[g]
       /\ memo' = [memo EXCEPT ![NameOf[want[g]]] = spelling]
       /\ answer' = [answer EXCEPT ![g] = spelling]
  /\ want' = [want EXCEPT ![g] = None]

Next ==
  \E g \in Goroutines :
    Ask(g) \/ ReplyLiteral(g) \/ ReplyKnown(g) \/ ReplyFirst(g)

Spec == Init /\ [][Next]_vars
=============================================================================
