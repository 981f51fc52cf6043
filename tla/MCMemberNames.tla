---------------------------- MODULE MCMemberNames ----------------------------
(***************************************************************************)
(* MemberNames for TLC: two goroutines, Literal and two spelling         *)
(* strategies, and an object with an exactly named field that snake_case   *)
(* makes collide with another one, so that one strategy is refused and the *)
(* other is not.                                                           *)
(***************************************************************************)
EXTENDS MemberNames, TLC

MCFields ==
  << [name |-> "syncedAt",  exact |-> FALSE, optional |-> FALSE],
     [name |-> "pageCount", exact |-> FALSE, optional |-> TRUE],
     [name |-> "synced_at", exact |-> TRUE,  optional |-> FALSE] >>

MCMemberName == {"syncedAt", "pageCount", "synced_at", "page_count"}

MCStrategies == {"literal", "camel", "snake"}
MCNameOf == [s \in MCStrategies |-> IF s = "literal" THEN "" ELSE s]

MCSpell ==
  [s \in MCStrategies |->
    [n \in MCMemberName |->
      CASE s = "camel" /\ n = "synced_at"  -> "syncedAt"
        [] s = "camel" /\ n = "page_count" -> "pageCount"
        [] s = "snake" /\ n = "syncedAt"   -> "synced_at"
        [] s = "snake" /\ n = "pageCount"  -> "page_count"
        [] OTHER -> n]]

=============================================================================
