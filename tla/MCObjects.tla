------------------------------ MODULE MCObjects ------------------------------
(***************************************************************************)
(* ObjectDocuments for TLC: a film, as a Struct and as an Object, with a   *)
(* required, an optional and a nested member, the studio nested in it, and *)
(* three declarations that are refused; two copies of one handle.          *)
(***************************************************************************)
EXTENDS ObjectDocuments

Scalar(name) == [name |-> name, schema |-> 0]
MCField(key, name, optional, form, set) ==
  [key |-> key, name |-> name, exact |-> FALSE, doc |-> "", optional |-> optional,
   takesNull |-> optional, form |-> form, settable |-> set, faulty |-> FALSE]
Of(type, of, field) == [type |-> type, of |-> of, set |-> field.settable, field |-> field]

MCHandle ==
  ("label" :> Of("studio", "text", MCField("label", "tradeName", FALSE, Scalar("text"), TRUE))) @@
  ("title" :> Of("film", "text", MCField("title", "title", FALSE, Scalar("text"), TRUE))) @@
  ("copy" :> Of("film", "text", MCField("title", "title", FALSE, Scalar("text"), TRUE))) @@
  ("seen" :> Of("film", "time", MCField("seen", "seenAt", TRUE, Scalar("time"), TRUE))) @@
  ("by" :> Of("film", "studio", MCField("by", "madeBy", FALSE, [name |-> "object", schema |-> 1], TRUE))) @@
  ("rank" :> Of("film", "number", MCField("rank", "rank", FALSE, Scalar("number"), FALSE)))

MCDeclared(type, handles, constructed, reads) ==
  [type |-> type, handles |-> handles, constructed |-> constructed, reads |-> reads]

MCProgram ==
  << MCDeclared("studio", <<"label">>, TRUE, {"label"}),
     MCDeclared("film", <<"by", "title", "seen">>, FALSE, {}),
     MCDeclared("film", <<"title", "seen", "by">>, TRUE, {"title", "seen"}),
     MCDeclared("film", <<"title", "by", "copy">>, TRUE, {}),
     MCDeclared("film", <<"title", "rank">>, FALSE, {}),
     MCDeclared("film", <<"title">>, TRUE, {"title", "seen"}) >>

MCStrategies == {"literal", "snake", "camel"}
MCNames == {"", "title", "seenAt", "seen_at", "madeBy", "made_by", "tradeName", "trade_name", "rank"}
MCSpell ==
  [s \in MCStrategies |-> [n \in MCNames |->
     CASE s = "snake" /\ n = "seenAt"     -> "seen_at"
       [] s = "snake" /\ n = "madeBy"     -> "made_by"
       [] s = "snake" /\ n = "tradeName"  -> "trade_name"
       [] s = "camel" /\ n = "seen_at"    -> "seenAt"
       [] s = "camel" /\ n = "made_by"    -> "madeBy"
       [] s = "camel" /\ n = "trade_name" -> "tradeName"
       [] OTHER -> n]]

MCForms == {Scalar("url")}

MCStudios == {("label" :> <<"l">>)}
MCValue ==
  ("studio" :> MCStudios) @@
  ("film" :> {("title" :> <<"t">>) @@ ("seen" :> seen) @@ ("by" :> <<studio>>) @@ ("rank" :> <<"r">>) :
                seen \in {<<>>, <<"s">>}, studio \in MCStudios})
=============================================================================
