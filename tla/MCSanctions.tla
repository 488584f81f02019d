----------------------------- MODULE MCSanctions -----------------------------
(* One user, a restriction, two infractions, an appeal and a report. *)
EXTENDS Sanctions

MCCharges == {<<"PRODUCT", "WARNING">>, <<"PRODUCT", "BAN">>, <<"PLATFORM", "BAN">>}
MCKinds == {<<"PRODUCT", "BAN">>, <<"PRODUCT", "BLACKLIST">>, <<"PLATFORM", "BLACKLIST">>}
MCAbout == [r \in Reports |-> CHOOSE u \in Users : TRUE]
MCFiled == [r \in Reports |-> "LOBBY"]
=============================================================================
