---------------------------- MODULE MCSafetyScore ----------------------------
(***************************************************************************)
(* What a report records: the observation of its subject and the evidence  *)
(* of its call.  The two have no variable in common, so a behaviour of     *)
(* this instance is one of either.                                         *)
(* Safety: two calls under one key, an action, two subjects.               *)
(* Evidence: two writers, five actions of two Lobbies, a report.           *)
(***************************************************************************)
EXTENDS SafetyScore, CallEvidence, TLC

CONSTANTS c1, c2, w1, k1, s1, s2, record, recalculate, a1, a2, a3, a4, a5, l1, l2

MCKeyOf == (c1 :> k1) @@ (c2 :> k1)
MCOpOf == (c1 :> record) @@ (c2 :> recalculate)
MCSubjectOf == (k1 :> s1)
MCPlans == {<<>>, <<s1, s2>>, <<s2, s1>>}
MCPoints == (k1 :> 70) @@ (w1 :> -30) @@ (Echo :> 40)

MCLobbyOf == (a1 :> l1) @@ (a2 :> l1) @@ (a3 :> l1) @@ (a4 :> l1) @@ (a5 :> l2)

MCInit == \/ Init /\ EvidenceInitWith(Actions)
          \/ InitWith("REFUSED") /\ EvidenceInit

MCNext == \/ Next /\ UNCHANGED evidenceVars
          \/ EvidenceNext /\ UNCHANGED vars

MCSpec == MCInit /\ [][MCNext]_<<vars, evidenceVars>> /\ SafetyFairness
=============================================================================
