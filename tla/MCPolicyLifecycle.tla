------------------------- MODULE MCPolicyLifecycle -------------------------
(* Bounds for PolicyLifecycle. *)
EXTENDS PolicyLifecycle, TLC

AuthorSymmetry == Permutations(Versions) \cup Permutations(Admins)
=============================================================================
