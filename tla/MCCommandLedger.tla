-------------------------- MODULE MCCommandLedger --------------------------
(* CommandLedger with the constants of its cfg.  Its run also checks liveness, so *)
(* bots are not taken as symmetric.                                             *)
EXTENDS CommandLedger
=============================================================================
