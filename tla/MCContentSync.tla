--------------------------- MODULE MCContentSync ---------------------------
(* One scope, created before the replica starts or while it runs.           *)
EXTENDS ContentSync
=============================================================================
