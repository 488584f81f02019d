-------------------------- MODULE MCStaffWorkflow --------------------------
(* One report, two requests, two members of staff. *)
EXTENDS StaffWorkflow
=============================================================================
