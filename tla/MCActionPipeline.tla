-------------------------- MODULE MCActionPipeline --------------------------
(* Bounds for ActionPipeline. *)
EXTENDS ActionPipeline, TLC

WorkerSymmetry == Permutations(Workers) \cup Permutations(Requests)

Result(decision, deadline, review, native, targets) ==
    [decision |-> decision, deadline |-> deadline, review |-> review,
     native |-> native, targets |-> targets]

\* A policy's hold, with its deadline or routed to review; the hold of a failed
\* dependency, which has none; a native decision that leaves no target.
AllResults ==
    {Result("ALLOW", FALSE, FALSE, FALSE, TRUE), Result("CENSOR", FALSE, TRUE, TRUE, TRUE),
     Result("HOLD", TRUE, TRUE, FALSE, TRUE), Result("HOLD", FALSE, TRUE, FALSE, TRUE),
     Result("HOLD", FALSE, FALSE, TRUE, TRUE), Result("BLOCK", FALSE, FALSE, FALSE, TRUE),
     Result("ALLOW", FALSE, FALSE, TRUE, FALSE)}

\* One result per way of going on from the decision.
FewResults ==
    {Result("ALLOW", FALSE, FALSE, TRUE, TRUE), Result("HOLD", TRUE, TRUE, FALSE, TRUE)}

\* The producer writes the action's own id into its payload, or nothing.
OwnId == [a \in Actions |-> a]
=============================================================================
