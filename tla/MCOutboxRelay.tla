--------------------------- MODULE MCOutboxRelay ---------------------------
(* Either end of a topic, in behaviours that share no variable: the relays    *)
(* that publish the outbox, and a replica that follows the invalidations of   *)
(* one scope, created before the replica starts or while it runs.  The run    *)
(* also checks liveness, so rows and relays are not taken as symmetric.       *)
EXTENDS OutboxRelay, ContentSync

VARIABLE part
allVars == <<vars, syncVars, part>>

MCInit == part \in {"relay", "replica"} /\ Init /\ SyncInit
            /\ (part = "relay" => \A s \in Scopes : policy[s].version = 0)

RelayDoes(A) == part = "relay" /\ A /\ UNCHANGED <<syncVars, part>>
ReplicaDoes(A) == part = "replica" /\ A /\ UNCHANGED <<vars, part>>

MCNext == RelayDoes(Next) \/ ReplicaDoes(SyncNext)

\* Fairness and SyncFairness, each in its own behaviours.
MCFairness ==
    /\ \A r \in Rows : WF_allVars(RelayDoes(\E p \in Relays, batch \in SUBSET Rows :
                                               r \in batch /\ ClaimBatch(p, batch)))
    /\ \A p \in Relays : WF_allVars(RelayDoes(RelaySteps(p)))
    /\ WF_allVars(RelayDoes(Tick))
    /\ WF_allVars(ReplicaDoes(Publish))
    /\ \A t \in Tasks : WF_allVars(ReplicaDoes(Reads(t)))
    /\ WF_allVars(ReplicaDoes(Sweeping))
    /\ WF_allVars(ReplicaDoes(Consuming))

MCSpec == MCInit /\ [][MCNext]_allVars /\ MCFairness
=============================================================================
