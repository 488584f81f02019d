-------------------------- MODULE MessageLifecycle --------------------------
(***************************************************************************)
(* The message states of the contract as a state machine of their own,     *)
(* with the content that has reached its destinations beside them: content *)
(* is delivered only once it is approved, by policy or by a reviewer, and  *)
(* counts as ACTIVE only once it is delivered or when there is nothing to  *)
(* deliver.  No workers, retries, transactions or messages.                *)
(***************************************************************************)
CONSTANTS Actions

VARIABLES
    state,      \* message_state, per action
    delivered   \* actions whose content has been posted

lifecycleVars == <<state, delivered>>

LifecycleInit ==
    /\ state = [a \in Actions |-> "PENDING_MODERATION"]
    /\ delivered = {}

\* One action moves from one of the states in From to the state to.
Move(a, From, to) ==
    /\ state[a] \in From
    /\ state' = [state EXCEPT ![a] = to]
    /\ delivered' = delivered

\* The policy decision.  ACTIVE is for an approved action without content.
Moderate(a) ==
    \E to \in {"BLOCKED", "HELD", "APPROVED_PENDING_DELIVERY", "ACTIVE"} :
        Move(a, {"PENDING_MODERATION"}, to)

Adjudicated(a) ==
    \E to \in {"APPROVED_PENDING_DELIVERY", "BLOCKED", "EXPIRED"} : Move(a, {"HELD"}, to)

\* The expiry worker takes a batch.
Lapse(batch) ==
    /\ \A a \in batch : state[a] = "HELD"
    /\ state' = [a \in Actions |-> IF a \in batch THEN "EXPIRED" ELSE state[a]]
    /\ delivered' = delivered

\* A job may be carried out more than once, also after it was reported.
Deliver(a) ==
    /\ state[a] \in {"APPROVED_PENDING_DELIVERY", "DELIVERY_FAILED", "ACTIVE"}
    /\ delivered' = delivered \cup {a}
    /\ state' = state

Succeed(a) ==
    /\ a \in delivered
    /\ Move(a, {"APPROVED_PENDING_DELIVERY", "DELIVERY_FAILED"}, "ACTIVE")

Fail(a) == Move(a, {"APPROVED_PENDING_DELIVERY"}, "DELIVERY_FAILED")

LifecycleNext ==
    \/ \E a \in Actions :
          Moderate(a) \/ Adjudicated(a) \/ Deliver(a) \/ Succeed(a) \/ Fail(a)
    \/ \E batch \in SUBSET Actions : Lapse(batch)

LifecycleSpec == LifecycleInit /\ [][LifecycleNext]_lifecycleVars
=============================================================================
