--------------------------- MODULE ActionPipeline ---------------------------
(***************************************************************************)
(* The life of an action: Kafka record or EvaluateAction call, evaluation  *)
(* with retries and a dead-letter topic, the transaction that persists the *)
(* decision, a reviewer or the expiry worker resolving a held action, the  *)
(* Prism job and the delivery callback.  Workers are the consumers of all  *)
(* replicas and the RPC handlers: after a rebalance or a crash the same    *)
(* record may be in several hands, and a transaction may commit while its  *)
(* caller sees an error.                                                   *)
(***************************************************************************)
EXTENDS Integers, FiniteSets

CONSTANTS
    Actions,        \* action ids
    RpcActions,     \* those that arrive through EvaluateAction, the rest by Kafka
    WithPayload,    \* those whose record carries a Prism payload
    Malformed,      \* those whose record has bad headers or does not decode
    ProducerId,     \* the action id the producer wrote into that payload
    Results,        \* what an evaluation may decide, see ResultType
    Workers,        \* consumer tasks and RPC handlers, all replicas together
    Requests,       \* idempotency used of reviewers' requests
    MaxTries,       \* attempts of ActionConsumer::run
    MaxFaults,      \* bound on crashes, lost rebalances and database errors
    None            \* SQL NULL

\* decision; whether an accepted Hold has a maximum duration; whether a
\* RouteReview was accepted; whether the native content policy decided; whether
\* any Prism target is left to deliver to, which only that policy takes away.
ResultType == [decision : {"ALLOW", "CENSOR", "HOLD", "BLOCK"}, deadline : BOOLEAN,
               review : BOOLEAN, native : BOOLEAN, targets : BOOLEAN]

ASSUME PipelineConstants ==
    /\ RpcActions \subseteq Actions
    /\ WithPayload \subseteq Actions \ RpcActions
    /\ Malformed \subseteq Actions \ RpcActions
    /\ ProducerId \in [Actions -> Actions \cup {None}]
    /\ Results \subseteq ResultType
    /\ \A r \in Results : r.native \/ r.targets
    /\ MaxTries \in Nat \ {0} /\ MaxFaults \in Nat
    /\ None \notin Actions \cup Results

VARIABLES
    inbox,      \* trust_safety.action_inbox with its decision and review item
    decisions,  \* DECISION rows of the outbox, per action
    jobs,       \* PRISM_JOB rows of the outbox, per action: the action id each
                \* carries and the inbox version it was written under
    posted,     \* actions whose content Prism has delivered
    callbacks,  \* events.prism.delivery.v2
    committed,  \* action records whose offset is committed
    dlq,        \* action records on the dead-letter topic
    worker,     \* what each worker is doing
    used,       \* mutation_idempotency: the request used of mutations that committed
    faults      \* failures so far

vars == <<inbox, decisions, jobs, posted, callbacks, committed, dlq, worker, used, faults>>

States == {"ABSENT", "ACTIVE", "APPROVED_PENDING_DELIVERY", "DELIVERY_FAILED",
           "HELD", "BLOCKED", "EXPIRED"}

InboxType ==
    [state : States, decision : {"NONE", "ALLOW", "CENSOR", "HOLD", "BLOCK"},
     hold : {"never", "running", "elapsed"},
     review : {"none", "PENDING", "RESOLVED", "DISMISSED"},
     approvedBy : {"nobody", "policy", "reviewer"}, version : Nat]

Absent == [state |-> "ABSENT", decision |-> "NONE", hold |-> "never", review |-> "none",
           approvedBy |-> "nobody", version |-> 0]

Free == [pc |-> "idle", action |-> None, tries |-> 0, result |-> None]

WorkerType ==
    [pc : {"idle", "evaluate", "persist", "shadow", "deadletter", "finish"},
     action : Actions \cup {None}, tries : 0 .. MaxTries, result : Results \cup {None}]

JobType == [id : Actions \cup {None}, version : Nat]

TypeOK ==
    /\ inbox \in [Actions -> InboxType]
    /\ decisions \in [Actions -> Nat]
    /\ jobs \in [Actions -> SUBSET JobType]
    /\ posted \subseteq Actions
    /\ callbacks \subseteq [id : Actions \cup {None}, state : {"ACTIVE", "DELIVERY_FAILED"}]
    /\ committed \subseteq Actions
    /\ dlq \subseteq Actions
    /\ worker \in [Workers -> WorkerType]
    /\ used \subseteq Requests
    /\ faults \in Nat

Init ==
    /\ inbox = [a \in Actions |-> Absent]
    /\ decisions = [a \in Actions |-> 0]
    /\ jobs = [a \in Actions |-> {}]
    /\ posted = {} /\ callbacks = {} /\ committed = {} /\ dlq = {}
    /\ worker = [w \in Workers |-> Free]
    /\ used = {}
    /\ faults = 0

-----------------------------------------------------------------------------
(* ActionConsumer::run and EvaluateAction. *)

store == <<inbox, decisions, jobs, posted, callbacks, committed, dlq, used>>

At(w, pc) == worker[w].pc = pc

Goto(w, pc) == worker' = [worker EXCEPT ![w].pc = pc]

\* A record that is not committed may be delivered, to several workers if the
\* group rebalances; an RPC may be repeated by its caller.  A record without the
\* right CloudEvents headers, or that does not decode, is never evaluated.
Receive(w, a) ==
    /\ At(w, "idle")
    /\ a \notin committed
    /\ worker' = [worker EXCEPT ![w] =
          [pc |-> IF a \in Malformed THEN "deadletter" ELSE "evaluate",
           action |-> a, tries |-> 1, result |-> None]]
    /\ UNCHANGED <<store, faults>>

\* An attempt failed: the consumer tries again or gives up, an RPC reports it.
Failed(w) ==
    IF worker[w].action \in RpcActions
    THEN Free
    ELSE IF worker[w].tries < MaxTries
         THEN [pc |-> "evaluate", action |-> worker[w].action,
               tries |-> worker[w].tries + 1, result |-> None]
         ELSE [pc |-> "deadletter", action |-> worker[w].action,
               tries |-> worker[w].tries, result |-> None]

Fail(w) ==
    /\ faults < MaxFaults
    /\ faults' = faults + 1
    /\ worker' = [worker EXCEPT ![w] = Failed(w)]

\* evaluate_result: features, policies and the effect merge.
Evaluate(w) ==
    /\ At(w, "evaluate")
    /\ \E r \in Results :
          worker' = [worker EXCEPT ![w] = [pc |-> "persist", action |-> worker[w].action,
                                           tries |-> worker[w].tries, result |-> r]]
    /\ UNCHANGED <<store, faults>>

EvaluateFails(w) ==
    /\ At(w, "evaluate")
    /\ Fail(w)
    /\ UNCHANGED store

\* Slip: the decision is not looked at.
PayloadAlways(a, r) == a \in WithPayload /\ r.targets

\* build_approved_prism_payload: a payload only for an approving decision, only
\* if the record had one and the content policy left a target.
ApprovedPayload(a, r) == r.decision \in {"ALLOW", "CENSOR"} /\ a \in WithPayload /\ r.targets

StateFor(a, r) ==
    CASE r.decision = "HOLD"  -> "HELD"
      [] r.decision = "BLOCK" -> "BLOCKED"
      [] OTHER -> IF ApprovedPayload(a, r) THEN "APPROVED_PENDING_DELIVERY" ELSE "ACTIVE"

\* The row persist_and_apply leaves behind.
Decided(a, r) ==
    [state |-> StateFor(a, r), decision |-> r.decision,
     hold |-> IF r.decision = "HOLD" /\ r.deadline THEN "running" ELSE "never",
     review |-> IF r.review THEN "PENDING" ELSE "none",
     approvedBy |-> IF r.decision \in {"ALLOW", "CENSOR"} THEN "policy" ELSE "nobody",
     version |-> 1]

\* Slip: a second delivery overwrites the row.
ApplyAgain(a, r) ==
    /\ inbox' = [inbox EXCEPT ![a] = Decided(a, r)]
    /\ decisions' = [decisions EXCEPT ![a] = @ + 1]
    /\ jobs' = [jobs EXCEPT ![a] =
                   @ \cup (IF ApprovedPayload(a, r) THEN {[id |-> a, version |-> 1]} ELSE {})]

\* The transaction: the inbox row, its decision and effects, the DECISION row
\* and, for approved content, a PRISM_JOB row carrying Polarizer's own id.
Apply(a, r) ==
    /\ inbox[a].state = "ABSENT"
    /\ inbox' = [inbox EXCEPT ![a] = Decided(a, r)]
    /\ decisions' = [decisions EXCEPT ![a] = @ + 1]
    /\ jobs' = [jobs EXCEPT ![a] =
                   @ \cup (IF ApprovedPayload(a, r) THEN {[id |-> a, version |-> 1]} ELSE {})]

Persist(w) ==
    /\ At(w, "persist")
    /\ Apply(worker[w].action, worker[w].result)
    /\ Goto(w, IF worker[w].result.native THEN "finish" ELSE "shadow")
    /\ UNCHANGED <<posted, callbacks, committed, dlq, used, faults>>

\* INSERT ... ON CONFLICT (action_id) DO NOTHING inserted nothing.
PersistDuplicate(w) ==
    /\ At(w, "persist")
    /\ inbox[worker[w].action].state # "ABSENT"
    /\ Goto(w, "finish")
    /\ UNCHANGED <<store, faults>>

\* The database answers with an error: before the commit, or after it.
PersistFails(w) ==
    /\ At(w, "persist")
    /\ Fail(w)
    /\ \/ UNCHANGED <<inbox, decisions, jobs>>
       \/ Apply(worker[w].action, worker[w].result)
    /\ UNCHANGED <<posted, callbacks, committed, dlq, used>>

\* The shadow policies run after the decision is committed; their failure, or
\* that of storing the comparison, fails the attempt.
Shadow(w) ==
    /\ At(w, "shadow")
    /\ Goto(w, "finish")
    /\ UNCHANGED <<store, faults>>

ShadowFails(w) ==
    /\ At(w, "shadow")
    /\ Fail(w)
    /\ UNCHANGED store

\* Slips: nothing is published before the offset is committed; the record is
\* left for another delivery.
DeadLetterSkipped(w) ==
    /\ At(w, "deadletter")
    /\ Goto(w, "finish")
    /\ UNCHANGED <<store, faults>>

DeadLetterRewinds(w) ==
    /\ At(w, "deadletter")
    /\ worker' = [worker EXCEPT ![w] = Free]
    /\ UNCHANGED <<store, faults>>

\* Every attempt failed.  If the dead-letter topic is down too, run() returns an
\* error and the process stops: that is Crash.
DeadLetter(w) ==
    /\ At(w, "deadletter")
    /\ dlq' = dlq \cup {worker[w].action}
    /\ Goto(w, "finish")
    /\ UNCHANGED <<inbox, decisions, jobs, posted, callbacks, committed, used, faults>>

\* commit_message, or the RPC's answer.
Finish(w) ==
    /\ At(w, "finish")
    /\ committed' = committed \cup ({worker[w].action} \ RpcActions)
    /\ worker' = [worker EXCEPT ![w] = Free]
    /\ UNCHANGED <<inbox, decisions, jobs, posted, callbacks, dlq, used, faults>>

\* The process stops, or the group takes the partition away.
Crash(w) ==
    /\ ~At(w, "idle")
    /\ faults < MaxFaults
    /\ faults' = faults + 1
    /\ worker' = [worker EXCEPT ![w] = Free]
    /\ UNCHANGED store

-----------------------------------------------------------------------------
(* Held actions. *)

\* held_resolution_values, with the version bump of the UPDATE.  Review items of
\* the decision that are still pending are resolved with it.
Resolved(r, state, review, approver) ==
    [state |-> state, decision |-> r.decision, hold |-> r.hold,
     review |-> IF r.review = "PENDING" THEN review ELSE r.review,
     approvedBy |-> approver, version |-> r.version + 1]

\* Slip: only the version is compared.
AdjudicateAnyState(k, a, expected) == k \notin used /\ inbox[a].version = expected

\* adjudicate_held_action.  A key used before answers with the current record; a
\* wrong version or an action that is not HELD is refused.
Adjudicate(k, a, expected) ==
    /\ k \notin used
    /\ inbox[a].state = "HELD"
    /\ inbox[a].version = expected

\* The stored payload is published as the producer sent it, if there is one.
Approve(k, a, expected) ==
    /\ Adjudicate(k, a, expected)
    /\ used' = used \cup {k}
    /\ inbox' = [inbox EXCEPT ![a] =
          Resolved(@, "APPROVED_PENDING_DELIVERY", "DISMISSED", "reviewer")]
    /\ jobs' = [jobs EXCEPT ![a] =
          @ \cup (IF a \in WithPayload THEN {[id |-> ProducerId[a], version |-> inbox[a].version + 1]} ELSE {})]
    /\ UNCHANGED <<decisions, posted, callbacks, committed, dlq, worker, faults>>

Reject(k, a, expected) ==
    /\ Adjudicate(k, a, expected)
    /\ used' = used \cup {k}
    /\ inbox' = [inbox EXCEPT ![a] = Resolved(@, "BLOCKED", "RESOLVED", "nobody")]
    /\ UNCHANGED <<decisions, jobs, posted, callbacks, committed, dlq, worker, faults>>

Expire(k, a, expected) ==
    /\ Adjudicate(k, a, expected)
    /\ used' = used \cup {k}
    /\ inbox' = [inbox EXCEPT ![a] = Resolved(@, "EXPIRED", "RESOLVED", "nobody")]
    /\ UNCHANGED <<decisions, jobs, posted, callbacks, committed, dlq, worker, faults>>

\* resolve_review_item closes a review item and leaves its action alone.
ResolveReviewItem(k, a) ==
    /\ k \notin used
    /\ inbox[a].review = "PENDING"
    /\ used' = used \cup {k}
    /\ \E to \in {"RESOLVED", "DISMISSED"} : inbox' = [inbox EXCEPT ![a].review = to]
    /\ UNCHANGED <<decisions, jobs, posted, callbacks, committed, dlq, worker, faults>>

\* A reviewer may have read any version of the action before.
ReviewerActs(k, a) ==
    \/ \E expected \in 1 .. 2 :
          Approve(k, a, expected) \/ Reject(k, a, expected) \/ Expire(k, a, expected)
    \/ ResolveReviewItem(k, a)

\* hold_until passes.
HoldElapses(a) ==
    /\ inbox[a].state = "HELD" /\ inbox[a].hold = "running"
    /\ inbox' = [inbox EXCEPT ![a].hold = "elapsed"]
    /\ UNCHANGED <<decisions, jobs, posted, callbacks, committed, dlq, worker, used, faults>>

Due(r) == r.state = "HELD" /\ r.hold = "elapsed"

\* expire_due_held_actions: the due rows nobody else has locked, up to a limit.
ExpireDueHeldActions(batch) ==
    /\ batch # {} /\ \A a \in batch : Due(inbox[a])
    /\ inbox' = [a \in Actions |-> IF a \in batch
                    THEN Resolved(inbox[a], "EXPIRED", "RESOLVED", "nobody") ELSE inbox[a]]
    /\ UNCHANGED <<decisions, jobs, posted, callbacks, committed, dlq, worker, used, faults>>

-----------------------------------------------------------------------------
(* Prism (external) and its callbacks. *)

\* The relay publishes a job at least once; Prism posts the content or fails,
\* says so under the id the job carries, and may do both on a repeated job.
PrismRuns(a, j) ==
    /\ \/ /\ posted' = posted \cup {a}
          /\ callbacks' = callbacks \cup {[id |-> j.id, state |-> "ACTIVE"]}
       \/ /\ posted' = posted
          /\ callbacks' = callbacks \cup {[id |-> j.id, state |-> "DELIVERY_FAILED"]}
    /\ UNCHANGED <<inbox, decisions, jobs, committed, dlq, worker, used, faults>>

\* apply_delivery_callback for a record of the topic, read any number of times
\* and in any order.  A callback without a valid action id goes to the
\* dead-letter topic of the callbacks and changes nothing here.
DeliveryCallback(m) ==
    /\ m.id # None
    /\ \/ inbox[m.id].state = "APPROVED_PENDING_DELIVERY"
       \/ m.state = "ACTIVE" /\ inbox[m.id].state = "DELIVERY_FAILED"
    /\ inbox' = [inbox EXCEPT ![m.id].state = m.state]
    /\ UNCHANGED <<decisions, jobs, posted, callbacks, committed, dlq, worker, used, faults>>

WorkerSteps(w) ==
    \/ Evaluate(w)
    \/ Persist(w) \/ PersistDuplicate(w)
    \/ Shadow(w)
    \/ DeadLetter(w) \/ Finish(w)

WorkerFails(w) == EvaluateFails(w) \/ PersistFails(w) \/ ShadowFails(w) \/ Crash(w)

Next ==
    \/ \E w \in Workers, a \in Actions : Receive(w, a)
    \/ \E w \in Workers : WorkerSteps(w) \/ WorkerFails(w)
    \/ \E k \in Requests, a \in Actions : ReviewerActs(k, a)
    \/ \E a \in Actions : HoldElapses(a)
    \/ \E batch \in SUBSET Actions : ExpireDueHeldActions(batch)
    \/ \E a \in Actions : \E j \in jobs[a] : PrismRuns(a, j)
    \/ \E m \in callbacks : DeliveryCallback(m)

Spec == Init /\ [][Next]_vars

-----------------------------------------------------------------------------
(* Safety. *)

Approving == {"ALLOW", "CENSOR"}

\* However often a record is delivered, retried, dead-lettered and delivered
\* again, and however many workers hold it at once, its decision is published
\* once if it was stored and never otherwise, and at most one Prism job exists.
ExactlyOnceEffects ==
    \A a \in Actions :
        /\ decisions[a] = IF inbox[a].state = "ABSENT" THEN 0 ELSE 1
        /\ \A i, j \in jobs[a] : i = j

\* "Blocked or held content is never published to Prism": a job exists only for
\* an action that policy or a reviewer approved and that nobody has blocked or
\* let expire since; what Prism posted, it posted for such an action.
NoUnapprovedContent ==
    \A a \in Actions :
        jobs[a] # {} \/ a \in posted =>
            /\ inbox[a].decision \in Approving \/ inbox[a].approvedBy = "reviewer"
            /\ inbox[a].state \in {"APPROVED_PENDING_DELIVERY", "ACTIVE", "DELIVERY_FAILED"}

\* A resolved hold leaves no review item open: adjudication and the expiry
\* worker close it in the transaction that resolves the action.
ResolvedHoldHasNoOpenReview ==
    \A a \in Actions :
        inbox[a].decision = "HOLD" /\ inbox[a].review = "PENDING" => inbox[a].state = "HELD"

\* An acknowledged action record was decided or is on the dead-letter topic.
NoSilentLoss ==
    \A a \in committed : inbox[a].state # "ABSENT" \/ a \in dlq

-----------------------------------------------------------------------------
(* The pipeline implements the contract's message states. *)

stateOf == [a \in Actions |-> IF inbox[a].state = "ABSENT" THEN "PENDING_MODERATION"
                              ELSE inbox[a].state]

Lifecycle == INSTANCE MessageLifecycle WITH state <- stateOf, delivered <- posted

\* Every step of the pipeline is a step of the lifecycle or none: no action goes
\* back, is resolved twice or is posted before its approval, and none becomes
\* ACTIVE on a callback before its content was posted.  For payloads that carry
\* their own action's id or none.
FollowsLifecycle == Lifecycle!LifecycleSpec

-----------------------------------------------------------------------------
(* Liveness. *)

\* Kafka hands out an uncommitted record again and again, in order, so no other
\* work keeps it away for ever; a live worker goes on; the relay and Prism carry
\* out jobs; callbacks are consumed; time passes and the expiry worker ticks.
Fairness ==
    /\ \A a \in Actions \ RpcActions : SF_vars(\E w \in Workers : Receive(w, a))
    /\ \A w \in Workers : WF_vars(WorkerSteps(w))
    /\ \A a \in Actions :
          /\ WF_vars(HoldElapses(a))
          /\ WF_vars(\E batch \in SUBSET Actions : a \in batch /\ ExpireDueHeldActions(batch))
          /\ WF_vars(\E j \in jobs[a] : PrismRuns(a, j))
          /\ WF_vars(\E m \in callbacks : m.id = a /\ DeliveryCallback(m))

FairSpec == Spec /\ Fairness

\* Every obligation ends: a record of the action topic is acknowledged, a hold
\* with a deadline ends with or without a reviewer, and an action that has a job
\* does not stay pending.
EveryObligationEnds ==
    /\ \A a \in Actions \ RpcActions : <>(a \in committed)
    /\ \A a \in Actions :
          inbox[a].state = "HELD" /\ inbox[a].hold # "never" ~> inbox[a].state # "HELD"
    /\ \A a \in Actions :
          inbox[a].state = "APPROVED_PENDING_DELIVERY" /\ jobs[a] # {}
              ~> inbox[a].state \in {"ACTIVE", "DELIVERY_FAILED"}
=============================================================================
