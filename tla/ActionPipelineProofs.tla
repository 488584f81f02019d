------------------------ MODULE ActionPipelineProofs ------------------------
(***************************************************************************)
(* Proofs about ActionPipeline for any actions, workers, reviewers,        *)
(* evaluation results and number of faults.                                *)
(***************************************************************************)
EXTENDS ActionPipeline, TLAPS

USE PipelineConstants

\* The types of the tables and topics, and of the workers, apart.
StoreType ==
    /\ inbox \in [Actions -> InboxType]
    /\ decisions \in [Actions -> Nat]
    /\ jobs \in [Actions -> SUBSET JobType]
    /\ posted \subseteq Actions
    /\ callbacks \subseteq [id : Actions \cup {None}, state : {"ACTIVE", "DELIVERY_FAILED"}]
    /\ committed \subseteq Actions
    /\ dlq \subseteq Actions
    /\ used \subseteq Requests

\* A hold is a decision to hold: only such an action is still to be approved.
HeldWasHold ==
    \A a \in Actions : inbox[a].state = "HELD" => inbox[a].decision = "HOLD"

\* An action without a decision has no review item.
AbsentIsEmpty ==
    \A a \in Actions : inbox[a].state = "ABSENT" => inbox[a].review = "none"

\* Prism posts only what it has a job for.
PostedHasJob == \A a \in posted : jobs[a] # {}

StoreInv ==
    /\ StoreType
    /\ HeldWasHold
    /\ AbsentIsEmpty
    /\ PostedHasJob
    /\ ExactlyOnceEffects
    /\ NoUnapprovedContent
    /\ ResolvedHoldHasNoOpenReview

\* A busy worker has an action, and a result once it has evaluated it; it is past
\* persisting only when there is a decision or a dead letter.
WorkerShape ==
    \A w \in Workers :
        /\ worker[w].pc # "idle" => worker[w].action \in Actions
        /\ worker[w].pc = "persist" => worker[w].result \in Results
        /\ worker[w].pc \in {"shadow", "finish"} =>
              inbox[worker[w].action].state # "ABSENT" \/ worker[w].action \in dlq

WorkInv ==
    /\ worker \in [Workers -> WorkerType]
    /\ faults \in Nat
    /\ WorkerShape
    /\ NoSilentLoss

\* The inductive invariant.
PipelineInv == StoreInv /\ WorkInv

-----------------------------------------------------------------------------
(* The store. *)

\* The row a decision leaves behind.
LEMMA DecidedShape ==
    ASSUME NEW a \in Actions, NEW r \in Results
    PROVE  /\ Decided(a, r) \in InboxType
           /\ Decided(a, r).decision = r.decision
           /\ Decided(a, r).state = StateFor(a, r)
           /\ StateFor(a, r) # "ABSENT"
           /\ (StateFor(a, r) = "HELD" <=> r.decision = "HOLD")
           /\ ApprovedPayload(a, r) =>
                 r.decision \in Approving /\ StateFor(a, r) = "APPROVED_PENDING_DELIVERY"
<1>1. r.decision \in {"ALLOW", "CENSOR", "HOLD", "BLOCK"} /\ r \in ResultType
  BY DEF ResultType
<1>2. /\ StateFor(a, r) \in States \ {"ABSENT"}
      /\ (StateFor(a, r) = "HELD" <=> r.decision = "HOLD")
      /\ ApprovedPayload(a, r) =>
            r.decision \in Approving /\ StateFor(a, r) = "APPROVED_PENDING_DELIVERY"
  BY <1>1 DEF StateFor, States, ApprovedPayload, Approving
<1> QED
  BY <1>1, <1>2 DEF Decided, InboxType, States

\* persist_and_apply stores a decision with its effects once.
LEMMA ApplyKeeps ==
    ASSUME StoreInv, NEW a \in Actions, NEW r \in Results, Apply(a, r),
           UNCHANGED <<posted, callbacks, committed, dlq, used>>
    PROVE  /\ StoreInv'
           /\ inbox'[a].state # "ABSENT"
           /\ \A b \in Actions : inbox[b].state # "ABSENT" => inbox'[b].state # "ABSENT"
<1> DEFINE new == IF ApprovedPayload(a, r) THEN {[id |-> a, version |-> 1]} ELSE {}
<1>1. StoreType /\ inbox[a].state = "ABSENT" /\ decisions[a] = 0 /\ jobs[a] = {}
      /\ a \notin posted
  BY DEF StoreInv, Apply, ExactlyOnceEffects, NoUnapprovedContent
<1>2. /\ inbox' = [inbox EXCEPT ![a] = Decided(a, r)]
      /\ decisions' = [decisions EXCEPT ![a] = @ + 1]
      /\ jobs' = [jobs EXCEPT ![a] = @ \cup new]
  BY DEF Apply
<1>3. new \subseteq JobType
  BY DEF JobType
<1>4. /\ inbox' \in [Actions -> InboxType] /\ decisions' \in [Actions -> Nat]
      /\ jobs' \in [Actions -> SUBSET JobType]
      /\ inbox'[a] = Decided(a, r) /\ decisions'[a] = 1 /\ jobs'[a] = new
      /\ \A b \in Actions \ {a} : /\ inbox'[b] = inbox[b] /\ decisions'[b] = decisions[b]
                                  /\ jobs'[b] = jobs[b]
  BY <1>1, <1>2, <1>3, DecidedShape DEF StoreType
<1>5. StoreType'
  BY <1>1, <1>4 DEF StoreType
<1>6. HeldWasHold' /\ AbsentIsEmpty' /\ PostedHasJob' /\ ResolvedHoldHasNoOpenReview'
  <2>1. inbox'[a].state = "HELD" <=> inbox'[a].decision = "HOLD"
    BY <1>4, DecidedShape
  <2>2. HeldWasHold'
    BY <1>4, <2>1 DEF StoreInv, HeldWasHold
  <2>3. posted' = posted /\ posted \subseteq Actions
    BY <1>1 DEF StoreType
  <2>4. PostedHasJob'
    BY <1>1, <1>4, <2>3 DEF StoreInv, PostedHasJob
  <2>5. ResolvedHoldHasNoOpenReview'
    BY <1>4, <2>1 DEF StoreInv, ResolvedHoldHasNoOpenReview
  <2>6. AbsentIsEmpty'
    BY <1>4, DecidedShape DEF StoreInv, AbsentIsEmpty
  <2> QED
    BY <2>2, <2>4, <2>5, <2>6
<1>7. ExactlyOnceEffects'
  <2>1. \A i, j \in new : i = j
    OBVIOUS
  <2>2. inbox'[a].state # "ABSENT"
    BY <1>4, DecidedShape
  <2> QED
    BY <1>4, <2>1, <2>2 DEF StoreInv, ExactlyOnceEffects
<1>8. NoUnapprovedContent'
  BY <1>1, <1>4, DecidedShape DEF StoreInv, NoUnapprovedContent
<1> QED
  BY <1>4, <1>5, <1>6, <1>7, <1>8, DecidedShape DEF StoreInv

\* A row on which only its state, review item or approver move: what a change of one
\* row by a reviewer, the expiry worker or a callback has to keep.
MayBecome(a, r) ==
    /\ r \in InboxType
    /\ inbox[a].state # "ABSENT" /\ r.state # "ABSENT"
    /\ r.decision = inbox[a].decision
    /\ r.state = "HELD" => inbox[a].state = "HELD"
    /\ r.decision = "HOLD" /\ r.review = "PENDING" => r.state = "HELD"
    /\ jobs'[a] # {} =>
          /\ r.decision \in Approving \/ r.approvedBy = "reviewer"
          /\ r.state \in {"APPROVED_PENDING_DELIVERY", "ACTIVE", "DELIVERY_FAILED"}

\* Rows that change so keep the store's invariant, when at most one job is added to
\* an action that had none.
LEMMA RowsChange ==
    ASSUME StoreInv, inbox' = [a \in Actions |-> inbox'[a]],
           \A a \in Actions : \/ inbox'[a] = inbox[a] /\ jobs'[a] = jobs[a]
                              \/ MayBecome(a, inbox'[a]),
           jobs' \in [Actions -> SUBSET JobType],
           \A a \in Actions : /\ jobs[a] \subseteq jobs'[a]
                              /\ \A i, j \in jobs'[a] : i = j,
           UNCHANGED <<decisions, posted, callbacks, committed, dlq>>, used' \subseteq Requests
    PROVE  /\ StoreInv'
           /\ \A a \in Actions : inbox[a].state # "ABSENT" => inbox'[a].state # "ABSENT"
<1>2. \A a \in Actions : /\ inbox'[a] = inbox[a] /\ jobs'[a] = jobs[a]
                         \/ MayBecome(a, inbox'[a])
  OBVIOUS
<1>3. inbox' \in [Actions -> InboxType]
  BY <1>2 DEF StoreInv, StoreType, MayBecome
<1>4. StoreType'
  BY <1>3 DEF StoreInv, StoreType
<1>5. \A a \in Actions : inbox[a].state # "ABSENT" <=> inbox'[a].state # "ABSENT"
  BY <1>2 DEF MayBecome
<1>6. ExactlyOnceEffects'
  BY <1>5 DEF StoreInv, ExactlyOnceEffects
<1>7. HeldWasHold' /\ AbsentIsEmpty'
  BY <1>2 DEF StoreInv, HeldWasHold, AbsentIsEmpty, MayBecome
<1>8. ResolvedHoldHasNoOpenReview'
  BY <1>2 DEF StoreInv, ResolvedHoldHasNoOpenReview, MayBecome
<1>9. PostedHasJob'
  BY <1>4 DEF StoreInv, PostedHasJob, StoreType
<1>10. NoUnapprovedContent'
  <2>1. \A a \in Actions : a \in posted => jobs'[a] # {}
    BY <1>9 DEF PostedHasJob
  <2>2. ASSUME NEW a \in Actions, jobs'[a] # {}
        PROVE  /\ inbox'[a].decision \in Approving \/ inbox'[a].approvedBy = "reviewer"
               /\ inbox'[a].state \in {"APPROVED_PENDING_DELIVERY", "ACTIVE", "DELIVERY_FAILED"}
    <3>1. CASE inbox'[a] = inbox[a] /\ jobs'[a] = jobs[a]
      BY <2>2, <3>1 DEF StoreInv, NoUnapprovedContent
    <3>2. CASE MayBecome(a, inbox'[a])
      BY <2>2, <3>2 DEF MayBecome
    <3> QED
      BY <1>2, <3>1, <3>2
  <2> QED
    BY <2>1, <2>2 DEF NoUnapprovedContent
<1> QED
  BY <1>4, <1>5, <1>6, <1>7, <1>8, <1>9, <1>10 DEF StoreInv

\* A held action has no job yet, and what a resolution leaves of its row.
LEMMA ResolvedShape ==
    ASSUME StoreInv, NEW a \in Actions, inbox[a].state = "HELD",
           NEW state \in States \ {"ABSENT", "HELD"}, NEW review \in {"RESOLVED", "DISMISSED"},
           NEW approver \in {"nobody", "reviewer"}
    PROVE  /\ jobs[a] = {}
           /\ Resolved(inbox[a], state, review, approver) \in InboxType
           /\ Resolved(inbox[a], state, review, approver).state = state
           /\ Resolved(inbox[a], state, review, approver).decision = inbox[a].decision
           /\ Resolved(inbox[a], state, review, approver).review # "PENDING"
           /\ Resolved(inbox[a], state, review, approver).approvedBy = approver
<1>1. inbox[a] \in InboxType
  BY DEF StoreInv, StoreType
<1> QED
  BY <1>1 DEF StoreInv, NoUnapprovedContent, Resolved, InboxType

\* adjudicate_held_action: a hold ends once, and only an approval gives it a job.
LEMMA AdjudicationKeeps ==
    ASSUME StoreInv, NEW k \in Requests, NEW a \in Actions, NEW expected,
           Approve(k, a, expected) \/ Reject(k, a, expected) \/ Expire(k, a, expected)
    PROVE  /\ StoreInv'
           /\ \A b \in Actions : inbox[b].state # "ABSENT" => inbox'[b].state # "ABSENT"
<1>1. /\ inbox[a].state = "HELD" /\ inbox \in [Actions -> InboxType] /\ used' \subseteq Requests
      /\ jobs \in [Actions -> SUBSET JobType]
      /\ UNCHANGED <<decisions, posted, callbacks, committed, dlq>>
  BY DEF Approve, Reject, Expire, Adjudicate, StoreInv, StoreType
<1>2. jobs[a] = {}
  BY <1>1 DEF StoreInv, NoUnapprovedContent
<1>3. \A b \in Actions : \A i, j \in jobs[b] : i = j
  BY DEF StoreInv, ExactlyOnceEffects
<1>4. CASE Approve(k, a, expected)
  <2> DEFINE new == IF a \in WithPayload
                    THEN {[id |-> ProducerId[a], version |-> inbox[a].version + 1]} ELSE {}
  <2>1. /\ inbox' = [inbox EXCEPT ![a] =
              Resolved(@, "APPROVED_PENDING_DELIVERY", "DISMISSED", "reviewer")]
        /\ jobs' = [jobs EXCEPT ![a] = @ \cup new]
    BY <1>4 DEF Approve
  <2>2. new \subseteq JobType /\ \A i, j \in new : i = j
    BY <1>1 DEF JobType, InboxType
  <2>3. /\ jobs' \in [Actions -> SUBSET JobType] /\ jobs'[a] = new
        /\ \A b \in Actions \ {a} : jobs'[b] = jobs[b] /\ inbox'[b] = inbox[b]
        /\ inbox'[a] = Resolved(inbox[a], "APPROVED_PENDING_DELIVERY", "DISMISSED", "reviewer")
        /\ inbox' = [b \in Actions |-> inbox'[b]]
    BY <1>1, <1>2, <2>1, <2>2
  <2>4. \A b \in Actions : jobs[b] \subseteq jobs'[b] /\ \A i, j \in jobs'[b] : i = j
    BY <1>2, <1>3, <2>2, <2>3
  <2>5. MayBecome(a, inbox'[a])
    <3>1. "APPROVED_PENDING_DELIVERY" \in States \ {"ABSENT", "HELD"}
      BY DEF States
    <3> QED
      BY <1>1, <2>3, <3>1, ResolvedShape DEF MayBecome
  <2> QED
    BY <1>1, <2>3, <2>4, <2>5, RowsChange
<1>5. CASE Reject(k, a, expected) \/ Expire(k, a, expected)
  <2>1. PICK state \in {"BLOCKED", "EXPIRED"} :
           inbox' = [inbox EXCEPT ![a] = Resolved(@, state, "RESOLVED", "nobody")]
    BY <1>5 DEF Reject, Expire
  <2>2. /\ jobs' = jobs /\ inbox' = [b \in Actions |-> inbox'[b]]
        /\ inbox'[a] = Resolved(inbox[a], state, "RESOLVED", "nobody")
        /\ \A b \in Actions \ {a} : inbox'[b] = inbox[b]
    BY <1>1, <1>5, <2>1 DEF Reject, Expire
  <2>3. MayBecome(a, inbox'[a])
    <3>1. state \in States \ {"ABSENT", "HELD"}
      BY DEF States
    <3> QED
      BY <1>1, <1>2, <2>2, <3>1, ResolvedShape DEF MayBecome
  <2> QED
    BY <1>1, <1>3, <2>2, <2>3, RowsChange
<1> QED
  BY <1>4, <1>5

\* The expiry worker ends a batch of holds.
LEMMA ExpiryKeeps ==
    ASSUME StoreInv, NEW batch \in SUBSET Actions, ExpireDueHeldActions(batch)
    PROVE  /\ StoreInv'
           /\ \A b \in Actions : inbox[b].state # "ABSENT" => inbox'[b].state # "ABSENT"
<1>1. /\ inbox \in [Actions -> InboxType] /\ used' \subseteq Requests
      /\ jobs \in [Actions -> SUBSET JobType] /\ jobs' = jobs
      /\ UNCHANGED <<decisions, posted, callbacks, committed, dlq>>
      /\ \A a \in batch : inbox[a].state = "HELD"
  BY DEF ExpireDueHeldActions, Due, StoreInv, StoreType
<1>2. \A b \in Actions : \A i, j \in jobs[b] : i = j
  BY DEF StoreInv, ExactlyOnceEffects
<1>3. /\ inbox' = [a \in Actions |-> inbox'[a]]
      /\ \A a \in Actions : inbox'[a] = IF a \in batch
            THEN Resolved(inbox[a], "EXPIRED", "RESOLVED", "nobody") ELSE inbox[a]
  BY DEF ExpireDueHeldActions
<1>4. ASSUME NEW a \in batch
      PROVE  MayBecome(a, inbox'[a])
  <2>1. "EXPIRED" \in States \ {"ABSENT", "HELD"}
    BY DEF States
  <2> QED
    BY <1>1, <1>3, <2>1, ResolvedShape DEF MayBecome
<1> QED
  BY <1>1, <1>2, <1>3, <1>4, RowsChange

\* A row of which only state, hold or review differs.
LEMMA OneRowChanges ==
    ASSUME StoreInv, NEW a \in Actions, NEW r, inbox' = [inbox EXCEPT ![a] = r],
           MayBecome(a, r),
           UNCHANGED <<decisions, jobs, posted, callbacks, committed, dlq>>,
           used' \subseteq Requests
    PROVE  /\ StoreInv'
           /\ \A b \in Actions : inbox[b].state # "ABSENT" => inbox'[b].state # "ABSENT"
<1>1. /\ inbox \in [Actions -> InboxType] /\ jobs' = jobs
      /\ jobs \in [Actions -> SUBSET JobType]
      /\ \A b \in Actions : \A i, j \in jobs[b] : i = j
  BY DEF StoreInv, StoreType, ExactlyOnceEffects
<1>2. /\ inbox' = [b \in Actions |-> inbox'[b]] /\ inbox'[a] = r
      /\ \A b \in Actions \ {a} : inbox'[b] = inbox[b]
  BY <1>1
<1> QED
  BY <1>1, <1>2, RowsChange

\* resolve_review_item closes the item of an action.
LEMMA ReviewItemKeeps ==
    ASSUME StoreInv, NEW k \in Requests, NEW a \in Actions, ResolveReviewItem(k, a)
    PROVE  /\ StoreInv'
           /\ \A b \in Actions : inbox[b].state # "ABSENT" => inbox'[b].state # "ABSENT"
<1>1. PICK to \in {"RESOLVED", "DISMISSED"} : inbox' = [inbox EXCEPT ![a].review = to]
  BY DEF ResolveReviewItem
<1>2. PICK r : r = [inbox[a] EXCEPT !.review = to]
  OBVIOUS
<1>3. inbox' = [inbox EXCEPT ![a] = r]
  BY <1>1, <1>2
<1>4. inbox[a] \in InboxType
  BY DEF StoreInv, StoreType
<1>5. /\ r \in InboxType /\ r.state = inbox[a].state /\ r.decision = inbox[a].decision
      /\ r.approvedBy = inbox[a].approvedBy /\ r.review # "PENDING"
  BY <1>2, <1>4 DEF InboxType
<1>6. inbox[a].state # "ABSENT"
  <2>1. inbox[a].review = "PENDING"
    BY DEF ResolveReviewItem
  <2> QED
    BY <2>1 DEF StoreInv, AbsentIsEmpty
<1>7. UNCHANGED <<decisions, jobs, posted, callbacks, committed, dlq>> /\ used' \subseteq Requests
  BY DEF ResolveReviewItem, StoreInv, StoreType
<1>8. MayBecome(a, r)
  BY <1>5, <1>6, <1>7 DEF MayBecome, StoreInv, NoUnapprovedContent
<1> QED
  BY <1>3, <1>7, <1>8, OneRowChanges

\* A deadline passes.
LEMMA ElapseKeeps ==
    ASSUME StoreInv, NEW a \in Actions, HoldElapses(a)
    PROVE  /\ StoreInv'
           /\ \A b \in Actions : inbox[b].state # "ABSENT" => inbox'[b].state # "ABSENT"
<1>1. PICK r : r = [inbox[a] EXCEPT !.hold = "elapsed"]
  OBVIOUS
<1>2. inbox' = [inbox EXCEPT ![a] = r]
  BY <1>1 DEF HoldElapses
<1>3. inbox[a] \in InboxType /\ inbox[a].state = "HELD"
  BY DEF StoreInv, StoreType, HoldElapses
<1>4. /\ r \in InboxType /\ r.state = "HELD" /\ r.decision = inbox[a].decision
      /\ r.approvedBy = inbox[a].approvedBy
  BY <1>1, <1>3 DEF InboxType
<1>5. /\ UNCHANGED <<decisions, jobs, posted, callbacks, committed, dlq>> /\ used' \subseteq Requests
      /\ jobs'[a] = {}
  BY <1>3 DEF HoldElapses, StoreInv, StoreType, NoUnapprovedContent
<1>6. MayBecome(a, r)
  BY <1>3, <1>4, <1>5 DEF MayBecome
<1> QED
  BY <1>2, <1>5, <1>6, OneRowChanges

\* A callback moves an action that policy or a reviewer has approved, whatever id its
\* job carried.
LEMMA CallbackKeeps ==
    ASSUME StoreInv, NEW m \in callbacks, DeliveryCallback(m)
    PROVE  /\ StoreInv'
           /\ \A b \in Actions : inbox[b].state # "ABSENT" => inbox'[b].state # "ABSENT"
<1>1. m.id \in Actions /\ m.state \in {"ACTIVE", "DELIVERY_FAILED"}
  BY DEF DeliveryCallback, StoreInv, StoreType
<1>2. PICK r : r = [inbox[m.id] EXCEPT !.state = m.state]
  OBVIOUS
<1>3. inbox' = [inbox EXCEPT ![m.id] = r]
  BY <1>2 DEF DeliveryCallback
<1>4. /\ inbox[m.id] \in InboxType
      /\ inbox[m.id].state \in {"APPROVED_PENDING_DELIVERY", "DELIVERY_FAILED"}
  BY <1>1 DEF StoreInv, StoreType, DeliveryCallback
<1>5. /\ r \in InboxType /\ r.state = m.state /\ r.decision = inbox[m.id].decision
      /\ r.approvedBy = inbox[m.id].approvedBy /\ r.review = inbox[m.id].review
  BY <1>1, <1>2, <1>4 DEF InboxType, States
<1>6. UNCHANGED <<decisions, jobs, posted, callbacks, committed, dlq>> /\ used' \subseteq Requests
  BY DEF DeliveryCallback, StoreInv, StoreType
<1>7. MayBecome(m.id, r)
  BY <1>1, <1>4, <1>5, <1>6
     DEF MayBecome, StoreInv, NoUnapprovedContent, ResolvedHoldHasNoOpenReview
<1> QED
  BY <1>1, <1>3, <1>6, <1>7, OneRowChanges

\* Prism posts what it has a job for.
LEMMA PrismKeeps ==
    ASSUME StoreInv, NEW a \in Actions, NEW j \in jobs[a], PrismRuns(a, j)
    PROVE  StoreInv' /\ inbox' = inbox
<1>1. UNCHANGED <<inbox, decisions, jobs, committed, dlq, used>>
  BY DEF PrismRuns
<1>2. j.id \in Actions \cup {None}
  BY DEF StoreInv, StoreType, JobType
<1>3. posted' \subseteq posted \cup {a}
  BY DEF PrismRuns
<1>4. callbacks' \subseteq [id : Actions \cup {None}, state : {"ACTIVE", "DELIVERY_FAILED"}]
  BY <1>2 DEF PrismRuns, StoreInv, StoreType
<1>5. jobs[a] # {}
  OBVIOUS
<1> QED
  BY <1>1, <1>3, <1>4, <1>5
     DEF StoreInv, StoreType, HeldWasHold, AbsentIsEmpty, PostedHasJob, ExactlyOnceEffects,
         NoUnapprovedContent, ResolvedHoldHasNoOpenReview

-----------------------------------------------------------------------------
(* The workers. *)

\* Decisions are never taken back and dead letters never removed.
Grows ==
    /\ \A a \in Actions : inbox[a].state # "ABSENT" => inbox'[a].state # "ABSENT"
    /\ dlq \subseteq dlq'

\* What a worker may do next.
Allowed(n) ==
    /\ n \in WorkerType
    /\ n.pc # "idle" => n.action \in Actions
    /\ n.pc = "persist" => n.result \in Results
    /\ n.pc \in {"shadow", "finish"} => inbox'[n.action].state # "ABSENT" \/ n.action \in dlq'

\* A step of one worker keeps what is known of all, and acknowledges only what was
\* decided or dead-lettered.
LEMMA WorkerMoves ==
    ASSUME StoreInv, WorkInv, Grows, faults' \in Nat, NEW w \in Workers, NEW n,
           worker' = [worker EXCEPT ![w] = n], Allowed(n),
           \A a \in committed' :
              a \in committed \/ (a \in Actions /\ (inbox'[a].state # "ABSENT" \/ a \in dlq'))
    PROVE  WorkInv'
<1>1. /\ worker' \in [Workers -> WorkerType] /\ worker'[w] = n
      /\ \A v \in Workers \ {w} : worker'[v] = worker[v]
  BY DEF WorkInv, Allowed
<1>2. WorkerShape'
  BY <1>1 DEF WorkInv, WorkerShape, Grows, Allowed
<1>3. NoSilentLoss'
  BY DEF WorkInv, NoSilentLoss, Grows, StoreInv, StoreType
<1> QED
  BY <1>1, <1>2, <1>3 DEF WorkInv

\* A step of somebody else.
LEMMA WorkersRest ==
    ASSUME StoreInv, WorkInv, Grows, UNCHANGED <<worker, committed, faults>>
    PROVE  WorkInv'
BY DEF WorkInv, WorkerShape, NoSilentLoss, Grows, StoreInv, StoreType

\* A worker that goes on with the same record.
LEMMA GotoAllowed ==
    ASSUME StoreInv, WorkInv, NEW w \in Workers, ~At(w, "idle"),
           NEW pc \in {"shadow", "finish"}, Goto(w, pc),
           inbox'[worker[w].action].state # "ABSENT" \/ worker[w].action \in dlq'
    PROVE  \E n : worker' = [worker EXCEPT ![w] = n] /\ Allowed(n)
<1>1. PICK n : n = [worker[w] EXCEPT !.pc = pc]
  OBVIOUS
<1>2. worker[w] \in WorkerType /\ worker[w].action \in Actions
  BY DEF WorkInv, WorkerShape, At
<1>3. n \in WorkerType /\ n.pc = pc /\ n.action = worker[w].action
  BY <1>1, <1>2 DEF WorkerType
<1> QED
  BY <1>1, <1>2, <1>3 DEF Goto, Allowed

\* A failed attempt leaves the record to its next attempt or to the dead letters.
LEMMA FailedAllowed ==
    ASSUME WorkInv, NEW w \in Workers, ~At(w, "idle")
    PROVE  /\ Failed(w) \in WorkerType
           /\ Failed(w).pc \in {"idle", "evaluate", "deadletter"}
           /\ Failed(w).pc # "idle" => Failed(w).action \in Actions
<1>1. worker[w] \in WorkerType /\ worker[w].action \in Actions
  BY DEF WorkInv, WorkerShape, At
<1>2. /\ worker[w].tries \in 0 .. MaxTries
      /\ worker[w].tries < MaxTries => worker[w].tries + 1 \in 0 .. MaxTries
  BY <1>1 DEF WorkerType
<1> QED
  BY <1>1, <1>2 DEF Failed, Free, WorkerType

\* One attempt fails, whatever became of the transaction.
LEMMA FailKeeps ==
    ASSUME StoreInv, WorkInv, NEW w \in Workers, ~At(w, "idle"), Fail(w), Grows,
           committed' = committed
    PROVE  WorkInv'
<1>1. PICK n : n = Failed(w)
  OBVIOUS
<1>2. worker' = [worker EXCEPT ![w] = n] /\ faults' \in Nat
  BY <1>1 DEF Fail, WorkInv
<1>3. Allowed(n)
  BY <1>1, FailedAllowed DEF Allowed
<1> QED
  BY <1>2, <1>3, WorkerMoves

\* The store and the topics stay as they are.
LEMMA StoreRests ==
    ASSUME StoreInv, UNCHANGED store
    PROVE  StoreInv' /\ Grows /\ committed' = committed
BY DEF store, Grows, StoreInv, StoreType, HeldWasHold, AbsentIsEmpty, PostedHasJob,
       ExactlyOnceEffects, NoUnapprovedContent, ResolvedHoldHasNoOpenReview

\* Nobody holds anything when a worker is free.
LEMMA FreeAllowed == Allowed(Free)
BY DEF Allowed, Free, WorkerType

\* A worker gets a record.
LEMMA ReceiveKeeps ==
    ASSUME PipelineInv, NEW w \in Workers, NEW a \in Actions, Receive(w, a)
    PROVE  PipelineInv'
<1>1. PICK n : n = [pc |-> IF a \in Malformed THEN "deadletter" ELSE "evaluate",
                    action |-> a, tries |-> 1, result |-> None]
  OBVIOUS
<1>2. worker' = [worker EXCEPT ![w] = n] /\ Allowed(n)
  BY <1>1 DEF Receive, Allowed, WorkerType
<1>3. faults' \in Nat /\ StoreInv' /\ Grows /\ committed' = committed
  BY StoreRests DEF Receive, PipelineInv, WorkInv
<1> QED
  BY <1>2, <1>3, WorkerMoves DEF PipelineInv

\* An evaluation ends with some result.
LEMMA EvaluateKeeps ==
    ASSUME PipelineInv, NEW w \in Workers, Evaluate(w)
    PROVE  PipelineInv'
<1>1. worker[w] \in WorkerType /\ worker[w].action \in Actions
  BY DEF PipelineInv, WorkInv, WorkerShape, Evaluate, At
<1>2. PICK r \in Results :
         worker' = [worker EXCEPT ![w] = [pc |-> "persist", action |-> worker[w].action,
                                          tries |-> worker[w].tries, result |-> r]]
  BY DEF Evaluate
<1>3. PICK n : n = [pc |-> "persist", action |-> worker[w].action,
                    tries |-> worker[w].tries, result |-> r]
  OBVIOUS
<1>4. worker' = [worker EXCEPT ![w] = n] /\ Allowed(n)
  BY <1>1, <1>2, <1>3 DEF Allowed, WorkerType
<1>5. faults' \in Nat /\ StoreInv' /\ Grows /\ committed' = committed
  BY StoreRests DEF Evaluate, PipelineInv, WorkInv
<1> QED
  BY <1>4, <1>5, WorkerMoves DEF PipelineInv

\* A failure without a transaction.
LEMMA FailsKeeps ==
    ASSUME PipelineInv, NEW w \in Workers, EvaluateFails(w) \/ ShadowFails(w)
    PROVE  PipelineInv'
<1>1. ~At(w, "idle") /\ Fail(w) /\ UNCHANGED store
  BY DEF EvaluateFails, ShadowFails, At
<1> QED
  BY <1>1, StoreRests, FailKeeps DEF PipelineInv

\* The transaction that stores a decision, or that finds one.
LEMMA PersistKeeps ==
    ASSUME PipelineInv, NEW w \in Workers, Persist(w) \/ PersistDuplicate(w)
    PROVE  PipelineInv'
<1>1. /\ ~At(w, "idle") /\ worker[w].action \in Actions /\ worker[w].result \in Results
      /\ faults' \in Nat /\ committed' = committed /\ dlq' = dlq
  BY DEF PipelineInv, WorkInv, WorkerShape, Persist, PersistDuplicate, At, store
<1>2. PICK pc \in {"shadow", "finish"} : Goto(w, pc)
  BY DEF Persist, PersistDuplicate
<1>3. StoreInv' /\ Grows /\ inbox'[worker[w].action].state # "ABSENT"
  <2>1. CASE Persist(w)
    BY <1>1, <2>1, ApplyKeeps DEF Persist, PipelineInv, Grows
  <2>2. CASE PersistDuplicate(w)
    BY <2>2, StoreRests DEF PersistDuplicate, PipelineInv, store
  <2> QED
    BY <2>1, <2>2
<1>4. PICK n : worker' = [worker EXCEPT ![w] = n] /\ Allowed(n)
  BY <1>1, <1>2, <1>3, GotoAllowed DEF PipelineInv
<1> QED
  BY <1>1, <1>3, <1>4, WorkerMoves DEF PipelineInv

\* The database fails the transaction, before or after its commit.
LEMMA PersistFailsKeeps ==
    ASSUME PipelineInv, NEW w \in Workers, PersistFails(w)
    PROVE  PipelineInv'
<1>1. /\ ~At(w, "idle") /\ worker[w].action \in Actions /\ worker[w].result \in Results
      /\ Fail(w) /\ UNCHANGED <<posted, callbacks, committed, dlq, used>>
  BY DEF PipelineInv, WorkInv, WorkerShape, PersistFails, At
<1>2. StoreInv' /\ Grows
  <2>1. CASE UNCHANGED <<inbox, decisions, jobs>>
    BY <1>1, <2>1, StoreRests DEF store, PipelineInv
  <2>2. CASE Apply(worker[w].action, worker[w].result)
    BY <1>1, <2>2, ApplyKeeps DEF PipelineInv, Grows
  <2> QED
    BY <2>1, <2>2 DEF PersistFails
<1> QED
  BY <1>1, <1>2, FailKeeps DEF PipelineInv

\* After the decision: the shadow policies.
LEMMA ShadowKeeps ==
    ASSUME PipelineInv, NEW w \in Workers, Shadow(w)
    PROVE  PipelineInv'
<1>1. ~At(w, "idle") /\ Goto(w, "finish") /\ UNCHANGED store /\ faults' \in Nat
  BY DEF Shadow, At, PipelineInv, WorkInv
<1>2. StoreInv' /\ Grows /\ committed' = committed
  BY <1>1, StoreRests DEF PipelineInv
<1>3. inbox'[worker[w].action].state # "ABSENT" \/ worker[w].action \in dlq'
  BY <1>1 DEF Shadow, At, PipelineInv, WorkInv, WorkerShape, store
<1>4. PICK n : worker' = [worker EXCEPT ![w] = n] /\ Allowed(n)
  BY <1>1, <1>3, GotoAllowed DEF PipelineInv
<1> QED
  BY <1>1, <1>2, <1>4, WorkerMoves DEF PipelineInv

\* Every attempt has failed.
LEMMA DeadLetterKeeps ==
    ASSUME PipelineInv, NEW w \in Workers, DeadLetter(w)
    PROVE  PipelineInv'
<1>1. /\ ~At(w, "idle") /\ worker[w].action \in Actions /\ Goto(w, "finish")
      /\ faults' \in Nat /\ dlq' = dlq \cup {worker[w].action}
      /\ UNCHANGED <<inbox, decisions, jobs, posted, callbacks, committed, used>>
  BY DEF DeadLetter, At, PipelineInv, WorkInv, WorkerShape
<1>2. StoreInv' /\ Grows
  <2>1. dlq' \subseteq Actions
    BY <1>1 DEF PipelineInv, StoreInv, StoreType
  <2> QED
    BY <1>1, <2>1 DEF Grows, PipelineInv, StoreInv, StoreType, HeldWasHold, AbsentIsEmpty,
       PostedHasJob, ExactlyOnceEffects, NoUnapprovedContent, ResolvedHoldHasNoOpenReview
<1>3. PICK n : worker' = [worker EXCEPT ![w] = n] /\ Allowed(n)
  BY <1>1, GotoAllowed DEF PipelineInv
<1> QED
  BY <1>1, <1>2, <1>3, WorkerMoves DEF PipelineInv

\* The offset is committed.
LEMMA FinishKeeps ==
    ASSUME PipelineInv, NEW w \in Workers, Finish(w)
    PROVE  PipelineInv'
<1>1. /\ worker[w].action \in Actions /\ faults' \in Nat
      /\ committed' = committed \cup ({worker[w].action} \ RpcActions)
      /\ worker' = [worker EXCEPT ![w] = Free]
      /\ UNCHANGED <<inbox, decisions, jobs, posted, callbacks, dlq, used>>
      /\ inbox[worker[w].action].state # "ABSENT" \/ worker[w].action \in dlq
  BY DEF Finish, At, PipelineInv, WorkInv, WorkerShape
<1>2. StoreInv' /\ Grows
  <2>1. committed' \subseteq Actions
    BY <1>1 DEF PipelineInv, StoreInv, StoreType
  <2> QED
    BY <1>1, <2>1 DEF Grows, PipelineInv, StoreInv, StoreType, HeldWasHold, AbsentIsEmpty,
       PostedHasJob, ExactlyOnceEffects, NoUnapprovedContent, ResolvedHoldHasNoOpenReview
<1>3. \A a \in committed' :
         a \in committed \/ (a \in Actions /\ (inbox'[a].state # "ABSENT" \/ a \in dlq'))
  BY <1>1
<1> QED
  BY <1>1, <1>2, <1>3, FreeAllowed, WorkerMoves DEF PipelineInv

\* A process stops, whatever its worker was doing.
LEMMA CrashKeeps ==
    ASSUME PipelineInv, NEW w \in Workers, Crash(w)
    PROVE  PipelineInv'
<1>1. worker' = [worker EXCEPT ![w] = Free] /\ faults' \in Nat /\ UNCHANGED store
  BY DEF Crash, PipelineInv, WorkInv
<1> QED
  BY <1>1, StoreRests, FreeAllowed, WorkerMoves DEF PipelineInv

\* Reviewers, the expiry worker, time, Prism and its callbacks.
LEMMA OthersKeep ==
    ASSUME PipelineInv,
           \/ \E k \in Requests, a \in Actions : ReviewerActs(k, a)
           \/ \E a \in Actions : HoldElapses(a)
           \/ \E batch \in SUBSET Actions : ExpireDueHeldActions(batch)
           \/ \E a \in Actions : \E j \in jobs[a] : PrismRuns(a, j)
           \/ \E m \in callbacks : DeliveryCallback(m)
    PROVE  PipelineInv'
<1> DEFINE Kept == StoreInv' /\ Grows /\ UNCHANGED <<worker, committed, faults>>
<1>1. ASSUME NEW k \in Requests, NEW a \in Actions, ReviewerActs(k, a)
      PROVE  Kept
  <2>1. ASSUME NEW expected, Approve(k, a, expected) \/ Reject(k, a, expected)
                                \/ Expire(k, a, expected)
        PROVE  Kept
    BY <2>1, AdjudicationKeeps DEF PipelineInv, Approve, Reject, Expire, Grows
  <2>2. CASE ResolveReviewItem(k, a)
    BY <2>2, ReviewItemKeeps DEF PipelineInv, ResolveReviewItem, Grows
  <2> QED
    BY <1>1, <2>1, <2>2 DEF ReviewerActs
<1>2. ASSUME NEW a \in Actions, HoldElapses(a)
      PROVE  Kept
  BY <1>2, ElapseKeeps DEF PipelineInv, HoldElapses, Grows
<1>3. ASSUME NEW batch \in SUBSET Actions, ExpireDueHeldActions(batch)
      PROVE  Kept
  BY <1>3, ExpiryKeeps DEF PipelineInv, ExpireDueHeldActions, Grows
<1>4. ASSUME NEW a \in Actions, NEW j \in jobs[a], PrismRuns(a, j)
      PROVE  Kept
  BY <1>4, PrismKeeps DEF PipelineInv, PrismRuns, Grows
<1>5. ASSUME NEW m \in callbacks, DeliveryCallback(m)
      PROVE  Kept
  BY <1>5, CallbackKeeps DEF PipelineInv, DeliveryCallback, Grows
<1>6. Kept
  BY <1>1, <1>2, <1>3, <1>4, <1>5
<1> QED
  BY <1>6, WorkersRest DEF PipelineInv

-----------------------------------------------------------------------------
(* The theorems. *)

\* Nothing has happened yet.
LEMMA PipelineInit == ASSUME Init PROVE PipelineInv
<1>1. Absent \in InboxType /\ Absent.state = "ABSENT" /\ Absent.review = "none"
      /\ Absent.decision = "NONE"
  BY DEF Absent, InboxType, States
<1>2. Free \in WorkerType /\ Free.pc = "idle"
  BY DEF Free, WorkerType
<1>3. StoreInv
  BY <1>1 DEF Init, StoreInv, StoreType, HeldWasHold, AbsentIsEmpty, PostedHasJob,
     ExactlyOnceEffects, NoUnapprovedContent, ResolvedHoldHasNoOpenReview
<1>4. WorkInv
  BY <1>2 DEF Init, WorkInv, WorkerShape, NoSilentLoss
<1> QED
  BY <1>3, <1>4 DEF PipelineInv

\* Every step keeps the invariant.
LEMMA PipelineStep == ASSUME PipelineInv, [Next]_vars PROVE PipelineInv'
<1>1. ASSUME NEW w \in Workers, NEW a \in Actions, Receive(w, a) PROVE PipelineInv'
  BY <1>1, ReceiveKeeps
<1>2. ASSUME NEW w \in Workers, WorkerSteps(w) PROVE PipelineInv'
  BY <1>2, EvaluateKeeps, PersistKeeps, ShadowKeeps, DeadLetterKeeps, FinishKeeps
     DEF WorkerSteps
<1>3. ASSUME NEW w \in Workers, WorkerFails(w) PROVE PipelineInv'
  BY <1>3, FailsKeeps, PersistFailsKeeps, CrashKeeps DEF WorkerFails
<1>4. CASE UNCHANGED vars
  <2>1. UNCHANGED store /\ UNCHANGED <<worker, faults, committed>>
    BY <1>4 DEF vars, store
  <2> QED
    BY <2>1, StoreRests, WorkersRest DEF PipelineInv
<1> QED
  BY <1>1, <1>2, <1>3, <1>4, OthersKeep DEF Next

\* The inductive invariant holds for any number of actions, workers, reviewers,
\* results and faults.
THEOREM PipelineInvariant == Spec => []PipelineInv
BY PipelineInit, PipelineStep, PTL DEF Spec

\* Every variable keeps its type.
THEOREM PipelineTypes == Spec => []TypeOK
<1>1. PipelineInv => TypeOK
  BY DEF PipelineInv, StoreInv, StoreType, WorkInv, TypeOK
<1> QED
  BY <1>1, PipelineInvariant, PTL

\* persist_and_apply under redelivery, retries, dead-letter replays and lost answers:
\* one DECISION row per stored decision, none without, and at most one Prism job.
THEOREM EffectsOnce == Spec => []ExactlyOnceEffects
<1>1. PipelineInv => ExactlyOnceEffects
  BY DEF PipelineInv, StoreInv
<1> QED
  BY <1>1, PipelineInvariant, PTL

\* Prism gets a job, and posts, only for content that policy or a reviewer approved and
\* that is not blocked, held or expired, whatever the callbacks correlate to.
THEOREM NothingUnapproved == Spec => []NoUnapprovedContent
<1>1. PipelineInv => NoUnapprovedContent
  BY DEF PipelineInv, StoreInv
<1> QED
  BY <1>1, PipelineInvariant, PTL

\* Adjudication and the expiry worker leave no review item of a resolved hold open.
THEOREM NoOpenReview == Spec => []ResolvedHoldHasNoOpenReview
<1>1. PipelineInv => ResolvedHoldHasNoOpenReview
  BY DEF PipelineInv, StoreInv
<1> QED
  BY <1>1, PipelineInvariant, PTL

\* An offset is committed only for a record that was decided or dead-lettered.
THEOREM NothingLost == Spec => []NoSilentLoss
<1>1. PipelineInv => NoSilentLoss
  BY DEF PipelineInv, WorkInv
<1> QED
  BY <1>1, PipelineInvariant, PTL

-----------------------------------------------------------------------------
(* Refinement of MessageLifecycle. *)

\* What the theorem needs of the producers: a payload carries its own action's id,
\* or none.  CallbacksCorrelate shows that the code does not see to it.
OwnIds == \A a \in Actions : ProducerId[a] \in {a, None}

\* Jobs and callbacks speak of the action they were written for, and a callback
\* reports a success only after one.
Correlated ==
    /\ \A a \in Actions : \A j \in jobs[a] : j.id \in {a, None}
    /\ \A m \in callbacks : m.state = "ACTIVE" /\ m.id # None => m.id \in posted

\* A transaction that leaves Prism's topics alone and writes at most one job.
LEMMA CorrelatedWithJob ==
    ASSUME StoreInv, Correlated, UNCHANGED <<posted, callbacks>>, NEW a \in Actions,
           NEW new, \A j \in new : j.id \in {a, None},
           jobs' = [jobs EXCEPT ![a] = @ \cup new]
    PROVE  Correlated'
<1>1. jobs'[a] = jobs[a] \cup new /\ \A b \in Actions \ {a} : jobs'[b] = jobs[b]
  BY DEF StoreInv, StoreType
<1> QED
  BY <1>1 DEF Correlated

\* persist_and_apply writes Polarizer's own id into the job.
LEMMA ApplyCorrelates ==
    ASSUME StoreInv, Correlated, UNCHANGED <<posted, callbacks>>, NEW a \in Actions,
           NEW r, Apply(a, r)
    PROVE  Correlated'
<1> DEFINE new == IF ApprovedPayload(a, r) THEN {[id |-> a, version |-> 1]} ELSE {}
<1>1. jobs' = [jobs EXCEPT ![a] = @ \cup new]
  BY DEF Apply
<1>2. \A j \in new : j.id \in {a, None}
  OBVIOUS
<1> HIDE DEF new
<1> QED
  BY <1>1, <1>2, CorrelatedWithJob

\* An approval leaves the producer's id in the job.
LEMMA ApproveCorrelates ==
    ASSUME OwnIds, StoreInv, Correlated, NEW k, NEW a \in Actions, NEW expected,
           Approve(k, a, expected)
    PROVE  Correlated'
<1> DEFINE new == IF a \in WithPayload
                  THEN {[id |-> ProducerId[a], version |-> inbox[a].version + 1]} ELSE {}
<1>1. jobs' = [jobs EXCEPT ![a] = @ \cup new] /\ UNCHANGED <<posted, callbacks>>
  BY DEF Approve
<1>2. \A j \in new : j.id \in {a, None}
  BY DEF OwnIds
<1> HIDE DEF new
<1> QED
  BY <1>1, <1>2, CorrelatedWithJob

\* Prism reports under the job's id, and a success after it.
LEMMA PrismCorrelates ==
    ASSUME Correlated, NEW a \in Actions, NEW j \in jobs[a], PrismRuns(a, j)
    PROVE  Correlated'
<1>1. j.id \in {a, None} /\ jobs' = jobs /\ posted \subseteq posted'
  BY DEF Correlated, PrismRuns
<1>2. PICK s \in {"ACTIVE", "DELIVERY_FAILED"} :
         /\ callbacks' = callbacks \cup {[id |-> j.id, state |-> s]}
         /\ s = "ACTIVE" => a \in posted'
  BY DEF PrismRuns
<1> QED
  BY <1>1, <1>2 DEF Correlated

\* Every step keeps jobs and callbacks with their actions.
LEMMA CorrelatedStep ==
    ASSUME OwnIds, PipelineInv, Correlated, [Next]_vars
    PROVE  Correlated'
<1>1. CASE UNCHANGED <<jobs, posted, callbacks>>
  BY <1>1 DEF Correlated
<1>2. ASSUME NEW w \in Workers, NEW a \in Actions, Receive(w, a) PROVE Correlated'
  BY <1>1, <1>2 DEF Receive, store
<1>3. ASSUME NEW w \in Workers, WorkerSteps(w) \/ WorkerFails(w) PROVE Correlated'
  <2>1. CASE Persist(w) \/ PersistFails(w)
    <3>1. worker[w].action \in Actions /\ UNCHANGED <<posted, callbacks>>
      BY <2>1 DEF PipelineInv, WorkInv, WorkerShape, Persist, PersistFails, At
    <3>2. Apply(worker[w].action, worker[w].result) \/ UNCHANGED jobs
      BY <2>1 DEF Persist, PersistFails
    <3> QED
      BY <1>1, <3>1, <3>2, ApplyCorrelates DEF PipelineInv
  <2>2. CASE ~(Persist(w) \/ PersistFails(w))
    BY <1>1, <1>3, <2>2 DEF WorkerSteps, WorkerFails, Evaluate, PersistDuplicate, Shadow,
       DeadLetter, Finish, EvaluateFails, ShadowFails, Crash, store
  <2> QED
    BY <2>1, <2>2
<1>4. ASSUME NEW k \in Requests, NEW a \in Actions, ReviewerActs(k, a) PROVE Correlated'
  <2>1. ASSUME NEW expected, Approve(k, a, expected) PROVE Correlated'
    BY <2>1, ApproveCorrelates DEF PipelineInv
  <2>2. ASSUME NEW expected, Reject(k, a, expected) \/ Expire(k, a, expected)
        PROVE  Correlated'
    BY <1>1, <2>2 DEF Reject, Expire
  <2>3. CASE ResolveReviewItem(k, a)
    BY <1>1, <2>3 DEF ResolveReviewItem
  <2> QED
    BY <1>4, <2>1, <2>2, <2>3 DEF ReviewerActs
<1>5. ASSUME NEW a \in Actions, HoldElapses(a) PROVE Correlated'
  BY <1>1, <1>5 DEF HoldElapses
<1>6. ASSUME NEW batch \in SUBSET Actions, ExpireDueHeldActions(batch) PROVE Correlated'
  BY <1>1, <1>6 DEF ExpireDueHeldActions
<1>7. ASSUME NEW a \in Actions, NEW j \in jobs[a], PrismRuns(a, j) PROVE Correlated'
  BY <1>7, PrismCorrelates
<1>8. ASSUME NEW m \in callbacks, DeliveryCallback(m) PROVE Correlated'
  BY <1>1, <1>8 DEF DeliveryCallback
<1>9. CASE UNCHANGED vars
  BY <1>1, <1>9 DEF vars
<1> QED
  BY <1>2, <1>3, <1>4, <1>5, <1>6, <1>7, <1>8, <1>9 DEF Next

\* One row changes: one action moves.
LEMMA StateMoves ==
    ASSUME StoreInv, NEW a \in Actions, NEW r, inbox' = [inbox EXCEPT ![a] = r],
           r.state # "ABSENT"
    PROVE  stateOf' = [stateOf EXCEPT ![a] = r.state]
<1>1. inbox'[a] = r /\ \A b \in Actions \ {a} : inbox'[b] = inbox[b]
  BY DEF StoreInv, StoreType
<1>2. \A b \in Actions : stateOf'[b] = IF b = a THEN r.state ELSE stateOf[b]
  BY <1>1 DEF stateOf
<1>3. stateOf = [b \in Actions |-> stateOf[b]] /\ stateOf' = [b \in Actions |-> stateOf'[b]]
  BY DEF stateOf
<1> QED
  BY <1>2, <1>3

\* A stored decision moderates the action.
LEMMA ApplyModerates ==
    ASSUME StoreInv, NEW a \in Actions, NEW r \in Results, Apply(a, r), posted' = posted
    PROVE  Lifecycle!Moderate(a)
<1>1. PICK n : n = Decided(a, r)
  OBVIOUS
<1>2. inbox' = [inbox EXCEPT ![a] = n] /\ stateOf[a] = "PENDING_MODERATION"
  BY <1>1 DEF Apply, stateOf
<1>3. n.state \in {"BLOCKED", "HELD", "APPROVED_PENDING_DELIVERY", "ACTIVE"}
  BY <1>1 DEF Decided, StateFor
<1>4. stateOf' = [stateOf EXCEPT ![a] = n.state]
  BY <1>2, <1>3, StateMoves
<1> QED
  BY <1>2, <1>3, <1>4 DEF Lifecycle!Moderate, Lifecycle!Move

\* A reviewer resolves a hold.
LEMMA AdjudicationMoves ==
    ASSUME StoreInv, NEW k, NEW a \in Actions, NEW expected,
           Approve(k, a, expected) \/ Reject(k, a, expected) \/ Expire(k, a, expected)
    PROVE  Lifecycle!Adjudicated(a)
<1>1. PICK to \in {"APPROVED_PENDING_DELIVERY", "BLOCKED", "EXPIRED"},
          review \in {"RESOLVED", "DISMISSED"}, approver \in {"nobody", "reviewer"} :
         inbox' = [inbox EXCEPT ![a] = Resolved(@, to, review, approver)]
  BY DEF Approve, Reject, Expire
<1>2. PICK n : n = Resolved(inbox[a], to, review, approver)
  OBVIOUS
<1>3. inbox' = [inbox EXCEPT ![a] = n] /\ n.state = to /\ posted' = posted
  BY <1>1, <1>2 DEF Resolved, Approve, Reject, Expire
<1>4. stateOf[a] = "HELD"
  BY DEF Approve, Reject, Expire, Adjudicate, stateOf
<1>5. stateOf' = [stateOf EXCEPT ![a] = to]
  BY <1>3, StateMoves
<1> QED
  BY <1>3, <1>4, <1>5 DEF Lifecycle!Adjudicated, Lifecycle!Move

\* The expiry worker ends a batch of holds.
LEMMA ExpiryLapses ==
    ASSUME StoreInv, NEW batch \in SUBSET Actions, ExpireDueHeldActions(batch)
    PROVE  Lifecycle!Lapse(batch)
<1>1. \A a \in batch : stateOf[a] = "HELD"
  BY DEF ExpireDueHeldActions, Due, stateOf
<1>2. \A a \in Actions : inbox'[a] =
         IF a \in batch THEN Resolved(inbox[a], "EXPIRED", "RESOLVED", "nobody") ELSE inbox[a]
  BY DEF ExpireDueHeldActions
<1>3. \A a \in Actions : inbox'[a].state = IF a \in batch THEN "EXPIRED" ELSE inbox[a].state
  <2>1. \A r : Resolved(r, "EXPIRED", "RESOLVED", "nobody").state = "EXPIRED"
    BY DEF Resolved
  <2> QED
    BY <1>2, <2>1
<1>4. stateOf' = [a \in Actions |-> IF a \in batch THEN "EXPIRED" ELSE stateOf[a]]
  BY <1>3 DEF stateOf
<1> QED
  BY <1>1, <1>4 DEF Lifecycle!Lapse, ExpireDueHeldActions

\* Prism posts only what is approved.
LEMMA PrismDelivers ==
    ASSUME StoreInv, NEW a \in Actions, NEW j \in jobs[a], PrismRuns(a, j)
    PROVE  Lifecycle!Deliver(a) \/ UNCHANGED Lifecycle!lifecycleVars
<1>1. stateOf' = stateOf
  BY DEF PrismRuns, stateOf
<1>2. inbox[a].state \in {"APPROVED_PENDING_DELIVERY", "ACTIVE", "DELIVERY_FAILED"}
  BY DEF StoreInv, NoUnapprovedContent
<1>3. stateOf[a] \in {"APPROVED_PENDING_DELIVERY", "DELIVERY_FAILED", "ACTIVE"}
  BY <1>2 DEF stateOf
<1> QED
  BY <1>1, <1>3 DEF PrismRuns, Lifecycle!Deliver, Lifecycle!lifecycleVars

\* A callback ends the wait of an action, with a success only after one.
LEMMA CallbackMoves ==
    ASSUME StoreInv, Correlated, NEW m \in callbacks, DeliveryCallback(m)
    PROVE  Lifecycle!Succeed(m.id) \/ Lifecycle!Fail(m.id)
<1>1. m.id \in Actions /\ m.state \in {"ACTIVE", "DELIVERY_FAILED"} /\ posted' = posted
  BY DEF DeliveryCallback, StoreInv, StoreType
<1>2. PICK r : r = [inbox[m.id] EXCEPT !.state = m.state]
  OBVIOUS
<1>3. inbox[m.id] \in InboxType
  BY <1>1 DEF StoreInv, StoreType
<1>4. inbox' = [inbox EXCEPT ![m.id] = r] /\ r.state = m.state
  BY <1>2, <1>3 DEF DeliveryCallback, InboxType
<1>5. stateOf' = [stateOf EXCEPT ![m.id] = m.state]
  BY <1>1, <1>4, StateMoves
<1>6. \/ stateOf[m.id] = "APPROVED_PENDING_DELIVERY"
      \/ m.state = "ACTIVE" /\ stateOf[m.id] = "DELIVERY_FAILED"
  BY <1>1 DEF DeliveryCallback, stateOf
<1>7. m.state = "ACTIVE" => m.id \in posted
  BY DEF Correlated, DeliveryCallback
<1> QED
  BY <1>1, <1>5, <1>6, <1>7 DEF Lifecycle!Succeed, Lifecycle!Fail, Lifecycle!Move

\* Every step is a step of the lifecycle or changes nothing it sees.
LEMMA LifecycleStep ==
    ASSUME PipelineInv, Correlated, [Next]_vars
    PROVE  [Lifecycle!LifecycleNext]_(Lifecycle!lifecycleVars)
<1> DEFINE Step == [Lifecycle!LifecycleNext]_(Lifecycle!lifecycleVars)
<1> SUFFICES Step
  OBVIOUS
<1>0. CASE UNCHANGED <<stateOf, posted>>
  BY <1>0 DEF Lifecycle!lifecycleVars
<1>1. CASE UNCHANGED <<inbox, posted>>
  BY <1>1, <1>0 DEF stateOf
<1>2. ASSUME NEW a \in Actions,
             \/ Lifecycle!Moderate(a) \/ Lifecycle!Adjudicated(a) \/ Lifecycle!Deliver(a)
             \/ Lifecycle!Succeed(a) \/ Lifecycle!Fail(a)
      PROVE  Step
  BY <1>2 DEF Lifecycle!LifecycleNext
<1>3. ASSUME NEW batch \in SUBSET Actions, Lifecycle!Lapse(batch) PROVE Step
  BY <1>3 DEF Lifecycle!LifecycleNext
<1>4. CASE UNCHANGED Lifecycle!lifecycleVars
  BY <1>4
<1> HIDE DEF Step
<1>5. ASSUME NEW w \in Workers, NEW a \in Actions, Receive(w, a) PROVE Step
  BY <1>1, <1>5 DEF Receive, store
<1>6. ASSUME NEW w \in Workers, WorkerSteps(w) \/ WorkerFails(w) PROVE Step
  <2>1. CASE Persist(w) \/ PersistFails(w)
    <3>1. worker[w].action \in Actions /\ worker[w].result \in Results /\ posted' = posted
      BY <2>1 DEF PipelineInv, WorkInv, WorkerShape, Persist, PersistFails, At
    <3>2. Apply(worker[w].action, worker[w].result) \/ UNCHANGED inbox
      BY <2>1 DEF Persist, PersistFails
    <3> QED
      BY <1>1, <1>2, <3>1, <3>2, ApplyModerates DEF PipelineInv
  <2>2. CASE ~(Persist(w) \/ PersistFails(w))
    BY <1>1, <1>6, <2>2 DEF WorkerSteps, WorkerFails, Evaluate, PersistDuplicate, Shadow,
       DeadLetter, Finish, EvaluateFails, ShadowFails, Crash, store
  <2> QED
    BY <2>1, <2>2
<1>7. ASSUME NEW k \in Requests, NEW a \in Actions, ReviewerActs(k, a) PROVE Step
  <2>1. ASSUME NEW expected, Approve(k, a, expected) \/ Reject(k, a, expected)
                                \/ Expire(k, a, expected)
        PROVE  Step
    BY <1>2, <2>1, AdjudicationMoves DEF PipelineInv
  <2>2. CASE ResolveReviewItem(k, a)
    <3>1. PICK to : inbox' = [inbox EXCEPT ![a].review = to]
      BY <2>2 DEF ResolveReviewItem
    <3>2. PICK r : r = [inbox[a] EXCEPT !.review = to]
      OBVIOUS
    <3>3. inbox' = [inbox EXCEPT ![a] = r]
      BY <3>1, <3>2
    <3>4. inbox \in [Actions -> InboxType] /\ inbox[a] \in InboxType
      BY DEF PipelineInv, StoreInv, StoreType
    <3>5. r.state = inbox[a].state
      BY <3>2, <3>4 DEF InboxType
    <3>6. \A b \in Actions : inbox'[b].state = inbox[b].state
      BY <3>3, <3>4, <3>5
    <3> QED
      BY <1>0, <2>2, <3>6 DEF stateOf, ResolveReviewItem
  <2> QED
    BY <1>7, <2>1, <2>2 DEF ReviewerActs
<1>8. ASSUME NEW a \in Actions, HoldElapses(a) PROVE Step
  <2>1. PICK r : r = [inbox[a] EXCEPT !.hold = "elapsed"]
    OBVIOUS
  <2>2. inbox' = [inbox EXCEPT ![a] = r]
    BY <1>8, <2>1 DEF HoldElapses
  <2>3. inbox \in [Actions -> InboxType] /\ inbox[a] \in InboxType
    BY DEF PipelineInv, StoreInv, StoreType
  <2>4. r.state = inbox[a].state
    BY <2>1, <2>3 DEF InboxType
  <2>5. \A b \in Actions : inbox'[b].state = inbox[b].state
    BY <2>2, <2>3, <2>4
  <2> QED
    BY <1>0, <1>8, <2>5 DEF stateOf, HoldElapses
<1>9. ASSUME NEW batch \in SUBSET Actions, ExpireDueHeldActions(batch) PROVE Step
  BY <1>3, <1>9, ExpiryLapses DEF PipelineInv
<1>10. ASSUME NEW a \in Actions, NEW j \in jobs[a], PrismRuns(a, j) PROVE Step
  BY <1>2, <1>4, <1>10, PrismDelivers DEF PipelineInv
<1>11. ASSUME NEW m \in callbacks, DeliveryCallback(m) PROVE Step
  <2>1. m.id \in Actions
    BY <1>11 DEF DeliveryCallback, PipelineInv, StoreInv, StoreType
  <2> QED
    BY <1>2, <1>11, <2>1, CallbackMoves DEF PipelineInv
<1>12. CASE UNCHANGED vars
  BY <1>1, <1>12 DEF vars
<1> QED
  BY <1>5, <1>6, <1>7, <1>8, <1>9, <1>10, <1>11, <1>12 DEF Next

\* The pipeline implements the message states of the contract when producers write
\* their own action's id into a payload, or none.
THEOREM PipelineFollowsLifecycle ==
    ASSUME OwnIds PROVE Spec => FollowsLifecycle
<1>1. Init => Lifecycle!LifecycleInit
  BY DEF Init, Lifecycle!LifecycleInit, stateOf, Absent
<1>2. Init => Correlated
  BY DEF Init, Correlated
<1>3. PipelineInv /\ Correlated /\ [Next]_vars => Correlated'
  BY CorrelatedStep
<1>4. PipelineInv /\ Correlated /\ [Next]_vars
        => [Lifecycle!LifecycleNext]_(Lifecycle!lifecycleVars)
  BY LifecycleStep
<1> QED
  BY <1>1, <1>2, <1>3, <1>4, PipelineInvariant, PTL
     DEF Spec, FollowsLifecycle, Lifecycle!LifecycleSpec
=============================================================================
