----------------------------- MODULE SafetyScore -----------------------------
(***************************************************************************)
(* Safety observations and the assessments computed from them, statement   *)
(* by statement: calls that observe something of a subject (an observation *)
(* of its own, a report, an infraction, a revocation, an appeal), each     *)
(* under an idempotency key that is repeated until the call is answered,   *)
(* and actions whose policies observe several subjects in one transaction. *)
(* A call's assessment is evaluated as an action of its own once the       *)
(* transaction is committed.                                               *)
(***************************************************************************)
EXTENDS Integers, Sequences, FiniteSets, FiniteSetsExt

CONSTANTS
    Subjects,       \* (subject, scope): what an assessment is of
    Callers,        \* calls under way, each repeated until answered
    Workers,        \* actions under way, each redelivered until applied
    Keys, Ops,
    KeyOf, OpOf,    \* what a caller sends
    Recalculating,  \* operations that assess a subject and observe nothing
    SubjectOf,      \* the subject a key's request is about
    Plans,          \* the subjects the policies of an action may observe, in order
    Points,         \* what an observation of a source adds to the score
    Expiring,       \* sources whose observations have an expiry
    Echo,           \* the policies of evaluated assessments, as a source
    MaxFaults,      \* bound
    None

Procs == Callers \cup Workers
Sources == Keys \cup Workers \cup {Echo}

ASSUME SafetyConstants ==
    /\ KeyOf \in [Callers -> Keys] /\ OpOf \in [Callers -> Ops]
    /\ SubjectOf \in [Keys -> Subjects] /\ Plans \subseteq Seq(Subjects)
    /\ Points \in [Sources -> Int] /\ Expiring \subseteq Keys
    /\ Callers \cap Workers = {} /\ Keys \cap Workers = {} /\ Echo \notin Keys \cup Workers
    /\ Recalculating \subseteq Ops /\ None \notin Ops /\ MaxFaults \in Nat
    /\ IsFiniteSet(Sources)

VARIABLES
    claimed,        \* mutation_idempotency: the operation a key was used for
    observed,       \* safety_observation: how many of each source
    assessment,     \* safety_assessment, with the observations it was computed from
    evaluated,      \* the versions of an assessment that were evaluated
    lapsed,         \* sources whose observations have expired
    at,             \* where a call or an action is
    todo,           \* subjects its open transaction has yet to observe
    waiting,        \* the calls and actions that wait for a lock
    own,            \* assessments its open transaction has computed
    sum,            \* what its open transaction computed
    seen,           \* the version a call read after its transaction
    counted,        \* the version a key's observation was first part of
    faults

txVars == <<todo, own, sum, waiting>>
vars == <<claimed, observed, assessment, evaluated, lapsed, at, todo, own, sum, waiting, seen, counted, faults>>

Tallies == [Sources -> Nat]
Nothing == [r \in Sources |-> 0]

\* calculate_safety_score
Score(tally) ==
    LET total == MapThenSumSet(LAMBDA r : tally[r] * Points[r], Sources)
    IN  IF total < 0 THEN 0 ELSE IF total > 100 THEN 100 ELSE total

TypeOK ==
    /\ claimed \in [Keys -> Ops \cup {None}]
    /\ observed \in [Subjects -> Tallies]
    /\ assessment \in [Subjects -> [version : Nat, score : 0..100, of : Tallies]]
    /\ evaluated \in [Subjects -> SUBSET Nat]
    /\ lapsed \in SUBSET Expiring
    /\ at \in [Procs -> {"IDLE", "CLAIM", "MUTATE", "READ", "CONSIDER", "EVALUATE", "ANSWER",
                         "APPLY", "REFUSED", "DONE"}]
    /\ todo \in [Procs -> Seq(Subjects)]
    /\ waiting \in SUBSET Procs
    /\ own \in [Procs -> [Subjects -> Nat]]
    /\ sum \in [Procs -> [Subjects -> Tallies]]
    /\ seen \in [Procs -> Nat]
    /\ counted \in [Keys -> Nat]
    /\ faults \in Nat

\* When every call and action is in the same phase.
InitWith(phase) ==
    /\ claimed = [k \in Keys |-> None]
    /\ observed = [s \in Subjects |-> Nothing]
    /\ assessment = [s \in Subjects |-> [version |-> 0, score |-> 0, of |-> Nothing]]
    /\ evaluated = [s \in Subjects |-> {}]
    /\ lapsed = {}
    /\ at = [p \in Procs |-> phase]
    /\ todo = [p \in Procs |-> <<>>]
    /\ waiting = {}
    /\ own = [p \in Procs |-> [s \in Subjects |-> 0]]
    /\ sum = [p \in Procs |-> [s \in Subjects |-> Nothing]]
    /\ seen = [p \in Procs |-> 0]
    /\ counted = [k \in Keys |-> 0]
    /\ faults = 0

Init == InitWith("IDLE")

-----------------------------------------------------------------------------
(* Transactions                                                             *)

InTx(p) == at[p] \in {"MUTATE", "EVALUATE", "APPLY"}

Source(p) == CASE at[p] = "MUTATE" -> KeyOf[p]
               [] at[p] = "EVALUATE" -> Echo
               [] OTHER -> p

\* Observations a transaction makes for each assessment it computes.
Adds(p) == IF at[p] = "MUTATE" /\ OpOf[p] \in Recalculating THEN 0 ELSE 1

\* The advisory lock of a subject is held until the transaction ends.
Locks(p, s) == own[p][s] > 0

Blocks(q, p) == todo[p] # <<>> /\ p # q /\ Locks(q, Head(todo[p]))

\* Who waits for a lock is served before who asks for it later.
Overtakes(p, q) == p \notin waiting /\ q \in waiting /\ Head(todo[q]) = Head(todo[p])

Begin(p, phase, subjects) ==
    /\ at' = [at EXCEPT ![p] = phase]
    /\ todo' = [todo EXCEPT ![p] = subjects]
    /\ UNCHANGED <<own, sum, waiting, seen>>

\* Ends a transaction and with it its locks.
End(p, phase) ==
    /\ at' = [at EXCEPT ![p] = phase]
    /\ todo' = [todo EXCEPT ![p] = <<>>]
    /\ own' = [own EXCEPT ![p] = [s \in Subjects |-> 0]]
    /\ sum' = [sum EXCEPT ![p] = [s \in Subjects |-> Nothing]]
    /\ waiting' = waiting \ {p}
    /\ seen' = [seen EXCEPT ![p] = 0]

\* What a statement sees: what others have committed, and its own rows.
Visible(p, s, mine) ==
    [r \in Sources |-> IF r \in lapsed THEN 0
                       ELSE IF r = Source(p) THEN observed[s][r] + mine * Adds(p) ELSE observed[s][r]]

\* Slip: the sum is computed without the subject's lock.
ObserveUnlocked(p) ==
    /\ InTx(p) /\ todo[p] # <<>>
    /\ LET s == Head(todo[p]) mine == own[p][s] + 1
       IN  /\ own' = [own EXCEPT ![p] = [own[p] EXCEPT ![s] = mine]]
           /\ sum' = [sum EXCEPT ![p] = [sum[p] EXCEPT ![s] = Visible(p, s, mine)]]
    /\ todo' = [todo EXCEPT ![p] = Tail(todo[p])]
    /\ waiting' = waiting \ {p}
    /\ UNCHANGED <<claimed, observed, assessment, evaluated, lapsed, at, seen, counted, faults>>

\* Inserts an observation, if the operation has one, waits for the subject's
\* lock and computes the score anew.  While the lock is held nobody else commits an observation of it.
Observe(p) ==
    /\ InTx(p) /\ todo[p] # <<>>
    /\ \A q \in Procs : ~Blocks(q, p) /\ ~Overtakes(p, q)
    /\ LET s == Head(todo[p]) mine == own[p][s] + 1
       IN  /\ own' = [own EXCEPT ![p] = [own[p] EXCEPT ![s] = mine]]
           /\ sum' = [sum EXCEPT ![p] = [sum[p] EXCEPT ![s] = Visible(p, s, mine)]]
    /\ todo' = [todo EXCEPT ![p] = Tail(todo[p])]
    /\ waiting' = waiting \ {p}
    /\ UNCHANGED <<claimed, observed, assessment, evaluated, lapsed, at, seen, counted, faults>>

\* The lock is held by another transaction.
Wait(p) ==
    /\ InTx(p) /\ p \notin waiting
    /\ \E q \in Procs : Blocks(q, p)
    /\ waiting' = waiting \cup {p}
    /\ UNCHANGED <<claimed, observed, assessment, evaluated, lapsed, at, todo, own, sum, seen, counted, faults>>

Assessed(p, s) ==
    [version |-> assessment[s].version + 1, score |-> Score(sum[p][s]), of |-> sum[p][s]]

\* What a commit makes visible of its observations.
Commit(p) ==
    /\ todo[p] = <<>>
    /\ observed' = [s \in Subjects |->
            [r \in Sources |-> IF r = Source(p) THEN observed[s][r] + own[p][s] * Adds(p) ELSE observed[s][r]]]
    /\ assessment' = [s \in Subjects |-> IF Locks(p, s) THEN Assessed(p, s) ELSE assessment[s]]

-----------------------------------------------------------------------------
(* Calls                                                                    *)

\* A caller sends its request, or repeats it under the same key.
Call(c) ==
    /\ at[c] = "IDLE"
    /\ at' = [at EXCEPT ![c] = "CLAIM"]
    /\ UNCHANGED <<claimed, observed, assessment, evaluated, lapsed, txVars, seen, counted, faults>>

\* Slip: a repeated call is answered at once.
ClaimAnswersRepeats(c) ==
    LET k == KeyOf[c] IN
    /\ at[c] = "CLAIM"
    /\ \A d \in Callers : KeyOf[d] = k => at[d] # "MUTATE"
    /\ \/ claimed[k] = None /\ Begin(c, "MUTATE", <<SubjectOf[k]>>)
       \/ claimed[k] = OpOf[c] /\ End(c, "ANSWER")
       \/ claimed[k] \notin {None, OpOf[c]} /\ End(c, "REFUSED")
    /\ UNCHANGED <<claimed, observed, assessment, evaluated, lapsed, counted, faults>>

\* claim_idempotency: the insert waits while an open transaction has the key.
Claim(c) ==
    LET k == KeyOf[c] IN
    /\ at[c] = "CLAIM"
    /\ \A d \in Callers : KeyOf[d] = k => at[d] # "MUTATE"
    /\ \/ claimed[k] = None /\ Begin(c, "MUTATE", <<SubjectOf[k]>>)
       \/ claimed[k] = OpOf[c] /\ Begin(c, "READ", <<>>)
       \/ claimed[k] \notin {None, OpOf[c]} /\ End(c, "REFUSED")
    /\ UNCHANGED <<claimed, observed, assessment, evaluated, lapsed, counted, faults>>

\* The connection may break after the commit, and the call then failed.
CommitMutation(c) ==
    LET k == KeyOf[c] s == SubjectOf[k] IN
    /\ at[c] = "MUTATE" /\ Commit(c)
    /\ claimed' = [claimed EXCEPT ![k] = OpOf[c]]
    /\ counted' = [counted EXCEPT ![k] = assessment[s].version + 1]
    /\ \/ End(c, "READ") /\ UNCHANGED faults
       \/ End(c, "IDLE") /\ faults < MaxFaults /\ faults' = faults + 1
    /\ UNCHANGED <<evaluated, lapsed>>

\* get_safety_assessment, on the first call and on a repeated one.
Read(c) ==
    /\ at[c] = "READ"
    /\ seen' = [seen EXCEPT ![c] = assessment[SubjectOf[KeyOf[c]]].version]
    /\ at' = [at EXCEPT ![c] = "CONSIDER"]
    /\ UNCHANGED <<claimed, observed, assessment, evaluated, lapsed, txVars, counted, faults>>

\* Slip: an assessment that was evaluated already fails the call.
ConsiderFailsDuplicate(c) ==
    LET s == SubjectOf[KeyOf[c]] IN
    /\ at[c] = "CONSIDER"
    /\ \A d \in Callers : ~(at[d] = "EVALUATE" /\ SubjectOf[KeyOf[d]] = s /\ seen[d] = seen[c])
    /\ IF seen[c] \in evaluated[s] THEN End(c, "IDLE")
       ELSE \E plan \in Plans : Begin(c, "EVALUATE", plan)
    /\ UNCHANGED <<claimed, observed, assessment, evaluated, lapsed, counted, faults>>

\* evaluate_safety_assessment_update: the version names the action, and the
\* action's row in the inbox is waited for if it is being inserted.
Consider(c) ==
    LET s == SubjectOf[KeyOf[c]] IN
    /\ at[c] = "CONSIDER"
    /\ \A d \in Callers : ~(at[d] = "EVALUATE" /\ SubjectOf[KeyOf[d]] = s /\ seen[d] = seen[c])
    /\ IF seen[c] \in evaluated[s] THEN End(c, "ANSWER")
       ELSE \E plan \in Plans : Begin(c, "EVALUATE", plan)
    /\ UNCHANGED <<claimed, observed, assessment, evaluated, lapsed, counted, faults>>

\* What the policies observe while an assessment is evaluated changes
\* assessments that nobody evaluates.
CommitEvaluation(c) ==
    LET s == SubjectOf[KeyOf[c]] IN
    /\ at[c] = "EVALUATE" /\ Commit(c)
    /\ evaluated' = [evaluated EXCEPT ![s] = @ \cup {seen[c]}]
    /\ \/ End(c, "ANSWER") /\ UNCHANGED faults
       \/ End(c, "IDLE") /\ faults < MaxFaults /\ faults' = faults + 1
    /\ UNCHANGED <<claimed, lapsed, counted>>

Answer(c) ==
    /\ at[c] = "ANSWER"
    /\ \/ at' = [at EXCEPT ![c] = "DONE"] /\ UNCHANGED faults
       \/ /\ faults < MaxFaults /\ faults' = faults + 1    \* the answer is lost
          /\ at' = [at EXCEPT ![c] = "IDLE"]
    /\ UNCHANGED <<claimed, observed, assessment, evaluated, lapsed, txVars, seen, counted>>

-----------------------------------------------------------------------------
(* Actions                                                                  *)

Apply(w) ==
    /\ at[w] = "IDLE"
    /\ \E plan \in Plans : Begin(w, "APPLY", plan)
    /\ UNCHANGED <<claimed, observed, assessment, evaluated, lapsed, counted, faults>>

\* A redelivered action whose commit was not seen is found in the inbox.
CommitAction(w) ==
    /\ at[w] = "APPLY" /\ Commit(w)
    /\ End(w, "DONE")
    /\ UNCHANGED <<claimed, evaluated, lapsed, counted, faults>>

-----------------------------------------------------------------------------
(* Faults                                                                   *)

\* A crash, a lost connection, a failed provider or statement.
Fail(p) ==
    /\ at[p] \notin {"IDLE", "DONE", "REFUSED"}
    /\ faults < MaxFaults /\ faults' = faults + 1
    /\ End(p, "IDLE")
    /\ UNCHANGED <<claimed, observed, assessment, evaluated, lapsed, counted>>

\* Transactions that wait for one another: PostgreSQL aborts one of them.
Deadlocked(p) ==
    \E D \in SUBSET Procs :
        /\ p \in D
        /\ \A q \in D : q \in waiting /\ \E r \in D : Blocks(r, q)

Abort(p) ==
    /\ Deadlocked(p)
    /\ End(p, "IDLE")
    /\ UNCHANGED <<claimed, observed, assessment, evaluated, lapsed, counted, faults>>

Lapse(r) ==
    /\ r \in Expiring \ lapsed /\ claimed[r] # None
    /\ lapsed' = lapsed \cup {r}
    /\ UNCHANGED <<claimed, observed, assessment, evaluated, at, txVars, seen, counted, faults>>

-----------------------------------------------------------------------------

CallSteps(c) == Call(c) \/ Claim(c) \/ CommitMutation(c) \/ Read(c) \/ Consider(c) \/ CommitEvaluation(c) \/ Answer(c)

Next ==
    \/ \E c \in Callers : CallSteps(c)
    \/ \E w \in Workers : Apply(w) \/ CommitAction(w)
    \/ \E p \in Procs : Wait(p) \/ Observe(p) \/ Fail(p) \/ Abort(p)
    \/ \E r \in Expiring : Lapse(r)

\* A caller repeats its call until it is answered and an action is redelivered
\* until it is applied.  Locks and keys are granted in the order they were
\* asked for, and the database looks for deadlocks.
SafetyFairness ==
    /\ \A c \in Callers : /\ WF_vars(Call(c)) /\ SF_vars(Claim(c)) /\ WF_vars(CommitMutation(c)) /\ WF_vars(Read(c))
                          /\ SF_vars(Consider(c)) /\ WF_vars(CommitEvaluation(c)) /\ WF_vars(Answer(c))
    /\ \A w \in Workers : WF_vars(Apply(w)) /\ WF_vars(CommitAction(w))
    /\ \A p \in Procs : WF_vars(Wait(p)) /\ SF_vars(Observe(p)) /\ WF_vars(Abort(p))

Spec == Init /\ [][Next]_vars /\ SafetyFairness

-----------------------------------------------------------------------------
(* Properties                                                               *)

\* The score of a subject is always that of the observations that are
\* committed, however many transactions observed it at a time; an observation
\* that has expired since may still be in it.
ScoreIsCurrent ==
    \A s \in Subjects :
        /\ assessment[s].score = Score(assessment[s].of)
        /\ \A r \in Sources \ lapsed : assessment[s].of[r] = observed[s][r]

\* However often a call is repeated and wherever it failed, its key leads to
\* one observation of its subject (none if it recalculates), and when the call
\* is answered the policies have evaluated an assessment with it, even if the
\* first attempt failed before that.
AnsweredIsEvaluated ==
    /\ \A k \in Keys, s \in Subjects :
          observed[s][k] = IF claimed[k] \in Ops \ Recalculating /\ s = SubjectOf[k] THEN 1 ELSE 0
    /\ \A c \in Callers :
          at[c] \in {"ANSWER", "DONE"} =>
              LET k == KeyOf[c] IN
              /\ counted[k] > 0
              /\ \E v \in evaluated[SubjectOf[k]] : v >= counted[k]

\* Every call is answered or refused and every action is applied, however
\* transactions wait for one another.
EveryCallEnds == \A p \in Procs : at[p] = "IDLE" ~> at[p] \in {"DONE", "REFUSED"}
=============================================================================
