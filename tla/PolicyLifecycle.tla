-------------------------- MODULE PolicyLifecycle --------------------------
(***************************************************************************)
(* One policy bundle and its versions: drafts, fixtures, test runs,        *)
(* publication, administrators' approvals, shadow mode, activation and     *)
(* rollback, and activations scheduled for later.  A repository call is    *)
(* one transaction and one step; what is not atomic is RunPolicyTests      *)
(* (fixtures are read, evaluated, and the run is stored later),            *)
(* UpdatePolicyBundle (its checks read the bundle before the transaction)  *)
(* and the activation workers of all replicas.  The version of the bundle  *)
(* a request expects is the caller's own.  A request that repeats an       *)
(* idempotency key, or expects an old version, changes nothing.            *)
(***************************************************************************)
EXTENDS Integers, FiniteSets

CONSTANTS
    Versions,       \* policy version ids
    Fixtures,       \* fixture ids
    Admins,         \* administrators
    Testers,        \* RunPolicyTests calls that may be under way
    Editors,        \* UpdatePolicyBundle calls that may be under way
    Schedules,      \* scheduled activations
    Workers,        \* policy_activation_worker, one per replica
    Platform,       \* whether the bundle's scope is PLATFORM
    MaxVersion,     \* bound on the bundle's version
    MaxRevision,    \* bound on a version's fixture_revision
    MaxAhead,       \* bound on how far ahead of the bundle an expected version is
    MaxCrashes,     \* bound on crashes of workers
    None            \* SQL NULL

ASSUME PolicyConstants ==
    /\ Platform \in BOOLEAN
    /\ MaxVersion \in Nat /\ MaxRevision \in Nat /\ MaxAhead \in Nat /\ MaxCrashes \in Nat
    /\ None \notin Versions \cup Schedules \cup Nat

VARIABLES
    bundle,     \* trust_safety.policy_bundle
    ver,        \* trust_safety.policy_version with its fixtures
    last,       \* the newest trust_safety.policy_test_run of a version
    evidence,   \* history: that run when the version was published
    approvals,  \* trust_safety.policy_approval, per version
    tester,     \* a test run in progress
    editor,     \* a bundle update in progress
    foresaw,    \* history: an update that named a later version than it had read
                \* changed the mandatory flag since the last activation
    sched,      \* trust_safety.scheduled_policy_activation
    applied,    \* how often a scheduled activation was carried out
    worker,     \* what each activation worker is doing
    crashes

vars == <<bundle, ver, last, evidence, approvals, tester, editor, foresaw, sched, applied,
          worker, crashes>>

BundleType ==
    [state : {"ACTIVE", "DISABLED", "RETIRED"}, mandatory : BOOLEAN,
     active : Versions \cup {None}, shadow : Versions \cup {None}, version : Nat]

\* continues: some error behaviour of the manifest is CONTINUE.
VersionType ==
    [state : {"ABSENT", "DRAFT", "VALIDATED", "SHADOW", "ACTIVE", "RETIRED"},
     published : BOOLEAN, continues : BOOLEAN, fixtures : SUBSET Fixtures, revision : Nat]

\* stamp is the row's fixture_revision; tested is the revision whose fixtures the
\* run really evaluated.
RunType == [stamp : Nat, tested : Nat, passed : BOOLEAN]

\* The version it has read, the one its caller expects, and the flag it writes.
EditType == [loaded : Nat \cup {None}, expected : Nat, mandatory : BOOLEAN]

ScheduleType ==
    [status : {"ABSENT", "PENDING", "PROCESSING", "APPLIED", "FAILED"},
     target : Versions \cup {None}, expected : Nat, due : BOOLEAN, leased : BOOLEAN]

TypeOK ==
    /\ bundle \in BundleType
    /\ ver \in [Versions -> VersionType]
    /\ last \in [Versions -> RunType \cup {None}]
    /\ evidence \in [Versions -> RunType \cup {None}]
    /\ approvals \in [Versions -> SUBSET Admins]
    /\ tester \in [Testers -> [target : Versions \cup {None}, revision : Nat]]
    /\ editor \in [Editors -> EditType]
    /\ foresaw \in BOOLEAN
    /\ sched \in [Schedules -> ScheduleType]
    /\ applied \in [Schedules -> Nat]
    /\ worker \in [Workers -> [pc : {"idle", "check", "activate", "finish"},
                               job : Schedules \cup {None}, verdict : BOOLEAN]]
    /\ crashes \in Nat

Unwritten == [state |-> "ABSENT", published |-> FALSE, continues |-> FALSE,
              fixtures |-> {}, revision |-> 0]
NoRun == [target |-> None, revision |-> 0]
NoEdit == [loaded |-> None, expected |-> 0, mandatory |-> FALSE]
NoSchedule == [status |-> "ABSENT", target |-> None, expected |-> 0, due |-> FALSE,
               leased |-> FALSE]
Idle == [pc |-> "idle", job |-> None, verdict |-> FALSE]

\* create_bundle has just committed.
Init ==
    /\ bundle \in [state : {"ACTIVE"}, mandatory : BOOLEAN, active : {None},
                   shadow : {None}, version : {1}]
    /\ ver = [v \in Versions |-> Unwritten]
    /\ last = [v \in Versions |-> None]
    /\ evidence = [v \in Versions |-> None]
    /\ approvals = [v \in Versions |-> {}]
    /\ tester = [t \in Testers |-> NoRun]
    /\ editor = [e \in Editors |-> NoEdit]
    /\ foresaw = FALSE
    /\ sched = [s \in Schedules |-> NoSchedule]
    /\ applied = [s \in Schedules |-> 0]
    /\ worker = [w \in Workers |-> Idle]
    /\ crashes = 0

-----------------------------------------------------------------------------
(* Authoring. *)

CanBump == bundle.version < MaxVersion

policy == <<bundle, ver, last, evidence, approvals, foresaw>>
beside == <<last, evidence, approvals, tester, editor, sched, applied, worker, crashes>>
others == <<last, evidence, approvals, tester, editor, foresaw, sched, applied, worker, crashes>>

GlobalMandatory == Platform /\ bundle.mandatory

DraftAllowed(continues) ==
    /\ bundle.state # "RETIRED"
    /\ GlobalMandatory => ~continues

CreateDraft(v, continues) ==
    /\ CanBump
    /\ ver[v].state = "ABSENT"
    /\ DraftAllowed(continues)
    /\ ver' = [ver EXCEPT ![v] = [state |-> "DRAFT", published |-> FALSE,
                                  continues |-> continues, fixtures |-> {}, revision |-> 0]]
    /\ bundle' = [bundle EXCEPT !.version = @ + 1]
    /\ UNCHANGED others

\* mark_validated.  The source of a version never changes, so what the handler
\* compiled before is what it marks.
ValidatePolicy(v) ==
    /\ ver[v].state = "DRAFT"
    /\ ver' = [ver EXCEPT ![v].state = "VALIDATED"]
    /\ UNCHANGED <<bundle, others>>

\* Slip: the publication is not looked at.
MutableAlways(v) == ver[v].state \in {"DRAFT", "VALIDATED"}

\* ensure_fixture_version_mutable.
FixturesMutable(v) == ~ver[v].published /\ ver[v].state \in {"DRAFT", "VALIDATED"}

\* create_fixture, update_fixture and delete_fixture all end in
\* bump_fixture_revision; an update leaves the set of fixtures as it is.
WithFixtures(v, fixtures) ==
    /\ FixturesMutable(v)
    /\ ver[v].revision < MaxRevision
    /\ ver' = [ver EXCEPT ![v] =
          [state |-> ver[v].state, published |-> ver[v].published,
           continues |-> ver[v].continues, fixtures |-> fixtures,
           revision |-> ver[v].revision + 1]]
    /\ UNCHANGED <<bundle, others>>

CreateFixture(v, f) == f \notin ver[v].fixtures /\ WithFixtures(v, ver[v].fixtures \cup {f})

UpdateFixture(v, f) == f \in ver[v].fixtures /\ WithFixtures(v, ver[v].fixtures)

DeleteFixture(v, f) == f \in ver[v].fixtures /\ WithFixtures(v, ver[v].fixtures \ {f})

\* run_policy_tests up to its evaluation: the fixtures as they are now.
StartTests(t, v) ==
    /\ tester[t] = NoRun
    /\ ver[v].state \notin {"ABSENT", "DRAFT"}
    /\ tester' = [tester EXCEPT ![t] = [target |-> v, revision |-> ver[v].revision]]
    /\ UNCHANGED <<policy, editor, sched, applied, worker, crashes>>

\* record_test_run stamps the revision it finds.
TestRun(t, passed) == [stamp |-> ver[tester[t].target].revision,
                       tested |-> tester[t].revision, passed |-> passed]

RecordTestRun(t, passed) ==
    /\ tester[t] # NoRun
    /\ last' = [last EXCEPT ![tester[t].target] = TestRun(t, passed)]
    /\ tester' = [tester EXCEPT ![t] = NoRun]
    /\ UNCHANGED <<bundle, ver, evidence, approvals, editor, foresaw, sched, applied, worker,
                   crashes>>

\* The handler dies with the evaluation under way.
AbandonTests(t) ==
    /\ tester[t] # NoRun
    /\ tester' = [tester EXCEPT ![t] = NoRun]
    /\ UNCHANGED <<policy, editor, sched, applied, worker, crashes>>

\* The newest run of the present revision passed.  A newest run of an older
\* revision means there is none of the present one.
TestsPassed(v) ==
    \/ ver[v].fixtures = {}
    \/ /\ last[v] # None
       /\ last[v].stamp = ver[v].revision
       /\ last[v].passed

PublishPolicyVersion(v) ==
    /\ ver[v].state = "VALIDATED"
    /\ TestsPassed(v)
    /\ ver' = [ver EXCEPT ![v].published = TRUE]
    /\ evidence' = [evidence EXCEPT ![v] = last[v]]
    /\ UNCHANGED <<bundle, last, approvals, tester, editor, foresaw, sched, applied, worker,
                   crashes>>

ApprovePolicyVersion(a, v) ==
    /\ GlobalMandatory
    /\ ver[v].published
    /\ approvals' = [approvals EXCEPT ![v] = @ \cup {a}]
    /\ UNCHANGED <<bundle, ver, last, evidence, tester, editor, foresaw, sched, applied, worker,
                   crashes>>

-----------------------------------------------------------------------------
(* The bundle. *)

FlagMayChange(mandatory) ==
    mandatory # bundle.mandatory => bundle.active = None /\ bundle.shadow = None

\* update_bundle up to its transaction: the flag is checked on the bundle it loads,
\* whatever version the caller expects.  A request without the flag writes the one
\* it loads.
LoadForUpdate(e, expected, mandatory) ==
    /\ editor[e] = NoEdit
    /\ FlagMayChange(mandatory)
    /\ editor' = [editor EXCEPT ![e] = [loaded |-> bundle.version, expected |-> expected,
                                        mandatory |-> mandatory]]
    /\ UNCHANGED <<policy, tester, sched, applied, worker, crashes>>

\* Slip: the version the caller expects is not looked at.
AcceptedAnyVersion(e) == bundle.state # "RETIRED" /\ CanBump

\* UPDATE ... WHERE version = $6 AND state <> 'RETIRED'.
UpdateAccepted(e) ==
    editor[e].expected = bundle.version /\ bundle.state # "RETIRED" /\ CanBump

Updated(e) == [state |-> bundle.state, mandatory |-> editor[e].mandatory,
               active |-> bundle.active, shadow |-> bundle.shadow,
               version |-> bundle.version + 1]

\* The flag changes on a bundle that has moved on since it was checked.
Foresees(e) == editor[e].loaded < editor[e].expected /\ editor[e].mandatory # bundle.mandatory

UpdateBundle(e) ==
    /\ editor[e] # NoEdit
    /\ editor' = [editor EXCEPT ![e] = NoEdit]
    /\ bundle' = IF UpdateAccepted(e) THEN Updated(e) ELSE bundle
    /\ foresaw' = (foresaw \/ (UpdateAccepted(e) /\ Foresees(e)))
    /\ UNCHANGED <<ver, last, evidence, approvals, tester, sched, applied, worker, crashes>>

LegalTransition == {<<"ACTIVE", "DISABLED">>, <<"ACTIVE", "RETIRED">>, <<"DISABLED", "RETIRED">>}

TransitionBundle(target) ==
    /\ CanBump
    /\ <<bundle.state, target>> \in LegalTransition
    /\ bundle' = [bundle EXCEPT !.state = target, !.version = @ + 1]
    /\ UNCHANGED <<ver, others>>

EnableShadow(v) ==
    /\ CanBump
    /\ ver[v].published
    /\ bundle' = [bundle EXCEPT !.shadow = v, !.version = @ + 1]
    /\ ver' = [ver EXCEPT ![v].state = IF @ = "VALIDATED" THEN "SHADOW" ELSE @]
    /\ UNCHANGED others

DisableShadow ==
    /\ CanBump
    /\ bundle' = [bundle EXCEPT !.shadow = None, !.version = @ + 1]
    /\ ver' = [v \in Versions |->
                  IF v = bundle.shadow /\ ver[v].state = "SHADOW"
                  THEN [ver[v] EXCEPT !.state = "VALIDATED"] ELSE ver[v]]
    /\ UNCHANGED others

\* The checks of activate after the version check.
Activatable(v) ==
    /\ ver[v].state \in {"VALIDATED", "SHADOW", "ACTIVE", "RETIRED"}
    /\ ver[v].published
    /\ GlobalMandatory => \E a, b \in approvals[v] : a # b

\* Slip: the version that was active before keeps its state.
ActivatedBesides(v) == [u \in Versions |->
    IF u = v THEN [ver[u] EXCEPT !.state = "ACTIVE"] ELSE ver[u]]

Activated(v) == [u \in Versions |->
    CASE u = v -> [ver[u] EXCEPT !.state = "ACTIVE"]
      [] u # v /\ u = bundle.active -> [ver[u] EXCEPT !.state = "RETIRED"]
      [] OTHER -> ver[u]]

Activate(v) ==
    /\ CanBump
    /\ Activatable(v)
    /\ bundle' = [state |-> bundle.state, mandatory |-> bundle.mandatory, active |-> v,
                  shadow |-> IF bundle.shadow = v THEN None ELSE bundle.shadow,
                  version |-> bundle.version + 1]
    /\ ver' = Activated(v)
    /\ foresaw' = FALSE

\* ActivatePolicyVersion with healthy providers, and RollbackPolicy.
ActivateNow(v) == Activate(v) /\ UNCHANGED beside

-----------------------------------------------------------------------------
(* Scheduled activations. *)

\* The caller may already count on a change it has asked for.
ScheduleActivation(s, v, expected) ==
    /\ sched[s].status = "ABSENT"
    /\ ver[v].state # "ABSENT"
    /\ sched' = [sched EXCEPT ![s] = [status |-> "PENDING", target |-> v,
                    expected |-> expected, due |-> FALSE, leased |-> FALSE]]
    /\ UNCHANGED <<policy, tester, editor, applied, worker, crashes>>

\* activate_at passes.
FallsDue(s) ==
    /\ sched[s].status = "PENDING" /\ ~sched[s].due
    /\ sched' = [sched EXCEPT ![s].due = TRUE]
    /\ UNCHANGED <<policy, tester, editor, applied, worker, crashes>>

\* The minute of a lease passes, whatever its worker is doing.
LeaseEnds(s) ==
    /\ sched[s].status = "PROCESSING" /\ sched[s].leased
    /\ sched' = [sched EXCEPT ![s].leased = FALSE]
    /\ UNCHANGED <<policy, tester, editor, applied, worker, crashes>>

\* Slip: an activation whose worker died is never taken up again.
ClaimableOnce(s) == sched[s].status = "PENDING" /\ sched[s].due

Claimable(s) ==
    \/ sched[s].status = "PENDING" /\ sched[s].due
    \/ sched[s].status = "PROCESSING" /\ ~sched[s].leased

\* due_activations.  A worker takes a batch and goes through it one by one; a
\* row that waits behind others looks like one whose worker is slow.
ClaimDue(w, s) ==
    /\ worker[w] = Idle
    /\ Claimable(s)
    /\ sched' = [sched EXCEPT ![s].status = "PROCESSING", ![s].leased = TRUE]
    /\ worker' = [worker EXCEPT ![w] = [pc |-> "check", job |-> s, verdict |-> FALSE]]
    /\ UNCHANGED <<policy, tester, editor, applied, crashes>>

\* provider_activation_issues: healthy is for the providers to say.
CheckProviders(w, healthy) ==
    /\ worker[w].pc = "check"
    /\ worker' = [worker EXCEPT ![w].pc = IF healthy THEN "activate" ELSE "finish"]
    /\ UNCHANGED <<policy, tester, editor, sched, applied, crashes>>

Done(w, verdict) == [pc |-> "finish", job |-> worker[w].job, verdict |-> verdict]

\* activate under the schedule's id as idempotency key.  The commit may go through
\* and the worker still see an error.
ActivateScheduled(w, seen) ==
    LET s == worker[w].job IN
    /\ worker[w].pc = "activate"
    /\ applied[s] = 0
    /\ sched[s].expected = bundle.version
    /\ Activate(sched[s].target)
    /\ applied' = [applied EXCEPT ![s] = @ + 1]
    /\ worker' = [worker EXCEPT ![w] = Done(w, seen)]
    /\ UNCHANGED <<last, evidence, approvals, tester, editor, sched, crashes>>

\* The key was used: the call succeeds and changes nothing.
ActivateReplayed(w) ==
    /\ worker[w].pc = "activate"
    /\ applied[worker[w].job] > 0
    /\ worker' = [worker EXCEPT ![w] = Done(w, TRUE)]
    /\ UNCHANGED <<policy, tester, editor, sched, applied, crashes>>

\* A version conflict, a check of activate, or a database that fails at any time.
ActivateRefused(w) ==
    /\ worker[w].pc = "activate"
    /\ worker' = [worker EXCEPT ![w] = Done(w, FALSE)]
    /\ UNCHANGED <<policy, tester, editor, sched, applied, crashes>>

FinalStatus(w) == IF worker[w].verdict THEN "APPLIED" ELSE "FAILED"

\* finish_scheduled_activation: WHERE id = $1 AND status = 'PROCESSING'.
FinishScheduled(w) ==
    LET s == worker[w].job IN
    /\ worker[w].pc = "finish"
    /\ sched' = IF sched[s].status = "PROCESSING"
                THEN [sched EXCEPT ![s].status = FinalStatus(w), ![s].leased = FALSE]
                ELSE sched
    /\ worker' = [worker EXCEPT ![w] = Idle]
    /\ UNCHANGED <<policy, tester, editor, applied, crashes>>

\* The process stops; the schedule waits for its lease to end.
WorkerCrash(w) ==
    /\ worker[w] # Idle
    /\ crashes < MaxCrashes /\ crashes' = crashes + 1
    /\ worker' = [worker EXCEPT ![w] = Idle]
    /\ UNCHANGED <<policy, tester, editor, sched, applied>>

-----------------------------------------------------------------------------
Author(v) ==
    \/ \E continues \in BOOLEAN : CreateDraft(v, continues)
    \/ ValidatePolicy(v)
    \/ \E f \in Fixtures : CreateFixture(v, f) \/ UpdateFixture(v, f) \/ DeleteFixture(v, f)
    \/ \E t \in Testers : StartTests(t, v)
    \/ PublishPolicyVersion(v)
    \/ \E a \in Admins : ApprovePolicyVersion(a, v)
    \/ EnableShadow(v)
    \/ ActivateNow(v)
    \/ \E s \in Schedules, ahead \in 0 .. MaxAhead :
          ScheduleActivation(s, v, bundle.version + ahead)

WorkerStep(w) ==
    \/ \E healthy \in BOOLEAN : CheckProviders(w, healthy)
    \/ \E seen \in BOOLEAN : ActivateScheduled(w, seen)
    \/ ActivateReplayed(w) \/ ActivateRefused(w)
    \/ FinishScheduled(w)

Next ==
    \/ \E v \in Versions : Author(v)
    \/ \E t \in Testers : AbandonTests(t) \/ \E passed \in BOOLEAN : RecordTestRun(t, passed)
    \/ \E e \in Editors :
          \/ UpdateBundle(e)
          \/ \E ahead \in 0 .. MaxAhead, m \in BOOLEAN :
                LoadForUpdate(e, bundle.version + ahead, m)
    \/ \E target \in {"DISABLED", "RETIRED"} : TransitionBundle(target)
    \/ DisableShadow
    \/ \E s \in Schedules : FallsDue(s) \/ LeaseEnds(s)
    \/ \E w \in Workers : WorkerStep(w) \/ WorkerCrash(w) \/ \E s \in Schedules : ClaimDue(w, s)

Spec == Init /\ [][Next]_vars

-----------------------------------------------------------------------------
(* Safety. *)

\* The bundle's active version and the versions' states agree, through every
\* activation, rollback and change of shadow: one version is ACTIVE, the one the
\* engine loads, or none is.
ActiveVersionAgrees ==
    \A v \in Versions : ver[v].state = "ACTIVE" <=> bundle.active = v

\* "Mandatory platform versions require two explicit ApprovePolicyVersion calls
\* from distinct administrators before activation": also when the flag was set
\* after the draft, an update raced the activation, or it was scheduled.  The one
\* exception is a flag set under the version in force, by an update whose caller
\* named a version that the bundle had not reached when the flag was checked.
MandatoryWasApprovedTwice ==
    GlobalMandatory /\ ~foresaw => \A v \in Versions :
        bundle.active = v => \E a, b \in approvals[v] : a # b

\* A version that is or was enforced or in shadow was published, and a published
\* version with fixtures was published on a passing run recorded at the revision it
\* has now: nothing changed its fixtures after that run was recorded.  Which fixtures
\* the run evaluated is PublishedWasTested.
EnforcedWasVetted ==
    \A v \in Versions :
        /\ \/ bundle.active = v \/ bundle.shadow = v
           \/ ver[v].state \in {"SHADOW", "ACTIVE", "RETIRED"}
           => ver[v].published
        /\ ver[v].published /\ ver[v].fixtures # {} =>
              evidence[v] # None /\ evidence[v].passed /\ evidence[v].stamp = ver[v].revision

\* "Any fixture change increments the policy version's fixture revision, so a stale
\* passing test run cannot satisfy publication": the fixtures a version is published
\* with are those that its passing run evaluated.
PublishedWasTested ==
    \A v \in Versions :
        ver[v].published /\ ver[v].fixtures # {} => evidence[v].tested = ver[v].revision

\* A scheduled activation is carried out at most once, by however many workers,
\* and is called APPLIED only if it was.
ScheduledOnce ==
    \A s \in Schedules :
        /\ applied[s] <= 1
        /\ sched[s].status = "APPLIED" => applied[s] = 1

\* "policy bundle mandatory flag cannot change after versions are activated",
\* although update_bundle checks it on a bundle it read before its transaction: only
\* an update whose caller named a later version than that changes it.
FlagIsFrozen ==
    [][bundle'.mandatory # bundle.mandatory =>
          \/ bundle.active = None /\ bundle.shadow = None
          \/ \E e \in Editors : UpdateBundle(e) /\ Foresees(e)]_vars

-----------------------------------------------------------------------------
(* Refinement of PolicyPromise. *)

\* What may change in a version until it is published.
Content == [continues : BOOLEAN, fixtures : SUBSET Fixtures, revision : 0 .. MaxRevision]

contentOf == [v \in Versions |->
    [continues |-> ver[v].continues, fixtures |-> ver[v].fixtures, revision |-> ver[v].revision]]

publishedOf == {v \in Versions : ver[v].published}

passingOf == {v \in Versions : TestsPassed(v)}

bookedOf == [s \in Schedules |-> sched[s].target]

carriedOf == {s \in Schedules : applied[s] > 0}

Promise == INSTANCE PolicyPromise
    WITH Bookings <- Schedules,
         Contents <- Content,
         Blank <- [continues |-> FALSE, fixtures |-> {}, revision |-> 0],
         Untestable <- {c \in Content : c.fixtures = {}},
         inForce <- bundle.active,
         observed <- bundle.shadow,
         mandatory <- bundle.mandatory,
         content <- contentOf,
         passing <- passingOf,
         published <- publishedOf,
         approved <- approvals,
         booked <- bookedOf,
         carried <- carriedOf

\* Drafts, fixtures, test runs that overlap them, updates checked before they are
\* made, and activations that several workers carry out come to what a bundle
\* promises: every step is a step of PolicyPromise or none.
KeepsPromise == Promise!PromiseSpec

-----------------------------------------------------------------------------
(* Liveness. *)

\* The activation workers of all replicas tick every second, their calls end, and
\* time passes.
Fairness ==
    /\ \A s \in Schedules :
          /\ WF_vars(FallsDue(s)) /\ WF_vars(LeaseEnds(s))
          /\ WF_vars(\E w \in Workers : ClaimDue(w, s))
    /\ \A w \in Workers : WF_vars(WorkerStep(w))

FairSpec == Spec /\ Fairness

\* Every scheduled activation ends.
EveryScheduleEnds ==
    \A s \in Schedules :
        sched[s].status = "PENDING" ~> sched[s].status \in {"APPLIED", "FAILED"}
=============================================================================
