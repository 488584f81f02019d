# Polarizer: a verification project

Polarizer decides whether user content may reach its destinations, keeps what
moderators decide about users, and tells the bots. The hard part is not the
single decision but what happens around it: Kafka records that come more than
once, transactions whose outcome the caller never learns, leases that end while
their holder still works, reviewers racing the expiry worker, rows replaced
between two statements of a load. These modules model that program from its
source; TLC checks small instances of them exhaustively, and TLAPS proves the
most important results for every instance.

## Inventory

Paths are under `src/src/` unless they say otherwise.

| Part | State | Operations | Interacts with |
|---|---|---|---|
| Command ledger (`command.rs`) | `processed_command` | register, `ClaimCommand`, `CompleteCommand` | bots, outbox |
| Action consumer and decision store (`eventbus.rs`, `policy/engine.rs`, `policy/repository.rs`) | Kafka offsets, `action_inbox`, `decision_record`, `review_item`, `outbox` | receive, evaluate, persist and apply, dead-letter, adjudicate, expire holds, delivery callbacks | everything |
| Outbox relay (`eventbus.rs`) | `outbox` | claim a batch, send, mark | Kafka, relays of other replicas |
| Policy lifecycle (`policy/repository.rs`, `grpc/service.rs`) | bundles, versions, fixtures, test runs, approvals, schedules | draft, validate, test, publish, approve, shadow, activate, roll back, retire | activation worker, engine |
| Staff workflow (`moderation/repository.rs`) | reports and their claims, staff action requests | claim, renew, unclaim, assign, transfer, resolve; request, approve, reject, cancel, expire | authorization changes, expiry worker |
| Sanctions (`moderation/repository.rs`) | restrictions, infractions, appeals | create, update, link, revoke, resolve, expire | policies, staff requests, expiry worker |
| Safety scores (`policy/repository.rs`, `grpc/service.rs`) | observations, assessments, idempotency keys | observe, assess, evaluate the assessment as an action | calls, action consumer |
| Call evidence (`moderation/repository.rs`) | Lobby archive, report snapshots | append, pin, page | actions, reports |
| Content policy (`content_policy/`) | rows in five tables; compiled snapshots and cooldowns in memory | replace, load, invalidate, reconcile; match, resolve, compose, materialize; admit side effects | engine, Kafka |
| Policy evaluation (`policy/engine.rs`, `merge.rs`, `features/`) | none that outlives it | resolve features, run programs, merge, persist, compare with shadow | runtimes, providers |
| Policy runtimes (`policy/ir.rs`, `luau.rs`, the worker binary) | worker processes | validate and run rule programs; exchange lines with workers | engine |
| Handlers, authentication, authorization (`grpc/service.rs`, `auth.rs`) | idempotency keys | authorize, claim the key, commit, answer | Iris, every repository |
| Listings (both repositories) | none | pages with cursors | clients |
| Media and model providers (`nsfw.rs`, `features/checks/openai.rs`) | caches, circuit | classify | engine |
| Configuration, health, telemetry, generated code | none of their own | start, report, convert | |

What is hard: replicas share only PostgreSQL and Kafka, so every step in memory
interleaves with every transaction of every other replica; commits may be
ambiguous; Kafka delivers at least once; a caller may be gone at any `await`;
leases compare a stored expiry with one clock or another. `PROJECT.json` lists
each hazard at its line with the properties aimed at it.

## Modules

The first group keeps the state of the database and of processes over time.

- `CommandLedger` (implements `CommandPromise`). A lease expiry is kept as the
  time left until it. `ClaimCommand` is `claim_command` with `decide_claim`
  (`Decision`), read on a replica whose clock may differ from the database's by
  `MaxSkew`: the expiry comes from `clock_timestamp()` and is compared with
  `Utc::now()`. Bots are external: they lose replies, run late, repeat, crash.
- `ActionPipeline` (implements `MessageLifecycle`, the state diagram of
  `CONTRACT.md`). A worker is a consumer task or RPC handler of any replica, its
  `pc` the place in `ActionConsumer::run` and `evaluate_with_shadow`. One
  transaction is one step; a failing one may or may not have committed.
  `Evaluate` picks any of `Results`. The refinement is for payloads that carry
  their own action's id or none.
- `OutboxRelay`. Lease and backoff are times left. Sending and marking are
  separate steps. `Tick` lets time pass only within the send timeout; `Stall`, a
  fault, lets it pass for a paused process.
- `PolicyLifecycle` (implements `PolicyPromise`). One bundle with its versions,
  fixtures, newest test run and schedules. What is not atomic has steps of its
  own: `StartTests` and `RecordTestRun`; `LoadForUpdate` and `UpdateBundle`; an
  activation worker that claims, asks the providers, activates and finishes. The
  version an update expects is its caller's: it may be one the bundle has not
  reached when `update_bundle` checks the mandatory flag (up to `MaxAhead` ahead).
- `StaffWorkflow` (implements `CasePromise`). Reports that staff claim for a
  time, and requests that a second person decides. A caller acts on a row it
  read before (`read`), with the version it had then. A holder with a pending
  request of his own cannot unclaim (the CHECK that compares `decided_by` with
  `requested_by`), and a claim that lapses does not cancel requests.
  `forfeited` and `enforced` are histories. The service's clock and the
  database's are one.
- `Sanctions`. Restrictions, infractions and appeals under moderators, policies,
  approved requests and the expiry worker. `announced` is the last notice of a
  term, `mitigated` how often an infraction was taken back. Moderators' and
  policies' notices have tables of their own (`Noticed`, `PolicyNoticed`,
  `InfractionNoticed`); a policy's infraction comes with any enforcement or none,
  of a subject and a term of its own. Two operations have
  no step since they always fail: `revoke_infractions_by_type` (a parameter has
  no type, `moderation/repository.rs:801`) and infractions of MESSAGE scope (a
  CHECK, `moderation/repository.rs:541`).
- `SafetyScore`. Statement by statement, because transactions lock assessments in
  the order of their effects and may deadlock; a call's assessment is evaluated
  as an action after its transaction, and repeats of the call make up for an
  evaluation that failed. Left out: the statements of `get_safety_assessment`,
  which reads assessment and signals separately, and evaluations of what policies
  observe themselves, which the code never makes.
- `CallEvidence`. Appends to a Lobby's archive, the snapshot a report pins, and a
  moderator's pages. Events after CALL_ENDED are outside the snapshot.
- `ContentSync`. One replica: `load` is a load in progress, which reads the
  policies, then the rules, then patterns, surfaces and actions, in five steps
  without a transaction. `slot` is `PolicySnapshotStore`: the last version and
  what is shown. `position` is the committed offset. A crash restarts there or,
  with a new consumer group (its name has the process id), at the beginning.
  `MissEvent` is a record that retention deleted before the consumer got to it. A
  load that reads torn rows fails to compile; then the process restarts, or the
  reconciliation waits for its next turn. The version reconciliation gives to a
  scope it did not find is looked up (`SweepLooks`) before it is removed
  (`SweepAbsent`).
- `SideEffectCooldown`. The registry of one process, asked before the evaluation
  is persisted, so that its window is used up even if persisting fails. The clock
  is read (`ReadClock`) before the mutex is taken (`Allow`).
- `PolicyWorkers`. Slots, locks, workers and the two pipes; an evaluation may be
  given up at every `await`. Which waiter gets a free lock does not matter and is
  any. What a sandbox computes is any `RunCodes`; pipe capacity is left out.

The second group models what one call computes. Each has a state machine over
the phases of the code, with the inputs chosen at the start.

- `ContentDecision`: layers, profiles and their remapping, composition and
  materialization for each destination. The spans a rule matched are inputs; the
  name surfaces are one.
- `PolicyEvaluation`: restrictions, features, policies in the order of their
  scopes, fallbacks, merge, persisted effects, delivery, the shadow evaluation.
  What a program asks for and a provider answers are inputs. The shadow
  evaluation resolves features again after the active one's restrictions are
  applied; of several censors the winner's text is used.
- `Requests`: a handler reads the row, asks Iris, commits, evaluates, answers,
  and its caller repeats; `H` gives each method its order of checks. Requests are
  well-formed and their principals may call the method.
- `Listings`: one table walked page by page under each listing's order, cursor
  and filter. Total counts are left out.
- `TextMatching`: patterns, the canonical and the security view, boundaries and
  spans, over classes of characters (letters of two scripts, capitals,
  look-alikes, dots, joiners, invisible characters, spaces, stars). Each character
  of a view has the range of the text it came from; `Ascending` lists positions in
  their order.
- `PolicyIr`: rule programs, refused or run, with missing features. `Nested` has
  the conditions by how deep they nest. The parse of JSON, paths, null, the trace
  and the equality of integers with floats are left out.

`MC*` modules give the constants their values. `MCOutboxRelay`, `MCSafetyScore`
and `MCAnswers` put parts side by side that share no variable: a behaviour is one
of a single part. Definitions introduced as a *slip* are plausible mistakes in
the definition that follows; no specification uses them, they show that a
property can fail. Actions are the code's operations; a call replayed under its
key, which returns what the first made, is a stuttering step.

## Runs

| Run | Shows |
|---|---|
| `ledger` | a notification that is not retry-safe is never run under two leases; the ledger implements `CommandPromise`; every command settles |
| `pipeline` | one message, two workers, two reviewers, four faults: effects exactly once, nothing unapproved at Prism, no record lost silently, the message states of the contract |
| `pipeline_live` | a message, an RPC and a malformed record: every record is acknowledged, holds with a deadline end, jobs are reported |
| `relay` | every row is published and each further copy goes back to a fault of its own; what a replica shows under a version is of that version or later, it has what every acknowledged event announced or something later, and scopes that had a policy when it started converge, in spite of crashes, lost events and torn loads |
| `policy` | the active version and the versions' states agree; nothing comes into force unpublished, a published version's fixtures stay as they were when its passing run was recorded |
| `policy_schedule` | a mandatory version in force has two approvals whatever two workers, a crash, ambiguous commits and a bundle update do, unless that update named a version to come, and every schedule ends |
| `staff` | a request whose case was closed or handed over never executes, a ban takes two people and happens once, only its live holder closes a case, every request settles |
| `sanctions` | what is revoked is lifted and stays so, is taken back from the score once, and the last notice gives the term in force, of the kinds that both tables of notices have |
| `safety` | scores are those of the committed observations; an answered call was observed once and evaluated; a transcript read to its end is the call; every call and action ends, through deadlocks and ambiguous commits |
| `answers` | in eight parts: grouping servers changes no decision and what is censored is hidden, but where it runs into a stripped link; the decision is the severest and failures are not silent, replaced names are not shown; repeats are answered as the original and SHADOW decides as LEGACY; rows that do not change are listed; a word is found where it is read; workers give each evaluation its own answer; a missing feature makes no rule apply; a side effect passes once per window |

Two runs are expected to be violated; `findings` in `PROJECT.json` quotes both
sides.

- `reconciliation_recovers`: a scope created after the reconciliation's load is
  taken for a deleted one, and the tombstone it gets has the version after the
  one that was loaded.
- `published_was_tested`: a fixture that changes while its version's tests run
  counts as tested, because the run is stored with the revision of its end
  (`policy/repository.rs:851`, `src/CONTRACT.md:128`).

### Known disagreements without a run

Found while modelling; each was confirmed on the model or by reading both sides.

- A hold that a failed dependency causes has no deadline (`policy/engine.rs:262`),
  although held actions have one (`src/README.md:29`, `src/CONTRACT.md:70`).
- Approving a held action that has no stored payload leaves it
  `APPROVED_PENDING_DELIVERY` for good (`policy/repository.rs:1382`,
  `src/CONTRACT.md:72`). The job of an approved hold carries the producer's
  action id, which `policy/repository.rs:1960` says it never trusts (`:1383`).
- An update that names a version its bundle has not reached passes the check of
  the mandatory flag on the bundle as it is (`policy/repository.rs:355`) and is
  carried out on a later one (`:371`), so that an activation in between leaves a
  mandatory version in force that nobody approved (`:358`, `src/CONTRACT.md:129`).
  `foresaw` marks it, and `MandatoryWasApprovedTwice` and `FlagIsFrozen` except it.
- A draft that continues on
  errors is not checked again when its bundle becomes mandatory
  (`policy/repository.rs:355`, `:540`). A bundle without shadow version yields
  NULL for `is_shadow` (`policy/repository.rs:1625`). A retired bundle, immutable
  by `:528`, can still be given an active version (`:1524`).
- "Repeating the same mutation returns its original resource"
  (`src/CONTRACT.md:124`) does not hold for `validate_policy` and
  `delete_policy_fixture`, which check the row before the key, nor for the calls
  without a key (claims of reports, decisions of requests, the command ledger).
- A caller that gives up leaves a worker with an unread answer, which the next
  evaluation on its slot takes for its own (`policy/luau.rs:91`), although
  `src/CONTRACT.md:135` has a worker killed after it. `OnlyTheGivenUpMislead`
  shows that nothing else does.
- A pattern of one star is not refused but sliced from 1 to 0
  (`content_policy/validation.rs:107`). A lower layer's STRIP_LINK
  shows what a higher one censored, where the censored span overlaps a link and is
  dropped (`content_policy/delivery.rs:142`, `content_policy/resolver.rs:175`);
  `CensoredIsHidden` excepts just that. A policy that bans a user from the product
  sends no notice, as a moderator's ban does (`policy/repository.rs:3060`,
  `moderation/repository.rs:666`). The cooldown mutes
  effects that were withheld or failed (`content_policy/cooldown.rs:17`).
- Resolving a review item directly leaves its action held
  (`moderation/repository.rs:2278`). `merge_effects` looks its winner up by id, which
  two policies may share (`policy/merge.rs:36`).
- The circuit of the OpenAI provider counts no cancelled request, and calls that
  queued before it opened are still sent (`policy/features/checks/openai.rs`).
- A record whose three attempts failed is acknowledged although nothing was
  stored (`src/CONTRACT.md:37`, `eventbus.rs:352`).

### Bounds

`Max*` constants and the sizes of sets; each module's header says what it bounds.

- Ledger: two leases of a command let a late first holder meet the second.
- Pipeline: four faults are one more than a dead letter takes, so that a
  dead-lettered record can also be delivered again or be decided by an ambiguous
  commit. Relay: two rows that arrive one after the other let one relay claim what
  another left; three faults.
- Policies: a bundle version of five is two drafts and an activation of each, a
  revision of two a fixture changed after it was tested.
- Staff: one case, two requests, two people and four versions of the case, enough
  to claim, hand over, close and let a stale caller act on each; all durations
  are one or two ticks, so that each of two timers can end first.
- Sanctions: two infractions that share one restriction, an appeal, a report,
  three versions of a row and a deadline of one tick or none.
- Safety: two calls under one key, an action whose policies observe both subjects
  in either order (a deadlock takes two subjects), two faults. Evidence: five
  actions of two Lobbies, two writers, pages of one and two.
- ContentSync: one scope, since scopes share only the topic and the load; two
  versions; two upsets, so that a crash can follow a torn load or a lost event.
- Answers: see the header of `MCAnswers`. The shortest disguised word is two
  letters here and four in the code (`Enough`), since only the comparison matters;
  conditions nest twice; three evaluations share one slot, the only place where
  they meet.

Lease lengths are chosen so that both orders of every comparison with the skew or
the send timeout occur. Deadlock is not checked where everything may be settled or
a version at its bound: pipelines, policies, staff, sanctions, safety, answers.
The ledger and the relay never stop, because time passes.

### Fairness

Ledger: Kafka redelivers a command until its bot acknowledges it; a bot that is up
finishes and repeats its completion until answered. Pipeline: an uncommitted
record is delivered again, in order (strong fairness: a worker busy with another
record gets to it); every `await` of a live worker ends (providers have deadlines,
sends have timeouts); the expiry worker ticks every 30 seconds; Prism (external)
carries out a job it received. Relay: the loop runs until cancelled and sleeps at
most a second. Content: events are published, both tasks are scheduled and the
database answers. Policies: the activation workers tick every second. Staff: the
expiry worker runs and time passes. Safety: callers repeat until answered, actions
are redelivered, PostgreSQL grants locks in the order they were asked for and
detects deadlocks. Crashes, faults, moderators, reviewers, replacements and
clients are never fair.

## Proofs

Eight modules of proofs stand beside their components. A theorem holds for every
value of the constants that satisfies the component's named assumption, so it does
not depend on the bounds above. Where a property is not inductive, this is what is
added to it.

### The database over time

- `CommandLedgerProofs` (`LedgerConstants`): `NonRetrySafeRunsUnderOneLease`,
  `LeaseExclusive`, `OneResultPerCompletion`, `TerminalIsFinal`, the refinement of
  `CommandPromise`. That a command is never leased twice needs that every lease in
  existence is of a counted attempt (`LeasesAreOfAttempts`); exclusion needs that
  a lease nobody can see as ended is still the table's (`LiveLeaseIsCurrent`).
- `ActionPipelineProofs` (`PipelineConstants`): `ExactlyOnceEffects`,
  `NoUnapprovedContent`, `ResolvedHoldHasNoOpenReview`, `NoSilentLoss` and, under
  `OwnIds`, the refinement of `MessageLifecycle`. `StoreInv` is about the tables:
  Prism posts only what it has a job for, a held action has no job an approval
  would add to. `WorkInv`: a worker past persisting has a decision or a dead
  letter to show.
- `TopicProofs`, the topics. Of `OutboxRelay` (`RelayConstants`):
  `PublishedIsOnTopic`, `PublishedIsFinal`, `BatchFitsItsLease`,
  `CopiesCostFaults`. The last two rest on `BatchSize * SendTimeout < LeaseTicks`
  and weigh the rows a relay has left against what is left of their leases. `Paid`
  keeps the account of a row: its copies, the relays about to send it, and one more
  while it may still be claimed (`Doubt`) come to no more than one and the faults.
  Of `ContentSync` (`SyncAssumption`): `ContentMatchesVersion`,
  `ConsumedIsShown`. `LoadInOrder`: a load's rows are no newer than the rules
  read after them, and these no newer than their parts. For the second, `FollowInv`
  ties the slots to what was acknowledged through everything that may stand between
  them: an event's version is in the database before it is in the topic
  (`EventsBehind`), so the load at boot, which reads every scope, covers what an
  earlier process acknowledged (`BootCovers`), and what the consumer is about to
  acknowledge was applied (`Applied`).
- `PolicyLifecycleProofs` (`PolicyConstants`): `ActiveVersionAgrees`,
  `EnforcedWasVetted`, `MandatoryWasApprovedTwice`, `ScheduledOnce`,
  `FlagIsFrozen`. That the mandatory flag stays under an active version although
  `update_bundle` checks it before its transaction needs `EditorsAreCurrent`: an
  update that read the version it expects was checked on that bundle if it is
  still current. Only those that expect a later one than they read escape it.
  The refinement of `PolicyPromise` (`KeepsPromise`) says what is left of all this
  when versions' states, updates, leases and workers are taken away: what is
  published had passing tests and changes no more, only that comes into force or
  into shadow, and what was booked comes into force at most once. It needs that a
  verdict is never about a later revision than the version's (`RunsAndBookings`):
  then writing a fixture makes the version untested.
- `StaffWorkflowProofs` (`StaffConstants`): `VersionNamesRow`,
  `ForfeitedNeverExecutes`, `BannedOnceByTwoPeople`, `LiveClaimIsRespected`,
  `ClosedOnceByItsHolder`. `ForfeitedIsDead` says why a forfeited request cannot
  be approved: it is settled, or its case is closed and never has a holder again.
  The refinement of `CasePromise` (`KeepsPromise`) takes away versions, rows that
  were read before, leases, cooldowns and windows: a renewal is not seen, time only
  ends claims, and the expiry worker drops requests that nobody may decide any
  more. Every call on an old row still comes to a step on what is so now. It needs
  that a report that is not there has nobody who closed it (`AbsentIsBlank`).
- `SanctionsProofs` (`SanctionConstants`): `RevokedIsLifted`, `MitigatedOnce`,
  `UserKnowsTheTerm`, `PairsShareReport`, `EveryChangeIsVersioned`,
  `LinksArePermanent`. Each action is shown to move single rows as `Moves` allows;
  one lemma shows that such moves keep the invariant. `RowsNamed`: a row that
  another names is there.
- `SafetyScoreProofs`. Of `SafetyScore` (`SafetyConstants`, which has finitely many
  sources of signals): `ScoreIsCurrent`, through what a transaction that holds the
  lock has summed (`SumIsCurrent`) and that nobody else holds it
  (`LocksExclude`); `AnsweredIsEvaluated`, through what each statement of a call
  leaves behind (`Proceeds`): the key names one operation, its observation is there
  once, and the version it was first part of is one the assessment has had
  (`CountedOnce`). Of `CallEvidence` (`EvidenceConstants`): `TranscriptIsTheCall`
  and `Gapless`, the numbers of a Lobby's events being those from 1 to the
  archive's, whatever transactions roll back.

### One call

All in `AnswersProofs`. The inputs are arbitrary members of what the theorem's
hypotheses name, so the theorems are about any text, policies, request or table.

- `SideEffectCooldown`: `OncePerWindow`. An entry ends with the window of the last
  admission, unless it made room for another (`EntryIsTheWindow`), although the
  times that evaluations read (`AskedBefore`) come to the registry in any order.
- `ContentDecision`: `GroupingIsTransparent`, `CensoredIsHidden`. The invariant
  `DecisionIInv` ties what the layers share to what each would give by itself;
  servers of one profile differ by a renaming of rules only, and merged spans
  cover what the spans covered and run into a link just where these do. `InputsOK` has policies the validation accepts.
- `PolicyEvaluation`: `NoReplacedNameIsShown` for any input, and
  `DecisionIsSeverest` and `FailureIsNotSilent` for policies with `AllInOrder`:
  priorities are integers, programs are lists, and no authored effect id has the
  form of a fallback's, `{policy_version_id}:{component}:hold`
  (`policy/engine.rs:1060`), since a version's id is drawn when it is stored, after
  its program was written. `EffectsIInv`: what was emitted so far is what the
  restrictions and the policies passed say by themselves.
- `Requests`: `RepeatsAreTheOriginal`, `ShadowIsLegacy`, for the handler of every
  method. `HandlerOK` is what all of them share, shown for each; `AppliedShows`,
  `NotYetStored`, `RowStays` and `NeverFiled` relate the row and the key to the
  place of the handler, and `RefusalIsFair` and `ShadowDecidesNothing` are the
  properties for an answer not given yet.
- `Listings` (`ListingConstants`, which has finitely many ids: the UUIDs):
  `SteadyRowsAreListed`. `NothingIsSkipped`: such a row was listed, or comes after
  the cursor in the listing's order and the walk is open.
- `PolicyIr` (`ConditionsNest`): `AbsenceNeverApplies`, for conditions that nest to
  any depth. `ConditionsNest` is what the JSON parser ensures: a bound on the depth
  (serde_json has one of 128), known operators and sources, literals that are
  there. A rule reads declared features only, since its program was accepted
  (`IrIInv`), and what it compares is then there (`SaysStays`).
- `TextMatching` (`MatchingConstants`): `FoundWhereItIsRead`, for any alphabet,
  texts and patterns. Both views are shown to `Show` the text: their characters
  are of ranges of the text in its order, their letters are the text's, and two
  letters stand side by side just where all between them is hidden. For the canonical
  view that is proved over the beginnings of the text, for the security view from
  the set of positions it keeps (`HiddenIsDropped`: all that is dropped is
  hidden from the reader; `KeptInWord`: within a word nothing else is). One lemma
  about any view that shows a text then turns a match in the view into a range of
  the text in which the reader sees the word, and back.
- `PolicyWorkers` (`WorkerConstants`): `OnlyTheGivenUpMislead`. While nobody gave
  up on a slot, its worker holds at most one line, of the evaluation that reads
  from it (`NothingIsLeftOver`), and only the lock's holder exchanges lines
  (`LockIsHeld`).

Induction over numbers, effects of a program and the depth of conditions goes by
the smallest counterexample (`LeastNumber`, from `WFMin`): the library's induction
theorems take operators, which the provers cannot instantiate. That a recursive
function is what its definition says is proved the same way (`InTurn` for the
effects of a program, `SomeTree` and `SomeHold` for conditions).

Each module also proves the type invariants. `LeaseExclusive`,
`OneResultPerCompletion`, `TerminalIsFinal`, `ResolvedHoldHasNoOpenReview`,
`PublishedIsOnTopic`, `PublishedIsFinal`, `BatchFitsItsLease`, `ScheduledOnce`,
`FlagIsFrozen`, `VersionNamesRow`, `LiveClaimIsRespected`, `PairsShareReport`,
`LinksArePermanent`, `EveryChangeIsVersioned`, `Gapless` and the `KeepsPromise` of
the policies and of the staff workflow are proved without a run of their own.

Model-checked only: the seven liveness properties (`EveryCommandSettles`,
`EveryObligationEnds`, `EveryRowIsPublished`, `ExistingScopesConverge`,
`EveryScheduleEnds`, `RequestsSettle`, `EveryCallEnds`), which need fairness that
the prover does not handle. Every other property of a passing run is a theorem.

## Not modelled

- Inside providers: HTTP, image decoding, classifiers, caches and the circuit. What
  they answer is an input.
- Inside text: compatibility forms, combining marks, masked links and the exclusion
  of links; joiners beside non-Latin letters.
- Inside a policy: the Luau sandbox, its limits' measurement, the JSON of rule
  programs.
- Tokens and Iris's decisions: inputs of `Requests`. Encryption, tracing,
  configuration, start-up, generated code: no protocol state.
- How long feature answers stay true: two actions of a user at a time both read a
  counter before either is counted (listed as a hazard without property).

## What is left

An abstract specification of the composition of `Sanctions` with `StaffWorkflow`
is not written. The circuit of the OpenAI provider would be a module of its own.
