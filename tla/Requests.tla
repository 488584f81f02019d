------------------------------- MODULE Requests -------------------------------
(***************************************************************************)
(* The handlers of the gRPC service, as steps of one request and of its    *)
(* repeats under the same idempotency key: the stored row is read, Iris is *)
(* asked one or more times, the mutation commits in one transaction, and   *)
(* some then evaluate the subject's safety.  Iris, PostgreSQL and the      *)
(* evaluation may fail at each step, the answer may be lost, and others    *)
(* write the same row in between.  Requests are well-formed, and their     *)
(* service principals may call the method.  What a transaction does is in  *)
(* the modules of its component; here it is the row's version and its key. *)
(***************************************************************************)
EXTENDS Integers, Sequences

CONSTANTS
    Modes,          \* STAFF_AUTHORIZATION_MODE: Legacy, Shadow, Enforce
    MaxAttempts,    \* bound: how often a caller sends the request
    MaxVersion      \* bound of the row's version

ASSUME RequestConstants ==
    /\ Modes \subseteq {"Legacy", "Shadow", "Enforce"}
    /\ MaxAttempts \in Nat /\ MaxVersion \in Nat

VARIABLES
    request,        \* the method, the actor and what the handlers look at
    mode,           \* the service's configuration
    row,            \* the stored row the request is about
    key,            \* the idempotency key was claimed
    attempt,        \* of the handler: its step and the calls left
    answers,        \* Iris's answers in this attempt
    reply,          \* of the last attempt
    sent,           \* attempts so far
    done,           \* history: times the mutation was applied
    doneBefore,     \* history: done when the attempt began
    meddled         \* history: another request wrote the row

requestVars == <<request, mode, row, key, attempt, answers, reply, sent, done, doneBefore, meddled>>

ScopeTypes == {"PLATFORM", "PRODUCT", "HUB", "LOBBY", "INCIDENT_OVERLAY"}

(* ---------------------------- authorization ---------------------------- *)
\* One question: who answers it, and what the handler makes of an answer.
Service == [ask |-> "service", wants |-> "allow", otherwise |-> "denied"]
User == [ask |-> "user", wants |-> "allow", otherwise |-> "denied"]
Check == [ask |-> "check", wants |-> "allow", otherwise |-> "denied"]
Staff == [ask |-> "staff", wants |-> "allow", otherwise |-> "denied"]
Logged == [ask |-> "logged", wants |-> "any", otherwise |-> "denied"]

Punish == [ask |-> "staff", wants |-> "allow", otherwise |-> "precondition"]

NeedsApproval == [ask |-> "staff", wants |-> "approval", otherwise |-> "precondition"]
Bypass == [ask |-> "staff", wants |-> "any", otherwise |-> "denied"]
Never == [ask |-> "nobody", wants |-> "approval", otherwise |-> "precondition"]

\* A gate: first a Hub permission that is enough by itself, if `hub`; then calls.
Gate(calls) == [hub |-> FALSE, calls |-> calls]
Nothing == Gate(<<>>)

\* Slip: in SHADOW mode the new decision counts.
AuthorizeStaffStrictly(call) ==
    IF mode = "Legacy" THEN <<Check>> ELSE IF mode = "Shadow" THEN <<Check, call>> ELSE <<call>>

AuthorizeStaff(call) ==
    IF mode = "Legacy" THEN <<Check>> ELSE IF mode = "Shadow" THEN <<Check, Logged>> ELSE <<call>>

\* authorize_scope asks for one permission, of the scope's type.
AuthorizeScope == <<Check>>
AuthorizeScopeOrService(q) == IF q.actor = "SERVICE" THEN <<Service>> ELSE AuthorizeScope
AuthorizePolicyBundle == <<Check>>

\* GLOBAL is the platform here, and a server any other scope.
AuthorizeContentPolicyScope(q) ==
    IF q.scope = "HUB" THEN <<Check>> ELSE IF q.scope = "PLATFORM" THEN <<Check>> ELSE <<User>>
AuthorizeNonHubStaffScope == Gate(AuthorizeStaff(Staff))
AuthorizeHubOrStaff(q) ==
    IF q.actor = "SERVICE" THEN Gate(<<Service>>) ELSE [hub |-> TRUE, calls |-> AuthorizeStaff(Staff)]

HubOrNonHub(q) == IF q.scope = "HUB" THEN AuthorizeHubOrStaff(q) ELSE AuthorizeNonHubStaffScope
LegacyScope == IF mode # "Enforce" THEN AuthorizeScope ELSE <<>>
Punishable(q) == q.scope \in {"PRODUCT", "PLATFORM"}

(* ------------------------------- handlers ------------------------------ *)
Read(gate) == [reads |-> TRUE, gate |-> gate, before |-> "nothing", store |-> "nothing",
               writes |-> "nothing", follows |-> FALSE]
List(gate) == [Read(gate) EXCEPT !.reads = FALSE]
Late(gate) == [List(gate) EXCEPT !.store = "read"]
Mutate(reads, gate, writes) ==
    [reads |-> reads, gate |-> gate, before |-> "nothing", store |-> "claimed",
     writes |-> writes, follows |-> FALSE]
Bundle(writes) == Mutate(TRUE, Gate(AuthorizePolicyBundle), writes)
Case(calls, writes) == [Mutate(FALSE, Gate(<<User>> \o calls), writes) EXCEPT !.store = "versioned"]

evaluate_action == List(Gate(<<Service>>))
claim_command == [Mutate(FALSE, Gate(<<Service>>), "update") EXCEPT !.store = "versioned"]
complete_command == [Mutate(FALSE, Gate(<<Service>>), "update") EXCEPT !.store = "versioned"]
get_content_policy(q) == List(Gate(AuthorizeContentPolicyScope(q)))
replace_content_policy(q) == Mutate(FALSE, Gate(AuthorizeContentPolicyScope(q)), "update")
create_policy_bundle == Mutate(FALSE, Gate(AuthorizeScope), "create")
get_policy_bundle == Read(Gate(AuthorizePolicyBundle))
list_policy_bundles == List(Gate(AuthorizeScope))
update_policy_bundle == Bundle("update")
disable_policy_bundle == Bundle("update")
retire_policy_bundle == Bundle("update")
create_policy_draft == Bundle("update")

\* Only a draft is validated, whoever validated it.
validate_policy == [Bundle("validate") EXCEPT !.before = "draft"]

\* Slip: the tests are run again, and their result is recorded again.
run_policy_tests_again == [Bundle("create") EXCEPT !.store = "versioned"]

\* The results recorded under the key are looked up before the tests run.
run_policy_tests == [Bundle("create") EXCEPT !.before = "replay"]

create_policy_fixture == Bundle("create")
update_policy_fixture == Bundle("update")
delete_policy_fixture == Bundle("remove")
list_policy_fixtures == Read(Gate(AuthorizePolicyBundle))
set_shadow_mode == Bundle("update")
publish_policy_version == Bundle("update")
approve_policy_version == Bundle("create")
activate_policy_version == [Bundle("update") EXCEPT !.before = "providers"]
rollback_policy == Bundle("update")
list_policy_versions == Read(Gate(AuthorizePolicyBundle))
get_execution_trace == Read(Gate(<<Check>>))
get_provider_health == List(Gate(<<Check>>))
create_nsfw_override == Mutate(FALSE, Gate(<<Check>>), "create")
get_nsfw_override == Late(Gate(<<Check>>))
list_nsfw_overrides == List(Gate(<<Check>>))
update_nsfw_override == Mutate(FALSE, Gate(<<Check>>), "update")
delete_nsfw_override == Mutate(FALSE, Gate(<<Check>>), "remove")
list_execution_traces == List(Gate(AuthorizeScope))

\* `staff`: a lobby ban of the product, or a blacklist of the platform.
create_restriction(q) ==
    LET special == q.staff /\ Punishable(q)
    IN Mutate(FALSE, Gate((IF special THEN LegacyScope ELSE AuthorizeScope)
                            \o IF special THEN AuthorizeStaff(Punish) ELSE <<>>), "create")

ReadRecord(q) == IF q.scope = "HUB" THEN AuthorizeHubOrStaff(q) ELSE Gate(AuthorizeStaff(Staff))
get_restriction(q) == Read(ReadRecord(q))

\* `expiry`: the update sets when the restriction ends.
update_restriction(q) ==
    LET calls == LegacyScope \o (IF Punishable(q) THEN AuthorizeStaff(Staff) ELSE <<>>)
                   \o IF Punishable(q) /\ q.expiry THEN AuthorizeStaff(Punish) ELSE <<>>
    IN Mutate(TRUE, IF q.scope = "HUB" THEN AuthorizeHubOrStaff(q) ELSE Gate(calls), "update")

RevokeGate(q) ==
    IF q.scope = "HUB" THEN AuthorizeHubOrStaff(q)
    ELSE Gate(LegacyScope \o IF Punishable(q) THEN AuthorizeStaff(Staff) ELSE <<>>)

revoke_restriction(q) == Mutate(TRUE, RevokeGate(q), "update")

list_restrictions(q) ==
    List(IF q.scope = "HUB" THEN AuthorizeHubOrStaff(q)
         ELSE IF q.actor = "SERVICE" THEN Nothing ELSE Gate(AuthorizeStaff(Staff)))

\* `staff`: a warning from a report, a Hub's case, or a punishment as above.
create_infraction(q) ==
    LET gate == IF q.scope = "HUB" /\ q.staff THEN AuthorizeHubOrStaff(q)
                ELSE Gate((IF q.staff /\ mode = "Enforce" THEN <<>> ELSE AuthorizeScopeOrService(q))
                            \o IF q.staff THEN AuthorizeStaff(Punish) ELSE <<>>)
    IN [Mutate(FALSE, gate, "create") EXCEPT !.follows = TRUE]

get_infraction(q) == Read(ReadRecord(q))
revoke_infraction(q) == [Mutate(TRUE, RevokeGate(q), "update") EXCEPT !.follows = TRUE]

\* PostgreSQL refuses the statement: one of its parameters has no type.
revoke_infractions_by_type == [Mutate(FALSE, Gate(AuthorizeScope), "update") EXCEPT !.store = "broken"]
list_infractions(q) == List(ReadRecord(q))
list_my_infractions == List(Gate(<<User>>))
list_moderation_records(q) ==
    List(Gate(IF q.actor = "SERVICE" THEN <<Service>> ELSE AuthorizeStaff(Staff)))
link_moderation_record_report == Mutate(TRUE, Gate(AuthorizeStaff(Staff)), "update")
create_report == [Mutate(FALSE, Gate(<<User>>), "create") EXCEPT !.follows = TRUE]
get_report(q) == Read(ReadRecord(q))
list_reports(q) == List(ReadRecord(q))
list_report_transcript(q) ==
    Read(Gate(IF q.actor = "SERVICE" THEN <<Service>> ELSE AuthorizeStaff(Staff)))
resolve_report(q) ==
    [Mutate(TRUE, IF q.scope = "HUB" THEN AuthorizeHubOrStaff(q)
                  ELSE Gate(LegacyScope \o AuthorizeStaff(Staff)), "update") EXCEPT !.follows = TRUE]
create_appeal == Mutate(FALSE, Gate(<<User>>), "create")
get_appeal(q) == Read(HubOrNonHub(q))
list_appeals(q) == List(HubOrNonHub(q))

\* `accepted`: the infraction's subject is evaluated again.
resolve_appeal(q) == [Mutate(TRUE, HubOrNonHub(q), "update") EXCEPT !.follows = q.accepted]
list_review_items(q) == List(HubOrNonHub(q))
resolve_review_item == Mutate(TRUE, Gate(AuthorizeScope), "update")
adjudicate_held_action(q) == Mutate(TRUE, HubOrNonHub(q), "update")
get_safety_assessment(q) == List(HubOrNonHub(q))
record_safety_observation(q) ==
    [Mutate(FALSE, Gate(AuthorizeScopeOrService(q)), "create") EXCEPT !.follows = TRUE]
recalculate_safety_assessment(q) ==
    [Mutate(FALSE, Gate(AuthorizeScopeOrService(q)), "create") EXCEPT !.follows = TRUE]
get_moderation_statistics == List(Gate(AuthorizeScope))
get_staff_action_request == Late(Gate(<<User>> \o AuthorizeStaff(Staff)))
list_staff_action_requests == List(Gate(<<User>> \o AuthorizeStaff(Staff)))

\* `bypass`: a reason to pass the cooldown is given.
claim_report(q) ==
    Case(AuthorizeStaff(Staff) \o IF q.bypass THEN AuthorizeStaff(Bypass) ELSE <<>>, "update")
renew_report_claim == Case(AuthorizeStaff(Staff) \o AuthorizeStaff(Staff), "update")
unclaim_report == Case(AuthorizeStaff(Staff), "update")
assign_report == Case(AuthorizeStaff(Staff), "update")
transfer_report(q) ==
    Case(AuthorizeStaff(Staff) \o IF q.bypass THEN AuthorizeStaff(Bypass) ELSE <<>>, "update")

\* Where the staff decision is not asked for, no approval is ever required.
create_staff_action_request ==
    Mutate(FALSE, Gate(<<User>> \o AuthorizeStaff(NeedsApproval)
                         \o IF mode = "Enforce" THEN <<>> ELSE <<Never>>), "create")
resolve_staff_action_request ==
    [Case(AuthorizeStaff(Staff) \o AuthorizeStaff(Staff), "update") EXCEPT !.reads = TRUE]

PlainMethods == {
    "evaluate_action", "claim_command", "complete_command", "create_policy_bundle",
    "get_policy_bundle", "list_policy_bundles", "update_policy_bundle", "disable_policy_bundle",
    "retire_policy_bundle", "create_policy_draft", "validate_policy", "run_policy_tests",
    "create_policy_fixture", "update_policy_fixture", "delete_policy_fixture",
    "list_policy_fixtures", "set_shadow_mode", "publish_policy_version", "approve_policy_version",
    "activate_policy_version", "rollback_policy", "list_policy_versions", "get_execution_trace",
    "get_provider_health", "create_nsfw_override", "get_nsfw_override", "list_nsfw_overrides",
    "update_nsfw_override", "delete_nsfw_override", "list_execution_traces",
    "revoke_infractions_by_type", "list_my_infractions", "link_moderation_record_report",
    "create_report", "create_appeal", "resolve_review_item", "get_moderation_statistics",
    "get_staff_action_request", "list_staff_action_requests", "renew_report_claim",
    "unclaim_report", "assign_report", "create_staff_action_request", "resolve_staff_action_request"}

\* Their gate depends on the scope, the actor or what is asked for.
ScopedMethods == {
    "get_content_policy", "replace_content_policy", "create_restriction", "get_restriction",
    "update_restriction", "revoke_restriction", "list_restrictions", "create_infraction",
    "get_infraction", "revoke_infraction", "list_infractions", "list_moderation_records",
    "get_report", "list_reports", "list_report_transcript", "resolve_report", "get_appeal",
    "list_appeals", "resolve_appeal", "list_review_items", "adjudicate_held_action",
    "get_safety_assessment", "record_safety_observation", "recalculate_safety_assessment",
    "claim_report", "transfer_report"}

Handler(q) ==
    CASE q.method = "evaluate_action" -> evaluate_action
      [] q.method = "claim_command" -> claim_command
      [] q.method = "complete_command" -> complete_command
      [] q.method = "create_policy_bundle" -> create_policy_bundle
      [] q.method = "get_policy_bundle" -> get_policy_bundle
      [] q.method = "list_policy_bundles" -> list_policy_bundles
      [] q.method = "update_policy_bundle" -> update_policy_bundle
      [] q.method = "disable_policy_bundle" -> disable_policy_bundle
      [] q.method = "retire_policy_bundle" -> retire_policy_bundle
      [] q.method = "create_policy_draft" -> create_policy_draft
      [] q.method = "validate_policy" -> validate_policy
      [] q.method = "run_policy_tests" -> run_policy_tests
      [] q.method = "create_policy_fixture" -> create_policy_fixture
      [] q.method = "update_policy_fixture" -> update_policy_fixture
      [] q.method = "delete_policy_fixture" -> delete_policy_fixture
      [] q.method = "list_policy_fixtures" -> list_policy_fixtures
      [] q.method = "set_shadow_mode" -> set_shadow_mode
      [] q.method = "publish_policy_version" -> publish_policy_version
      [] q.method = "approve_policy_version" -> approve_policy_version
      [] q.method = "activate_policy_version" -> activate_policy_version
      [] q.method = "rollback_policy" -> rollback_policy
      [] q.method = "list_policy_versions" -> list_policy_versions
      [] q.method = "get_execution_trace" -> get_execution_trace
      [] q.method = "get_provider_health" -> get_provider_health
      [] q.method = "create_nsfw_override" -> create_nsfw_override
      [] q.method = "get_nsfw_override" -> get_nsfw_override
      [] q.method = "list_nsfw_overrides" -> list_nsfw_overrides
      [] q.method = "update_nsfw_override" -> update_nsfw_override
      [] q.method = "delete_nsfw_override" -> delete_nsfw_override
      [] q.method = "list_execution_traces" -> list_execution_traces
      [] q.method = "revoke_infractions_by_type" -> revoke_infractions_by_type
      [] q.method = "list_my_infractions" -> list_my_infractions
      [] q.method = "link_moderation_record_report" -> link_moderation_record_report
      [] q.method = "create_report" -> create_report
      [] q.method = "create_appeal" -> create_appeal
      [] q.method = "resolve_review_item" -> resolve_review_item
      [] q.method = "get_moderation_statistics" -> get_moderation_statistics
      [] q.method = "get_staff_action_request" -> get_staff_action_request
      [] q.method = "list_staff_action_requests" -> list_staff_action_requests
      [] q.method = "renew_report_claim" -> renew_report_claim
      [] q.method = "unclaim_report" -> unclaim_report
      [] q.method = "assign_report" -> assign_report
      [] q.method = "create_staff_action_request" -> create_staff_action_request
      [] q.method = "resolve_staff_action_request" -> resolve_staff_action_request
      [] q.method = "get_content_policy" -> get_content_policy(q)
      [] q.method = "replace_content_policy" -> replace_content_policy(q)
      [] q.method = "create_restriction" -> create_restriction(q)
      [] q.method = "get_restriction" -> get_restriction(q)
      [] q.method = "update_restriction" -> update_restriction(q)
      [] q.method = "revoke_restriction" -> revoke_restriction(q)
      [] q.method = "list_restrictions" -> list_restrictions(q)
      [] q.method = "create_infraction" -> create_infraction(q)
      [] q.method = "get_infraction" -> get_infraction(q)
      [] q.method = "revoke_infraction" -> revoke_infraction(q)
      [] q.method = "list_infractions" -> list_infractions(q)
      [] q.method = "list_moderation_records" -> list_moderation_records(q)
      [] q.method = "get_report" -> get_report(q)
      [] q.method = "list_reports" -> list_reports(q)
      [] q.method = "list_report_transcript" -> list_report_transcript(q)
      [] q.method = "resolve_report" -> resolve_report(q)
      [] q.method = "get_appeal" -> get_appeal(q)
      [] q.method = "list_appeals" -> list_appeals(q)
      [] q.method = "resolve_appeal" -> resolve_appeal(q)
      [] q.method = "list_review_items" -> list_review_items(q)
      [] q.method = "adjudicate_held_action" -> adjudicate_held_action(q)
      [] q.method = "get_safety_assessment" -> get_safety_assessment(q)
      [] q.method = "record_safety_observation" -> record_safety_observation(q)
      [] q.method = "recalculate_safety_assessment" -> recalculate_safety_assessment(q)
      [] q.method = "claim_report" -> claim_report(q)
      [] q.method = "transfer_report" -> transfer_report(q)

(* -------------------------------- steps -------------------------------- *)
Idle == [step |-> "idle", calls |-> <<>>]
H == Handler(request)

Answered(r) == reply' = r /\ attempt' = Idle

\* authenticate_request! and validate_context let a well-formed request pass.
Send ==
    /\ attempt.step = "idle" /\ sent < MaxAttempts
    /\ reply \in {"none", "lost", "unavailable", "internal"}
    /\ attempt' = [step |-> "read", calls |-> <<>>]
    /\ sent' = sent + 1 /\ answers' = {} /\ reply' = "none" /\ doneBefore' = done
    /\ UNCHANGED <<request, mode, row, key, done, meddled>>

ReadRow ==
    /\ attempt.step = "read"
    /\ \/ H.reads /\ ~row.there /\ Answered("not_found")
       \/ H.reads /\ Answered("internal")
       \/ /\ H.reads => row.there
          /\ attempt' = [step |-> IF H.gate.hub THEN "hub" ELSE "calls", calls |-> H.gate.calls]
          /\ UNCHANGED reply
    /\ UNCHANGED <<request, mode, row, key, answers, sent, done, doneBefore, meddled>>

\* The Hub's permission is enough; only its refusal leads to the staff's.
AskHub ==
    /\ attempt.step = "hub"
    /\ \E a \in IF request.actor = "SERVICE" THEN {"deny"} ELSE {"allow", "deny", "unavailable"} :
         /\ answers' = answers \cup {[ask |-> "hub", answer |-> a]}
         /\ IF a = "unavailable" THEN Answered(a)
            ELSE /\ attempt' = [attempt EXCEPT !.step = IF a = "allow" THEN "before" ELSE "calls"]
                 /\ UNCHANGED reply
    /\ UNCHANGED <<request, mode, row, key, sent, done, doneBefore, meddled>>

\* What a question can be answered: services are no moderators and hold no
\* staff, and the logged question of the shadow mode decides nothing.
Possible(ask) ==
    IF ask = "nobody" THEN {"allow"}
    ELSE IF ask = "service" THEN (IF request.actor = "SERVICE" THEN {"allow"} ELSE {"deny"})
    ELSE IF ask = "user" THEN (IF request.actor = "HUMAN" THEN {"allow"} ELSE {"deny"})
    ELSE IF request.actor = "SERVICE" THEN {"deny"}
    ELSE IF ask = "check" THEN {"allow", "deny", "unavailable"}
    ELSE {"allow", "deny", "approval", "unavailable"}

Verdict(call, a) ==
    IF call.ask = "logged" THEN "go"
    ELSE IF a = "unavailable" THEN "unavailable"
    ELSE IF call.wants \in {"any", a} THEN "go"
    ELSE IF call.ask = "staff" /\ call.wants = "allow" /\ a = "deny" THEN "denied"
    ELSE call.otherwise

Ask ==
    /\ attempt.step = "calls"
    /\ IF attempt.calls = <<>>
       THEN attempt' = [step |-> "before", calls |-> <<>>] /\ UNCHANGED <<answers, reply>>
       ELSE \E a \in Possible(Head(attempt.calls).ask) :
              /\ answers' = answers \cup {[ask |-> Head(attempt.calls).ask, answer |-> a]}
              /\ IF Verdict(Head(attempt.calls), a) = "go"
                 THEN attempt' = [attempt EXCEPT !.calls = Tail(@)] /\ UNCHANGED reply
                 ELSE Answered(Verdict(Head(attempt.calls), a))
    /\ UNCHANGED <<request, mode, row, key, sent, done, doneBefore, meddled>>

\* What a handler looks at before its transaction: a version that is no draft,
\* results that were recorded, providers that are not healthy.
Before ==
    /\ attempt.step = "before"
    /\ \/ /\ \/ H.before = "nothing"
             \/ H.before = "draft" /\ row.draft
             \/ H.before = "replay" /\ ~key
             \/ H.before = "providers"
          /\ attempt' = [step |-> "store", calls |-> <<>>] /\ UNCHANGED reply
       \/ H.before = "draft" /\ ~row.draft /\ Answered("precondition")
       \/ H.before = "replay" /\ key /\ Answered("ok")
       \/ H.before = "providers" /\ Answered("unhealthy")
    /\ UNCHANGED <<request, mode, row, key, answers, sent, done, doneBefore, meddled>>

Afterwards == IF H.follows THEN attempt' = [step |-> "follow", calls |-> <<>>] /\ UNCHANGED reply
              ELSE Answered("ok")

Replay ==
    /\ H.store = "claimed" /\ key
    /\ Afterwards
    /\ UNCHANGED <<row, key, done>>

Conflict ==
    /\ H.store \in {"claimed", "versioned"} /\ ~(H.store = "claimed" /\ key)
    /\ H.writes # "create"
    /\ ~row.there \/ row.version # 1 \/ (H.writes = "validate" /\ ~row.draft)
    /\ Answered(IF row.there THEN "aborted" ELSE "not_found")
    /\ UNCHANGED <<row, key, done>>

Apply ==
    /\ H.store \in {"claimed", "versioned"} /\ ~(H.store = "claimed" /\ key)
    /\ H.writes # "create" => row.there /\ row.version = 1 /\ (H.writes = "validate" => row.draft)
    /\ key' = (H.store = "claimed")
    /\ done' = done + 1
    /\ row' = IF H.writes = "create" THEN row
              ELSE [there   |-> H.writes # "remove",
                    version |-> IF H.writes = "update" THEN row.version + 1 ELSE row.version,
                    draft   |-> row.draft /\ H.writes # "validate"]
    /\ Afterwards

\* The transaction, or the query.
Store ==
    /\ attempt.step = "store"
    /\ \/ Replay \/ Conflict \/ Apply
       \/ /\ H.store = "nothing" \/ (H.store = "read" /\ row.there)
          /\ Answered("ok") /\ UNCHANGED <<row, key, done>>
       \/ H.store = "read" /\ ~row.there /\ Answered("not_found") /\ UNCHANGED <<row, key, done>>
       \/ Answered("internal") /\ UNCHANGED <<row, key, done>>
    /\ H.store = "broken" => reply' = "internal"
    /\ UNCHANGED <<request, mode, answers, sent, doneBefore, meddled>>

\* evaluate_current_safety or evaluate_safety_assessment_update.
FollowUp ==
    /\ attempt.step = "follow"
    /\ Answered("ok") \/ Answered("internal")
    /\ UNCHANGED <<request, mode, row, key, answers, sent, done, doneBefore, meddled>>

\* The answer, or the process, is lost on the way.
LoseReply ==
    /\ \/ attempt.step = "idle" /\ reply \notin {"none", "lost"}
       \/ attempt.step # "idle"
    /\ Answered("lost")
    /\ UNCHANGED <<request, mode, row, key, answers, sent, done, doneBefore, meddled>>

\* Someone else changes, validates or deletes the row.
Meddle ==
    /\ row.there /\ row.version < MaxVersion
    /\ row' \in {[there |-> TRUE, version |-> row.version + 1, draft |-> row.draft],
                 [there |-> TRUE, version |-> row.version, draft |-> FALSE],
                 [there |-> FALSE, version |-> row.version, draft |-> row.draft]}
    /\ row' # row
    /\ meddled' = TRUE
    /\ UNCHANGED <<request, mode, key, attempt, answers, reply, sent, done, doneBefore>>

\* A method and what it looks at; a Hub's, or another, with or without a staff
\* operation.
Asked == [method : PlainMethods \cup ScopedMethods, scope : ScopeTypes, actor : {"HUMAN", "SERVICE"},
          staff : BOOLEAN, expiry : BOOLEAN, accepted : BOOLEAN, bypass : BOOLEAN]

RequestInitWith(requests) ==
    /\ mode \in Modes /\ request \in requests
    /\ row = [there |-> TRUE, version |-> 1, draft |-> TRUE]
    /\ key = FALSE /\ attempt = Idle /\ answers = {} /\ reply = "none"
    /\ sent = 0 /\ done = 0 /\ doneBefore = 0 /\ meddled = FALSE

RequestNext == Send \/ ReadRow \/ AskHub \/ Ask \/ Before \/ Store \/ FollowUp \/ LoseReply \/ Meddle

RequestSpec(requests) == RequestInitWith(requests) /\ [][RequestNext]_requestVars

(* ------------------------------ properties ----------------------------- *)
Refusals == {"denied", "precondition", "not_found", "aborted", "unhealthy"}

\* The shadow mode decides as the legacy mode does: what the new authorization
\* would have said neither refuses nor lets pass.
ShadowIsLegacy ==
    mode = "Shadow" /\ attempt.step = "idle" =>
        /\ reply = "denied" => \E x \in answers : x.ask # "logged" /\ x.answer = "deny"
        /\ ~\E x \in answers : x.ask = "staff"
        /\ reply = "precondition" => request.method \in {"validate_policy", "create_staff_action_request"}

\* Iris, or the actor, gave an answer the first attempt did not get.
RefusedNow ==
    \E x \in answers :
        /\ x.ask # "logged"
        /\ x.answer # IF x.ask = "staff" /\ request.method = "create_staff_action_request"
                      THEN "approval" ELSE "allow"

\* A request is applied once however often it is repeated, and an attempt that
\* is refused applied nothing.  A repeat of what was applied, under the same
\* key, is not refused, as long as the answers of Iris are as they were and
\* nobody else wrote the row, where the key is looked up before the row is.
RepeatsAreTheOriginal ==
    /\ done <= 1
    /\ attempt.step = "idle" /\ reply \in Refusals =>
         /\ done = doneBefore
         /\ \/ done = 0 \/ meddled \/ reply = "unhealthy" \/ RefusedNow
            \/ H.store # "claimed" \/ request.method \in {"validate_policy", "delete_policy_fixture"}
=============================================================================
