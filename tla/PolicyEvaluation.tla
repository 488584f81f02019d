--------------------------- MODULE PolicyEvaluation ---------------------------
(***************************************************************************)
(* One evaluation of an action by the policy engine: the native content    *)
(* plan, the active restrictions, the features, then policy by policy in   *)
(* the order of their scopes; the merge of all effects; the transaction    *)
(* that applies them or fails; and the delivery.  `shadowOnly` is the      *)
(* second evaluation, of the shadow policies, which is only compared.      *)
(* What a policy's program gathered, what the plan says and whether a       *)
(* feature gathered are inputs.                                             *)
(***************************************************************************)
EXTENDS Integers, Sequences, FiniteSets

CONSTANTS
    Targets,        \* destinations of the Prism job
    MaxFailures,    \* bound of the evaluations of a record (dead letter after)
    NoPlan          \* the content policy does not look at this action

ASSUME EvaluationConstants == MaxFailures \in Nat \ {0}

VARIABLES
    action,         \* what the engine looks at
    policies,       \* those in force, in the order of active_policies
    plan,           \* the content policy's plan, or NoPlan
    restrictions,   \* active ones of the subject, by type and scope
    shadowOnly,
    round,          \* the engine's stage, position and failed transactions
    gathered,        \* resolved features: [requirement key -> BOOLEAN]
    emitted,        \* effects so far, with their origin and place
    terminal,       \* what ended it: "no", "block" or "hold"
    rows,           \* written by the transaction
    state,          \* of the message
    delivered,      \* what each target is sent
    shown           \* the names above it, and those a policy replaced

inputs == <<action, policies, plan, restrictions, shadowOnly>>
results == <<rows, state, delivered, shown>>
evaluationVars == <<inputs, round, gathered, emitted, terminal, results>>

(* ------------------------------- effects ------------------------------- *)
Severity(kind) ==
    CASE kind = "ALLOW" -> 1 [] kind = "CENSOR" -> 2 [] kind = "HOLD" -> 3 [] kind = "BLOCK" -> 4
      [] OTHER -> 0
Decides(x) == Severity(x.effect.kind) > 0

Precedence(scope) ==
    CASE scope = "PLATFORM" -> 0 [] scope = "PRODUCT" -> 1 [] scope \in {"HUB", "LOBBY"} -> 2
      [] OTHER -> 3

\* `fits`: it is well-formed and of the action's own entities; `inside` that a
\* censor's spans lie in the text, which nobody looks at before the merge.
Effect(kind, id) ==
    [kind |-> kind, id |-> <<id, "", 0>>, fits |-> TRUE, inside |-> TRUE, limit |-> 0, what |-> <<>>]
Fits(effect) == effect.fits
FallbackEffect(kind, n, component, part, what) ==
    [kind |-> kind, id |-> <<part, component, n>>, fits |-> TRUE, inside |-> TRUE, limit |-> 0, what |-> what]

Emit(E, effects, origin) ==
    E \o [k \in 1..Len(effects) |-> [effect |-> effects[k], origin |-> origin, at |-> Len(E) + k]]

Builtin(priority) == [scope |-> action.scope, priority |-> priority, mandatory |-> TRUE, policy |-> 0]
Origin(n) == [scope |-> policies[n].scope, priority |-> policies[n].priority,
              mandatory |-> policies[n].mandatory, policy |-> n]

\* Slip: a dependency that is to be reviewed is passed over.
FallbackHoldsOnly(n, component, behavior) ==
    IF behavior = "HOLD"
    THEN <<FallbackEffect("HOLD", n, component, "hold", <<>>)>> ELSE <<>>

FallbackEffects(n, component, behavior) ==
    IF behavior = "CONTINUE" THEN <<>>
    ELSE IF behavior = "HOLD" THEN <<FallbackEffect("HOLD", n, component, "hold", <<>>)>>
    ELSE <<FallbackEffect("HOLD", n, component, "hold", <<>>),
           FallbackEffect("ROUTE_REVIEW", n, component, "review", <<"policy-errors">>)>>

(* -------------------------------- merge -------------------------------- *)
\* Slip: the scope goes before the decision.
OutranksByScope(x, y) ==
    LET sx == Precedence(x.origin.scope)  sy == Precedence(y.origin.scope)
    IN \/ sx < sy
       \/ sx = sy /\ Severity(x.effect.kind) > Severity(y.effect.kind)
       \/ sx = sy /\ Severity(x.effect.kind) = Severity(y.effect.kind) /\ x.at > y.at

\* max_by: the last of those that compare equal.
Outranks(x, y) ==
    LET dx == Severity(x.effect.kind)     dy == Severity(y.effect.kind)
        sx == Precedence(x.origin.scope)  sy == Precedence(y.origin.scope)
        px == x.origin.priority           py == y.origin.priority
    IN \/ dx > dy
       \/ dx = dy /\ sx < sy
       \/ dx = dy /\ sx = sy /\ px < py
       \/ dx = dy /\ sx = sy /\ px = py /\ x.at > y.at

Items(E) == {E[k] : k \in 1..Len(E)}
Winners(E) == {x \in Items(E) : Decides(x) /\ \A y \in Items(E) \ {x} : Decides(y) => Outranks(x, y)}
First(E, id) == CHOOSE x \in Items(E) : x.effect.id = id /\ \A y \in Items(E) : y.effect.id = id => x.at <= y.at

\* The decision is that of the first effect with the winner's id.
FinalDecision(E) ==
    IF Winners(E) = {} THEN "ALLOW"
    ELSE LET x == First(E, (CHOOSE w \in Winners(E) : TRUE).effect.id)
         IN IF Decides(x) THEN x.effect.kind ELSE "ALLOW"

Accepted(E) ==
    {x \in Items(E) : /\ x = First(E, x.effect.id)
                      /\ Decides(x) => \E w \in Winners(E) : w.effect.id = x.effect.id}


(* ------------------------- content and restrictions -------------------- *)
Message == action.kind # "other"
Native == ~shadowOnly /\ Message /\ action.text /\ plan # NoPlan

TypeRank(type) == CASE type = "BLACKLIST" -> 0 [] type = "BAN" -> 1 [] OTHER -> 2

\* The one that is reported; a quarantine of content blocks nothing.
ActiveRestriction ==
    LET R == {r \in restrictions : r.type # "CONTENT_QUARANTINE"}
    IN {r \in R : \A o \in R \ {r} :
          \/ TypeRank(r.type) < TypeRank(o.type)
          \/ TypeRank(r.type) = TypeRank(o.type) /\ Precedence(r.scope) < Precedence(o.scope)}

Sanction(id, type, enforce) ==
    [Effect("CREATE_INFRACTION", id) EXCEPT !.what = <<type, enforce>>, !.fits = action.subject]

\* A punishment that is not one of the action's product is dropped.
NativeSideEffects(type) ==
    CASE type = "LOG" -> <<[Effect("FLAG", "log") EXCEPT !.what = <<"CONTENT_POLICY_LOG">>]>>
      [] type = "HUB_WARN" /\ action.scope = "HUB" -> <<Sanction("hub-warning", "WARNING", "")>>
      [] type = "HUB_MUTE" /\ action.scope = "HUB" -> <<Sanction("hub-mute-infraction", "MUTE", "MUTE")>>
      [] type = "HUB_BAN" /\ action.scope = "HUB" -> <<Sanction("hub-ban-infraction", "BAN", "BAN")>>
      [] type = "LOBBY_WARN" /\ action.scope = "LOBBY" -> <<Sanction("lobby-warning", "WARNING", "")>>
      [] type = "LOBBY_BAN" /\ action.scope = "LOBBY" -> <<Sanction("lobby-ban-infraction", "BAN", "BAN")>>
      [] type = "BLACKLIST" -> <<Sanction("blacklist-infraction", "BAN", "BLACKLIST")>>
      [] OTHER -> <<>>

NativeOrigin(scope) == [scope |-> scope, priority |-> 2000, mandatory |-> TRUE, policy |-> 0]

ContentPolicyEffects ==
    LET blocked == IF plan.blockedBy = "" THEN <<>> ELSE <<Effect("BLOCK", "content-policy:block")>>
        filtered == IF plan.filtered THEN <<Effect("ALLOW", "content-policy:server-filter")>> ELSE <<>>
        E == Emit(Emit(<<>>, blocked, NativeOrigin(plan.blockedBy)), filtered, NativeOrigin(action.scope))
        scope == IF plan.effect = "BLACKLIST" THEN "PLATFORM" ELSE action.scope
    IN IF plan.effect = "" THEN E ELSE Emit(E, NativeSideEffects(plan.effect), NativeOrigin(scope))

(* ------------------------------ evaluation ----------------------------- *)
Key(r) == [name |-> r.name, deadline |-> r.deadline]
ActiveRestrictions == [name |-> "restrictions.active", deadline |-> 500]
Wanted == {k \in 1..Len(policies) : policies[k].shadow = shadowOnly /\ policies[k].accepts}
Required ==
    (IF Message THEN {ActiveRestrictions} ELSE {})
      \cup IF Native THEN {}
           ELSE UNION {{Key(policies[k].needs[j]) : j \in 1..Len(policies[k].needs)} : k \in Wanted}

Enters(stage, at) == round' = [stage |-> stage, at |-> at, failures |-> round.failures]

\* Each distinct invocation is made once; a provider that is not registered,
\* or may not see the action, fails, and any other may.
ResolveFeatures ==
    /\ round.stage = "features"
    /\ \E got \in [Required -> BOOLEAN] :
         /\ \A k \in Required : k.name = "unregistered" => ~got[k]
         /\ gathered' = got
    /\ Enters("restrictions", round.at)
    /\ UNCHANGED <<inputs, emitted, terminal, results>>

LookAtRestrictions ==
    /\ round.stage = "restrictions"
    /\ LET unknown == Message /\ ~gathered[ActiveRestrictions]
           blocked == Message /\ ~unknown /\ ActiveRestriction # {}
       IN /\ terminal' = IF unknown THEN "hold" ELSE IF blocked THEN "block" ELSE "no"
          /\ emitted' = IF unknown THEN Emit(<<>>, <<Effect("HOLD", "restrictions-active")>>, Builtin(1001))
                        ELSE IF blocked THEN Emit(<<>>, <<Effect("BLOCK", "active-restriction")>>, Builtin(1000))
                        ELSE IF Native THEN ContentPolicyEffects ELSE <<>>
    /\ Enters(IF Native THEN "merge" ELSE "policies", 1)
    /\ UNCHANGED <<inputs, gathered, results>>

P == policies[round.at]
FailedNeeds(p) == {j \in 1..Len(p.needs) : ~gathered[Key(p.needs[j])]}

\* The first requirement that failed says what is done.
FirstFailed(p) == CHOOSE j \in FailedNeeds(p) : \A i \in FailedNeeds(p) : j <= i

\* A rule with a malformed effect has its fallback instead of its effects.
RuleEffects(n, k) ==
    LET said == policies[n].program[k]
    IN IF \E j \in 1..Len(said) : ~Fits(said[j])
       THEN FallbackEffects(n, "malformed_effect", policies[n].onError) ELSE said

\* Rule by rule.
Run(n, E) ==
    LET f[k \in 0..Len(policies[n].program)] ==
            IF k = 0 THEN E ELSE Emit(f[k - 1], RuleEffects(n, k), Origin(n))
    IN f[Len(policies[n].program)]

\* A block of a rule of which nothing is malformed.
BlocksForAll(n) ==
    /\ policies[n].scope = "PLATFORM" /\ policies[n].mandatory
    /\ \E k \in 1..Len(policies[n].program) :
         /\ \A j \in 1..Len(policies[n].program[k]) : Fits(policies[n].program[k][j])
         /\ \E j \in 1..Len(policies[n].program[k]) : policies[n].program[k][j].kind = "BLOCK"

Skip == /\ \/ P.shadow # shadowOnly
           \/ terminal # "no"
           \/ ~P.accepts
        /\ UNCHANGED <<emitted, terminal>>

Evaluated == P.shadow = shadowOnly /\ terminal = "no" /\ P.accepts

FeatureFails ==
    /\ Evaluated /\ FailedNeeds(P) # {}
    /\ LET need == P.needs[FirstFailed(P)]
       IN emitted' = Emit(emitted, FallbackEffects(round.at, need.name, need.behavior), Origin(round.at))
    /\ UNCHANGED terminal

\* Its runtime is not registered, or fails.
RuntimeFails ==
    /\ Evaluated /\ FailedNeeds(P) = {} /\ ~P.runs
    /\ emitted' = Emit(emitted, FallbackEffects(round.at, "runtime", P.onError), Origin(round.at))
    /\ UNCHANGED terminal

ProgramRuns ==
    /\ Evaluated /\ FailedNeeds(P) = {} /\ P.runs
    /\ emitted' = Run(round.at, emitted)
    /\ terminal' = IF BlocksForAll(round.at) THEN "block" ELSE "no"

EvaluatePolicy ==
    /\ round.stage = "policies" /\ round.at <= Len(policies)
    /\ Skip \/ FeatureFails \/ RuntimeFails \/ ProgramRuns
    /\ Enters("policies", round.at + 1)
    /\ UNCHANGED <<inputs, gathered, results>>

FinishPolicies ==
    /\ round.stage = "policies" /\ round.at > Len(policies)
    /\ Enters("merge", round.at)
    /\ UNCHANGED <<inputs, gathered, emitted, terminal, results>>

(* ----------------------------- the transaction ------------------------- *)
Decision == FinalDecision(emitted)
Approving == Decision \in {"ALLOW", "CENSOR"}

\* What a notice says depends on the sanction and its scope; others have none.
Noticed(type, enforce, scope) ==
    \/ enforce = "BLACKLIST"
    \/ scope = "HUB" /\ type \in {"WARNING", "MUTE", "BAN"}
    \/ scope = "LOBBY" /\ type \in {"WARNING", "BAN"}

Stored(table, key) == <<table, key>>
RestrictionRow(type, scope) == Stored("restriction", <<type, scope>>)
CommandRow(key) == Stored("processed_command", key)

\* The notice of a sanction is a command of its own.
NoticeRow(x, type, enforce) ==
    IF Noticed(type, enforce, x.origin.scope) THEN {CommandRow(<<"notice", x.effect.id>>)} ELSE {}

\* A restriction of the same subject, scope and type is written over.
RestrictionRows(x) ==
    LET type == x.effect.what[1]
    IN {RestrictionRow(type, x.origin.scope)} \cup NoticeRow(x, type, type)

\* With the restriction that enforces it, if any, and an observation.
InfractionRows(x) ==
    LET type == x.effect.what[1]  enforce == x.effect.what[2]
    IN {Stored("infraction", x.effect.id), Stored("safety_observation", x.effect.id)}
         \cup (IF enforce = "" THEN {} ELSE {RestrictionRow(enforce, x.origin.scope)})
         \cup NoticeRow(x, type, enforce)

RowsOf(x) ==
    LET e == x.effect
    IN CASE e.kind = "CREATE_RESTRICTION" -> RestrictionRows(x)
         [] e.kind = "CREATE_INFRACTION" -> InfractionRows(x)
         [] e.kind \in {"FLAG", "ROUTE_REVIEW"} -> {Stored("review_item", e.id)}
         [] e.kind = "LABEL_ENTITY" -> {Stored("entity_label", e.what)}
         [] e.kind = "INCREMENT_COUNTER" -> {Stored("policy_counter", e.what)}
         [] e.kind \in {"NOTIFY", "DELETE", "KICK"} -> {CommandRow(<<"effect", e.id>>)}
         [] OTHER -> {}

\* The deadline is the shortest of the accepted holds that have one.
Deadlines == {x.effect.limit : x \in {y \in Accepted(emitted) : y.effect.kind = "HOLD" /\ y.effect.limit > 0}}

\* What the merge let through unseen.
MalformedEffects == \E x \in Accepted(emitted) : ~Fits(x.effect)
CensorsMiss == \E x \in Accepted(emitted) : x.effect.kind = "CENSOR" /\ ~x.effect.inside
CannotApply ==
    \/ MalformedEffects
    \/ Approving /\ action.prism /\ ~action.text
    \/ Decision = "CENSOR" /\ action.prism /\ CensorsMiss

\* apply_content_policy_plan: a target the plan withholds, or has no decision
\* for, is left out.
Planned == [t \in Targets |-> IF t \in plan.withheld THEN "nothing" ELSE "variant"]

\* build_approved_prism_payload
Approved ==
    IF ~Approving \/ ~action.prism THEN [t \in Targets |-> "nothing"]
    ELSE IF Native THEN Planned
    ELSE [t \in Targets |-> IF Decision = "CENSOR" THEN "censored" ELSE "original"]

(* -------------------------------- names -------------------------------- *)
Fields == {"display", "username", "server"}
Changed(l, f) == l.new[f] # l.old[f]
SafeName == "Member"
Nonempty(name) == IF name = "" THEN {} ELSE {name}

\* The name that stands for the user where nobody says which.
UserPart(l) ==
    IF Changed(l, "display") THEN "display"
    ELSE IF Changed(l, "username") THEN "username"
    ELSE IF l.old.display # "" \/ l.new.display # "" THEN "display" ELSE "username"

Rewritten(l, part, server) ==
    {IF l.new[part] = "" THEN SafeName ELSE l.new[part]}
      \cup IF server THEN Nonempty(l.new.server) ELSE {}

\* apply_hub_delivery_variant
HubNames(l) ==
    LET part == IF l.nicknames = "no" THEN "username" ELSE IF l.nicknames = "yes" THEN "display" ELSE UserPart(l)
    IN IF Changed(l, part) \/ Changed(l, "server") THEN Rewritten(l, part, TRUE) ELSE l.producer

\* Slip: only the display name counts as the user's.
CallNamesByDisplay(l) ==
    LET showsServer == l.old.server # "" /\ l.old.server \in l.producer
    IN IF Changed(l, "display") \/ (showsServer /\ Changed(l, "server"))
       THEN Rewritten(l, UserPart(l), showsServer) ELSE l.producer

\* apply_call_delivery_variant: the server is shown if the producer shows it.
CallNames(l) ==
    LET showsServer == l.old.server # "" /\ l.old.server \in l.producer
        userChanged == Changed(l, "display") \/ Changed(l, "username")
    IN IF userChanged \/ (showsServer /\ Changed(l, "server"))
       THEN Rewritten(l, UserPart(l), showsServer) ELSE l.producer

\* What the producer put there: one name of the user's, and the server's or not.
Labels ==
    {l \in [old : [Fields -> {"", "d", "u", "s"}], new : [Fields -> {"", "d", "u", "s", "x"}],
            nicknames : {"yes", "no", "unset"}, producer : SUBSET {"d", "u", "s"}] :
       /\ l.old.display \in {"", "d"} /\ l.old.username \in {"", "u"} /\ l.old.server \in {"", "s"}
       /\ \A f \in Fields : l.new[f] = l.old[f] \/ (l.old[f] # "" /\ l.new[f] = "x")
       /\ \E user \in IF l.nicknames = "yes" THEN {l.old.display} ELSE IF l.nicknames = "no" THEN {l.old.username}
                      ELSE {l.old.display, l.old.username} :
            l.producer \in {Nonempty(user), Nonempty(user) \cup Nonempty(l.old.server)}}
NobodyShown == [names |-> {}, replaced |-> {}]

PersistAndApply ==
    /\ round.stage = "merge" /\ ~shadowOnly /\ ~CannotApply
    /\ rows' = UNION {RowsOf(x) : x \in Accepted(emitted)} \cup {Stored("hold_until", d) : d \in Deadlines}
    /\ delivered' = Approved
    /\ state' = IF Decision = "BLOCK" THEN "BLOCKED" ELSE IF Decision = "HOLD" THEN "HELD"
                ELSE IF \E t \in Targets : Approved[t] # "nothing" THEN "APPROVED_PENDING_DELIVERY" ELSE "ACTIVE"
    /\ IF Native /\ \E t \in Targets : Approved[t] = "variant"
       THEN \E l \in Labels :
              shown' = [names |-> IF action.kind = "hub" THEN HubNames(l) ELSE CallNames(l),
                        replaced |-> {l.old[f] : f \in {g \in Fields : Changed(l, g)}}]
       ELSE UNCHANGED shown
    /\ Enters("done", round.at)
    /\ UNCHANGED <<inputs, gathered, emitted, terminal>>

\* The record is evaluated again, and at last dead-lettered.
ApplyFails ==
    /\ round.stage = "merge" /\ ~shadowOnly
    /\ round' = [stage |-> IF round.failures + 1 < MaxFailures THEN "features" ELSE "dead",
                 at |-> 1, failures |-> round.failures + 1]
    /\ emitted' = <<>> /\ terminal' = "no"
    /\ UNCHANGED <<inputs, gathered, results>>

\* Differences are recorded; nothing is applied.
PersistShadowComparison ==
    /\ round.stage = "merge" /\ shadowOnly
    /\ Enters("done", round.at)
    /\ UNCHANGED <<inputs, gathered, emitted, terminal, results>>

\* An approved hold sends the payload as it was stored.
ResolveHold ==
    /\ state = "HELD"
    /\ \/ /\ state' = "APPROVED_PENDING_DELIVERY"
          /\ delivered' = [t \in Targets |-> IF action.prism THEN "original" ELSE "nothing"]
       \/ state' \in {"BLOCKED", "EXPIRED"} /\ UNCHANGED delivered
    /\ UNCHANGED <<inputs, round, gathered, emitted, terminal, rows, shown>>

EvaluationInitWith(actions, sequences, plans, restricted) ==
    /\ action \in actions /\ policies \in sequences /\ plan \in plans /\ restrictions \in restricted
    /\ shadowOnly \in BOOLEAN
    /\ round = [stage |-> "features", at |-> 1, failures |-> 0]
    /\ gathered = <<>> /\ emitted = <<>> /\ terminal = "no"
    /\ rows = {} /\ state = "RECEIVED" /\ shown = NobodyShown
    /\ delivered = [t \in Targets |-> "nothing"]

EvaluationNext ==
    \/ ResolveFeatures \/ LookAtRestrictions \/ EvaluatePolicy \/ FinishPolicies
    \/ PersistAndApply \/ ApplyFails \/ PersistShadowComparison \/ ResolveHold

EvaluationSpec(actions, sequences, plans, restricted) ==
    EvaluationInitWith(actions, sequences, plans, restricted) /\ [][EvaluationNext]_evaluationVars

(* ------------------------------ properties ----------------------------- *)
Merged == round.stage = "merge"

\* Two effects of one id say the same.
Unambiguous == \A x, y \in Items(emitted) : x.effect.id = y.effect.id => x.effect = y.effect

\* What a policy says by itself, whatever the others do.
Alone(n) ==
    LET p == policies[n]
        said == IF FailedNeeds(p) # {}
                THEN LET need == p.needs[FirstFailed(p)] IN <<FallbackEffects(n, need.name, need.behavior)>>
                ELSE IF ~p.runs THEN <<FallbackEffects(n, "runtime", p.onError)>>
                ELSE [k \in 1..Len(p.program) |-> RuleEffects(n, k)]
    IN UNION {{said[k][j] : j \in 1..Len(said[k])} : k \in 1..Len(said)}
Most(S) == CHOOSE m \in S : \A o \in S : o <= m
Severest(effects) == Most({Severity(e.kind) : e \in effects} \cup {1})

\* The decision is the severest that any policy asks for by itself, although
\* some are skipped after a mandatory block and whatever their scopes are.
DecisionIsSeverest ==
    Merged /\ Unambiguous /\ ~Native =>
        Severity(Decision) =
          IF Message /\ ~gathered[ActiveRestrictions] THEN 3
          ELSE IF Message /\ ActiveRestriction # {} THEN 4
          ELSE Most({Severest(Alone(n)) : n \in Wanted} \cup {1})

\* A policy whose dependency, runtime or rule failed is not taken for one that
\* has nothing to say: the message is held or blocked, and reviewed if the
\* policy wants a review, unless the policy continues on errors.
FailureIsNotSilent ==
    Merged /\ Unambiguous /\ terminal = "no" =>
        \A n \in Wanted : ~Native =>
            LET p == policies[n]
                behavior == IF FailedNeeds(p) # {} THEN p.needs[FirstFailed(p)].behavior
                            ELSE IF ~p.runs \/ \E k \in 1..Len(p.program) : \E e \in 1..Len(p.program[k]) :
                                                  ~Fits(p.program[k][e])
                            THEN p.onError ELSE "CONTINUE"
            IN /\ behavior # "CONTINUE" => Decision \in {"HOLD", "BLOCK"}
               /\ behavior = "REVIEW" => \E x \in Accepted(emitted) :
                                           x.effect.kind = "ROUTE_REVIEW" /\ x.origin.policy = n

\* A name the content policy replaced is not shown above any message.
NoReplacedNameIsShown == shown.names \cap shown.replaced = {}
=============================================================================
