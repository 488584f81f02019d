----------------------------- MODULE MCAnswers -----------------------------
(***************************************************************************)
(* Eight parts that answer one call and share no variable, so a behaviour   *)
(* of this instance is one of a single part:                               *)
(*   decision: a text of six characters with no link, or one at its end;   *)
(*     GLOBAL and Hub policies of up to two of three rules; two servers    *)
(*     with no policy, the same behaviour under other ids, or one that     *)
(*     differs in its actions;                                             *)
(*   cooldown: two entries for three keys, and two evaluations at a time;  *)
(*   evaluation: up to three policies whose features, runtimes and rules   *)
(*     may fail, in every order of scopes the repository gives them;       *)
(*   requests: one request and its repeats, in each authorization mode,    *)
(*     for every method, scope and actor a handler tells apart;            *)
(*   listings: one walk through each listing, of three rows that a page of *)
(*     one or two can split, with one write in between;                    *)
(*   matching: every text of up to five characters, and a pattern of each  *)
(*     kind;                                                               *)
(*   workers: three evaluations that share a worker, one of them patient;  *)
(*   rules: a program of one or two rules, whose conditions nest twice,    *)
(*     and two features, either of which may be missing.                   *)
(***************************************************************************)
EXTENDS ContentDecision, SideEffectCooldown, PolicyEvaluation, Requests, Listings,
        TextMatching, PolicyWorkers, PolicyIr, TLC

CONSTANTS a, b

VARIABLE part
Parts == {"decision", "cooldown", "evaluation", "requests", "listings", "matching", "workers", "rules"}
Only(p, S, T) == IF part = p THEN S ELSE T

(* ------------------------------- decision ------------------------------ *)
Act(type) == [type |-> type, seconds |-> 0, text |-> {}]
For(type, seconds) == [type |-> type, seconds |-> seconds, text |-> {}]
Rule(id, name, actions, content, names) ==
    [id |-> id, name |-> name, reason |-> "", actions |-> actions,
     matched |-> ("content" :> content) @@ ("name" :> names)]
UpTo(n, R) == {[rules |-> S] : S \in {T \in SUBSET R : Cardinality(T) <= n}}

GlobalRules == {
    Rule(1, "slur", {Act("CENSOR_MATCH"), For("LOBBY_BAN", 9)}, {<<0, 4>>, <<1, 2>>}, {<<0, 3>>}),
    Rule(2, "scam", {Act("STRIP_LINK"), Act("BLOCK"), For("BLACKLIST", 3)}, {<<4, 6>>}, {}),
    Rule(3, "name", {[type |-> "REPLACE_NAME", seconds |-> 0, text |-> {"Member"}], For("LOBBY_BAN", 5)},
         {}, {<<0, 3>>})}
HubRules == {
    Rule(4, "spam", {Act("CENSOR_MATCH"), Act("LOG"), For("HUB_MUTE", 9)}, {<<2, 5>>}, {}),
    Rule(5, "link", {Act("STRIP_LINK"), Act("HUB_BAN")}, {<<4, 6>>}, {}),
    Rule(6, "rude", {Act("BLOCK"), Act("HUB_WARN")}, {<<0, 1>>}, {})}
Filter(id, type) == [rules |-> {Rule(id, "filter", {Act(type)}, {<<3, 6>>}, {<<0, 3>>})}]

MCTexts == {{}, {<<4, 6>>}}
MCContentPolicies == [l \in {"GLOBAL", "HUB", "SERVER"} |->
    IF l = "GLOBAL" THEN {NoPolicy} \cup UpTo(2, GlobalRules)
    ELSE IF l = "HUB" THEN {NoPolicy} \cup UpTo(2, HubRules)
    ELSE {NoPolicy, Filter(7, "CENSOR_MATCH"), Filter(8, "CENSOR_MATCH"), Filter(9, "BLOCK"),
          Filter(8, "STRIP_LINK"), Filter(8, "REPLACE_NAME")}]

(* ------------------------------- cooldown ------------------------------ *)
MCKeys == {"abuser", "spammer", "raider"}
MCMessages == {{"abuser"}, {"spammer", "raider"}}

(* ------------------------------ evaluation ----------------------------- *)
Policy(scope, mandatory, priority, needs, does) ==
    [scope |-> scope, mandatory |-> mandatory, priority |-> priority, shadow |-> FALSE,
     accepts |-> TRUE, runs |-> TRUE, needs |-> needs, onError |-> "HOLD", program |-> does]
Need(name, behavior) == [name |-> name, deadline |-> 100, behavior |-> behavior]
Malformed(e) == [e EXCEPT !.fits = FALSE]
E(kind, id) == Effect(kind, id)
With(kind, id, what) == [Effect(kind, id) EXCEPT !.what = what]

OtherAction == [kind |-> "other", scope |-> "HUB", text |-> FALSE, prism |-> TRUE, subject |-> TRUE]
MCActions == {
    [kind |-> "hub", scope |-> "HUB", text |-> TRUE, prism |-> TRUE, subject |-> TRUE],
    [kind |-> "lobby", scope |-> "LOBBY", text |-> TRUE, prism |-> TRUE, subject |-> FALSE],
    OtherAction}

PlatformPolicies == {
    Policy("PLATFORM", TRUE, 1, <<Need("text", "HOLD")>>, <<<<E("BLOCK", "b1")>>, <<E("FLAG", "f1")>>>>),
    [Policy("PLATFORM", TRUE, 2, <<>>,
            <<<<Malformed(E("BLOCK", "b2"))>>, <<[E("HOLD", "h1") EXCEPT !.limit = 5]>>>>) EXCEPT !.onError = "REVIEW"],
    [Policy("PLATFORM", FALSE, 2, <<Need("media", "CONTINUE"), Need("text", "REVIEW")>>,
            <<<<E("BLOCK", "b3"), E("NOTIFY", "n1")>>>>) EXCEPT !.shadow = TRUE],
    Policy("PLATFORM", TRUE, 3, <<>>, <<<<E("ALLOW", "a1"), With("LABEL_ENTITY", "l1", <<"new">>)>>>>)}
HubPolicies == {
    [Policy("HUB", FALSE, 1, <<Need("unregistered", "REVIEW")>>, <<<<E("CENSOR", "c1")>>>>) EXCEPT !.onError = "CONTINUE"],
    [Policy("HUB", FALSE, 1, <<>>, <<<<E("BLOCK", "f1"), E("DELETE", "d1")>>>>)
        EXCEPT !.runs = FALSE, !.onError = "REVIEW"],
    Policy("HUB", FALSE, 2, <<>>, <<<<[E("CENSOR", "c2") EXCEPT !.inside = FALSE]>>,
                                    <<With("CREATE_INFRACTION", "i1", <<"MUTE", "MUTE">>)>>>>),
    Policy("HUB", FALSE, 3, <<>>, <<<<E("HOLD", "h2"), With("CREATE_RESTRICTION", "r1", <<"BAN">>)>>>>),
    [Policy("HUB", FALSE, 4, <<>>, <<<<E("CENSOR", "c3"), With("INCREMENT_COUNTER", "k1", <<"spam">>)>>>>)
        EXCEPT !.accepts = FALSE],
    Policy("HUB", FALSE, 5, <<>>, <<<<E("BLOCK", "f1")>>>>)}
Overlays == {Policy("INCIDENT_OVERLAY", FALSE, 1, <<Need("text", "CONTINUE")>>, <<<<E("ALLOW", "a2"), E("KICK", "k2")>>>>)}
MCPolicies ==
    {<<>>} \cup {<<p, h, o>> : p \in PlatformPolicies, h \in HubPolicies, o \in Overlays}
      \cup {<<p, q, h>> : p \in {x \in PlatformPolicies : x.priority < 3},
                          q \in {x \in PlatformPolicies : x.priority = 3}, h \in HubPolicies}
      \cup {<<h, o>> : h \in HubPolicies, o \in Overlays}

PlanOf(blockedBy, filtered, effect, withheld) ==
    [blockedBy |-> blockedBy, filtered |-> filtered, effect |-> effect, withheld |-> withheld]
MCPlans ==
    {NoPlan} \cup {PlanOf("", f, e, w) : f \in BOOLEAN, e \in {"", "LOG", "HUB_MUTE", "LOBBY_BAN", "BLACKLIST"},
                                         w \in {{}, Targets}}
      \cup {PlanOf("HUB", FALSE, e, Targets) : e \in {"", "HUB_WARN", "LOBBY_WARN", "HUB_BAN"}}
MCRestrictions == {
    {}, {[type |-> "CONTENT_QUARANTINE", scope |-> "HUB"]},
    {[type |-> "MUTE", scope |-> "PLATFORM"], [type |-> "BAN", scope |-> "HUB"]}}

(* -------------------------- requests, listings ------------------------- *)
MCRequests == {q \in Asked :
    /\ q.method \in PlainMethods => q.scope = "HUB"
    /\ q.scope # "INCIDENT_OVERLAY"
    /\ q.staff => q.method \in {"create_restriction", "create_infraction"}
    /\ q.expiry => q.method = "update_restriction"
    /\ q.accepted => q.method = "resolve_appeal"
    /\ q.bypass => q.method \in {"claim_report", "transfer_report"}}
OneRequest == {[method |-> "get_provider_health", scope |-> "HUB", actor |-> "HUMAN", staff |-> FALSE,
                expiry |-> FALSE, accepted |-> FALSE, bypass |-> FALSE]}

\* The row of id 2 is added by a writer, if at all.
MCTables ==
    {[i \in Ids |-> IF i = 2 THEN Absent
                    ELSE [id |-> i, created |-> c[i], expires |-> e[i],
                          priority |-> (i % 2) + 1, matches |-> TRUE]] :
       c \in [Ids -> Dates], e \in [Ids -> {0, 1}]}

(* -------------------------------- matching ----------------------------- *)
MCCapital == "A" :> "a"
MCLikeness == "alpha" :> "a"
MCTextsToMatch == UNION {[1..n -> {"a", "b", "A", "alpha", ".", "/", "zwsp", "zwj"}] : n \in 0..5}
MCPatterns ==
    {<<"a", "b">>, <<"a", "b", "*">>, <<"*", "b", "a">>, <<"*", "b", "A", "*">>, <<"a">>,
     <<"quote", "a", " ", "b", "quote">>}
MCRefusedPatterns == {<<"*">>, <<"*", "*">>, <<"a", "?">>, <<"a", "*", "b">>, <<"quote", "a", "quote">>, <<" ", " ">>}

(* --------------------------------- rules ------------------------------- *)
MCFeatures == {"score", "label"}
MCAttributes == "text" :> String(<<1, 2>>)
MCValues == {Number(1), Number(2), String(<<1, 2, 1>>), Array(<<String(<<1>>)>>)}
Atoms ==
    {[operator |-> o, left |-> l, right |-> r] :
        o \in Both, l \in {Feature("score"), Attribute("text")}, r \in {Literal(Number(2)), Literal(String(<<1>>)), Feature("label")}}
      \cup {[operator |-> "exists", value |-> Feature("label")], [operator |-> "literal", holds |-> TRUE]}
Negated == {[operator |-> "not", condition |-> c] : c \in Atoms}
Joined == {[operator |-> o, conditions |-> <<c, d>>] :
             o \in {"all", "any"}, c \in {x \in Atoms : x.operator \in {"less_than", "contains", "exists"}},
             d \in {x \in Atoms \cup Negated : x.operator \in {"eq", "not"}}}
MCNested == <<Atoms, Negated, Joined>>
IrRule(id, when, asks) == [id |-> id, when |-> when, effects |-> asks]
MCPrograms ==
    {<<IrRule("r1", c, <<"e1">>)>> : c \in Atoms \cup Negated \cup Joined}
      \cup {<<IrRule("r1", c, <<"e1">>), IrRule("r2", d, <<"e2", "e3">>)>> :
              c \in {x \in Atoms : x.operator = "less_than"}, d \in Negated}
      \cup {<<>>, <<IrRule("r1", CHOOSE c \in Atoms : TRUE, <<>>)>>}
      \cup {<<IrRule("r1", c, <<"e1">>), IrRule(id, c, asks)>> :
              c \in {x \in Atoms : x.operator = "contains"}, id \in {"r1", "r2"}, asks \in {<<"e1">>, <<"e2", "e2">>}}

(* -------------------------------- one part ----------------------------- *)
MCInit ==
    /\ part \in Parts
    /\ product \in Only("decision", {"hub", "call"}, {"call"})
    /\ mode \in Only("requests", Modes, {"Legacy"})
    /\ shadowOnly \in Only("evaluation", BOOLEAN, {FALSE})
    /\ DecisionInitWith(Only("decision", MCTexts, {{}}),
                        [l \in {"GLOBAL", "HUB", "SERVER"} |-> Only("decision", MCContentPolicies[l], {NoPolicy})])
    /\ CooldownInit
    /\ EvaluationInitWith(Only("evaluation", MCActions, {OtherAction}), Only("evaluation", MCPolicies, {<<>>}),
                          Only("evaluation", MCPlans, {NoPlan}), Only("evaluation", MCRestrictions, {{}}))
    /\ plan # NoPlan => policies = <<>> /\ ~shadowOnly
    /\ RequestInitWith(Only("requests", MCRequests, OneRequest))
    /\ MatchInitWith(Only("matching", MCTextsToMatch, {<<>>}), Only("matching", MCPatterns \cup MCRefusedPatterns, {<<>>}))
    /\ pattern \in MCRefusedPatterns => text = <<>>
    /\ WorkersInit
    /\ IrInitWith(Only("rules", MCPrograms, {<<>>}), Only("rules", SUBSET MCFeatures, {{}}))
    /\ ListingInitWith(Only("listings", MCTables, {[i \in Ids |-> Absent]}))

MCNext ==
    \/ /\ part = "decision" /\ DecisionNext
       /\ UNCHANGED <<cooldownVars, evaluationVars, requestVars, listingVars, matchVars, workerVars, irVars, part>>
    \/ /\ part = "cooldown" /\ CooldownNext
       /\ UNCHANGED <<decisionVars, evaluationVars, requestVars, listingVars, matchVars, workerVars, irVars, part>>
    \/ /\ part = "evaluation" /\ EvaluationNext
       /\ UNCHANGED <<decisionVars, cooldownVars, requestVars, listingVars, matchVars, workerVars, irVars, part>>
    \/ /\ part = "requests" /\ RequestNext
       /\ UNCHANGED <<decisionVars, cooldownVars, evaluationVars, listingVars, matchVars, workerVars, irVars, part>>
    \/ /\ part = "listings" /\ ListingNext
       /\ UNCHANGED <<decisionVars, cooldownVars, evaluationVars, requestVars, matchVars, workerVars, irVars, part>>
    \/ /\ part = "matching" /\ MatchNext
       /\ UNCHANGED <<decisionVars, cooldownVars, evaluationVars, requestVars, listingVars, workerVars, irVars, part>>
    \/ /\ part = "workers" /\ WorkersNext
       /\ UNCHANGED <<decisionVars, cooldownVars, evaluationVars, requestVars, listingVars, matchVars, irVars, part>>
    \/ /\ part = "rules" /\ IrNext
       /\ UNCHANGED <<decisionVars, cooldownVars, evaluationVars, requestVars, listingVars, matchVars, workerVars, part>>

MCSpec == MCInit /\ [][MCNext]_<<decisionVars, cooldownVars, evaluationVars, requestVars, listingVars,
                                 matchVars, workerVars, irVars, part>>
=============================================================================
