--------------------------- MODULE ContentDecision ---------------------------
(***************************************************************************)
(* What the native content policies decide about one message: the GLOBAL   *)
(* policy, then the Hub's, then the policy of each destination server,     *)
(* evaluated once for all servers with the same profile; the rules that    *)
(* match are resolved into delivery effects, composed over the layers and  *)
(* materialized into the variant each destination gets, and into the       *)
(* strongest side effects.  Matching itself is an input: the spans a rule  *)
(* matched.                                                                *)
(***************************************************************************)
EXTENDS Integers, FiniteSets

CONSTANTS
    Servers,        \* the destinations' servers
    Length,         \* of the message's content
    NoPolicy,       \* no snapshot is loaded for the scope
    DefaultName     \* DEFAULT_SAFE_NAME

ASSUME DecisionConstants == Length \in Nat /\ Servers \cap {"GLOBAL", "HUB"} = {}

VARIABLES
    product,        \* "hub" or "call"
    urls,           \* spans of the content's URLs
    policy,         \* of GLOBAL, of the Hub and of each server, with the rules that match
    stage,          \* of the evaluation
    shared,         \* delivery effects of the layers every destination shares
    effects,        \* side effects requested
    decision        \* per destination

decisionVars == <<product, urls, policy, stage, shared, effects, decision>>

Surfaces == {"content", "name"}
Scopes == {"GLOBAL", "HUB"} \cup Servers
Authority(s) == IF s \in Servers THEN "SERVER" ELSE s

(* -------------------------------- spans -------------------------------- *)
\* Byte spans <<start, end>> of a text.
Spans == {s \in (0..Length) \X (0..Length) : s[1] < s[2]}
Within(s) == s[1]..(s[2] - 1)
Covered(S) == UNION {Within(s) : s \in S}
Overlaps(s, o) == s[1] < o[2] /\ o[1] < s[2]

\* Slip: a merged span ends where its last span ends, and not its longest.
MergeToLast(S) ==
    LET Run(s, b) == \A p \in s[1]..(b - 1) : p \in Covered(S)
        Starts == {s \in S : s[1] - 1 \notin Covered(S)}
        After(s) == {o \in S : s[1] <= o[1] /\ Run(s, o[1] + 1)}
        Latest(s) == CHOOSE o \in After(s) : \A q \in After(s) : q[1] < o[1] \/ (q[1] = o[1] /\ q[2] <= o[2])
    IN {<<s[1], Latest(s)[2]>> : s \in Starts}

\* Spans that overlap or touch become one.
MergeSpans(S) ==
    {s \in {<<a[1], b[2]>> : a \in S, b \in S} :
        /\ s[1] < s[2] /\ Within(s) \subseteq Covered(S)
        /\ s[1] - 1 \notin Covered(S) /\ s[2] \notin Covered(S)}

\* A fragment keeps its first and its last character if it has three or more.
Masked(s) == IF s[2] - s[1] <= 2 THEN Within(s) ELSE (s[1] + 1)..(s[2] - 2)
MaskedBy(S) == UNION {Masked(s) : s \in MergeSpans(S)}

(* ----------------------- the effects of one scope ---------------------- *)
Types(r) == {a.type : a \in r.actions}
Rules(p) == IF p = NoPolicy THEN {} ELSE p.rules
Lowest(R) == CHOOSE r \in R : \A o \in R : r.id <= o.id

LobbyFamily == {"LOBBY_WARN", "LOBBY_BAN", "BLACKLIST"}
HubFamily == {"HUB_WARN", "HUB_MUTE", "HUB_BAN"}

Strength(type) ==
    IF type \in {"LOBBY_WARN", "HUB_WARN"} THEN 1
    ELSE IF type \in {"LOBBY_BAN", "HUB_MUTE"} THEN 2 ELSE 3

Beats(c, o) ==
    \/ Strength(c.type) > Strength(o.type)
    \/ Strength(c.type) = Strength(o.type) /\ c.seconds > o.seconds
    \/ Strength(c.type) = Strength(o.type) /\ c.seconds = o.seconds /\ c.rule < o.rule

Requests(authority, R) ==
    {[authority |-> authority, rule |-> x[1].id, type |-> x[2].type, seconds |-> x[2].seconds] :
        x \in {y \in R \X UNION {r.actions : r \in R} :
                  y[2] \in y[1].actions /\ y[2].type \in LobbyFamily \cup HubFamily \cup {"LOG"}}}

Strongest(Q) == {q \in Q : \A o \in Q : ~Beats(o, q)}

SideEffects(Q) ==
    {q \in Q : q.type = "LOG"}
      \cup Strongest({q \in Q : q.type \in LobbyFamily})
      \cup Strongest({q \in Q : q.type \in HubFamily})

Attribution(authority, r) == [authority |-> authority, rule |-> r.id]

\* Only GLOBAL may choose the name; the lowest rule id wins.
Renaming(authority, R) ==
    LET renamers == {r \in R : "REPLACE_NAME" \in Types(r) /\ r.matched["name"] # {}}
        chosen == CHOOSE a \in Lowest(renamers).actions : a.type = "REPLACE_NAME"
    IN IF renamers = {} THEN {}
       ELSE {IF authority = "GLOBAL" /\ chosen.text # {} THEN CHOOSE t \in chosen.text : TRUE
             ELSE DefaultName}

ResolveScope(authority, R) ==
    LET blockers == {r \in R : "BLOCK" \in Types(r)}
        censors == {r \in R : "CENSOR_MATCH" \in Types(r)}
    IN [blockedBy |-> {Attribution(authority, r) : r \in blockers},
        censor    |-> [f \in Surfaces |->
                         IF blockers # {} THEN {}
                         ELSE MergeSpans(UNION {r.matched[f] : r \in censors})],
        strip     |-> \E r \in R : "STRIP_LINK" \in Types(r),
        suppress  |-> \E r \in R : "SUPPRESS_LINKS" \in Types(r),
        rename    |-> Renaming(authority, R)]

Blocked(d) == d.blockedBy # {}

\* The layers in the order of their authority.
ComposeDelivery(upper, lower) ==
    LET blockedBy == upper.blockedBy \cup lower.blockedBy
    IN [blockedBy |-> blockedBy,
        censor    |-> [f \in Surfaces |->
                         IF blockedBy # {} THEN {} ELSE MergeSpans(upper.censor[f] \cup lower.censor[f])],
        strip     |-> upper.strip \/ lower.strip,
        suppress  |-> upper.suppress \/ lower.suppress,
        rename    |-> IF upper.rename # {} THEN upper.rename ELSE lower.rename]

(* --------------------------- materialization --------------------------- *)
\* Links are cut out, with the censorship that overlaps them; the spans that
\* remain are shifted to the text that remains.
Moved(p) == p - Cardinality({u \in Covered(urls) : u < p})

Content(d) ==
    LET cut == IF d.strip THEN urls ELSE {}
        kept == {s \in d.censor["content"] : \A u \in cut : ~Overlaps(s, u)}
        shifted == {<<Moved(s[1]), Moved(s[2])>> : s \in kept}
    IN [p \in 0..(Length - 1) |->
          IF p \in Covered(cut) THEN "gone"
          ELSE IF cut # {} /\ Moved(p) \in MaskedBy(shifted) THEN "masked"
          ELSE IF cut = {} /\ p \in MaskedBy(kept) THEN "masked" ELSE "plain"]

Name(d) ==
    IF d.rename # {} THEN CHOOSE t \in d.rename : TRUE
    ELSE [p \in 0..(Length - 1) |-> IF p \in MaskedBy(d.censor["name"]) THEN "masked" ELSE "plain"]

Materialize(d) == [content |-> Content(d), name |-> Name(d), suppress |-> d.suppress]

(* ------------------------- the destination servers --------------------- *)
Behaviour(r) == [name |-> r.name, reason |-> r.reason, actions |-> r.actions, matched |-> r.matched]

\* Slip: profiles that look for the same are taken for equal.
ProfileOfMatches(p) == {[name |-> r.name, matched |-> r.matched] : r \in Rules(p)}

\* profile_fingerprint: what a policy does, without the ids of its rules.
Profile(p) == {Behaviour(r) : r \in Rules(p)}

Representative(s) ==
    CHOOSE o \in Servers : policy[o] # NoPolicy /\ Profile(policy[o]) = Profile(policy[s])

\* The rules of the server's own policy with the names that matched there.
Remapped(s, o) ==
    {[id |-> own.id, name |-> own.name, reason |-> own.reason, actions |-> own.actions,
      matched |-> (CHOOSE r \in Rules(policy[o]) : r.name = own.name).matched] :
        own \in {r \in Rules(policy[s]) : \E q \in Rules(policy[o]) : q.name = r.name}}

Undecided == [blockedBy |-> {}, rules |-> {}, variant |-> {}]

ServerDecision(s) ==
    IF policy[s] = NoPolicy
    THEN [blockedBy |-> {}, rules |-> {}, variant |-> {Materialize(shared)}]
    ELSE LET o == Representative(s)
             composed == ComposeDelivery(shared, ResolveScope("SERVER", Rules(policy[o])))
             local == ResolveScope("SERVER", Remapped(s, o))
         IN [blockedBy |-> local.blockedBy,
             rules     |-> {r.id : r \in Remapped(s, o)},
             variant   |-> IF Blocked(composed) \/ Blocked(local) THEN {} ELSE {Materialize(composed)}]

(* ------------------------------ evaluation ----------------------------- *)
Stopped(d) == [s \in Servers |-> [blockedBy |-> d.blockedBy, rules |-> {}, variant |-> {}]]

Resolved(s) == ResolveScope(s, Rules(policy[s]))
Requested(s) == SideEffects(Requests(s, Rules(policy[s])))

EvaluateGlobal ==
    /\ stage = "GLOBAL"
    /\ shared' = Resolved("GLOBAL")
    /\ effects' = Requested("GLOBAL")
    /\ IF Blocked(Resolved("GLOBAL"))
       THEN stage' = "done" /\ decision' = Stopped(Resolved("GLOBAL"))
       ELSE stage' = (IF product = "hub" THEN "HUB" ELSE "SERVER") /\ UNCHANGED decision
    /\ UNCHANGED <<product, urls, policy>>

EvaluateHub ==
    /\ stage = "HUB"
    /\ effects' = effects \cup Requested("HUB")
    /\ IF Blocked(Resolved("HUB"))
       THEN stage' = "done" /\ decision' = Stopped(Resolved("HUB")) /\ UNCHANGED shared
       ELSE stage' = "SERVER" /\ shared' = ComposeDelivery(shared, Resolved("HUB")) /\ UNCHANGED decision
    /\ UNCHANGED <<product, urls, policy>>

EvaluateServers ==
    /\ stage = "SERVER"
    /\ decision' = [s \in Servers |-> ServerDecision(s)]
    /\ stage' = "done"
    /\ UNCHANGED <<product, urls, policy, shared, effects>>

(* ------------------------------- validity ------------------------------ *)
\* A policy that does not pass is neither stored nor loaded.
Timed == {"LOBBY_BAN", "BLACKLIST", "HUB_MUTE"}
LegalActions(level) ==
    {"ALLOW", "BLOCK", "CENSOR_MATCH", "STRIP_LINK", "SUPPRESS_LINKS", "REPLACE_NAME"}
      \cup IF level = "GLOBAL" THEN LobbyFamily ELSE IF level = "HUB" THEN HubFamily \cup {"LOG"} ELSE {}

ValidAction(level, a) ==
    /\ a.type \in LegalActions(level)
    /\ a.seconds > 0 <=> a.type \in Timed
    /\ a.text # {} => a.type = "REPLACE_NAME"

ValidRule(level, r) ==
    /\ r.name # "" /\ r.actions # {}
    /\ \A a \in r.actions : ValidAction(level, a) /\ \A o \in r.actions : o.type = a.type => o = a

ValidPolicy(level, p) ==
    \A r \in Rules(p) :
        /\ ValidRule(level, r)
        /\ \A o \in Rules(p) : o.id = r.id \/ o.name = r.name => o = r

\* A message, its URLs and the policies loaded when it is evaluated.
DecisionInitWith(texts, policies) ==
    /\ product \in {"hub", "call"}
    /\ urls \in texts
    /\ \E g \in {p \in policies["GLOBAL"] : ValidPolicy("GLOBAL", p)},
          h \in {p \in policies["HUB"] : ValidPolicy("HUB", p)},
          v \in [Servers -> {p \in policies["SERVER"] : ValidPolicy("SERVER", p)}] :
         policy = [s \in Scopes |-> IF s = "GLOBAL" THEN g ELSE IF s = "HUB" THEN h ELSE v[s]]
    /\ stage = "GLOBAL"
    /\ shared = ResolveScope("GLOBAL", {})
    /\ effects = {}
    /\ decision = [s \in Servers |-> Undecided]

DecisionNext == EvaluateGlobal \/ EvaluateHub \/ EvaluateServers

DecisionSpec(texts, policies) == DecisionInitWith(texts, policies) /\ [][DecisionNext]_decisionVars

(* ------------------------------ properties ----------------------------- *)
Done == stage = "done"
LayersOf(s) == {"GLOBAL", s} \cup (IF product = "hub" THEN {"HUB"} ELSE {})
BlockedIn(l) == Blocked(ResolveScope(Authority(l), Rules(policy[l])))

\* Servers that share a profile are evaluated once, and each gets what its
\* own policy alone would have decided, under its own rule ids
\* (evaluate_server_destinations, remap_equivalent_matches).
GroupingIsTransparent ==
    Done /\ ~BlockedIn("GLOBAL") /\ ~(product = "hub" /\ BlockedIn("HUB")) =>
        \A s \in Servers :
            LET own == ResolveScope("SERVER", Rules(policy[s]))
                alone == ComposeDelivery(shared, own)
            IN decision[s] = [blockedBy |-> own.blockedBy,
                              rules     |-> {r.id : r \in Rules(policy[s])},
                              variant   |-> IF Blocked(alone) THEN {} ELSE {Materialize(alone)}]

CensoredFor(s) ==
    UNION {r.matched["content"] : r \in {q \in UNION {Rules(policy[l]) : l \in LayersOf(s)} :
                                            "CENSOR_MATCH" \in Types(q)}}

StrippedFor(s) == \E l \in LayersOf(s) : \E r \in Rules(policy[l]) : "STRIP_LINK" \in Types(r)

\* The censored run of position p has a position of a link.
RunsIntoLink(s, p) == \E u \in Covered(urls) : \A x \in (p..u) \cup (u..p) : x \in Covered(CensoredFor(s))

\* Whichever layers censored them and however their spans overlap, contain
\* one another or touch, matches stay hidden behind their first and last
\* characters in every text that is sent, also when links are cut out and the
\* spans move (delivery.rs); and a link any layer strips is gone.  Only a
\* merged span that overlaps a link is dropped whole when any layer strips
\* links, and the rest of it is sent in plain: a STRIP_LINK of a server may
\* show what GLOBAL censored.
CensoredIsHidden ==
    Done => \A s \in Servers : \A v \in decision[s].variant :
        /\ StrippedFor(s) => \A p \in Covered(urls) : v.content[p] = "gone"
        /\ \A m \in CensoredFor(s) : \A p \in (m[1] + 1)..(m[2] - 2) :
                \/ v.content[p] = "masked"
                \/ StrippedFor(s) /\ RunsIntoLink(s, p)
=============================================================================
