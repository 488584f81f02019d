------------------------------ MODULE Sanctions ------------------------------
(***************************************************************************)
(* Restrictions, infractions and appeals of users: what moderators create, *)
(* change, revoke and link to reports by hand, what policies create while  *)
(* an action is evaluated, what an approved staff request creates, and     *)
(* what the expiry worker ends.  Every step is one transaction.  A call    *)
(* whose version is not the row's changes nothing, so a call stands for    *)
(* one that names the current version; a replayed call changes nothing.    *)
(* A transaction that applies several effects of a policy is a sequence of *)
(* the steps of this module.                                               *)
(***************************************************************************)
EXTENDS Integers, FiniteSets

CONSTANTS
    Users,
    Charges,        \* (scope, offence) of the infractions; a scope's type stands for it
    Kinds,          \* (scope, punishment) of the restrictions that are not required by an offence
    Deadlines,      \* the values callers and policies give expires_at
    Restrictions, Infractions, Appeals, Reports,
    About,          \* the user a report is about
    Filed,          \* the scope a report was filed in
    MaxTime, MaxVersion,    \* bounds
    None,           \* SQL NULL
    Silent,         \* no notice was sent
    Unclear         \* the term came with a policy's infraction, of which alone the notice is

Places == {"HUB", "LOBBY", "PRODUCT", "PLATFORM"}
Punishments == {"MUTE", "BAN", "BLACKLIST", "CONTENT_QUARANTINE"}
Offences == {"WARNING", "MUTE", "BAN", "CONTENT"}
Terms == Nat \cup {None}    \* expires_at

ASSUME SanctionConstants ==
    /\ Charges \subseteq Places \X Offences /\ Kinds \subseteq Places \X Punishments
    /\ Deadlines \subseteq Terms
    /\ Restrictions \cup Infractions \cup Appeals \subseteq Nat
    /\ About \in [Reports -> Users] /\ Filed \in [Reports -> Places]
    /\ MaxTime \in Nat /\ MaxVersion \in Nat
    /\ None \notin Users \cup Reports \cup Nat
    /\ Silent # Unclear /\ {Silent, Unclear} \cap Terms = {}

VARIABLES
    restriction,    \* trust_safety.restriction
    infraction,     \* trust_safety.infraction
    appeal,         \* trust_safety.appeal
    raised,         \* infractions with a safety observation of their own
    mitigated,      \* how many mitigating observations name an infraction
    announced,      \* the term the last moderation notice gave of a restriction
    now

vars == <<restriction, infraction, appeal, raised, mitigated, announced, now>>

RestrictionRows ==
    [status : {"ABSENT", "ACTIVE", "REVOKED", "EXPIRED"},
     user : Users \cup {None}, place : Places \cup {None}, type : Punishments \cup {None},
     until : Terms, report : Reports \cup {None}, version : Nat]

InfractionRows ==
    [status : {"ABSENT", "ACTIVE", "REVOKED", "EXPIRED"},
     user : Users \cup {None}, place : Places \cup {None}, type : Offences \cup {None},
     until : Terms, enforcement : Restrictions \cup {None},
     report : Reports \cup {None}, version : Nat]

AppealRows ==
    [status : {"ABSENT", "PENDING", "RESOLVED", "DISMISSED"},
     infraction : Infractions \cup {None}, version : Nat]

NoRestriction == [status |-> "ABSENT", user |-> None, place |-> None, type |-> None,
                  until |-> None, report |-> None, version |-> 0]
NoInfraction == [status |-> "ABSENT", user |-> None, place |-> None, type |-> None,
                 until |-> None, enforcement |-> None, report |-> None, version |-> 0]
NoAppeal == [status |-> "ABSENT", infraction |-> None, version |-> 0]

TypeOK ==
    /\ restriction \in [Restrictions -> RestrictionRows]
    /\ infraction \in [Infractions -> InfractionRows]
    /\ appeal \in [Appeals -> AppealRows]
    /\ raised \in SUBSET Infractions
    /\ mitigated \in [Infractions -> Nat]
    /\ announced \in [Restrictions -> Terms \cup {Silent, Unclear}]
    /\ now \in Nat

Init ==
    /\ restriction = [x \in Restrictions |-> NoRestriction]
    /\ infraction = [i \in Infractions |-> NoInfraction]
    /\ appeal = [a \in Appeals |-> NoAppeal]
    /\ raised = {}
    /\ mitigated = [i \in Infractions |-> 0]
    /\ announced = [x \in Restrictions |-> Silent]
    /\ now = 0

-----------------------------------------------------------------------------
(* Rows                                                                     *)

NewRestriction(u, p, t, until, rep) ==
    [status |-> "ACTIVE", user |-> u, place |-> p, type |-> t,
     until |-> until, report |-> rep, version |-> 1]

NewInfraction(u, p, t, until, x, rep) ==
    [status |-> "ACTIVE", user |-> u, place |-> p, type |-> t,
     until |-> until, enforcement |-> x, report |-> rep, version |-> 1]

\* A statement that updates a row always sets version = version + 1.
RestrictionWith(row, status, until, rep) ==
    [status |-> status, user |-> row.user, place |-> row.place, type |-> row.type,
     until |-> until, report |-> rep, version |-> row.version + 1]

InfractionWith(row, status, rep) ==
    [status |-> status, user |-> row.user, place |-> row.place, type |-> row.type, until |-> row.until,
     enforcement |-> row.enforcement, report |-> rep, version |-> row.version + 1]

\* Identifiers grow with time (UUID version 7).
Fresh(id, rows) == \A r \in DOMAIN rows : rows[r].status = "ABSENT" <=> r >= id

Lapsed(row) == row.until # None /\ row.until <= now

\* CHECK (expires_at IS NULL OR expires_at > starts_at)
Future(until) == until # None => until > now

\* restriction_active_identity_idx: one ACTIVE row for each of these.
Active(x, u, p, t) ==
    /\ restriction[x].status = "ACTIVE"
    /\ restriction[x].user = u /\ restriction[x].place = p /\ restriction[x].type = t

Insertable(x, u, p, t) ==
    /\ Fresh(x, restriction)
    /\ \A y \in Restrictions : ~Active(y, u, p, t)

\* What a MUTE or BAN infraction must come with; the others come with none.
RequiredEnforcement(t, p) ==
    CASE t = "MUTE" -> "MUTE"
      [] t = "BAN" /\ p = "PLATFORM" -> "BLACKLIST"
      [] t = "BAN" /\ p # "PLATFORM" -> "BAN"
      [] OTHER -> None

\* The restrictions a moderator's call, and an approved request, tell a user of.
Noticed(p, t) == <<t, p>> \in {<<"BLACKLIST", "PLATFORM">>, <<"MUTE", "HUB">>, <<"BAN", "HUB">>,
                               <<"BAN", "LOBBY">>, <<"BAN", "PRODUCT">>}

Announce(x, p, t, until) ==
    announced' = IF Noticed(p, t) THEN [announced EXCEPT ![x] = until] ELSE announced

\* Policies have a table of their own: no notice of a ban from the product,
\* and one of a blacklisting of any scope.
PolicyNoticed(p, t) ==
    t = "BLACKLIST" \/ <<t, p>> \in {<<"MUTE", "HUB">>, <<"BAN", "HUB">>, <<"BAN", "LOBBY">>}

\* And one for the infractions they create.
InfractionNoticed(p, t, punishment) ==
    punishment = "BLACKLIST"
    \/ <<t, p>> \in {<<"WARNING", "HUB">>, <<"MUTE", "HUB">>, <<"BAN", "HUB">>,
                     <<"WARNING", "LOBBY">>, <<"BAN", "LOBBY">>}

\* Revokes a restriction if there is one and it is still ACTIVE.
Lift(x) ==
    restriction' = IF x # None /\ restriction[x].status = "ACTIVE"
                   THEN [restriction EXCEPT ![x] =
                            RestrictionWith(restriction[x], "REVOKED", restriction[x].until, restriction[x].report)]
                   ELSE restriction

Within(row) == row.version < MaxVersion    \* Bound

-----------------------------------------------------------------------------
(* Moderators                                                               *)

\* A restriction may name any report.
CreateRestriction(x, u, p, t, until, rep) ==
    /\ Insertable(x, u, p, t) /\ Future(until)
    /\ restriction' = [restriction EXCEPT ![x] = NewRestriction(u, p, t, until, rep)]
    /\ Announce(x, p, t, until)
    /\ UNCHANGED <<infraction, appeal, raised, mitigated, now>>

\* Slip: the user is not told of the new term.
UpdateRestrictionSilently(x, until) ==
    /\ restriction[x].status = "ACTIVE" /\ Within(restriction[x])
    /\ until = restriction[x].until \/ Future(until)
    /\ restriction' = [restriction EXCEPT ![x] =
            RestrictionWith(restriction[x], "ACTIVE", until, restriction[x].report)]
    /\ UNCHANGED <<infraction, appeal, raised, mitigated, announced, now>>

\* Reason, term or both; a row may be updated that has lapsed and was not expired yet.
UpdateRestriction(x, until) ==
    /\ restriction[x].status = "ACTIVE" /\ Within(restriction[x])
    /\ until = restriction[x].until \/ Future(until)
    /\ restriction' = [restriction EXCEPT ![x] =
            RestrictionWith(restriction[x], "ACTIVE", until, restriction[x].report)]
    /\ Announce(x, restriction[x].place, restriction[x].type, until)
    /\ UNCHANGED <<infraction, appeal, raised, mitigated, now>>

\* The infraction a restriction enforces stays as it is.
RevokeRestriction(x) ==
    /\ restriction[x].status = "ACTIVE" /\ Within(restriction[x])
    /\ Lift(x)
    /\ UNCHANGED <<infraction, appeal, raised, mitigated, announced, now>>

\* Whether the case of a report covers an infraction in scope p.  That its
\* claim is alive is StaffWorkflow's; that the report is about u is not asked.
CaseCovers(rep, p) ==
    rep # None => \/ Filed[rep] = p
                  \/ Filed[rep] = "LOBBY" /\ p \in {"PRODUCT", "PLATFORM"}

CreatePlainInfraction(i, u, p, t, until, rep) ==
    /\ Fresh(i, infraction)
    /\ RequiredEnforcement(t, p) = None /\ CaseCovers(rep, p)
    /\ infraction' = [infraction EXCEPT ![i] = NewInfraction(u, p, t, until, None, rep)]
    /\ raised' = raised \cup {i}
    /\ UNCHANGED <<restriction, appeal, mitigated, announced, now>>

\* The enforcement has the infraction's user, scope and term.
CreateEnforcedInfraction(i, x, u, p, t, until, rep) ==
    LET punishment == RequiredEnforcement(t, p) IN
    /\ Fresh(i, infraction)
    /\ punishment # None /\ CaseCovers(rep, p)
    /\ Insertable(x, u, p, punishment) /\ Future(until)
    /\ restriction' = [restriction EXCEPT ![x] = NewRestriction(u, p, punishment, until, rep)]
    /\ infraction' = [infraction EXCEPT ![i] = NewInfraction(u, p, t, until, x, rep)]
    /\ raised' = raised \cup {i}
    /\ Announce(x, p, punishment, until)
    /\ UNCHANGED <<appeal, mitigated, now>>

\* Slip: only the infraction is revoked.
RevokedAlone(i) ==
    /\ infraction' = [infraction EXCEPT ![i] = InfractionWith(infraction[i], "REVOKED", infraction[i].report)]
    /\ mitigated' = [mitigated EXCEPT ![i] = @ + 1]
    /\ restriction' = restriction

\* An infraction is revoked with its enforcement, which another infraction
\* may share, and a mitigating observation takes back what it had raised.
Revoked(i) ==
    /\ infraction' = [infraction EXCEPT ![i] = InfractionWith(infraction[i], "REVOKED", infraction[i].report)]
    /\ mitigated' = [mitigated EXCEPT ![i] = @ + 1]
    /\ Lift(infraction[i].enforcement)

RevokeInfraction(i) ==
    /\ infraction[i].status = "ACTIVE" /\ Within(infraction[i])
    /\ Revoked(i)
    /\ UNCHANGED <<appeal, raised, announced, now>>

\* An approved staff request: a ban and its infraction, with no observation.
ApprovedBan(i, x, u, p, until, rep) ==
    LET punishment == RequiredEnforcement("BAN", p) IN
    /\ Fresh(i, infraction)
    /\ p \in {"PRODUCT", "PLATFORM"}
    /\ Insertable(x, u, p, punishment) /\ Future(until)
    /\ restriction' = [restriction EXCEPT ![x] = NewRestriction(u, p, punishment, until, rep)]
    /\ infraction' = [infraction EXCEPT ![i] = NewInfraction(u, p, "BAN", until, x, rep)]
    /\ Announce(x, p, punishment, until)
    /\ UNCHANGED <<appeal, raised, mitigated, now>>

-----------------------------------------------------------------------------
(* Policies                                                                 *)

\* INSERT ... ON CONFLICT DO UPDATE: the term of an active row is overwritten,
\* whoever set it; its report stays.
Rewritten(x, u, p, t, until) ==
    IF Active(x, u, p, t)
    THEN RestrictionWith(restriction[x], "ACTIVE", until, restriction[x].report)
    ELSE NewRestriction(u, p, t, until, None)

\* The row the statement inserts, or the active one it conflicts with.
Upsertable(x, u, p, t) ==
    \/ Insertable(x, u, p, t)
    \/ Active(x, u, p, t) /\ Within(restriction[x])

PolicyRestriction(x, u, p, t, until) ==
    /\ Upsertable(x, u, p, t) /\ Future(until)
    /\ restriction' = [restriction EXCEPT ![x] = Rewritten(x, u, p, t, until)]
    /\ announced' = IF PolicyNoticed(p, t) THEN [announced EXCEPT ![x] = until] ELSE announced
    /\ UNCHANGED <<infraction, appeal, raised, mitigated, now>>

\* Whatever the offence: a policy's ban may come without an enforcement.
PolicyPlainInfraction(i, u, p, t, until) ==
    /\ Fresh(i, infraction) /\ Future(until)
    /\ infraction' = [infraction EXCEPT ![i] = NewInfraction(u, p, t, until, None, None)]
    /\ raised' = raised \cup {i}
    /\ UNCHANGED <<restriction, appeal, mitigated, announced, now>>

\* The enforcement is any the effect names, with a subject and a duration of
\* its own; the notice goes to the infraction's user, with the infraction's term.
PolicyEnforcedInfraction(i, x, u, v, p, t, punishment, until, term) ==
    /\ Fresh(i, infraction)
    /\ Upsertable(x, v, p, punishment) /\ Future(until) /\ Future(term)
    /\ restriction' = [restriction EXCEPT ![x] = Rewritten(x, v, p, punishment, term)]
    /\ infraction' = [infraction EXCEPT ![i] = NewInfraction(u, p, t, until, x, None)]
    /\ raised' = raised \cup {i}
    /\ announced' = [announced EXCEPT ![x] =
            IF InfractionNoticed(p, t, punishment) /\ v = u /\ until = term THEN until ELSE Unclear]
    /\ UNCHANGED <<appeal, mitigated, now>>

-----------------------------------------------------------------------------
(* Links to reports                                                         *)

\* A record takes a report if it has none, and keeps the one it has.
Takes(row, rep) == row.report \in {None, rep}

EnforcedBy(x) == {i \in Infractions : infraction[i].enforcement = x}

LinkedRestriction(x, rep) ==
    IF restriction[x].report = None
    THEN RestrictionWith(restriction[x], restriction[x].status, restriction[x].until, rep)
    ELSE restriction[x]

LinkedInfraction(i, rep) ==
    IF infraction[i].report = None
    THEN InfractionWith(infraction[i], infraction[i].status, rep)
    ELSE infraction[i]

\* A blacklisting of the platform, and every infraction it enforces, in
\* whatever state they are.
LinkRestriction(x, rep) ==
    /\ restriction[x].status # "ABSENT" /\ Within(restriction[x])
    /\ restriction[x].place = "PLATFORM" /\ restriction[x].type = "BLACKLIST"
    /\ About[rep] = restriction[x].user
    /\ Takes(restriction[x], rep)
    /\ \A i \in EnforcedBy(x) : Takes(infraction[i], rep) /\ Within(infraction[i])
    /\ restriction' = [restriction EXCEPT ![x] = LinkedRestriction(x, rep)]
    /\ infraction' = [i \in Infractions |->
                        IF i \in EnforcedBy(x) THEN LinkedInfraction(i, rep) ELSE infraction[i]]
    /\ UNCHANGED <<appeal, raised, mitigated, announced, now>>

\* A warning, whose report is of its own scope, or a ban from the product,
\* and the restriction that enforces it.
LinkInfraction(i, rep) ==
    LET x == infraction[i].enforcement IN
    /\ infraction[i].status # "ABSENT" /\ Within(infraction[i])
    /\ \/ infraction[i].type = "WARNING" /\ Filed[rep] = infraction[i].place
       \/ infraction[i].type = "BAN" /\ infraction[i].place = "PRODUCT"
    /\ About[rep] = infraction[i].user
    /\ Takes(infraction[i], rep)
    /\ x # None => Takes(restriction[x], rep) /\ Within(restriction[x])
    /\ infraction' = [infraction EXCEPT ![i] = LinkedInfraction(i, rep)]
    /\ restriction' = IF x = None THEN restriction
                      ELSE [restriction EXCEPT ![x] = LinkedRestriction(x, rep)]
    /\ UNCHANGED <<appeal, raised, mitigated, announced, now>>

-----------------------------------------------------------------------------
(* Appeals                                                                  *)

\* Only the user an active infraction is of may appeal it, once.
CreateAppeal(a, i) ==
    /\ Fresh(a, appeal) /\ infraction[i].status = "ACTIVE"
    /\ \A b \in Appeals : appeal[b].infraction # i
    /\ appeal' = [appeal EXCEPT ![a] = [status |-> "PENDING", infraction |-> i, version |-> 1]]
    /\ UNCHANGED <<restriction, infraction, raised, mitigated, announced, now>>

Answered(a, status) == [status |-> status, infraction |-> appeal[a].infraction,
                        version |-> appeal[a].version + 1]

DismissAppeal(a) ==
    /\ appeal[a].status = "PENDING"
    /\ appeal' = [appeal EXCEPT ![a] = Answered(a, "DISMISSED")]
    /\ UNCHANGED <<restriction, infraction, raised, mitigated, announced, now>>

\* Slip: the infraction is revoked again.
AcceptAppealAnyway(a) ==
    LET i == appeal[a].infraction IN
    /\ appeal[a].status = "PENDING"
    /\ appeal' = [appeal EXCEPT ![a] = Answered(a, "RESOLVED")]
    /\ Revoked(i)
    /\ UNCHANGED <<raised, announced, now>>

\* An accepted appeal revokes the infraction unless it has ended by itself.
AcceptAppeal(a) ==
    LET i == appeal[a].infraction IN
    /\ appeal[a].status = "PENDING"
    /\ appeal' = [appeal EXCEPT ![a] = Answered(a, "RESOLVED")]
    /\ IF infraction[i].status = "ACTIVE" THEN Revoked(i)
       ELSE UNCHANGED <<infraction, mitigated, restriction>>
    /\ UNCHANGED <<raised, announced, now>>

-----------------------------------------------------------------------------
(* Time                                                                     *)

Due(rows) == {r \in DOMAIN rows : rows[r].status = "ACTIVE" /\ Lapsed(rows[r])}

\* Every 30 seconds, both tables in one transaction.
ExpiryWorker ==
    /\ Due(restriction) \cup Due(infraction) # {}
    /\ restriction' = [x \in Restrictions |->
            IF x \in Due(restriction)
            THEN RestrictionWith(restriction[x], "EXPIRED", restriction[x].until, restriction[x].report)
            ELSE restriction[x]]
    /\ infraction' = [i \in Infractions |->
            IF i \in Due(infraction)
            THEN InfractionWith(infraction[i], "EXPIRED", infraction[i].report)
            ELSE infraction[i]]
    /\ UNCHANGED <<appeal, raised, mitigated, announced, now>>

Tick ==
    /\ now < MaxTime    \* Bound
    /\ now' = now + 1
    /\ UNCHANGED <<restriction, infraction, appeal, raised, mitigated, announced>>

-----------------------------------------------------------------------------

ModeratorRestricts ==
    \/ \E x \in Restrictions, u \in Users, c \in Kinds, until \in Deadlines, rep \in Reports \cup {None} :
            CreateRestriction(x, u, c[1], c[2], until, rep)
    \/ \E x \in Restrictions, until \in Deadlines : UpdateRestriction(x, until)
    \/ \E x \in Restrictions : RevokeRestriction(x)

ModeratorPunishes ==
    \E i \in Infractions :
        \/ RevokeInfraction(i)
        \/ \E u \in Users, c \in Charges, until \in Deadlines, rep \in Reports \cup {None} :
            \/ CreatePlainInfraction(i, u, c[1], c[2], until, rep)
            \/ \E x \in Restrictions : CreateEnforcedInfraction(i, x, u, c[1], c[2], until, rep)
            \/ \E x \in Restrictions : ApprovedBan(i, x, u, c[1], until, rep)

PolicyPunishes ==
    \E u \in Users, until \in Deadlines :
        \/ \E x \in Restrictions, k \in Kinds : PolicyRestriction(x, u, k[1], k[2], until)
        \/ \E i \in Infractions, c \in Charges :
            \/ PolicyPlainInfraction(i, u, c[1], c[2], until)
            \/ \E x \in Restrictions, v \in Users, k \in Kinds, term \in Deadlines :
                /\ k[1] = c[1]
                /\ PolicyEnforcedInfraction(i, x, u, v, c[1], c[2], k[2], until, term)

Links ==
    \E rep \in Reports :
        \/ \E x \in Restrictions : LinkRestriction(x, rep)
        \/ \E i \in Infractions : LinkInfraction(i, rep)

AppealSteps ==
    \E a \in Appeals :
        \/ \E i \in Infractions : CreateAppeal(a, i)
        \/ DismissAppeal(a)
        \/ AcceptAppeal(a)

Next == ModeratorRestricts \/ ModeratorPunishes \/ PolicyPunishes \/ Links
        \/ AppealSteps \/ ExpiryWorker \/ Tick

Spec == Init /\ [][Next]_vars

-----------------------------------------------------------------------------
(* Properties                                                               *)

AlwaysNoticed(p, t) == Noticed(p, t) /\ PolicyNoticed(p, t)

\* Whoever revokes an infraction, and however many infractions share its
\* enforcement, the enforcement is no longer in force, and no policy, update
\* or link puts that row in force again.
RevokedIsLifted ==
    \A i \in Infractions :
        infraction[i].status = "REVOKED" /\ infraction[i].enforcement # None
            => restriction[infraction[i].enforcement].status # "ACTIVE"

\* However revocations, appeals, expiry and links interleave, an infraction is
\* taken back from its user's safety score once if it was revoked, and never
\* otherwise; an appeal that was accepted leaves no active infraction.
MitigatedOnce ==
    /\ \A i \in Infractions : mitigated[i] = IF infraction[i].status = "REVOKED" THEN 1 ELSE 0
    /\ \A a \in Appeals : appeal[a].status = "RESOLVED" => infraction[appeal[a].infraction].status # "ACTIVE"

\* The report an infraction leads to is the one its enforcement leads to,
\* whichever of the two was linked, and first; the enforcement may have one
\* when an infraction that shares it has none.
PairsShareReport ==
    \A i \in Infractions :
        infraction[i].enforcement # None /\ infraction[i].report # None
            => restriction[infraction[i].enforcement].report = infraction[i].report

\* The last notice a user got of a restriction in force gives its term,
\* whether a moderator, a request or a policy set the term last: of the kinds
\* that both tables of notices have.  Of a ban from the product a policy sends
\* none, nor a moderator of a blacklisting that is not the platform's, and a
\* policy's infraction is announced with its own term in place of that of its
\* enforcement, or not at all.
UserKnowsTheTerm ==
    \A x \in Restrictions :
        restriction[x].status = "ACTIVE" /\ announced[x] # Unclear
          /\ AlwaysNoticed(restriction[x].place, restriction[x].type)
            => announced[x] = restriction[x].until

\* A version names one content of a row: a moderator who read a row and sends
\* its version acts on what he saw, or on nothing.
EveryChangeIsVersioned ==
    [][/\ \A x \in Restrictions : restriction'[x] # restriction[x]
            => restriction'[x].version > restriction[x].version
       /\ \A i \in Infractions : infraction'[i] # infraction[i]
            => infraction'[i].version > infraction[i].version
       /\ \A a \in Appeals : appeal'[a] # appeal[a] => appeal'[a].version > appeal[a].version]_vars

\* A report once linked to a record stays, whatever a policy rewrites.
LinksArePermanent ==
    [][/\ \A x \in Restrictions : restriction[x].report # None
            => restriction'[x].report = restriction[x].report
       /\ \A i \in Infractions : infraction[i].report # None
            => infraction'[i].report = infraction[i].report]_vars

=============================================================================
