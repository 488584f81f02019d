--------------------------- MODULE StaffWorkflow ---------------------------
(***************************************************************************)
(* Moderation cases: reports that staff claim for a limited time, renew,   *)
(* give back, assign, transfer and resolve, and the action requests a      *)
(* claim holder files for a second member of staff to decide.  Every       *)
(* operation is one database transaction guarded by the version the caller *)
(* read; the caller's authorization was asked of Iris some time before, so *)
(* any member may be the caller.  Clocks count down: a duration is kept as *)
(* the ticks that are left of it.  A call repeated under its idempotency   *)
(* key returns what the first one made and is a stutter here.              *)
(***************************************************************************)
EXTENDS Integers, FiniteSets

CONSTANTS
    Reports, Requests, Staff,
    Targets,        \* (action type, subject, scope) of an action request
    LeaseTicks,     \* STAFF_CASE_CLAIM_LEASE_SECONDS
    CooldownTicks,  \* STAFF_CASE_TRANSFER_COOLDOWN_SECONDS
    RenewTicks,     \* a claim is renewed at most every 5 minutes
    WindowTicks,    \* how long a request waits for its approval: 24 h
    BanTicks,       \* a requested ban that is not permanent ends after this
    MaxVersion,     \* bound on the versions of a report
    None            \* SQL NULL

ASSUME StaffConstants ==
    /\ {LeaseTicks, CooldownTicks, RenewTicks, WindowTicks, BanTicks, MaxVersion} \subseteq Nat \ {0}
    /\ None \notin Staff \cup Reports \cup Requests \cup Targets \cup Nat

VARIABLES
    report,     \* trust_safety.report
    request,    \* trust_safety.staff_action_request
    enforced,   \* how many restriction and infraction pairs a request has caused
    read,       \* the row of each report that some client read and still holds
    forfeited   \* history: requests whose case was closed or handed on while they were pending

vars == <<report, request, enforced, read, forfeited>>

ReportType ==
    [status : {"ABSENT", "PENDING", "RESOLVED", "DISMISSED"},
     scope : {"HUB", "LOBBY"},
     claimedBy : Staff \cup {None},
     claimLeft : Nat,    \* until claim_expires_at; 0 is an expired claim
     coolLeft : Nat,     \* until last_claim_change_at is CooldownTicks old
     renewLeft : Nat,    \* until updated_at is five minutes old
     resolvedBy : Staff \cup {None},
     version : Nat]

RequestType ==
    [status : {"ABSENT", "PENDING", "REJECTED", "EXPIRED", "EXECUTED", "CANCELLED"},
     target : Targets \cup {None},
     report : Reports \cup {None},
     requestedBy : Staff \cup {None},
     decidedBy : Staff \cup {None},     \* a decision by a service is None
     left : Nat,                        \* until expires_at
     banLeft : Nat \cup {None}]         \* until requested_expires_at; None is permanent

NoReport == [status |-> "ABSENT", scope |-> "LOBBY", claimedBy |-> None, claimLeft |-> 0,
             coolLeft |-> 0, renewLeft |-> 0, resolvedBy |-> None, version |-> 0]
NoRequest == [status |-> "ABSENT", target |-> None, report |-> None, requestedBy |-> None,
              decidedBy |-> None, left |-> 0, banLeft |-> None]

\* What a client keeps of a row it has read.
SeenType == [status : {"ABSENT", "PENDING", "RESOLVED", "DISMISSED"},
             claimedBy : Staff \cup {None}, version : Nat]
Seen(row) == [status |-> row.status, claimedBy |-> row.claimedBy, version |-> row.version]

TypeOK ==
    /\ report \in [Reports -> ReportType]
    /\ request \in [Requests -> RequestType]
    /\ enforced \in [Requests -> Nat]
    /\ read \in [Reports -> SeenType]
    /\ forfeited \in SUBSET Requests

Init ==
    /\ report = [r \in Reports |-> NoReport]
    /\ request = [q \in Requests |-> NoRequest]
    /\ enforced = [q \in Requests |-> 0]
    /\ read = [r \in Reports |-> Seen(NoReport)]
    /\ forfeited = {}

-----------------------------------------------------------------------------
(* What the WHERE clauses of the statements ask.                            *)

\* claimed_by = a AND claim_expires_at > clock_timestamp()
HoldsClaim(a, r) == report[r].claimedBy = a /\ report[r].claimLeft > 0

\* The test of create and resolve_staff_action_request, FOR UPDATE.
LiveOwner(a, r) == report[r].status = "PENDING" /\ HoldsClaim(a, r)

\* claimed_by IS NULL OR claim_expires_at <= clock_timestamp()
Unclaimed(r) == report[r].claimedBy = None \/ report[r].claimLeft = 0

\* Requests that are PENDING on a report.
PendingOn(r) == {q \in Requests : request[q].status = "PENDING" /\ request[q].report = r}

Settled(q, status, by) ==
    [status |-> status, target |-> request[q].target, report |-> request[q].report,
     requestedBy |-> request[q].requestedBy, decidedBy |-> by, left |-> 0, banLeft |-> None]

\* CHECK (decided_by IS NULL OR decided_by <> requested_by): one row that
\* breaks it fails the statement, and with it the transaction.
MayDecide(a, S) == \A q \in S : request[q].requestedBy # a

Cancel(S, by) == request' = [q \in Requests |->
                    IF q \in S THEN Settled(q, "CANCELLED", by) ELSE request[q]]

\* The row after a statement: it always sets version and updated_at.
Row(r, status, resolver, claimer, claimLeft, coolLeft) ==
    [status |-> status, scope |-> report[r].scope, resolvedBy |-> resolver, claimedBy |-> claimer,
     claimLeft |-> claimLeft, coolLeft |-> coolLeft, renewLeft |-> RenewTicks,
     version |-> report[r].version + 1]

\* The row with its claim changed, and nothing else.
Claim(r, claimer, claimLeft, coolLeft) ==
    Row(r, report[r].status, report[r].resolvedBy, claimer, claimLeft, coolLeft)

GiveTo(r, a) == Claim(r, a, LeaseTicks, CooldownTicks)

Update(r, row) ==
    /\ report[r].version < MaxVersion    \* Bound
    /\ report' = [report EXCEPT ![r] = row]

-----------------------------------------------------------------------------
(* Reports                                                                  *)

\* A user or a hub files a report; its evidence and observation are left to
\* CallEvidence and Sanctions.
CreateReport(r, scope) ==
    /\ report[r].status = "ABSENT"
    /\ report' = [report EXCEPT ![r] =
            [status |-> "PENDING", scope |-> scope, resolvedBy |-> None, claimedBy |-> None,
             claimLeft |-> 0, coolLeft |-> 0, renewLeft |-> RenewTicks, version |-> 1]]
    /\ UNCHANGED <<request, enforced, read, forfeited>>

\* A client reads a report; it will send this version with its next call.
GetReport(r) ==
    /\ report[r].status # "ABSENT"
    /\ read' = [read EXCEPT ![r] = Seen(report[r])]
    /\ UNCHANGED <<report, request, enforced, forfeited>>

\* The version a client may send: the current one, or that of the row it holds.
\* A statement whose version is not current matches no row.
Current(r, version) == version \in {report[r].version, read[r].version} /\ version = report[r].version

ClaimReport(a, r, version, bypass) ==
    /\ report[r].status = "PENDING" /\ Current(r, version)
    /\ Unclaimed(r)
    /\ \/ bypass
       \/ report[r].claimedBy # None      \* then the claim has expired
       \/ report[r].coolLeft = 0          \* also where last_claim_change_at is NULL
    /\ Update(r, GiveTo(r, a))
    /\ UNCHANGED <<request, enforced, read, forfeited>>

\* It asks neither for a PENDING report nor touches last_claim_change_at.
RenewReportClaim(a, r, version) ==
    /\ Current(r, version) /\ HoldsClaim(a, r)
    /\ report[r].renewLeft = 0
    /\ Update(r, Claim(r, a, LeaseTicks, report[r].coolLeft))
    /\ UNCHANGED <<request, enforced, read, forfeited>>

\* The requests of the case are cancelled in the name of the caller, so the
\* call fails while one of them is the caller's own.
UnclaimReport(a, r, version) ==
    /\ Current(r, version) /\ HoldsClaim(a, r)
    /\ MayDecide(a, PendingOn(r))
    /\ Update(r, Claim(r, None, 0, 0))
    /\ Cancel(PendingOn(r), a)
    /\ forfeited' = forfeited \cup PendingOn(r)
    /\ UNCHANGED <<enforced, read>>

\* Slip: the requests of the former holder stay pending.
HandOverKeepsRequests(a, b, r, version, requireUnclaimed, bypass) ==
    LET others == {q \in PendingOn(r) : request[q].requestedBy # b} IN
    /\ report[r].status = "PENDING" /\ Current(r, version)
    /\ requireUnclaimed => Unclaimed(r)
    /\ bypass \/ report[r].coolLeft = 0
    /\ Update(r, GiveTo(r, b))
    /\ forfeited' = forfeited \cup others
    /\ UNCHANGED <<request, enforced, read>>

\* AssignReport asks for an unclaimed report, TransferReport does not; both
\* give the case to b and cancel the requests of everybody else.
HandOver(a, b, r, version, requireUnclaimed, bypass) ==
    LET others == {q \in PendingOn(r) : request[q].requestedBy # b} IN
    /\ report[r].status = "PENDING" /\ Current(r, version)
    /\ requireUnclaimed => Unclaimed(r)
    /\ bypass \/ report[r].coolLeft = 0
    /\ MayDecide(a, others)
    /\ Update(r, GiveTo(r, b))
    /\ Cancel(others, a)
    /\ forfeited' = forfeited \cup others
    /\ UNCHANGED <<enforced, read>>

AssignReport(a, b, r, version) == HandOver(a, b, r, version, TRUE, FALSE)
TransferReport(a, b, r, version, bypass) == HandOver(a, b, r, version, FALSE, bypass)

\* Slip: the version alone is trusted, not the claim.
ResolveByVersion(a, r, version, resolution) ==
    /\ report[r].status = "PENDING" /\ Current(r, version)
    /\ Update(r, Row(r, resolution, a, report[r].claimedBy, report[r].claimLeft, report[r].coolLeft))
    /\ forfeited' = forfeited \cup PendingOn(r)
    /\ UNCHANGED <<request, enforced, read>>

ResolveReport(a, r, version, resolution) ==
    /\ report[r].status = "PENDING" /\ Current(r, version)
    /\ report[r].scope = "HUB" \/ HoldsClaim(a, r)
    /\ Update(r, Row(r, resolution, a, report[r].claimedBy, report[r].claimLeft, report[r].coolLeft))
    /\ forfeited' = forfeited \cup PendingOn(r)
    /\ UNCHANGED <<request, enforced, read>>

-----------------------------------------------------------------------------
(* Staff action requests                                                    *)

\* The unique index allows one PENDING request per target.
CreateStaffActionRequest(a, q, t, link, ban) ==
    /\ request[q].status = "ABSENT"
    /\ link # None => LiveOwner(a, link)
    /\ \A p \in Requests : ~(request[p].status = "PENDING" /\ request[p].target = t)
    /\ request' = [request EXCEPT ![q] =
            [status |-> "PENDING", target |-> t, report |-> link, requestedBy |-> a,
             decidedBy |-> None, left |-> WindowTicks, banLeft |-> ban]]
    /\ UNCHANGED <<report, enforced, read, forfeited>>

\* Slip: the requester is not told from the approver.
DecidableByAnyone(a, q) ==
    /\ request[q].status = "PENDING"
    /\ request[q].left > 0
    /\ request[q].report # None => LiveOwner(request[q].requestedBy, request[q].report)

\* SELECT ... FOR UPDATE and the checks that follow it, for approval and rejection.
Decidable(a, q) ==
    /\ request[q].status = "PENDING"
    /\ request[q].requestedBy # a
    /\ request[q].left > 0
    /\ request[q].report # None => LiveOwner(request[q].requestedBy, request[q].report)

\* The restriction's CHECK (expires_at > starts_at) fails the transaction when
\* the requested end has passed.
ApproveStaffActionRequest(a, q) ==
    /\ Decidable(a, q)
    /\ request[q].banLeft # 0
    /\ request' = [request EXCEPT ![q] = Settled(q, "EXECUTED", a)]
    /\ enforced' = [enforced EXCEPT ![q] = @ + 1]
    /\ UNCHANGED <<report, read, forfeited>>

RejectStaffActionRequest(a, q) ==
    /\ Decidable(a, q)
    /\ request' = [request EXCEPT ![q] = Settled(q, "REJECTED", a)]
    /\ UNCHANGED <<report, enforced, read, forfeited>>

-----------------------------------------------------------------------------
(* The background tasks and time                                            *)

\* The consumer of Iris' staff authorization changes: every case of the member
\* is released, whatever its status, and the linked requests are cancelled.
StaffAuthorizationChanged(a) ==
    LET held == {r \in Reports : report[r].claimedBy = a}
        theirs == {q \in Requests : /\ request[q].status = "PENDING"
                                    /\ request[q].requestedBy = a /\ request[q].report # None}
    IN
    /\ \A r \in held : report[r].version < MaxVersion    \* Bound
    /\ report' = [r \in Reports |-> IF r \in held
            THEN Claim(r, None, 0, CooldownTicks)
            ELSE report[r]]
    /\ Cancel(theirs, None)
    /\ forfeited' = forfeited \cup theirs
    /\ UNCHANGED <<enforced, read>>

\* Slip: only the requests of a case run out.
OverdueLinked == {q \in Requests : /\ request[q].status = "PENDING" /\ request[q].left = 0
                                   /\ request[q].report # None}

Overdue == {q \in Requests : request[q].status = "PENDING" /\ request[q].left = 0}

\* CANCEL_STALE_STAFF_ACTION_REQUESTS
Stale == {q \in Requests : /\ request[q].status = "PENDING" /\ request[q].report # None
                           /\ ~LiveOwner(request[q].requestedBy, request[q].report)}

\* One transaction of the expiry worker: first the window, then the stale ones.
ExpiryWorker ==
    /\ Overdue \cup Stale # {}
    /\ request' = [q \in Requests |-> CASE q \in Overdue -> Settled(q, "EXPIRED", None)
                                        [] q \in Stale \ Overdue -> Settled(q, "CANCELLED", None)
                                        [] OTHER -> request[q]]
    /\ UNCHANGED <<report, enforced, read, forfeited>>

Less(n) == IF n = None \/ n = 0 THEN n ELSE n - 1

LaterReport(x) ==
    [status |-> x.status, scope |-> x.scope, resolvedBy |-> x.resolvedBy, claimedBy |-> x.claimedBy,
     claimLeft |-> Less(x.claimLeft), coolLeft |-> Less(x.coolLeft),
     renewLeft |-> Less(x.renewLeft), version |-> x.version]

LaterRequest(x) ==
    [status |-> x.status, target |-> x.target, report |-> x.report, requestedBy |-> x.requestedBy,
     decidedBy |-> x.decidedBy, left |-> Less(x.left), banLeft |-> Less(x.banLeft)]

Tick ==
    /\ \/ \E r \in Reports : report[r].claimLeft + report[r].coolLeft + report[r].renewLeft > 0
       \/ \E q \in Requests : request[q].status = "PENDING" /\ request[q].left > 0
    /\ report' = [r \in Reports |-> LaterReport(report[r])]
    /\ request' = [q \in Requests |-> LaterRequest(request[q])]
    /\ UNCHANGED <<enforced, read, forfeited>>

Next ==
    \/ \E r \in Reports, scope \in {"HUB", "LOBBY"} : CreateReport(r, scope)
    \/ \E r \in Reports : GetReport(r)
    \/ \E r \in Reports, v \in 1..MaxVersion, a \in Staff :
          \/ \E bypass \in BOOLEAN : ClaimReport(a, r, v, bypass)
          \/ RenewReportClaim(a, r, v)
          \/ UnclaimReport(a, r, v)
          \/ \E b \in Staff : AssignReport(a, b, r, v)
          \/ \E b \in Staff, bypass \in BOOLEAN : TransferReport(a, b, r, v, bypass)
          \/ \E resolution \in {"RESOLVED", "DISMISSED"} : ResolveReport(a, r, v, resolution)
    \/ \E a \in Staff, q \in Requests :
          \/ \E t \in Targets, link \in Reports \cup {None}, ban \in {None, BanTicks} :
                CreateStaffActionRequest(a, q, t, link, ban)
          \/ ApproveStaffActionRequest(a, q)
          \/ RejectStaffActionRequest(a, q)
    \/ \E a \in Staff : StaffAuthorizationChanged(a)
    \/ ExpiryWorker
    \/ Tick

-----------------------------------------------------------------------------
(* Refinement of CasePromise *)

CaseIn(x) == CASE x.status = "ABSENT"  -> "none"
               [] x.status = "PENDING" -> "open"
               [] OTHER                -> "closed"

HolderIn(x) == IF x.status = "PENDING" /\ x.claimLeft > 0 THEN x.claimedBy ELSE None

StandingIn(x) == CASE x.status = "ABSENT"   -> "none"
                   [] x.status = "PENDING"  -> "pending"
                   [] x.status = "EXECUTED" -> "done"
                   [] x.status = "REJECTED" -> "refused"
                   [] OTHER                 -> "void"

AskedIn(x) == [by |-> x.requestedBy, target |-> x.target, report |-> x.report]

ApproverIn(x) == IF x.status = "EXECUTED" THEN x.decidedBy ELSE None

caseOf == [r \in Reports |-> CaseIn(report[r])]
scopeOf == [r \in Reports |-> report[r].scope]
holderOf == [r \in Reports |-> HolderIn(report[r])]
closerOf == [r \in Reports |-> report[r].resolvedBy]
standingOf == [q \in Requests |-> StandingIn(request[q])]
askedOf == [q \in Requests |-> AskedIn(request[q])]
approverOf == [q \in Requests |-> ApproverIn(request[q])]

Promise == INSTANCE CasePromise
    WITH case <- caseOf, scope <- scopeOf, holder <- holderOf, closer <- closerOf,
         standing <- standingOf, asked <- askedOf, approver <- approverOf, bans <- enforced

\* Claims that lapse or are renewed, calls that act on old rows, windows, the
\* expiry worker and changes of authorization come to what CasePromise says: every
\* step is one of its steps or none.
KeepsPromise == Promise!PromiseSpec

-----------------------------------------------------------------------------
(* Properties                                                               *)

\* Optimistic locking: a client whose version is still current knows who holds
\* the case and whether it is open, because every statement that changes either
\* moves the version.
VersionNamesRow ==
    \A r \in Reports : read[r].version = report[r].version => read[r] = Seen(report[r])

\* A request whose case was closed or handed to somebody else while it was
\* pending never becomes a ban, whatever its approver still sees.
ForfeitedNeverExecutes == \A q \in forfeited : request[q].status # "EXECUTED"

\* A request bans at most once and only by the decision of a second person.
BannedOnceByTwoPeople ==
    \A q \in Requests :
        /\ enforced[q] = IF request[q].status = "EXECUTED" THEN 1 ELSE 0
        /\ enforced[q] > 0 => request[q].decidedBy \notin {None, request[q].requestedBy}

\* A claim that has not run out leaves its holder only by the holder's own
\* release, by a change of his authorization, or by a transfer whose cooldown
\* is over or bypassed.
LiveClaimIsRespected ==
    [][\A r \in Reports : \A a \in Staff :
          HoldsClaim(a, r) /\ report'[r].claimedBy # a =>
              \/ report'[r].claimedBy = None
              \/ report[r].coolLeft = 0
              \/ \E b, c \in Staff : TransferReport(b, c, r, report[r].version, TRUE)]_vars

\* Nobody but its live holder closes a case outside a hub, however stale the
\* row he decided on, and a closed case is never decided again.
ClosedOnceByItsHolder ==
    [][\A r \in Reports : report'[r].status # report[r].status =>
          /\ report[r].status \in {"ABSENT", "PENDING"}
          /\ report'[r].status # "PENDING" =>
                report[r].scope = "HUB" \/ HoldsClaim(report'[r].resolvedBy, r)]_vars

\* Every action request is decided, cancelled or expired in the end, though
\* nobody may look at it again.
RequestsSettle ==
    \A q \in Requests : request[q].status = "PENDING" ~> request[q].status # "PENDING"

\* The expiry worker runs every 30 seconds and time passes; what staff do is up to them.
Spec == Init /\ [][Next]_vars /\ WF_vars(ExpiryWorker) /\ WF_vars(Tick)
=============================================================================
