------------------------ MODULE StaffWorkflowProofs ------------------------
(***************************************************************************)
(* Proofs about StaffWorkflow for any reports, requests, staff, targets,   *)
(* durations and bound on the versions.                                    *)
(***************************************************************************)
EXTENDS StaffWorkflow, TLAPS

USE StaffConstants

Closed == {"RESOLVED", "DISMISSED"}

\* A client's row is never ahead of the table.
ReadIsPast == \A r \in Reports : read[r].version <= report[r].version

\* A report that does not exist yet has no version, no holder and nobody who closed it.
AbsentIsBlank ==
    \A r \in Reports : report[r].status = "ABSENT" =>
        /\ report[r].version = 0
        /\ report[r].claimedBy = None /\ report[r].resolvedBy = None

\* Why a forfeited request cannot be approved: it is settled, or the case it
\* waits on is closed, and a closed case has no live owner ever again.
ForfeitedIsDead ==
    \A q \in forfeited :
        \/ request[q].status \in {"CANCELLED", "EXPIRED", "REJECTED"}
        \/ /\ request[q].status = "PENDING"
           /\ request[q].report \in Reports
           /\ report[request[q].report].status \in Closed

StaffInv == /\ TypeOK /\ ReadIsPast /\ AbsentIsBlank /\ VersionNamesRow
            /\ ForfeitedIsDead /\ BannedOnceByTwoPeople

-----------------------------------------------------------------------------
(* What a step may do to the reports and to the requests.                   *)

\* A report keeps what its version names, and a closed one stays closed.
ReportsMove ==
    /\ report' \in [Reports -> ReportType]
    /\ \A r \in Reports :
          /\ report'[r].version >= report[r].version
          /\ report'[r].version = report[r].version => Seen(report'[r]) = Seen(report[r])
          /\ report[r].status \in Closed => report'[r].status = report[r].status
          /\ report'[r].status = "ABSENT" => report'[r] = report[r]

\* A request keeps its status and its people, or is settled without a ban.
RequestsMove ==
    /\ request' \in [Requests -> RequestType]
    /\ \A q \in Requests :
          \/ /\ request'[q].status = request[q].status
             /\ request'[q].report = request[q].report
             /\ request'[q].requestedBy = request[q].requestedBy
             /\ request'[q].decidedBy = request[q].decidedBy
          \/ /\ request[q].status = "PENDING"
             /\ request'[q].status \in {"CANCELLED", "EXPIRED", "REJECTED"}

\* A statement on one report moves the reports as ReportsMove says.
LEMMA UpdateMoves ==
    ASSUME TypeOK, NEW r \in Reports, NEW row \in ReportType,
           report' = [report EXCEPT ![r] = row],
           row.version > report[r].version, row.status # "ABSENT",
           report[r].status \in Closed => row.status = report[r].status
    PROVE  /\ ReportsMove
           /\ report'[r] = row
           /\ \A s \in Reports \ {r} : report'[s] = report[s]
<1>1. /\ report' \in [Reports -> ReportType]
      /\ report'[r] = row
      /\ \A s \in Reports \ {r} : report'[s] = report[s]
  BY DEF TypeOK
<1>2. report[r].version \in Nat /\ row.version \in Nat
  BY DEF TypeOK, ReportType
<1>3. \A s \in Reports \ {r} : report[s].version \in Nat
  BY DEF TypeOK, ReportType
<1>4. ASSUME NEW s \in Reports
      PROVE  /\ report'[s].version >= report[s].version
             /\ report'[s].version = report[s].version => Seen(report'[s]) = Seen(report[s])
             /\ report[s].status \in Closed => report'[s].status = report[s].status
             /\ report'[s].status = "ABSENT" => report'[s] = report[s]
  <2>1. CASE s = r
    BY <1>1, <1>2, <2>1
  <2>2. CASE s # r
    BY <1>1, <1>3, <2>2
  <2> QED
    BY <2>1, <2>2
<1> QED
  BY <1>1, <1>4 DEF ReportsMove

\* Cancelling pending requests moves them as RequestsMove says.
LEMMA CancelMoves ==
    ASSUME TypeOK, NEW by \in Staff \cup {None}, NEW S \in SUBSET Requests,
           \A q \in S : request[q].status = "PENDING", Cancel(S, by)
    PROVE  /\ RequestsMove
           /\ \A q \in S : request'[q].status = "CANCELLED"
<1>1. ASSUME NEW q \in Requests
      PROVE  /\ request'[q] \in RequestType
             /\ q \in S => request'[q].status = "CANCELLED"
             /\ q \notin S => request'[q] = request[q]
  <2>1. request[q] \in RequestType
    BY DEF TypeOK
  <2>2. /\ Settled(q, "CANCELLED", by) \in RequestType
        /\ Settled(q, "CANCELLED", by).status = "CANCELLED"
    BY <2>1 DEF Settled, RequestType
  <2> QED
    BY <2>1, <2>2 DEF Cancel
<1>2. request' \in [Requests -> RequestType]
  BY <1>1 DEF Cancel
<1> QED
  BY <1>1, <1>2 DEF RequestsMove

\* Steps that move reports and requests in these ways and ban nobody keep the
\* invariant.
LEMMA MovesKeep ==
    ASSUME StaffInv, ReportsMove, RequestsMove, UNCHANGED <<enforced, read>>,
           forfeited' \in SUBSET Requests,
           \A q \in forfeited' \ forfeited :
              \/ request'[q].status = "CANCELLED"
              \/ /\ request'[q].status = "PENDING" /\ request'[q].report \in Reports
                 /\ report'[request'[q].report].status \in Closed
    PROVE  StaffInv'
<1>1. TypeOK'
  BY DEF StaffInv, TypeOK, ReportsMove, RequestsMove
<1>2. ReadIsPast' /\ VersionNamesRow'
  <2>1. \A r \in Reports : read[r].version \in Nat /\ report[r].version \in Nat
                           /\ report'[r].version \in Nat
    BY DEF StaffInv, TypeOK, ReportsMove, ReportType, SeenType
  <2> QED
    BY <2>1 DEF StaffInv, ReadIsPast, VersionNamesRow, ReportsMove
<1>5. AbsentIsBlank'
  BY DEF StaffInv, AbsentIsBlank, ReportsMove
<1>3. ForfeitedIsDead'
  <2> SUFFICES ASSUME NEW q \in forfeited'
               PROVE  \/ request'[q].status \in {"CANCELLED", "EXPIRED", "REJECTED"}
                      \/ /\ request'[q].status = "PENDING" /\ request'[q].report \in Reports
                         /\ report'[request'[q].report].status \in Closed
    BY DEF ForfeitedIsDead
  <2>1. CASE q \in forfeited
    BY <2>1 DEF StaffInv, ForfeitedIsDead, ReportsMove, RequestsMove, TypeOK
  <2> QED
    BY <2>1
<1>4. BannedOnceByTwoPeople'
  BY DEF StaffInv, BannedOnceByTwoPeople, RequestsMove
<1> QED
  BY <1>1, <1>2, <1>3, <1>4, <1>5 DEF StaffInv

\* Init establishes the invariant.
LEMMA StaffInit == Init => StaffInv
BY DEF Init, StaffInv, TypeOK, ReadIsPast, AbsentIsBlank, VersionNamesRow,
       ForfeitedIsDead, BannedOnceByTwoPeople, NoReport, NoRequest, Seen, ReportType, RequestType, SeenType

\* Unchanged requests move trivially, and so do unchanged reports.
LEMMA StillMoves ==
    ASSUME StaffInv
    PROVE  UNCHANGED request => RequestsMove
BY DEF StaffInv, TypeOK, RequestsMove

-----------------------------------------------------------------------------
(* The actions on reports                                                   *)

\* A new report has a row of the right type, under version 1.
LEMMA CreateReportKeeps ==
    ASSUME StaffInv, NEW r \in Reports, NEW scope \in {"HUB", "LOBBY"}, CreateReport(r, scope)
    PROVE  StaffInv'
<1>1. PICK row : /\ row = [status |-> "PENDING", scope |-> scope, resolvedBy |-> None,
                           claimedBy |-> None, claimLeft |-> 0, coolLeft |-> 0,
                           renewLeft |-> RenewTicks, version |-> 1]
                 /\ report' = [report EXCEPT ![r] = row]
  BY DEF CreateReport
<1>2. row \in ReportType /\ row.version = 1
  BY <1>1 DEF ReportType
<1>a. report[r].status = "ABSENT" /\ report[r].version = 0 /\ row.status = "PENDING"
  BY <1>1 DEF CreateReport, StaffInv, AbsentIsBlank
<1>b. /\ row.version > report[r].version /\ row.status # "ABSENT"
      /\ report[r].status \notin Closed /\ TypeOK
      /\ report' = [report EXCEPT ![r] = row]
  BY <1>1, <1>2, <1>a DEF StaffInv, Closed
<1>3. ReportsMove
  BY <1>2, <1>b, UpdateMoves
<1> QED
  BY <1>3, StillMoves, MovesKeep DEF CreateReport, StaffInv, TypeOK

\* Reading changes no row, and the client's row is the current one.
LEMMA GetReportKeeps ==
    ASSUME StaffInv, NEW r \in Reports, GetReport(r)
    PROVE  StaffInv'
<1>1. report[r] \in ReportType
  BY DEF StaffInv, TypeOK
<1>2. Seen(report[r]) \in SeenType /\ Seen(report[r]).version = report[r].version
  BY <1>1 DEF Seen, SeenType, ReportType
<1>3. /\ read' \in [Reports -> SeenType] /\ read'[r] = Seen(report[r])
      /\ \A s \in Reports \ {r} : read'[s] = read[s]
  BY <1>2 DEF GetReport, StaffInv, TypeOK
<1>4. TypeOK'
  BY <1>3 DEF GetReport, StaffInv, TypeOK
<1>5. ReadIsPast' /\ VersionNamesRow'
  <2>1. report[r].version <= report[r].version
    BY <1>1 DEF ReportType
  <2> QED
    BY <1>2, <1>3, <2>1 DEF GetReport, StaffInv, ReadIsPast, VersionNamesRow
<1> QED
  BY <1>4, <1>5 DEF GetReport, StaffInv, AbsentIsBlank, ForfeitedIsDead, BannedOnceByTwoPeople

\* Claiming, renewing and giving back, whatever the new claim is, move the report.
LEMMA ClaimMoves ==
    ASSUME StaffInv, NEW r \in Reports, report[r].status # "ABSENT",
           NEW claimer \in Staff \cup {None}, NEW claimLeft \in Nat, NEW coolLeft \in Nat,
           Update(r, Claim(r, claimer, claimLeft, coolLeft))
    PROVE  /\ ReportsMove
           /\ report'[r].status = report[r].status
           /\ report'[r].claimedBy = claimer
           /\ \A s \in Reports \ {r} : report'[s] = report[s]
<1>1. /\ report[r].status \in {"PENDING", "RESOLVED", "DISMISSED"}
      /\ report[r].resolvedBy \in Staff \cup {None} /\ report[r].version \in Nat
  BY DEF StaffInv, TypeOK, ReportType
<1>0. PICK row : row = Claim(r, claimer, claimLeft, coolLeft)
  OBVIOUS
<1>2. row = Row(r, report[r].status, report[r].resolvedBy, claimer, claimLeft, coolLeft)
  BY <1>0 DEF Claim
<1>3. TypeOK
  BY DEF StaffInv
<1>4. /\ row \in ReportType /\ row.version = report[r].version + 1
      /\ row.status = report[r].status /\ row.claimedBy = claimer
  BY <1>1, <1>2, <1>3 DEF Row, ReportType, TypeOK
<1>5. /\ report' = [report EXCEPT ![r] = row]
      /\ row.version > report[r].version /\ row.status # "ABSENT"
  BY <1>0, <1>1, <1>4 DEF Update
<1>6. /\ ReportsMove /\ report'[r] = row
      /\ \A s \in Reports \ {r} : report'[s] = report[s]
  BY <1>3, <1>4, <1>5, UpdateMoves
<1> QED
  BY <1>4, <1>6

\* A holder's report exists.
LEMMA HeldExists ==
    ASSUME StaffInv, NEW r \in Reports, NEW a \in Staff, report[r].claimedBy = a
    PROVE  report[r].status # "ABSENT"
BY DEF StaffInv, AbsentIsBlank

\* A claim touches nothing but its report.
LEMMA ClaimReportKeeps ==
    ASSUME StaffInv, NEW a \in Staff, NEW r \in Reports, NEW version \in Nat,
           NEW bypass \in BOOLEAN, ClaimReport(a, r, version, bypass)
    PROVE  StaffInv'
<1>1. ReportsMove
  BY ClaimMoves DEF ClaimReport, GiveTo
<1> QED
  BY <1>1, StillMoves, MovesKeep DEF ClaimReport, StaffInv, TypeOK

\* So does a renewal.
LEMMA RenewKeeps ==
    ASSUME StaffInv, NEW a \in Staff, NEW r \in Reports, NEW version \in Nat,
           RenewReportClaim(a, r, version)
    PROVE  StaffInv'
<1>1. report[r].coolLeft \in Nat
  BY DEF StaffInv, TypeOK, ReportType
<1>2. ReportsMove
  BY <1>1, ClaimMoves, HeldExists DEF RenewReportClaim, HoldsClaim
<1> QED
  BY <1>2, StillMoves, MovesKeep DEF RenewReportClaim, StaffInv, TypeOK

\* Giving a case back cancels every request that waits on it.
LEMMA UnclaimKeeps ==
    ASSUME StaffInv, NEW a \in Staff, NEW r \in Reports, NEW version \in Nat,
           UnclaimReport(a, r, version)
    PROVE  StaffInv'
<1>1. ReportsMove
  BY ClaimMoves, HeldExists DEF UnclaimReport, HoldsClaim
<1>2. RequestsMove /\ \A q \in PendingOn(r) : request'[q].status = "CANCELLED"
  BY CancelMoves DEF UnclaimReport, StaffInv, PendingOn
<1> QED
  BY <1>1, <1>2, MovesKeep DEF UnclaimReport, StaffInv, TypeOK, PendingOn

\* An assignment or a transfer cancels the requests of everybody but the new holder.
LEMMA HandOverKeeps ==
    ASSUME StaffInv, NEW a \in Staff, NEW b \in Staff, NEW r \in Reports, NEW version \in Nat,
           NEW requireUnclaimed, NEW bypass,
           HandOver(a, b, r, version, requireUnclaimed, bypass)
    PROVE  StaffInv'
<1> DEFINE others == {q \in PendingOn(r) : request[q].requestedBy # b}
<1>1. ReportsMove
  BY ClaimMoves DEF HandOver, GiveTo
<1>2. RequestsMove /\ \A q \in others : request'[q].status = "CANCELLED"
  BY CancelMoves DEF HandOver, StaffInv, PendingOn
<1>3. /\ forfeited' = forfeited \cup others /\ others \in SUBSET Requests
      /\ UNCHANGED <<enforced, read>>
  BY DEF HandOver, PendingOn
<1> HIDE DEF others
<1> QED
  BY <1>1, <1>2, <1>3, MovesKeep DEF StaffInv, TypeOK

\* A resolution closes the case; what waits on it waits on a closed case.
LEMMA ResolveKeeps ==
    ASSUME StaffInv, NEW a \in Staff, NEW r \in Reports, NEW version \in Nat,
           NEW resolution \in Closed, ResolveReport(a, r, version, resolution)
    PROVE  StaffInv'
<1>1. /\ report[r].claimedBy \in Staff \cup {None} /\ report[r].claimLeft \in Nat
      /\ report[r].coolLeft \in Nat /\ report[r].version \in Nat
  BY DEF StaffInv, TypeOK, ReportType
<1>0. PICK row : row = Row(r, resolution, a, report[r].claimedBy, report[r].claimLeft,
                           report[r].coolLeft)
  OBVIOUS
<1>2. TypeOK
  BY DEF StaffInv
<1>3. /\ row \in ReportType /\ row.version = report[r].version + 1
      /\ row.status = resolution
  BY <1>0, <1>1, <1>2 DEF Closed, Row, ReportType, TypeOK
<1>5. /\ report' = [report EXCEPT ![r] = row]
      /\ row.version > report[r].version /\ row.status # "ABSENT"
      /\ report[r].status \notin Closed
  BY <1>0, <1>1, <1>3 DEF Update, ResolveReport, Closed
<1>6. ReportsMove /\ report'[r] = row
  BY <1>2, <1>3, <1>5, UpdateMoves
<1>4. ReportsMove /\ report'[r].status \in Closed
  BY <1>3, <1>6
<1> QED
  BY <1>4, StillMoves, MovesKeep DEF ResolveReport, StaffInv, TypeOK, PendingOn

-----------------------------------------------------------------------------
(* The actions on requests, the background tasks and time                   *)

\* A new request is pending and has banned nobody.
LEMMA CreateRequestKeeps ==
    ASSUME StaffInv, NEW a \in Staff, NEW q \in Requests, NEW t \in Targets,
           NEW link \in Reports \cup {None}, NEW ban \in {None, BanTicks},
           CreateStaffActionRequest(a, q, t, link, ban)
    PROVE  StaffInv'
<1>1. PICK new : /\ new = [status |-> "PENDING", target |-> t, report |-> link, requestedBy |-> a,
                           decidedBy |-> None, left |-> WindowTicks, banLeft |-> ban]
                 /\ request' = [request EXCEPT ![q] = new]
  BY DEF CreateStaffActionRequest
<1>2. new \in RequestType /\ new.status = "PENDING"
  BY <1>1 DEF RequestType
<1>3. /\ request' \in [Requests -> RequestType] /\ request'[q] = new
      /\ \A p \in Requests \ {q} : request'[p] = request[p]
      /\ request[q].status = "ABSENT"
      /\ UNCHANGED <<report, enforced, read, forfeited>>
  BY <1>1, <1>2 DEF CreateStaffActionRequest, StaffInv, TypeOK
<1>4. q \notin forfeited
  BY <1>3 DEF StaffInv, ForfeitedIsDead
<1>5. TypeOK'
  BY <1>3 DEF StaffInv, TypeOK
<1>6. ForfeitedIsDead'
  BY <1>3, <1>4 DEF StaffInv, ForfeitedIsDead, TypeOK
<1>7. BannedOnceByTwoPeople'
  BY <1>2, <1>3 DEF StaffInv, BannedOnceByTwoPeople
<1> QED
  BY <1>3, <1>5, <1>6, <1>7 DEF StaffInv, ReadIsPast, AbsentIsBlank, VersionNamesRow

\* An approval is impossible for a forfeited request, and is a second person's.
LEMMA ApproveKeeps ==
    ASSUME StaffInv, NEW a \in Staff, NEW q \in Requests, ApproveStaffActionRequest(a, q)
    PROVE  StaffInv'
<1>1. PICK new : new = Settled(q, "EXECUTED", a) /\ request' = [request EXCEPT ![q] = new]
  BY DEF ApproveStaffActionRequest
<1>2. /\ new \in RequestType /\ new.status = "EXECUTED" /\ new.decidedBy = a
      /\ new.requestedBy = request[q].requestedBy
  BY <1>1 DEF Settled, RequestType, StaffInv, TypeOK
<1>3. /\ request' \in [Requests -> RequestType] /\ request'[q] = new
      /\ \A p \in Requests \ {q} : request'[p] = request[p]
      /\ request[q].status = "PENDING" /\ request[q].requestedBy # a
      /\ request[q].report # None => LiveOwner(request[q].requestedBy, request[q].report)
      /\ UNCHANGED <<report, read, forfeited>>
  BY <1>1, <1>2 DEF ApproveStaffActionRequest, Decidable, StaffInv, TypeOK
<1>4. q \notin forfeited
  BY <1>3 DEF StaffInv, ForfeitedIsDead, LiveOwner, Closed
<1>5. /\ enforced' \in [Requests -> Nat] /\ enforced[q] = 0 /\ enforced'[q] = 1
      /\ \A p \in Requests \ {q} : enforced'[p] = enforced[p]
  <2>1. enforced[q] = 0
    BY <1>3 DEF StaffInv, BannedOnceByTwoPeople
  <2> QED
    BY <2>1 DEF ApproveStaffActionRequest, StaffInv, TypeOK
<1>6. TypeOK'
  BY <1>3, <1>5 DEF StaffInv, TypeOK
<1>7. ForfeitedIsDead'
  BY <1>3, <1>4 DEF StaffInv, ForfeitedIsDead, TypeOK
<1>8. BannedOnceByTwoPeople'
  BY <1>2, <1>3, <1>5 DEF StaffInv, BannedOnceByTwoPeople
<1> QED
  BY <1>3, <1>6, <1>7, <1>8 DEF StaffInv, ReadIsPast, AbsentIsBlank, VersionNamesRow

\* Reports that do not change move trivially.
LEMMA StillReports ==
    ASSUME StaffInv, UNCHANGED report
    PROVE  ReportsMove
<1>1. \A r \in Reports : report[r].version \in Nat
  BY DEF StaffInv, TypeOK, ReportType
<1> QED
  BY <1>1 DEF StaffInv, TypeOK, ReportsMove

\* A rejection settles one pending request.
LEMMA RejectKeeps ==
    ASSUME StaffInv, NEW a \in Staff, NEW q \in Requests, RejectStaffActionRequest(a, q)
    PROVE  StaffInv'
<1>1. PICK new : new = Settled(q, "REJECTED", a) /\ request' = [request EXCEPT ![q] = new]
  BY DEF RejectStaffActionRequest
<1>2. new \in RequestType /\ new.status = "REJECTED"
  BY <1>1 DEF Settled, RequestType, StaffInv, TypeOK
<1>3. RequestsMove
  BY <1>1, <1>2 DEF RejectStaffActionRequest, Decidable, StaffInv, TypeOK, RequestsMove
<1> QED
  BY <1>3, StillReports, MovesKeep DEF RejectStaffActionRequest, StaffInv, TypeOK

\* A change of authorization releases the member's reports under new versions.
LEMMA StaffAuthorizationKeeps ==
    ASSUME StaffInv, NEW a \in Staff, StaffAuthorizationChanged(a)
    PROVE  StaffInv'
<1> DEFINE theirs == {q \in Requests : /\ request[q].status = "PENDING"
                                       /\ request[q].requestedBy = a /\ request[q].report # None}
<1>1. ASSUME NEW r \in Reports
      PROVE  /\ report'[r] \in ReportType
             /\ report'[r].version >= report[r].version
             /\ report'[r].version = report[r].version => Seen(report'[r]) = Seen(report[r])
             /\ report[r].status \in Closed => report'[r].status = report[r].status
             /\ report'[r].status = "ABSENT" => report'[r] = report[r]
  <2>1. report[r] \in ReportType /\ report[r].version \in Nat
    BY DEF StaffInv, TypeOK, ReportType
  <2>2. CASE report[r].claimedBy = a
    <3>1. PICK row : row = Claim(r, None, 0, CooldownTicks) /\ report'[r] = row
      BY <2>2 DEF StaffAuthorizationChanged
    <3>2. /\ row \in ReportType /\ row.version = report[r].version + 1
          /\ row.status = report[r].status
      BY <2>1, <3>1 DEF Claim, Row, ReportType
    <3> QED
      BY <2>1, <2>2, <3>1, <3>2, HeldExists
  <2>3. CASE report[r].claimedBy # a
    BY <2>1, <2>3 DEF StaffAuthorizationChanged
  <2> QED
    BY <2>2, <2>3
<1>2. report' \in [Reports -> ReportType]
  BY <1>1 DEF StaffAuthorizationChanged
<1>3. ReportsMove
  BY <1>1, <1>2 DEF ReportsMove
<1>4. Cancel(theirs, None) /\ forfeited' = forfeited \cup theirs /\ UNCHANGED <<enforced, read>>
  BY DEF StaffAuthorizationChanged
<1>5. RequestsMove /\ \A q \in theirs : request'[q].status = "CANCELLED"
  BY <1>4, CancelMoves DEF StaffInv
<1> QED
  BY <1>3, <1>4, <1>5, MovesKeep DEF StaffInv, TypeOK

\* The expiry worker settles pending requests without a ban.
LEMMA ExpiryKeeps ==
    ASSUME StaffInv, ExpiryWorker
    PROVE  StaffInv'
<1>1. ASSUME NEW q \in Requests
      PROVE  /\ request'[q] \in RequestType
             /\ \/ request'[q] = request[q]
                \/ /\ request[q].status = "PENDING"
                   /\ request'[q].status \in {"CANCELLED", "EXPIRED"}
  <2>1. request[q] \in RequestType
    BY DEF StaffInv, TypeOK
  <2>2. CASE q \in Overdue
    <3>1. request'[q] = Settled(q, "EXPIRED", None)
      BY <2>2 DEF ExpiryWorker
    <3> QED
      BY <2>1, <2>2, <3>1 DEF Settled, RequestType, Overdue
  <2>3. CASE q \in Stale \ Overdue
    <3>1. request'[q] = Settled(q, "CANCELLED", None)
      BY <2>3 DEF ExpiryWorker
    <3> QED
      BY <2>1, <2>3, <3>1 DEF Settled, RequestType, Stale
  <2>4. CASE q \notin Overdue \cup Stale
    BY <2>1, <2>4 DEF ExpiryWorker
  <2> QED
    BY <2>2, <2>3, <2>4
<1>2. request' \in [Requests -> RequestType]
  BY <1>1 DEF ExpiryWorker
<1>3. RequestsMove
  BY <1>1, <1>2 DEF RequestsMove
<1> QED
  BY <1>3, StillReports, MovesKeep DEF ExpiryWorker, StaffInv, TypeOK

\* Time changes durations only.
LEMMA TickKeeps ==
    ASSUME StaffInv, Tick
    PROVE  StaffInv'
<1>1. ASSUME NEW n \in Nat
      PROVE  Less(n) \in Nat
  BY <1>1 DEF Less
<1>2. Less(None) = None
  BY DEF Less
<1>3. ASSUME NEW r \in Reports
      PROVE  /\ report'[r] \in ReportType /\ Seen(report'[r]) = Seen(report[r])
             /\ report'[r].version = report[r].version /\ report'[r].status = report[r].status
             /\ report'[r].claimedBy = report[r].claimedBy
             /\ report'[r].resolvedBy = report[r].resolvedBy
  <2>1. report[r] \in ReportType
    BY DEF StaffInv, TypeOK
  <2>2. report'[r] = LaterReport(report[r])
    BY DEF Tick
  <2> QED
    BY <1>1, <2>1, <2>2 DEF LaterReport, ReportType, Seen
<1>4. ASSUME NEW q \in Requests
      PROVE  /\ request'[q] \in RequestType /\ request'[q].status = request[q].status
             /\ request'[q].report = request[q].report
             /\ request'[q].requestedBy = request[q].requestedBy
             /\ request'[q].decidedBy = request[q].decidedBy
  <2>1. request[q] \in RequestType
    BY DEF StaffInv, TypeOK
  <2>2. request'[q] = LaterRequest(request[q])
    BY DEF Tick
  <2>3. Less(request[q].left) \in Nat /\ Less(request[q].banLeft) \in Nat \cup {None}
    BY <1>1, <1>2, <2>1 DEF RequestType
  <2> QED
    BY <2>1, <2>2, <2>3 DEF LaterRequest, RequestType
<1>5. report' \in [Reports -> ReportType] /\ request' \in [Requests -> RequestType]
  BY <1>3, <1>4 DEF Tick
<1>6. RequestsMove
  BY <1>4, <1>5 DEF RequestsMove
<1>7. UNCHANGED <<enforced, read, forfeited>>
  BY DEF Tick
<1>8. TypeOK'
  BY <1>5, <1>7 DEF StaffInv, TypeOK
<1>9. ReadIsPast' /\ AbsentIsBlank' /\ VersionNamesRow'
  BY <1>3, <1>7 DEF StaffInv, ReadIsPast, AbsentIsBlank, VersionNamesRow
<1>10. ForfeitedIsDead'
  BY <1>3, <1>4, <1>7 DEF StaffInv, TypeOK, ForfeitedIsDead
<1>11. BannedOnceByTwoPeople'
  BY <1>4, <1>7 DEF StaffInv, BannedOnceByTwoPeople
<1> QED
  BY <1>8, <1>9, <1>10, <1>11 DEF StaffInv

-----------------------------------------------------------------------------
(* The theorems                                                             *)

\* Every step of the workflow keeps the invariant.
LEMMA StaffNext == StaffInv /\ [Next]_vars => StaffInv'
<1> SUFFICES ASSUME StaffInv, [Next]_vars
             PROVE  StaffInv'
  OBVIOUS
<1>1. 1..MaxVersion \subseteq Nat
  OBVIOUS
<1>2. CASE \E r \in Reports, scope \in {"HUB", "LOBBY"} : CreateReport(r, scope)
  BY <1>2, CreateReportKeeps
<1>3. CASE \E r \in Reports : GetReport(r)
  BY <1>3, GetReportKeeps
<1>4. ASSUME NEW r \in Reports, NEW v \in 1..MaxVersion, NEW a \in Staff,
             \/ \E bypass \in BOOLEAN : ClaimReport(a, r, v, bypass)
             \/ RenewReportClaim(a, r, v)
             \/ UnclaimReport(a, r, v)
             \/ \E b \in Staff : AssignReport(a, b, r, v)
             \/ \E b \in Staff, bypass \in BOOLEAN : TransferReport(a, b, r, v, bypass)
             \/ \E resolution \in Closed : ResolveReport(a, r, v, resolution)
      PROVE  StaffInv'
  <2>1. v \in Nat
    BY <1>1
  <2>2. CASE \E bypass \in BOOLEAN : ClaimReport(a, r, v, bypass)
    BY <2>1, <2>2, ClaimReportKeeps
  <2>3. CASE RenewReportClaim(a, r, v)
    BY <2>1, <2>3, RenewKeeps
  <2>4. CASE UnclaimReport(a, r, v)
    BY <2>1, <2>4, UnclaimKeeps
  <2>5. CASE \E b \in Staff : AssignReport(a, b, r, v)
    BY <2>1, <2>5, HandOverKeeps DEF AssignReport
  <2>6. CASE \E b \in Staff, bypass \in BOOLEAN : TransferReport(a, b, r, v, bypass)
    <3>1. PICK b \in Staff, bypass \in BOOLEAN : HandOver(a, b, r, v, FALSE, bypass)
      BY <2>6 DEF TransferReport
    <3> QED
      BY <2>1, <3>1, HandOverKeeps
  <2>7. CASE \E resolution \in Closed : ResolveReport(a, r, v, resolution)
    BY <2>1, <2>7, ResolveKeeps
  <2> QED
    BY <1>4, <2>2, <2>3, <2>4, <2>5, <2>6, <2>7
<1>5. ASSUME NEW a \in Staff, NEW q \in Requests,
             \/ \E t \in Targets, link \in Reports \cup {None}, ban \in {None, BanTicks} :
                   CreateStaffActionRequest(a, q, t, link, ban)
             \/ ApproveStaffActionRequest(a, q)
             \/ RejectStaffActionRequest(a, q)
      PROVE  StaffInv'
  BY <1>5, CreateRequestKeeps, ApproveKeeps, RejectKeeps
<1>6. CASE \E a \in Staff : StaffAuthorizationChanged(a)
  BY <1>6, StaffAuthorizationKeeps
<1>7. CASE ExpiryWorker
  BY <1>7, ExpiryKeeps
<1>8. CASE Tick
  BY <1>8, TickKeeps
<1>9. CASE UNCHANGED vars
  BY <1>9 DEF vars, StaffInv, TypeOK, ReadIsPast, AbsentIsBlank, VersionNamesRow,
              ForfeitedIsDead, BannedOnceByTwoPeople
<1> QED
  BY <1>2, <1>3, <1>4, <1>5, <1>6, <1>7, <1>8, <1>9 DEF Next, Closed

\* StaffInv holds in every reachable state.
THEOREM StaffInvHolds == Spec => []StaffInv
BY StaffInit, StaffNext, PTL DEF Spec

\* TypeOK holds in every reachable state.
THEOREM StaffTypeCorrect == Spec => []TypeOK
BY StaffInvHolds, PTL DEF StaffInv

\* A version names one holder and one status of a case, for any staff and timing.
THEOREM VersionsNameRows == Spec => []VersionNamesRow
BY StaffInvHolds, PTL DEF StaffInv

\* A request whose case was closed or handed on while it was pending never bans.
THEOREM ForfeitedRequestsNeverExecute == Spec => []ForfeitedNeverExecutes
<1>1. StaffInv => ForfeitedNeverExecutes
  BY DEF StaffInv, ForfeitedIsDead, ForfeitedNeverExecutes
<1> QED
  BY <1>1, StaffInvHolds, PTL

\* A request bans at most once, decided by somebody else than its requester.
THEOREM BansTakeTwoPeople == Spec => []BannedOnceByTwoPeople
BY StaffInvHolds, PTL DEF StaffInv

\* What a step owes to the member who holds a claim.
ClaimRespected(r, a) ==
    HoldsClaim(a, r) /\ report'[r].claimedBy # a =>
        \/ report'[r].claimedBy = None
        \/ report[r].coolLeft = 0
        \/ \E b, c \in Staff : TransferReport(b, c, r, report[r].version, TRUE)

\* An assignment takes no live claim.
LEMMA AssignRespects ==
    ASSUME StaffInv, NEW b \in Staff, NEW c \in Staff, NEW s \in Reports, NEW v \in Nat,
           AssignReport(b, c, s, v), NEW r \in Reports, NEW a \in Staff
    PROVE  ClaimRespected(r, a)
<1>1. \A x \in Reports \ {s} : report'[x] = report[x]
  BY ClaimMoves DEF AssignReport, HandOver, GiveTo
<1>2. report[s].claimedBy = None \/ report[s].claimLeft = 0
  BY DEF AssignReport, HandOver, Unclaimed
<1>3. report[r].claimLeft \in Nat
  BY DEF StaffInv, TypeOK, ReportType
<1> QED
  BY <1>1, <1>2, <1>3 DEF ClaimRespected, HoldsClaim

\* A transfer takes a live claim after its cooldown or by a bypass.
LEMMA TransferRespects ==
    ASSUME StaffInv, NEW b \in Staff, NEW c \in Staff, NEW s \in Reports, NEW v \in Nat,
           NEW bypass \in BOOLEAN, TransferReport(b, c, s, v, bypass),
           NEW r \in Reports, NEW a \in Staff
    PROVE  ClaimRespected(r, a)
<1>1. \A x \in Reports \ {s} : report'[x] = report[x]
  BY ClaimMoves DEF TransferReport, HandOver, GiveTo
<1>2. CASE bypass = TRUE
  <2>1. TransferReport(b, c, s, report[s].version, TRUE)
    BY <1>2 DEF TransferReport, HandOver, Current
  <2> QED
    BY <1>1, <2>1 DEF ClaimRespected, HoldsClaim
<1>3. CASE bypass = FALSE
  <2>1. report[s].coolLeft = 0
    BY <1>3 DEF TransferReport, HandOver
  <2> QED
    BY <1>1, <2>1 DEF ClaimRespected, HoldsClaim
<1> QED
  BY <1>2, <1>3

\* Every step respects the claims that have not run out.
LEMMA ClaimsRespected ==
    StaffInv /\ [Next]_vars => \A r \in Reports : \A a \in Staff : ClaimRespected(r, a)
<1> SUFFICES ASSUME StaffInv, [Next]_vars, NEW r \in Reports, NEW a \in Staff
             PROVE  ClaimRespected(r, a)
  OBVIOUS
<1> DEFINE Kept == HoldsClaim(a, r) => report'[r].claimedBy \in {a, None}
<1>1. Kept => ClaimRespected(r, a)
  BY DEF ClaimRespected
<1>2. 1..MaxVersion \subseteq Nat /\ report[r].claimLeft \in Nat
  BY DEF StaffInv, TypeOK, ReportType
<1>3. CASE \E s \in Reports, scope \in {"HUB", "LOBBY"} : CreateReport(s, scope)
  <2>1. PICK s \in Reports, scope \in {"HUB", "LOBBY"} : CreateReport(s, scope)
    BY <1>3
  <2>2. \A x \in Reports \ {s} : report'[x] = report[x]
    BY <2>1 DEF CreateReport, StaffInv, TypeOK
  <2>3. report[s].claimedBy = None
    BY <2>1 DEF CreateReport, StaffInv, AbsentIsBlank
  <2> QED
    BY <1>1, <2>2, <2>3 DEF HoldsClaim
<1>4. ASSUME NEW s \in Reports, NEW v \in 1..MaxVersion, NEW b \in Staff,
             \/ \E bypass \in BOOLEAN : ClaimReport(b, s, v, bypass)
             \/ RenewReportClaim(b, s, v)
             \/ UnclaimReport(b, s, v)
             \/ \E c \in Staff : AssignReport(b, c, s, v)
             \/ \E c \in Staff, bypass \in BOOLEAN : TransferReport(b, c, s, v, bypass)
             \/ \E resolution \in Closed : ResolveReport(b, s, v, resolution)
      PROVE  ClaimRespected(r, a)
  <2>1. v \in Nat
    BY <1>2
  <2>2. CASE \E bypass \in BOOLEAN : ClaimReport(b, s, v, bypass)
    <3>1. /\ report[s].claimedBy = None \/ report[s].claimLeft = 0
          /\ \A x \in Reports \ {s} : report'[x] = report[x]
      BY <2>2, ClaimMoves DEF ClaimReport, GiveTo, Unclaimed
    <3> QED
      BY <1>1, <1>2, <3>1 DEF HoldsClaim
  <2>3. CASE RenewReportClaim(b, s, v)
    <3>1. report[s].coolLeft \in Nat
      BY DEF StaffInv, TypeOK, ReportType
    <3>2. /\ report[s].claimedBy = b /\ report'[s].claimedBy = b
          /\ \A x \in Reports \ {s} : report'[x] = report[x]
      BY <2>3, <3>1, ClaimMoves, HeldExists DEF RenewReportClaim, HoldsClaim
    <3> QED
      BY <1>1, <3>2 DEF HoldsClaim
  <2>4. CASE UnclaimReport(b, s, v)
    <3>1. /\ report'[s].claimedBy = None
          /\ \A x \in Reports \ {s} : report'[x] = report[x]
      BY <2>4, ClaimMoves, HeldExists DEF UnclaimReport, HoldsClaim
    <3> QED
      BY <1>1, <3>1 DEF HoldsClaim
  <2>5. CASE \E c \in Staff : AssignReport(b, c, s, v)
    BY <2>1, <2>5, AssignRespects
  <2>6. CASE \E c \in Staff, bypass \in BOOLEAN : TransferReport(b, c, s, v, bypass)
    BY <2>1, <2>6, TransferRespects
  <2>7. CASE \E resolution \in Closed : ResolveReport(b, s, v, resolution)
    <3>1. report'[r].claimedBy = report[r].claimedBy
      BY <2>7 DEF ResolveReport, Update, Row, StaffInv, TypeOK
    <3> QED
      BY <1>1, <3>1 DEF HoldsClaim
  <2> QED
    BY <1>4, <2>2, <2>3, <2>4, <2>5, <2>6, <2>7
<1>5. CASE \E b \in Staff : StaffAuthorizationChanged(b)
  <2>1. report'[r].claimedBy \in {report[r].claimedBy, None}
    BY <1>5 DEF StaffAuthorizationChanged, Claim, Row
  <2> QED
    BY <1>1, <2>1 DEF HoldsClaim
<1>6. CASE Tick
  <2>1. report'[r].claimedBy = report[r].claimedBy
    BY <1>6 DEF Tick, LaterReport
  <2> QED
    BY <1>1, <2>1 DEF HoldsClaim
<1>7. CASE UNCHANGED report
  BY <1>1, <1>7 DEF HoldsClaim
<1> QED
  BY <1>3, <1>4, <1>5, <1>6, <1>7
     DEF Next, Closed, vars, GetReport, CreateStaffActionRequest, ApproveStaffActionRequest,
         RejectStaffActionRequest, ExpiryWorker

\* A claim that has not run out is never taken within its cooldown but by a bypass.
THEOREM LiveClaimsAreRespected == Spec => LiveClaimIsRespected
<1>1. StaffInv /\ [Next]_vars =>
         \A r \in Reports : \A a \in Staff :
            HoldsClaim(a, r) /\ report'[r].claimedBy # a =>
                \/ report'[r].claimedBy = None
                \/ report[r].coolLeft = 0
                \/ \E b, c \in Staff : TransferReport(b, c, r, report[r].version, TRUE)
  BY ClaimsRespected DEF ClaimRespected
<1> QED
  BY <1>1, StaffInvHolds, PTL DEF Spec, LiveClaimIsRespected

\* A case is closed once, outside a hub by the member who holds it at that moment.
THEOREM CasesAreClosedByTheirHolders == Spec => ClosedOnceByItsHolder
<1> DEFINE Closing(r) ==
        report'[r].status # report[r].status =>
          /\ report[r].status \in {"ABSENT", "PENDING"}
          /\ report'[r].status # "PENDING" =>
                report[r].scope = "HUB" \/ HoldsClaim(report'[r].resolvedBy, r)
<1>1. StaffInv /\ [Next]_vars => \A r \in Reports : Closing(r)
  <2> SUFFICES ASSUME StaffInv, [Next]_vars, NEW r \in Reports
               PROVE  Closing(r)
    OBVIOUS
  <2>1. CASE \E s \in Reports, scope \in {"HUB", "LOBBY"} : CreateReport(s, scope)
    BY <2>1 DEF CreateReport, StaffInv, TypeOK
  <2>2. CASE \E s \in Reports, v \in 1..MaxVersion, b \in Staff, resolution \in Closed :
                ResolveReport(b, s, v, resolution)
    BY <2>2 DEF ResolveReport, Update, Row, HoldsClaim, StaffInv, TypeOK
  <2>3. ASSUME NEW s \in Reports, NEW v \in 1..MaxVersion, NEW b \in Staff,
               \/ \E bypass \in BOOLEAN : ClaimReport(b, s, v, bypass)
               \/ RenewReportClaim(b, s, v)
               \/ UnclaimReport(b, s, v)
               \/ \E c \in Staff : AssignReport(b, c, s, v)
               \/ \E c \in Staff, bypass \in BOOLEAN : TransferReport(b, c, s, v, bypass)
        PROVE  report'[r].status = report[r].status
    <3>1. PICK claimer, claimLeft, coolLeft :
                Update(s, Claim(s, claimer, claimLeft, coolLeft))
      BY <2>3 DEF ClaimReport, RenewReportClaim, UnclaimReport, AssignReport, TransferReport,
                  HandOver, GiveTo
    <3> QED
      BY <3>1 DEF Update, Claim, Row, StaffInv, TypeOK
  <2>4. CASE \E b \in Staff : StaffAuthorizationChanged(b)
    BY <2>4 DEF StaffAuthorizationChanged, Claim, Row
  <2>5. CASE Tick
    BY <2>5 DEF Tick, LaterReport
  <2>6. CASE UNCHANGED report
    BY <2>6
  <2> QED
    BY <2>1, <2>2, <2>3, <2>4, <2>5, <2>6
       DEF Next, Closed, vars, GetReport, CreateStaffActionRequest, ApproveStaffActionRequest,
           RejectStaffActionRequest, ExpiryWorker
<1> QED
  BY <1>1, StaffInvHolds, PTL DEF Spec, ClosedOnceByItsHolder

-----------------------------------------------------------------------------
(* Refinement of CasePromise *)

\* A step of the promise, or none.
PromiseMoves == [Promise!PromiseNext]_(Promise!promiseVars)

\* What the promise sees of the reports, and of the requests.
ReportsView == <<caseOf, scopeOf, holderOf, closerOf>>
RequestsView == <<standingOf, askedOf, approverOf>>

\* Where it is given the value it has, a view does not change.
LEMMA CaseGivenAgain == ASSUME NEW r \in Reports PROVE [caseOf EXCEPT ![r] = caseOf[r]] = caseOf
BY DEF caseOf

LEMMA ScopeGivenAgain == ASSUME NEW r \in Reports PROVE [scopeOf EXCEPT ![r] = scopeOf[r]] = scopeOf
BY DEF scopeOf

LEMMA HolderGivenAgain == ASSUME NEW r \in Reports PROVE [holderOf EXCEPT ![r] = holderOf[r]] = holderOf
BY DEF holderOf

LEMMA CloserGivenAgain == ASSUME NEW r \in Reports PROVE [closerOf EXCEPT ![r] = closerOf[r]] = closerOf
BY DEF closerOf

LEMMA AskedGivenAgain == ASSUME NEW q \in Requests PROVE [askedOf EXCEPT ![q] = askedOf[q]] = askedOf
BY DEF askedOf

LEMMA ApproverGivenAgain == ASSUME NEW q \in Requests PROVE [approverOf EXCEPT ![q] = approverOf[q]] = approverOf
BY DEF approverOf

\* The row of one report is written, and the promise sees what it says.
LEMMA ReportSeen ==
    ASSUME NEW r \in Reports, NEW row, report \in [Reports -> ReportType],
           report' = [report EXCEPT ![r] = row]
    PROVE  /\ caseOf' = [caseOf EXCEPT ![r] = CaseIn(row)]
           /\ scopeOf' = [scopeOf EXCEPT ![r] = row.scope]
           /\ holderOf' = [holderOf EXCEPT ![r] = HolderIn(row)]
           /\ closerOf' = [closerOf EXCEPT ![r] = row.resolvedBy]
<1>1. report'[r] = row /\ \A s \in Reports \ {r} : report'[s] = report[s]
  OBVIOUS
<1>2. caseOf' = [caseOf EXCEPT ![r] = CaseIn(row)]
  BY <1>1 DEF caseOf
<1>3. scopeOf' = [scopeOf EXCEPT ![r] = row.scope]
  BY <1>1 DEF scopeOf
<1>4. holderOf' = [holderOf EXCEPT ![r] = HolderIn(row)]
  BY <1>1 DEF holderOf
<1>5. closerOf' = [closerOf EXCEPT ![r] = row.resolvedBy]
  BY <1>1 DEF closerOf
<1> QED
  BY <1>2, <1>3, <1>4, <1>5

\* One request is written.
LEMMA RequestSeen ==
    ASSUME NEW q \in Requests, NEW new, request \in [Requests -> RequestType],
           request' = [request EXCEPT ![q] = new]
    PROVE  /\ standingOf' = [standingOf EXCEPT ![q] = StandingIn(new)]
           /\ askedOf' = [askedOf EXCEPT ![q] = AskedIn(new)]
           /\ approverOf' = [approverOf EXCEPT ![q] = ApproverIn(new)]
<1>1. request'[q] = new /\ \A p \in Requests \ {q} : request'[p] = request[p]
  OBVIOUS
<1>2. standingOf' = [standingOf EXCEPT ![q] = StandingIn(new)]
  BY <1>1 DEF standingOf
<1>3. askedOf' = [askedOf EXCEPT ![q] = AskedIn(new)]
  BY <1>1 DEF askedOf
<1>4. approverOf' = [approverOf EXCEPT ![q] = ApproverIn(new)]
  BY <1>1 DEF approverOf
<1> QED
  BY <1>2, <1>3, <1>4

\* What the promise sees of a table that is not written.
LEMMA ReportsUnwritten ==
    ASSUME UNCHANGED report
    PROVE  UNCHANGED <<caseOf, scopeOf, holderOf, closerOf>>
BY DEF caseOf, scopeOf, holderOf, closerOf

LEMMA RequestsUnwritten ==
    ASSUME UNCHANGED request
    PROVE  UNCHANGED <<standingOf, askedOf, approverOf>>
BY DEF standingOf, askedOf, approverOf

\* What the promise sees of one row.
LEMMA ReportOf ==
    ASSUME NEW r \in Reports, report \in [Reports -> ReportType]
    PROVE  /\ caseOf[r] = "none" <=> report[r].status = "ABSENT"
           /\ caseOf[r] = "open" <=> report[r].status = "PENDING"
           /\ scopeOf[r] = report[r].scope /\ closerOf[r] = report[r].resolvedBy
           /\ \A a \in Staff : holderOf[r] = a <=> LiveOwner(a, r)
           /\ holderOf[r] = HolderIn(report[r]) /\ caseOf[r] = CaseIn(report[r])
<1>1. report[r].claimLeft \in Nat /\ None \notin Staff
  BY DEF ReportType
<1>2. \A a \in Staff : holderOf[r] = a <=> LiveOwner(a, r)
  BY <1>1 DEF holderOf, HolderIn, LiveOwner, HoldsClaim
<1> QED
  BY <1>2 DEF caseOf, CaseIn, scopeOf, closerOf, holderOf

LEMMA RequestOf ==
    ASSUME NEW q \in Requests
    PROVE  /\ standingOf[q] = "none" <=> request[q].status = "ABSENT"
           /\ Promise!Pending(q) <=> request[q].status = "PENDING"
           /\ askedOf[q].by = request[q].requestedBy
           /\ askedOf[q].target = request[q].target
           /\ askedOf[q].report = request[q].report
BY DEF standingOf, StandingIn, askedOf, AskedIn, Promise!Pending

\* Pending requests are settled without a decision: their people are the same.
Settles(S) ==
    \A q \in Requests :
        IF q \in S
        THEN \E by : \E status \in {"CANCELLED", "EXPIRED"} : request'[q] = Settled(q, status, by)
        ELSE request'[q] = request[q]

LEMMA SettledSeen ==
    ASSUME NEW S \in SUBSET Requests, \A q \in S : request[q].status = "PENDING", Settles(S)
    PROVE  Promise!Void(S) /\ UNCHANGED <<askedOf, approverOf>>
<1>1. ASSUME NEW q \in Requests
      PROVE  /\ StandingIn(request'[q]) = IF q \in S THEN "void" ELSE StandingIn(request[q])
             /\ AskedIn(request'[q]) = AskedIn(request[q])
             /\ ApproverIn(request'[q]) = ApproverIn(request[q])
  <2>1. CASE q \in S
    <3>1. PICK by : \E status \in {"CANCELLED", "EXPIRED"} : request'[q] = Settled(q, status, by)
      BY <2>1 DEF Settles
    <3>2. PICK status \in {"CANCELLED", "EXPIRED"} : request'[q] = Settled(q, status, by)
      BY <3>1
    <3>0. PICK x : x = Settled(q, status, by) /\ request'[q] = x
      BY <3>2
    <3>3. /\ x.status = status /\ x.requestedBy = request[q].requestedBy
          /\ x.target = request[q].target /\ x.report = request[q].report
      BY <3>0 DEF Settled
    <3>4. StandingIn(x) = "void"
      BY <3>3 DEF StandingIn
    <3>5. AskedIn(x) = AskedIn(request[q])
      BY <3>3 DEF AskedIn
    <3>6. ApproverIn(x) = ApproverIn(request[q])
      BY <2>1, <3>3 DEF ApproverIn
    <3> QED
      BY <2>1, <3>0, <3>4, <3>5, <3>6
  <2>2. CASE q \notin S
    BY <2>2 DEF Settles
  <2> QED
    BY <2>1, <2>2
<1>2. Promise!Void(S)
  BY <1>1 DEF Promise!Void, standingOf
<1>3. askedOf' = askedOf
  BY <1>1 DEF askedOf
<1>4. approverOf' = approverOf
  BY <1>1 DEF approverOf
<1> QED
  BY <1>2, <1>3, <1>4

LEMMA CancelSettles ==
    ASSUME NEW S \in SUBSET Requests, NEW by, Cancel(S, by)
    PROVE  Settles(S)
BY DEF Cancel, Settles

\* A new claim is all that is written.
LEMMA ClaimSeen ==
    ASSUME StaffInv, NEW r \in Reports, report[r].status # "ABSENT",
           NEW claimer \in Staff \cup {None}, NEW claimLeft \in Nat, NEW coolLeft \in Nat,
           Update(r, Claim(r, claimer, claimLeft, coolLeft))
    PROVE  /\ UNCHANGED <<caseOf, scopeOf, closerOf>>
           /\ holderOf' = [holderOf EXCEPT ![r] =
                              IF report[r].status = "PENDING" /\ claimLeft > 0 THEN claimer ELSE None]
<1>0. report \in [Reports -> ReportType]
  BY DEF StaffInv, TypeOK
<1>1. PICK row : row = Claim(r, claimer, claimLeft, coolLeft)
  OBVIOUS
<1>2. /\ row.status = report[r].status /\ row.scope = report[r].scope
      /\ row.resolvedBy = report[r].resolvedBy
      /\ row.claimedBy = claimer /\ row.claimLeft = claimLeft
  BY <1>1 DEF Claim, Row
<1>3. report' = [report EXCEPT ![r] = row]
  BY <1>1 DEF Update
<1>4. /\ caseOf' = [caseOf EXCEPT ![r] = CaseIn(row)]
      /\ scopeOf' = [scopeOf EXCEPT ![r] = row.scope]
      /\ holderOf' = [holderOf EXCEPT ![r] = HolderIn(row)]
      /\ closerOf' = [closerOf EXCEPT ![r] = row.resolvedBy]
  BY <1>0, <1>3, ReportSeen
<1>5. caseOf' = caseOf
  <2>1. CaseIn(row) = CaseIn(report[r])
    BY <1>2 DEF CaseIn
  <2>2. CaseIn(row) = caseOf[r]
    BY <2>1 DEF caseOf
  <2>3. caseOf' = [caseOf EXCEPT ![r] = caseOf[r]]
    BY <1>4, <2>2
  <2> QED
    BY <2>3, CaseGivenAgain
<1>6. scopeOf' = scopeOf
  <2>1. row.scope = scopeOf[r]
    BY <1>2 DEF scopeOf
  <2>2. scopeOf' = [scopeOf EXCEPT ![r] = scopeOf[r]]
    BY <1>4, <2>1
  <2> QED
    BY <2>2, ScopeGivenAgain
<1>7. closerOf' = closerOf
  <2>1. row.resolvedBy = closerOf[r]
    BY <1>2 DEF closerOf
  <2>2. closerOf' = [closerOf EXCEPT ![r] = closerOf[r]]
    BY <1>4, <2>1
  <2> QED
    BY <2>2, CloserGivenAgain
<1>8. HolderIn(row) = IF report[r].status = "PENDING" /\ claimLeft > 0 THEN claimer ELSE None
  BY <1>2 DEF HolderIn
<1> QED
  BY <1>4, <1>5, <1>6, <1>7, <1>8

-----------------------------------------------------------------------------
(* The actions on reports, as the promise sees them *)

LEMMA CreateReportOpens ==
    ASSUME StaffInv, NEW r \in Reports, NEW s \in {"HUB", "LOBBY"}, CreateReport(r, s)
    PROVE  Promise!Open(r, s)
<1>0. report \in [Reports -> ReportType]
  BY DEF StaffInv, TypeOK
<1>1. PICK row : /\ row = [status |-> "PENDING", scope |-> s, resolvedBy |-> None,
                           claimedBy |-> None, claimLeft |-> 0, coolLeft |-> 0,
                           renewLeft |-> RenewTicks, version |-> 1]
                 /\ report' = [report EXCEPT ![r] = row]
  BY DEF CreateReport
<1>2. /\ caseOf' = [caseOf EXCEPT ![r] = CaseIn(row)]
      /\ scopeOf' = [scopeOf EXCEPT ![r] = row.scope]
      /\ holderOf' = [holderOf EXCEPT ![r] = HolderIn(row)]
      /\ closerOf' = [closerOf EXCEPT ![r] = row.resolvedBy]
  BY <1>0, <1>1, ReportSeen
<1>3. CaseIn(row) = "open" /\ row.scope = s /\ HolderIn(row) = None /\ row.resolvedBy = None
  BY <1>1 DEF CaseIn, HolderIn
<1>4. report[r].status = "ABSENT" /\ holderOf[r] = None /\ caseOf[r] = "none"
  BY DEF CreateReport, holderOf, HolderIn, caseOf, CaseIn
<1>5. closerOf[r] = None
  BY <1>4 DEF StaffInv, AbsentIsBlank, closerOf
<1>6. holderOf' = holderOf /\ closerOf' = closerOf
  <2>1. holderOf' = [holderOf EXCEPT ![r] = holderOf[r]]
    BY <1>2, <1>3, <1>4
  <2>2. closerOf' = [closerOf EXCEPT ![r] = closerOf[r]]
    BY <1>2, <1>3, <1>5
  <2> QED
    BY <2>1, <2>2, HolderGivenAgain, CloserGivenAgain
<1>7. UNCHANGED <<standingOf, askedOf, approverOf, enforced>>
  BY RequestsUnwritten DEF CreateReport
<1> QED
  BY <1>2, <1>3, <1>4, <1>6, <1>7 DEF Promise!Open

LEMMA ClaimTakes ==
    ASSUME StaffInv, NEW a \in Staff, NEW r \in Reports, NEW version, NEW bypass,
           ClaimReport(a, r, version, bypass)
    PROVE  Promise!Take(r, a)
<1>1. report[r].status = "PENDING" /\ Unclaimed(r) /\ Update(r, Claim(r, a, LeaseTicks, CooldownTicks))
  BY DEF ClaimReport, GiveTo
<1>2. LeaseTicks > 0 /\ LeaseTicks \in Nat /\ CooldownTicks \in Nat
  OBVIOUS
<1>3. /\ UNCHANGED <<caseOf, scopeOf, closerOf>>
      /\ holderOf' = [holderOf EXCEPT ![r] = a]
  BY <1>1, <1>2, ClaimSeen
<1>4. caseOf[r] = "open" /\ holderOf[r] = None
  BY <1>1 DEF caseOf, CaseIn, holderOf, HolderIn, Unclaimed
<1>5. UNCHANGED <<standingOf, askedOf, approverOf, enforced>>
  BY RequestsUnwritten DEF ClaimReport
<1> QED
  BY <1>3, <1>4, <1>5 DEF Promise!Take

\* A renewal is not seen: its caller holds the case before and after.
LEMMA RenewUnseen ==
    ASSUME StaffInv, NEW a \in Staff, NEW r \in Reports, NEW version, RenewReportClaim(a, r, version)
    PROVE  PromiseMoves
<1>1. /\ report[r].claimedBy = a /\ report[r].claimLeft > 0
      /\ Update(r, Claim(r, a, LeaseTicks, report[r].coolLeft))
  BY DEF RenewReportClaim, HoldsClaim
<1>2. LeaseTicks > 0 /\ LeaseTicks \in Nat /\ report[r].coolLeft \in Nat
  BY DEF StaffInv, TypeOK, ReportType
<1>3. report[r].status # "ABSENT"
  BY <1>1, HeldExists
<1>4. /\ UNCHANGED <<caseOf, scopeOf, closerOf>>
      /\ holderOf' = [holderOf EXCEPT ![r] = IF report[r].status = "PENDING" THEN a ELSE None]
  BY <1>1, <1>2, <1>3, ClaimSeen
<1>5. holderOf' = holderOf
  <2>1. holderOf[r] = IF report[r].status = "PENDING" THEN a ELSE None
    BY <1>1 DEF holderOf, HolderIn
  <2>2. holderOf' = [holderOf EXCEPT ![r] = holderOf[r]]
    BY <1>4, <2>1
  <2> QED
    BY <2>2, HolderGivenAgain
<1>6. UNCHANGED <<standingOf, askedOf, approverOf, enforced>>
  BY RequestsUnwritten DEF RenewReportClaim
<1> QED
  BY <1>4, <1>5, <1>6 DEF PromiseMoves, Promise!promiseVars

\* The requests of a case, as the promise names them.
LEMMA PendingOnIs ==
    ASSUME NEW r \in Reports
    PROVE  PendingOn(r) = {q \in Requests : Promise!Pending(q) /\ askedOf[q].report = r}
BY RequestOf DEF PendingOn

LEMMA UnclaimReleases ==
    ASSUME StaffInv, NEW a \in Staff, NEW r \in Reports, NEW version, UnclaimReport(a, r, version)
    PROVE  Promise!Release(r)
<1>1. /\ report[r].claimedBy = a /\ Update(r, Claim(r, None, 0, 0))
      /\ Cancel(PendingOn(r), a) /\ enforced' = enforced
  BY DEF UnclaimReport, HoldsClaim
<1>2. report[r].status # "ABSENT"
  BY <1>1, HeldExists
<1>3. /\ UNCHANGED <<caseOf, scopeOf, closerOf>>
      /\ holderOf' = [holderOf EXCEPT ![r] = None]
  BY <1>1, <1>2, ClaimSeen
<1>4. PendingOn(r) \in SUBSET Requests /\ \A q \in PendingOn(r) : request[q].status = "PENDING"
  BY DEF PendingOn
<1>5. Promise!Void(PendingOn(r)) /\ UNCHANGED <<askedOf, approverOf>>
  BY <1>1, <1>4, CancelSettles, SettledSeen
<1> QED
  BY <1>1, <1>3, <1>5, PendingOnIs DEF Promise!Release

LEMMA HandOverGives ==
    ASSUME StaffInv, NEW a \in Staff, NEW b \in Staff, NEW r \in Reports, NEW version,
           NEW requireUnclaimed, NEW bypass,
           HandOver(a, b, r, version, requireUnclaimed, bypass)
    PROVE  Promise!Give(r, b)
<1>0. PICK others : others = {q \in PendingOn(r) : request[q].requestedBy # b}
  OBVIOUS
<1>1. /\ report[r].status = "PENDING" /\ Update(r, Claim(r, b, LeaseTicks, CooldownTicks))
      /\ Cancel(others, a) /\ enforced' = enforced
  BY <1>0 DEF HandOver, GiveTo
<1>2. LeaseTicks > 0 /\ LeaseTicks \in Nat /\ CooldownTicks \in Nat
  OBVIOUS
<1>3. /\ UNCHANGED <<caseOf, scopeOf, closerOf>>
      /\ holderOf' = [holderOf EXCEPT ![r] = b]
  BY <1>1, <1>2, ClaimSeen
<1>4. others \in SUBSET Requests /\ \A q \in others : request[q].status = "PENDING"
  BY <1>0 DEF PendingOn
<1>5. Promise!Void(others) /\ UNCHANGED <<askedOf, approverOf>>
  BY <1>1, <1>4, CancelSettles, SettledSeen
<1>6. others = {q \in Requests : /\ Promise!Pending(q) /\ askedOf[q].report = r
                                 /\ askedOf[q].by # b}
  BY <1>0, RequestOf DEF PendingOn
<1>7. caseOf[r] = "open"
  BY <1>1 DEF caseOf, CaseIn
<1> QED
  BY <1>1, <1>3, <1>5, <1>6, <1>7 DEF Promise!Give

LEMMA ResolveCloses ==
    ASSUME StaffInv, NEW a \in Staff, NEW r \in Reports, NEW version, NEW resolution \in Closed,
           ResolveReport(a, r, version, resolution)
    PROVE  Promise!Close(r, a)
<1>0. report \in [Reports -> ReportType]
  BY DEF StaffInv, TypeOK
<1>1. PICK row : row = Row(r, resolution, a, report[r].claimedBy, report[r].claimLeft,
                           report[r].coolLeft)
  OBVIOUS
<1>2. row.status = resolution /\ row.scope = report[r].scope /\ row.resolvedBy = a
  BY <1>1 DEF Row
<1>3. report' = [report EXCEPT ![r] = row] /\ report[r].status = "PENDING"
  BY <1>1 DEF ResolveReport, Update
<1>4. /\ caseOf' = [caseOf EXCEPT ![r] = CaseIn(row)]
      /\ scopeOf' = [scopeOf EXCEPT ![r] = row.scope]
      /\ holderOf' = [holderOf EXCEPT ![r] = HolderIn(row)]
      /\ closerOf' = [closerOf EXCEPT ![r] = row.resolvedBy]
  BY <1>0, <1>3, ReportSeen
<1>5. CaseIn(row) = "closed" /\ HolderIn(row) = None
  BY <1>2 DEF CaseIn, HolderIn, Closed
<1>6. scopeOf' = scopeOf
  <2>1. row.scope = scopeOf[r]
    BY <1>2 DEF scopeOf
  <2>2. scopeOf' = [scopeOf EXCEPT ![r] = scopeOf[r]]
    BY <1>4, <2>1
  <2> QED
    BY <2>2, ScopeGivenAgain
<1>7. caseOf[r] = "open" /\ (scopeOf[r] = "HUB" \/ holderOf[r] = a)
  BY <1>3 DEF ResolveReport, HoldsClaim, caseOf, CaseIn, scopeOf, holderOf, HolderIn
<1>8. UNCHANGED <<standingOf, askedOf, approverOf, enforced>>
  BY RequestsUnwritten DEF ResolveReport
<1> QED
  BY <1>2, <1>4, <1>5, <1>6, <1>7, <1>8 DEF Promise!Close

-----------------------------------------------------------------------------
(* The actions on requests, the background tasks and time, as the promise sees them *)

LEMMA CreateRequestAsks ==
    ASSUME StaffInv, NEW a \in Staff, NEW q \in Requests, NEW t \in Targets,
           NEW link \in Reports \cup {None}, NEW ban,
           CreateStaffActionRequest(a, q, t, link, ban)
    PROVE  Promise!Ask(q, a, t, link)
<1>0. report \in [Reports -> ReportType] /\ request \in [Requests -> RequestType]
  BY DEF StaffInv, TypeOK
<1>1. PICK new : /\ new = [status |-> "PENDING", target |-> t, report |-> link, requestedBy |-> a,
                           decidedBy |-> None, left |-> WindowTicks, banLeft |-> ban]
                 /\ request' = [request EXCEPT ![q] = new]
  BY DEF CreateStaffActionRequest
<1>2. /\ standingOf' = [standingOf EXCEPT ![q] = StandingIn(new)]
      /\ askedOf' = [askedOf EXCEPT ![q] = AskedIn(new)]
      /\ approverOf' = [approverOf EXCEPT ![q] = ApproverIn(new)]
  BY <1>0, <1>1, RequestSeen
<1>3. /\ StandingIn(new) = "pending" /\ ApproverIn(new) = None
      /\ AskedIn(new) = [by |-> a, target |-> t, report |-> link]
  BY <1>1 DEF StandingIn, ApproverIn, AskedIn
<1>4. /\ request[q].status = "ABSENT" /\ (link # None => LiveOwner(a, link))
      /\ \A p \in Requests : ~(request[p].status = "PENDING" /\ request[p].target = t)
      /\ UNCHANGED <<report, enforced>>
  BY DEF CreateStaffActionRequest
<1>5. approverOf' = approverOf
  <2>1. approverOf[q] = None
    BY <1>4 DEF approverOf, ApproverIn
  <2>2. approverOf' = [approverOf EXCEPT ![q] = approverOf[q]]
    BY <1>2, <1>3, <2>1
  <2> QED
    BY <2>2, ApproverGivenAgain
<1>6. standingOf[q] = "none" /\ \A p \in Requests : Promise!Pending(p) => askedOf[p].target # t
  BY <1>4, RequestOf
<1>7. link # None => holderOf[link] = a
  BY <1>0, <1>4, ReportOf
<1>8. UNCHANGED <<caseOf, scopeOf, holderOf, closerOf>>
  BY <1>4, ReportsUnwritten
<1> QED
  BY <1>2, <1>3, <1>4, <1>5, <1>6, <1>7, <1>8 DEF Promise!Ask

\* What an approver is asked for is what the promise asks for.
LEMMA DecidableIs ==
    ASSUME StaffInv, NEW a \in Staff, NEW q \in Requests, Decidable(a, q)
    PROVE  Promise!Decidable(q, a)
<1>0. report \in [Reports -> ReportType] /\ request[q] \in RequestType
  BY DEF StaffInv, TypeOK
<1>1. Promise!Pending(q) /\ askedOf[q].by # a
  BY RequestOf DEF Decidable
<1>2. ASSUME request[q].report # None
      PROVE  holderOf[request[q].report] = request[q].requestedBy
  <2>1. request[q].report \in Reports
    BY <1>0, <1>2 DEF RequestType
  <2>2. PICK r \in Reports : r = request[q].report
    BY <2>1
  <2>3. /\ report[r].status = "PENDING" /\ report[r].claimLeft > 0
        /\ report[r].claimedBy = request[q].requestedBy
    BY <1>2, <2>2 DEF Decidable, LiveOwner, HoldsClaim
  <2>4. holderOf[r] = request[q].requestedBy
    BY <2>3 DEF holderOf, HolderIn
  <2> QED
    BY <2>2, <2>4
<1>3. askedOf[q].report # None => holderOf[askedOf[q].report] = askedOf[q].by
  BY <1>2, RequestOf
<1> QED
  BY <1>1, <1>3 DEF Promise!Decidable

LEMMA ApproveBans ==
    ASSUME StaffInv, NEW a \in Staff, NEW q \in Requests, ApproveStaffActionRequest(a, q)
    PROVE  Promise!Ban(q, a)
<1>0. request \in [Requests -> RequestType]
  BY DEF StaffInv, TypeOK
<1>1. PICK new : new = Settled(q, "EXECUTED", a) /\ request' = [request EXCEPT ![q] = new]
  BY DEF ApproveStaffActionRequest
<1>2. /\ standingOf' = [standingOf EXCEPT ![q] = StandingIn(new)]
      /\ askedOf' = [askedOf EXCEPT ![q] = AskedIn(new)]
      /\ approverOf' = [approverOf EXCEPT ![q] = ApproverIn(new)]
  BY <1>0, <1>1, RequestSeen
<1>3. /\ StandingIn(new) = "done" /\ ApproverIn(new) = a /\ AskedIn(new) = AskedIn(request[q])
  BY <1>1 DEF Settled, StandingIn, ApproverIn, AskedIn
<1>4. askedOf' = askedOf
  <2>1. AskedIn(new) = askedOf[q]
    BY <1>3 DEF askedOf
  <2>2. askedOf' = [askedOf EXCEPT ![q] = askedOf[q]]
    BY <1>2, <2>1
  <2> QED
    BY <2>2, AskedGivenAgain
<1>5. /\ Promise!Decidable(q, a) /\ report' = report
      /\ enforced' = [enforced EXCEPT ![q] = @ + 1]
  BY DecidableIs DEF ApproveStaffActionRequest
<1>6. UNCHANGED <<caseOf, scopeOf, holderOf, closerOf>>
  BY <1>5, ReportsUnwritten
<1> QED
  BY <1>2, <1>3, <1>4, <1>5, <1>6 DEF Promise!Ban

LEMMA RejectRefuses ==
    ASSUME StaffInv, NEW a \in Staff, NEW q \in Requests, RejectStaffActionRequest(a, q)
    PROVE  Promise!Refuse(q, a)
<1>0. request \in [Requests -> RequestType]
  BY DEF StaffInv, TypeOK
<1>1. PICK new : new = Settled(q, "REJECTED", a) /\ request' = [request EXCEPT ![q] = new]
  BY DEF RejectStaffActionRequest
<1>2. /\ standingOf' = [standingOf EXCEPT ![q] = StandingIn(new)]
      /\ askedOf' = [askedOf EXCEPT ![q] = AskedIn(new)]
      /\ approverOf' = [approverOf EXCEPT ![q] = ApproverIn(new)]
  BY <1>0, <1>1, RequestSeen
<1>3. /\ Promise!Decidable(q, a) /\ request[q].status = "PENDING"
      /\ UNCHANGED <<report, enforced>>
  BY DecidableIs DEF RejectStaffActionRequest, Decidable
<1>4. /\ StandingIn(new) = "refused" /\ AskedIn(new) = AskedIn(request[q])
      /\ ApproverIn(new) = ApproverIn(request[q])
  BY <1>1, <1>3 DEF Settled, StandingIn, ApproverIn, AskedIn
<1>5. askedOf' = askedOf /\ approverOf' = approverOf
  <2>1. AskedIn(new) = askedOf[q] /\ ApproverIn(new) = approverOf[q]
    BY <1>4 DEF askedOf, approverOf
  <2>2. askedOf' = [askedOf EXCEPT ![q] = askedOf[q]]
    BY <1>2, <2>1
  <2>3. approverOf' = [approverOf EXCEPT ![q] = approverOf[q]]
    BY <1>2, <2>1
  <2> QED
    BY <2>2, <2>3, AskedGivenAgain, ApproverGivenAgain
<1>6. UNCHANGED <<caseOf, scopeOf, holderOf, closerOf>>
  BY <1>3, ReportsUnwritten
<1> QED
  BY <1>2, <1>3, <1>4, <1>5, <1>6 DEF Promise!Refuse

LEMMA AuthorizationSuspends ==
    ASSUME StaffInv, NEW a \in Staff, StaffAuthorizationChanged(a)
    PROVE  Promise!Suspend(a)
<1>0. PICK theirs : theirs = {q \in Requests : /\ request[q].status = "PENDING"
                                               /\ request[q].requestedBy = a
                                               /\ request[q].report # None}
  OBVIOUS
<1>1. Cancel(theirs, None) /\ enforced' = enforced
  BY <1>0 DEF StaffAuthorizationChanged
<1>2. theirs \in SUBSET Requests /\ \A q \in theirs : request[q].status = "PENDING"
  BY <1>0
<1>3. Promise!Void(theirs) /\ UNCHANGED <<askedOf, approverOf>>
  BY <1>1, <1>2, CancelSettles, SettledSeen
<1>4. theirs = {q \in Requests : /\ Promise!Pending(q) /\ askedOf[q].report # None
                                 /\ askedOf[q].by = a}
  BY <1>0, RequestOf
<1>5. ASSUME NEW r \in Reports
      PROVE  /\ CaseIn(report'[r]) = CaseIn(report[r])
             /\ report'[r].scope = report[r].scope
             /\ report'[r].resolvedBy = report[r].resolvedBy
             /\ HolderIn(report'[r]) = IF HolderIn(report[r]) = a THEN None ELSE HolderIn(report[r])
  <2>1. CASE report[r].claimedBy = a
    <3>1. PICK row : row = Claim(r, None, 0, CooldownTicks) /\ report'[r] = row
      BY <2>1 DEF StaffAuthorizationChanged
    <3>2. /\ row.status = report[r].status /\ row.scope = report[r].scope
          /\ row.resolvedBy = report[r].resolvedBy /\ row.claimedBy = None
      BY <3>1 DEF Claim, Row
    <3>3. CaseIn(row) = CaseIn(report[r])
      BY <3>2 DEF CaseIn
    <3>4. HolderIn(row) = None
      BY <3>2 DEF HolderIn
    <3>5. HolderIn(report[r]) \in {a, None}
      BY <2>1 DEF HolderIn
    <3> QED
      BY <3>1, <3>2, <3>3, <3>4, <3>5
  <2>2. CASE report[r].claimedBy # a
    <3>1. report'[r] = report[r]
      BY <2>2 DEF StaffAuthorizationChanged
    <3>2. HolderIn(report[r]) # a
      BY <2>2 DEF HolderIn
    <3> QED
      BY <3>1, <3>2
  <2> QED
    BY <2>1, <2>2
<1>6. UNCHANGED <<caseOf, scopeOf, closerOf>>
  BY <1>5 DEF caseOf, scopeOf, closerOf
<1>7. holderOf' = [r \in Reports |-> IF holderOf[r] = a THEN None ELSE holderOf[r]]
  BY <1>5 DEF holderOf
<1> QED
  BY <1>1, <1>3, <1>4, <1>6, <1>7 DEF Promise!Suspend

LEMMA ExpiryDrops ==
    ASSUME StaffInv, ExpiryWorker
    PROVE  \E S \in SUBSET Requests : Promise!Drop(S)
<1>1. PICK S \in SUBSET Requests : S = Overdue \cup Stale
  BY DEF Overdue, Stale
<1>2. \A q \in S : request[q].status = "PENDING"
  BY <1>1 DEF Overdue, Stale
<1>3. ASSUME NEW q \in Requests
      PROVE  IF q \in S
             THEN \E by : \E status \in {"CANCELLED", "EXPIRED"} :
                     request'[q] = Settled(q, status, by)
             ELSE request'[q] = request[q]
  <2>1. CASE q \in Overdue
    <3>1. request'[q] = Settled(q, "EXPIRED", None)
      BY <2>1 DEF ExpiryWorker
    <3> QED
      BY <1>1, <2>1, <3>1
  <2>2. CASE q \in Stale \ Overdue
    <3>1. request'[q] = Settled(q, "CANCELLED", None)
      BY <2>2 DEF ExpiryWorker
    <3> QED
      BY <1>1, <2>2, <3>1
  <2>3. CASE q \notin S
    BY <1>1, <2>3 DEF ExpiryWorker
  <2> QED
    BY <1>1, <2>1, <2>2, <2>3
<1>4. Promise!Void(S) /\ UNCHANGED <<askedOf, approverOf>>
  BY <1>2, <1>3, SettledSeen DEF Settles
<1>5. \A q \in S : Promise!Pending(q)
  BY <1>2, RequestOf
<1>6. UNCHANGED <<report, enforced>>
  BY DEF ExpiryWorker
<1>7. UNCHANGED <<caseOf, scopeOf, holderOf, closerOf>>
  BY <1>6, ReportsUnwritten
<1>8. Promise!Drop(S)
  BY <1>4, <1>5, <1>6, <1>7 DEF Promise!Drop
<1> QED
  BY <1>8

LEMMA TickLapses ==
    ASSUME StaffInv, Tick
    PROVE  \E S \in SUBSET Reports : Promise!Lapse(S)
<1>1. PICK S \in SUBSET Reports : S = {r \in Reports : LaterReport(report[r]).claimLeft = 0}
  OBVIOUS
<1>2. ASSUME NEW r \in Reports
      PROVE  /\ CaseIn(report'[r]) = CaseIn(report[r])
             /\ report'[r].scope = report[r].scope
             /\ report'[r].resolvedBy = report[r].resolvedBy
             /\ HolderIn(report'[r]) = IF r \in S THEN None ELSE HolderIn(report[r])
  <2>1. PICK row : row = LaterReport(report[r])
    OBVIOUS
  <2>2. /\ report'[r] = row /\ row.status = report[r].status /\ row.scope = report[r].scope
        /\ row.resolvedBy = report[r].resolvedBy /\ row.claimedBy = report[r].claimedBy
        /\ row.claimLeft = Less(report[r].claimLeft)
    BY <2>1 DEF Tick, LaterReport
  <2>3. report[r].claimLeft \in Nat /\ None \notin Nat
    BY DEF StaffInv, TypeOK, ReportType
  <2>4. row.claimLeft \in Nat /\ (row.claimLeft > 0 => report[r].claimLeft > 0)
    BY <2>2, <2>3 DEF Less
  <2>5. r \in S <=> row.claimLeft = 0
    BY <1>1, <2>1
  <2>6. CaseIn(row) = CaseIn(report[r])
    BY <2>2 DEF CaseIn
  <2>7. HolderIn(row) = IF r \in S THEN None ELSE HolderIn(report[r])
    BY <2>2, <2>3, <2>4, <2>5 DEF HolderIn
  <2> QED
    BY <2>2, <2>6, <2>7
<1>3. UNCHANGED <<caseOf, scopeOf, closerOf>>
  BY <1>2 DEF caseOf, scopeOf, closerOf
<1>4. holderOf' = [r \in Reports |-> IF r \in S THEN None ELSE holderOf[r]]
  BY <1>2 DEF holderOf
<1>5. ASSUME NEW q \in Requests
      PROVE  /\ StandingIn(request'[q]) = StandingIn(request[q])
             /\ AskedIn(request'[q]) = AskedIn(request[q])
             /\ ApproverIn(request'[q]) = ApproverIn(request[q])
  <2>1. PICK x : x = LaterRequest(request[q])
    OBVIOUS
  <2>2. /\ request'[q] = x /\ x.status = request[q].status /\ x.target = request[q].target
        /\ x.report = request[q].report /\ x.requestedBy = request[q].requestedBy
        /\ x.decidedBy = request[q].decidedBy
    BY <2>1 DEF Tick, LaterRequest
  <2> QED
    BY <2>2 DEF StandingIn, AskedIn, ApproverIn
<1>6. UNCHANGED <<standingOf, askedOf, approverOf>>
  BY <1>5 DEF standingOf, askedOf, approverOf
<1>7. enforced' = enforced
  BY DEF Tick
<1>8. Promise!Lapse(S)
  BY <1>3, <1>4, <1>6, <1>7 DEF Promise!Lapse
<1> QED
  BY <1>8

-----------------------------------------------------------------------------

\* Every step of the workflow is a step of the promise, or none.
LEMMA PromiseStep ==
    ASSUME StaffInv, [Next]_vars
    PROVE  PromiseMoves
<1>1. CASE \E r \in Reports, s \in {"HUB", "LOBBY"} : CreateReport(r, s)
  BY <1>1, CreateReportOpens DEF PromiseMoves, Promise!PromiseNext
<1>2. ASSUME NEW r \in Reports, NEW v \in 1..MaxVersion, NEW a \in Staff,
             \/ \E bypass \in BOOLEAN : ClaimReport(a, r, v, bypass)
             \/ RenewReportClaim(a, r, v)
             \/ UnclaimReport(a, r, v)
             \/ \E b \in Staff : AssignReport(a, b, r, v)
             \/ \E b \in Staff, bypass \in BOOLEAN : TransferReport(a, b, r, v, bypass)
             \/ \E resolution \in Closed : ResolveReport(a, r, v, resolution)
      PROVE  PromiseMoves
  <2>1. CASE \E bypass \in BOOLEAN : ClaimReport(a, r, v, bypass)
    <3>1. Promise!Take(r, a)
      BY <2>1, ClaimTakes
    <3> QED
      BY <3>1 DEF PromiseMoves, Promise!PromiseNext
  <2>2. CASE RenewReportClaim(a, r, v)
    BY <2>2, RenewUnseen
  <2>3. CASE UnclaimReport(a, r, v)
    <3>1. Promise!Release(r)
      BY <2>3, UnclaimReleases
    <3> QED
      BY <3>1 DEF PromiseMoves, Promise!PromiseNext
  <2>4. CASE \E b \in Staff : AssignReport(a, b, r, v)
    <3>1. \E b \in Staff : Promise!Give(r, b)
      BY <2>4, HandOverGives DEF AssignReport
    <3> QED
      BY <3>1 DEF PromiseMoves, Promise!PromiseNext
  <2>5. CASE \E b \in Staff, bypass \in BOOLEAN : TransferReport(a, b, r, v, bypass)
    <3>1. \E b \in Staff : Promise!Give(r, b)
      BY <2>5, HandOverGives DEF TransferReport
    <3> QED
      BY <3>1 DEF PromiseMoves, Promise!PromiseNext
  <2>6. CASE \E resolution \in Closed : ResolveReport(a, r, v, resolution)
    <3>1. Promise!Close(r, a)
      BY <2>6, ResolveCloses
    <3> QED
      BY <3>1 DEF PromiseMoves, Promise!PromiseNext
  <2> QED
    BY <1>2, <2>1, <2>2, <2>3, <2>4, <2>5, <2>6
<1>3. ASSUME NEW a \in Staff, NEW q \in Requests,
             \/ \E t \in Targets, link \in Reports \cup {None}, ban \in {None, BanTicks} :
                   CreateStaffActionRequest(a, q, t, link, ban)
             \/ ApproveStaffActionRequest(a, q)
             \/ RejectStaffActionRequest(a, q)
      PROVE  PromiseMoves
  <2>1. \/ \E t \in Targets, link \in Reports \cup {None} : Promise!Ask(q, a, t, link)
        \/ Promise!Ban(q, a) \/ Promise!Refuse(q, a)
    BY <1>3, CreateRequestAsks, ApproveBans, RejectRefuses
  <2> QED
    BY <2>1 DEF PromiseMoves, Promise!PromiseNext
<1>4. CASE \E a \in Staff : StaffAuthorizationChanged(a)
  BY <1>4, AuthorizationSuspends DEF PromiseMoves, Promise!PromiseNext
<1>5. CASE ExpiryWorker
  BY <1>5, ExpiryDrops DEF PromiseMoves, Promise!PromiseNext
<1>6. CASE Tick
  BY <1>6, TickLapses DEF PromiseMoves, Promise!PromiseNext
<1>7. CASE UNCHANGED <<report, request, enforced>>
  BY <1>7, ReportsUnwritten, RequestsUnwritten DEF PromiseMoves, Promise!promiseVars
<1>8. ASSUME NEW r \in Reports, GetReport(r)
      PROVE  UNCHANGED <<report, request, enforced>>
  BY <1>8 DEF GetReport
<1>9. UNCHANGED vars => UNCHANGED <<report, request, enforced>>
  BY DEF vars
<1> QED
  BY <1>1, <1>2, <1>3, <1>4, <1>5, <1>6, <1>7, <1>8, <1>9 DEF Next, Closed

LEMMA PromiseStarts == ASSUME Init PROVE Promise!PromiseInit
<1>1. \A r \in Reports : /\ CaseIn(report[r]) = "none" /\ report[r].scope = "LOBBY"
                         /\ HolderIn(report[r]) = None /\ report[r].resolvedBy = None
  BY DEF Init, NoReport, CaseIn, HolderIn
<1>2. \A q \in Requests : /\ StandingIn(request[q]) = "none" /\ ApproverIn(request[q]) = None
                          /\ AskedIn(request[q]) = Promise!Nobody
  BY DEF Init, NoRequest, StandingIn, ApproverIn, AskedIn, Promise!Nobody
<1>3. /\ caseOf = [r \in Reports |-> "none"] /\ scopeOf = [r \in Reports |-> "LOBBY"]
      /\ holderOf = [r \in Reports |-> None] /\ closerOf = [r \in Reports |-> None]
  BY <1>1 DEF caseOf, scopeOf, holderOf, closerOf
<1>4. /\ standingOf = [q \in Requests |-> "none"]
      /\ askedOf = [q \in Requests |-> Promise!Nobody]
      /\ approverOf = [q \in Requests |-> None]
  BY <1>2 DEF standingOf, askedOf, approverOf
<1>5. enforced = [q \in Requests |-> 0]
  BY DEF Init
<1> QED
  BY <1>3, <1>4, <1>5 DEF Promise!PromiseInit

\* The staff workflow keeps the promise of CasePromise, for any reports, requests,
\* staff, targets, durations and bound on the versions.
THEOREM CasesKeepPromise == Spec => KeepsPromise
<1>1. Init => Promise!PromiseInit
  BY PromiseStarts
<1>2. StaffInv /\ [Next]_vars => [Promise!PromiseNext]_(Promise!promiseVars)
  BY PromiseStep DEF PromiseMoves
<1> QED
  BY <1>1, <1>2, StaffInvHolds, PTL DEF Spec, KeepsPromise, Promise!PromiseSpec
=============================================================================
