------------------------------- MODULE Listings -------------------------------
(***************************************************************************)
(* The paged listings.  A client walks through the rows that match, page   *)
(* by page, with the cursor of the page before, while other requests add,  *)
(* change and remove rows: a page is one query, and nothing ties one to    *)
(* the next but the cursor.                                                *)
(***************************************************************************)
EXTENDS Integers, FiniteSets

CONSTANTS
    Ids,            \* of rows, in the order of their UUIDs
    Dates,          \* of creation and expiry
    Sizes,          \* page sizes that are asked for
    MaxPage,        \* the most rows a page may have (100)
    FirstOf, LastOf,\* sequences of a report's evidence snapshot
    MaxWrites,      \* bound of the writes during a walk
    Absent          \* no row, no cursor

ASSUME ListingConstants ==
    /\ Ids \subseteq Nat /\ IsFiniteSet(Ids) /\ Dates \subseteq Nat \ {0}
    /\ Sizes \subseteq Nat /\ MaxPage \in Nat \ {0}
    /\ FirstOf \in Nat /\ LastOf \in Nat /\ MaxWrites \in Nat
    /\ Absent \notin Nat

VARIABLES
    table,          \* the rows of the listed table
    walk,           \* what the client asked for, and its next cursor
    seen,           \* history: rows listed, as they were
    steady,         \* history: ids that matched all the time, unchanged
    page,           \* the last page
    writes

listingVars == <<table, walk, seen, steady, page, writes>>

Row == [id : Ids, created : Dates, expires : Dates \cup {0}, priority : {1, 2}, matches : BOOLEAN]
Rows(t) == {t[i] : i \in {j \in Ids : t[j] # Absent}}

(* ------------------------------- orders -------------------------------- *)
\* restriction_sort_sql and moderation_record_sort_sql; 0 is no expiry.
Precedes(order, r, o) ==
    CASE order = "id_desc" -> r.id > o.id
      [] order = "id_asc" -> r.id < o.id
      [] order = "created_at_desc" -> r.created > o.created \/ (r.created = o.created /\ r.id > o.id)
      [] order = "created_at_asc" -> r.created < o.created \/ (r.created = o.created /\ r.id < o.id)
      [] order = "expires_at_asc" ->
           \/ r.expires # 0 /\ o.expires = 0
           \/ r.expires # 0 /\ o.expires # 0 /\ r.expires < o.expires
           \/ r.expires = o.expires /\ r.id < o.id
      [] order = "priority" -> r.priority < o.priority \/ (r.priority = o.priority /\ r.id > o.id)

\* push_restriction_cursor and push_moderation_record_cursor.
PastNewest(c, r) == r.created < c.created \/ (r.created = c.created /\ r.id < c.id)

PastOldest(c, r) == r.created > c.created \/ (r.created = c.created /\ r.id > c.id)

\* Slip: the comparison is never true of a NULL.
PastExpiryOnly(c, r) ==
    r.expires # 0 /\ (r.expires > c.expires \/ (r.expires = c.expires /\ r.id > c.id))

PastExpiry(c, r) ==
    IF c.expires # 0
    THEN \/ r.expires # 0 /\ (r.expires > c.expires \/ (r.expires = c.expires /\ r.id > c.id))
         \/ r.expires = 0
    ELSE r.expires = 0 /\ r.id > c.id

(* -------------------------------- pages -------------------------------- *)
Clamp(n) == IF n < 1 THEN 1 ELSE IF n > MaxPage THEN MaxPage ELSE n

\* ORDER BY, LIMIT n.
Top(R, order, n) == {r \in R : Cardinality({o \in R : Precedes(order, o, r)}) < n}
Final(R, order) == IF R = {} THEN Absent ELSE CHOOSE r \in R : \A o \in R \ {r} : Precedes(order, o, r)

\* Rows a LIMIT of `size` returned; there is a cursor if the page is full.
Full(R, order, n, size) ==
    LET rows == Top(R, order, n)
    IN [rows |-> rows, next |-> IF Cardinality(rows) = size THEN Final(rows, order) ELSE Absent]

\* `fetch` rows are read, one more than are returned if there are more.
Peek(R, order, n, fetch) ==
    LET read == Top(R, order, fetch)
        rows == Top(read, order, n)
    IN [rows |-> rows, next |-> IF Cardinality(read) > n THEN Final(rows, order) ELSE Absent]

BeforeId(R, c) == {r \in R : c = Absent \/ r.id < c.id}
AfterId(R, c) == {r \in R : c = Absent \/ r.id > c.id}

\* page_cursor
ById(R, c, n) == Full(BeforeId(R, c), "id_desc", Clamp(n), Clamp(n))

ListInfractions(R, c, n) == ById(R, c, n)
ListUserInfractions(R, c, n) == ById(R, c, n)
ListExecutionTraces(R, c, n) == ById(R, c, n)
ListReports(R, c, n) == ById(R, c, n)
ListAppeals(R, c, n) == ById(R, c, n)
ListNsfwOverrides(R, c, n) == ById(R, c, n)
ListPolicyBundles(R, c, n) == ById(R, c, n)

\* The page's size is clamped, the size it is compared with is not.
ListPolicyVersions(R, c, n) ==
    Full(BeforeId(R, c), "id_desc", Clamp(n), IF n < 1 THEN 1 ELSE n)

ListPolicyFixtures(R, c, n) == Full(AfterId(R, c), "id_asc", Clamp(n), Clamp(n))

\* Ordered by priority and continued by id.
ListReviewItems(R, c, n) == Full(BeforeId(R, c), "priority", Clamp(n), Clamp(n))

\* The page asked for is not looked at.
ListStaffActionRequests(R) == [rows |-> Top(R, "created_at_desc", MaxPage), next |-> Absent]

ListReportEvidence(R, c, n) ==
    LET events == {r \in AfterId(R, c) : r.id \in FirstOf..LastOf}
        got == Full(events, "id_asc", Clamp(n), Clamp(n))
    IN IF got.next # Absent /\ got.next.id >= LastOf THEN [rows |-> got.rows, next |-> Absent] ELSE got

Past(sort, c, r) ==
    IF c = Absent THEN TRUE
    ELSE IF sort = "created_at_desc" THEN PastNewest(c, r)
    ELSE IF sort = "created_at_asc" THEN PastOldest(c, r)
    ELSE IF sort = "expires_at_asc" THEN PastExpiry(c, r)
    ELSE r.id < c.id

\* One row more is fetched, but never more than a page may have.
ListRestrictions(R, sort, c, n) ==
    Peek({r \in R : Past(sort, c, r)}, sort, Clamp(n),
           IF Clamp(n) + 1 > MaxPage THEN MaxPage ELSE Clamp(n) + 1)

ListModerationRecords(R, sort, c, n) ==
    Peek({r \in R : Past(sort, c, r)}, sort, Clamp(n), Clamp(n) + 1)

(* ------------------------------- the walk ------------------------------ *)
Sorts == {"created_at_desc", "created_at_asc", "expires_at_asc"}
Simple == {"infractions", "my infractions", "traces", "reports", "appeals", "overrides", "bundles",
           "versions", "fixtures", "review items", "staff requests", "evidence"}
Kinds == {[list |-> l, sort |-> "id_desc"] : l \in Simple \cup {"restrictions"}}
           \cup {[list |-> l, sort |-> s] : l \in {"restrictions", "records"}, s \in Sorts}

Answer(k, R, c, n) ==
    CASE k.list = "infractions"    -> ListInfractions(R, c, n)
      [] k.list = "my infractions" -> ListUserInfractions(R, c, n)
      [] k.list = "traces"         -> ListExecutionTraces(R, c, n)
      [] k.list = "reports"        -> ListReports(R, c, n)
      [] k.list = "appeals"        -> ListAppeals(R, c, n)
      [] k.list = "overrides"      -> ListNsfwOverrides(R, c, n)
      [] k.list = "bundles"        -> ListPolicyBundles(R, c, n)
      [] k.list = "versions"       -> ListPolicyVersions(R, c, n)
      [] k.list = "fixtures"       -> ListPolicyFixtures(R, c, n)
      [] k.list = "review items"   -> ListReviewItems(R, c, n)
      [] k.list = "staff requests" -> ListStaffActionRequests(R)
      [] k.list = "evidence"       -> ListReportEvidence(R, c, n)
      [] k.list = "restrictions"   -> ListRestrictions(R, k.sort, c, n)
      [] k.list = "records"        -> ListModerationRecords(R, k.sort, c, n)

Matching == {r \in Rows(table) : r.matches}
IdsOf(R) == {r.id : r \in R}

Turn(k, n, c) ==
    LET got == Answer(k, Matching, c, n)
    IN /\ page' = got.rows
       /\ walk' = [kind |-> k, size |-> n, cursor |-> got.next, open |-> got.next # Absent]

StartWalk(k, n) ==
    /\ walk.kind = Absent
    /\ k.list = "evidence" => \A i \in FirstOf..LastOf : table[i] # Absent /\ table[i].matches
    /\ Turn(k, n, Absent)
    /\ seen' = page'
    /\ steady' = IdsOf(Matching)
    /\ UNCHANGED <<table, writes>>

NextPage ==
    /\ walk.open
    /\ Turn(walk.kind, walk.size, walk.cursor)
    /\ seen' = seen \cup page'
    /\ UNCHANGED <<table, steady, writes>>

(* ------------------------------- writers ------------------------------- *)
\* Nothing is added to a call that has ended, and its events do not change.
Settled(i) == walk.kind # Absent /\ walk.kind.list = "evidence" /\ i \in FirstOf..LastOf

Write(i, row) ==
    /\ walk.open /\ ~Settled(i)
    /\ writes < MaxWrites
    /\ writes' = writes + 1
    /\ table' = [table EXCEPT ![i] = row]
    /\ steady' = steady \ {i}
    /\ UNCHANGED <<walk, seen, page>>

AddRow(i) ==
    /\ table[i] = Absent
    /\ \E row \in Row : row.id = i /\ row.matches /\ Write(i, row)

\* A status or an expiry changes.
ChangeRow(i) ==
    /\ table[i] # Absent
    /\ \E date \in Dates \cup {0}, m \in BOOLEAN :
         Write(i, [id |-> table[i].id, created |-> table[i].created, expires |-> date,
                   priority |-> table[i].priority, matches |-> m])

\* delete_fixture and the overrides' delete.
RemoveRow(i) ==
    /\ table[i] # Absent
    /\ walk.kind # Absent /\ walk.kind.list \in {"fixtures", "overrides"}
    /\ Write(i, Absent)

NoWalk == [kind |-> Absent, size |-> 0, cursor |-> Absent, open |-> FALSE]

ListingInitWith(tables) ==
    /\ table \in tables
    /\ walk = NoWalk /\ seen = {} /\ steady = {} /\ page = {} /\ writes = 0

ListingNext ==
    \/ \E k \in Kinds, n \in Sizes : StartWalk(k, n)
    \/ NextPage
    \/ \E i \in Ids : AddRow(i) \/ ChangeRow(i) \/ RemoveRow(i)

ListingSpec(tables) == ListingInitWith(tables) /\ [][ListingNext]_listingVars

(* ------------------------------ properties ----------------------------- *)

\* Listings whose cursor follows their order, asked for pages they can give:
\* not review items (ordered by priority, continued by id), nor staff action
\* requests (no cursor), nor restrictions by pages of the maximal size, nor
\* versions by larger ones (both end after their first page).
Sound(k, n) ==
    /\ k.list \notin {"review items", "staff requests"}
    /\ k.list = "restrictions" => Clamp(n) < MaxPage
    /\ k.list = "versions" => n <= MaxPage

\* A walk that ends has shown every row that matched all the time and was not
\* written, whatever was written around it.
SteadyRowsAreListed ==
    walk.kind # Absent /\ ~walk.open /\ Sound(walk.kind, walk.size) =>
        \A i \in steady : (walk.kind.list = "evidence" => i \in FirstOf..LastOf)
                             => \E r \in seen : r.id = i
=============================================================================
