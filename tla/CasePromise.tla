----------------------------- MODULE CasePromise -----------------------------
(***************************************************************************)
(* What the handling of cases promises, without versions, rows that were   *)
(* read before, leases, cooldowns and windows: a case outside a hub is     *)
(* closed by the one who holds it then, and stays closed; a request is made*)
(* by the holder of its case, and bans once, when a second person approves *)
(* it while the first still holds the case; it lapses when the case is     *)
(* given back or to somebody else, or when its author may not act any more.*)
(***************************************************************************)
EXTENDS Naturals

CONSTANTS Reports, Requests, Staff, Targets, None

VARIABLES
    case,       \* per report: none, open or closed
    scope,      \* HUB or LOBBY
    holder,     \* who holds an open case now, or None
    closer,     \* who closed it
    standing,   \* per request: none, pending, void, refused or done
    asked,      \* by whom, against whom and in which case
    approver,   \* who approved what was done
    bans        \* how many bans a request has caused

promiseVars == <<case, scope, holder, closer, standing, asked, approver, bans>>

Nobody == [by |-> None, target |-> None, report |-> None]

PromiseInit ==
    /\ case = [r \in Reports |-> "none"] /\ scope = [r \in Reports |-> "LOBBY"]
    /\ holder = [r \in Reports |-> None] /\ closer = [r \in Reports |-> None]
    /\ standing = [q \in Requests |-> "none"] /\ asked = [q \in Requests |-> Nobody]
    /\ approver = [q \in Requests |-> None] /\ bans = [q \in Requests |-> 0]

Pending(q) == standing[q] = "pending"

Void(S) == standing' = [q \in Requests |-> IF q \in S THEN "void" ELSE standing[q]]

----------------------------------------------------------------------------
Open(r, s) ==
    /\ case[r] = "none"
    /\ case' = [case EXCEPT ![r] = "open"]
    /\ scope' = [scope EXCEPT ![r] = s]
    /\ UNCHANGED <<holder, closer, standing, asked, approver, bans>>

Take(r, a) ==
    /\ case[r] = "open" /\ holder[r] = None
    /\ holder' = [holder EXCEPT ![r] = a]
    /\ UNCHANGED <<case, scope, closer, standing, asked, approver, bans>>

\* The cases of S are held no longer; requests in them wait for their holder.
Lapse(S) ==
    /\ holder' = [r \in Reports |-> IF r \in S THEN None ELSE holder[r]]
    /\ UNCHANGED <<case, scope, closer, standing, asked, approver, bans>>

Release(r) ==
    /\ holder' = [holder EXCEPT ![r] = None]
    /\ Void({q \in Requests : Pending(q) /\ asked[q].report = r})
    /\ UNCHANGED <<case, scope, closer, asked, approver, bans>>

Give(r, a) ==
    /\ case[r] = "open"
    /\ holder' = [holder EXCEPT ![r] = a]
    /\ Void({q \in Requests : Pending(q) /\ asked[q].report = r /\ asked[q].by # a})
    /\ UNCHANGED <<case, scope, closer, asked, approver, bans>>

Suspend(a) ==
    /\ holder' = [r \in Reports |-> IF holder[r] = a THEN None ELSE holder[r]]
    /\ Void({q \in Requests : Pending(q) /\ asked[q].report # None /\ asked[q].by = a})
    /\ UNCHANGED <<case, scope, closer, asked, approver, bans>>

Close(r, a) ==
    /\ case[r] = "open"
    /\ scope[r] = "HUB" \/ holder[r] = a
    /\ case' = [case EXCEPT ![r] = "closed"]
    /\ closer' = [closer EXCEPT ![r] = a]
    /\ holder' = [holder EXCEPT ![r] = None]
    /\ UNCHANGED <<scope, standing, asked, approver, bans>>

----------------------------------------------------------------------------
Ask(q, a, t, r) ==
    /\ standing[q] = "none"
    /\ r # None => holder[r] = a
    /\ \A p \in Requests : Pending(p) => asked[p].target # t
    /\ standing' = [standing EXCEPT ![q] = "pending"]
    /\ asked' = [asked EXCEPT ![q] = [by |-> a, target |-> t, report |-> r]]
    /\ UNCHANGED <<case, scope, holder, closer, approver, bans>>

\* A second person may decide while the author holds the case.
Decidable(q, b) ==
    /\ Pending(q) /\ asked[q].by # b
    /\ asked[q].report # None => holder[asked[q].report] = asked[q].by

Ban(q, b) ==
    /\ Decidable(q, b)
    /\ standing' = [standing EXCEPT ![q] = "done"]
    /\ approver' = [approver EXCEPT ![q] = b]
    /\ bans' = [bans EXCEPT ![q] = @ + 1]
    /\ UNCHANGED <<case, scope, holder, closer, asked>>

Refuse(q, b) ==
    /\ Decidable(q, b)
    /\ standing' = [standing EXCEPT ![q] = "refused"]
    /\ UNCHANGED <<case, scope, holder, closer, asked, approver, bans>>

\* Requests that waited too long, or whose author lost the case.
Drop(S) ==
    /\ \A q \in S : Pending(q)
    /\ Void(S)
    /\ UNCHANGED <<case, scope, holder, closer, asked, approver, bans>>

PromiseNext ==
    \/ \E r \in Reports :
          \/ \E s \in {"HUB", "LOBBY"} : Open(r, s)
          \/ \E a \in Staff : Take(r, a) \/ Give(r, a) \/ Close(r, a)
          \/ Release(r)
    \/ \E S \in SUBSET Reports : Lapse(S)
    \/ \E a \in Staff : Suspend(a)
    \/ \E q \in Requests, a \in Staff :
          \/ \E t \in Targets, r \in Reports \cup {None} : Ask(q, a, t, r)
          \/ Ban(q, a) \/ Refuse(q, a)
    \/ \E S \in SUBSET Requests : Drop(S)

PromiseSpec == PromiseInit /\ [][PromiseNext]_promiseVars
=============================================================================
