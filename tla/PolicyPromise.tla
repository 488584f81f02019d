--------------------------- MODULE PolicyPromise ---------------------------
(***************************************************************************)
(* What a policy bundle promises, without drafts' states, test runs under  *)
(* way, updates, leases or workers: a version that is published does not   *)
(* change any more and had passing tests for what it says; only such a     *)
(* version comes into force or is observed in shadow, one at a time; while *)
(* the bundle is a mandatory platform bundle, two administrators have      *)
(* approved it before; a booked activation brings the version it was       *)
(* booked for into force, at most once.                                    *)
(***************************************************************************)
CONSTANTS
    Versions, Admins, Bookings,
    Contents,       \* what a version may say and be tested against
    Blank,          \* what an unwritten version says
    Untestable,     \* contents without anything to test
    Platform, None

VARIABLES
    inForce, observed,  \* the versions enforced and in shadow
    mandatory,
    content,            \* what each version says
    passing,            \* versions whose newest verdict is for what they say, and good
    published,
    approved,           \* who approved each version
    booked,             \* the version of each booked activation
    carried             \* booked activations carried out

promiseVars ==
    <<inForce, observed, mandatory, content, passing, published, approved, booked, carried>>

PromiseInit ==
    /\ inForce = None /\ observed = None
    /\ mandatory \in BOOLEAN
    /\ content = [v \in Versions |-> Blank]
    /\ passing = {v \in Versions : Blank \in Untestable}
    /\ published = {}
    /\ approved = [v \in Versions |-> {}]
    /\ booked = [s \in Bookings |-> None]
    /\ carried = {}

\* A verdict is about one content: another one has to be tested again.
Write(v, c) ==
    /\ v \notin published
    /\ content' = [content EXCEPT ![v] = c]
    /\ passing' = IF c \in Untestable THEN passing \cup {v} ELSE passing \ {v}
    /\ UNCHANGED <<inForce, observed, mandatory, published, approved, booked, carried>>

\* A test run says something about the content it finds when it is recorded; which one
\* it evaluated is not promised.
Judge(v) ==
    /\ content[v] \notin Untestable
    /\ passing' \in {passing \cup {v}, passing \ {v}}
    /\ UNCHANGED <<inForce, observed, mandatory, content, published, approved, booked, carried>>

Publish(v) ==
    /\ v \in passing
    /\ published' = published \cup {v}
    /\ UNCHANGED <<inForce, observed, mandatory, content, passing, approved, booked, carried>>

Approve(a, v) ==
    /\ Platform /\ mandatory /\ v \in published
    /\ approved' = [approved EXCEPT ![v] = @ \cup {a}]
    /\ UNCHANGED <<inForce, observed, mandatory, content, passing, published, booked, carried>>

\* It binds what comes into force from now on; that nothing is in force at the time
\* is not promised, since an update may expect a version its check has not seen.
SetFlag(m) ==
    /\ mandatory' = m
    /\ UNCHANGED <<inForce, observed, content, passing, published, approved, booked, carried>>

Observe(v) ==
    /\ v \in published
    /\ observed' = v
    /\ UNCHANGED <<inForce, mandatory, content, passing, published, approved, booked, carried>>

StopObserving ==
    /\ observed' = None
    /\ UNCHANGED <<inForce, mandatory, content, passing, published, approved, booked, carried>>

Enforce(v) ==
    /\ v \in published
    /\ Platform /\ mandatory => \E a, b \in approved[v] : a # b
    /\ inForce' = v
    /\ observed' = IF observed = v THEN None ELSE observed
    /\ UNCHANGED <<mandatory, content, passing, published, approved, booked>>

EnforceNow(v) == Enforce(v) /\ UNCHANGED carried

Book(s, v) ==
    /\ booked[s] = None
    /\ booked' = [booked EXCEPT ![s] = v]
    /\ UNCHANGED <<inForce, observed, mandatory, content, passing, published, approved, carried>>

CarryOut(s) ==
    /\ booked[s] \in Versions /\ s \notin carried
    /\ Enforce(booked[s])
    /\ carried' = carried \cup {s}

PromiseNext ==
    \/ \E v \in Versions :
          \/ \E c \in Contents : Write(v, c)
          \/ Judge(v) \/ Publish(v) \/ Observe(v) \/ EnforceNow(v)
          \/ \E a \in Admins : Approve(a, v)
          \/ \E s \in Bookings : Book(s, v)
    \/ \E m \in BOOLEAN : SetFlag(m)
    \/ StopObserving
    \/ \E s \in Bookings : CarryOut(s)

PromiseSpec == PromiseInit /\ [][PromiseNext]_promiseVars
=============================================================================
