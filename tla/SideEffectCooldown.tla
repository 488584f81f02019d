-------------------------- MODULE SideEffectCooldown --------------------------
(***************************************************************************)
(* The cooldown of the content policies' side effects: a bounded registry  *)
(* in the memory of one process, shared by the evaluations under way.  An  *)
(* evaluation asks for each of its side effects in turn, and only then is  *)
(* its result persisted, held back by a restriction, or tried again.       *)
(***************************************************************************)
EXTENDS Integers, FiniteSets

CONSTANTS
    Keys,           \* (subject, scope, rule, action family)
    Workers,        \* evaluations that may be under way at once
    Messages,       \* the side effects messages ask for
    Window,         \* DEFAULT_COOLDOWN_DURATION
    MaxEntries,     \* DEFAULT_MAX_ENTRIES
    MaxTime,        \* bound of the clock
    MaxFaults       \* bound: failed persists and restarts

ASSUME CooldownConstants ==
    /\ Messages \subseteq SUBSET Keys
    /\ Window \in Nat \ {0} /\ MaxEntries \in Nat \ {0}
    /\ MaxTime \in Nat /\ MaxFaults \in Nat

VARIABLES
    expires,        \* a key's entry: when it expires, 0 if there is none
    work,           \* what each worker evaluates
    clock,
    mishaps,
    admitted,       \* history: the time a key was last allowed at, 0 for never
    displaced       \* history: keys evicted for another since

cooldownVars == <<expires, work, clock, mishaps, admitted, displaced>>

\* asked is the time its worker read for the side effect it asks for, 0 before.
Idling == [message |-> {}, left |-> {}, allowed |-> {}, asked |-> 0, busy |-> FALSE]
NoEntries == [k \in Keys |-> 0]

(* ------------------------------ the registry --------------------------- *)
\* prune_expired
Pruned(now) == [k \in Keys |-> IF expires[k] <= now THEN 0 ELSE expires[k]]
Entries(e) == {k \in Keys : e[k] # 0}

\* evict_earliest: one of the entries that expire first.
Earliest(e) == {k \in Entries(e) : \A o \in Entries(e) : e[k] <= e[o]}

IsFull(e) == Cardinality(Entries(e)) >= MaxEntries

\* A worker has its answer for a side effect and goes on to the next.
AfterAsking(w, k, granted) ==
    [work EXCEPT ![w] = [message |-> work[w].message, left |-> work[w].left \ {k},
                         allowed |-> work[w].allowed \cup granted, asked |-> 0,
                         busy |-> work[w].busy]]

Deny(w, k, now) ==
    /\ Pruned(now)[k] > now
    /\ expires' = Pruned(now)
    /\ work' = AfterAsking(w, k, {})
    /\ UNCHANGED <<admitted, displaced>>

\* Slip: a registry that makes room before it looks the key up.
AdmitBlindly(w, k, now) ==
    /\ \E gone \in IF IsFull(Pruned(now)) THEN {{o} : o \in Earliest(Pruned(now))} ELSE {{}} :
         /\ Pruned(now)[k] <= now \/ k \in gone
         /\ expires' = [o \in Keys |-> IF o = k THEN now + Window
                                       ELSE IF o \in gone THEN 0 ELSE Pruned(now)[o]]
         /\ displaced' = (displaced \cup (gone \ {k})) \ {k}
    /\ work' = AfterAsking(w, k, {k})
    /\ admitted' = [admitted EXCEPT ![k] = now]

Admit(w, k, now) ==
    /\ Pruned(now)[k] <= now
    /\ \E gone \in IF IsFull(Pruned(now)) THEN {{o} : o \in Earliest(Pruned(now))} ELSE {{}} :
         /\ expires' = [o \in Keys |-> IF o = k THEN now + Window
                                       ELSE IF o \in gone THEN 0 ELSE Pruned(now)[o]]
         /\ displaced' = (displaced \cup gone) \ {k}
    /\ work' = AfterAsking(w, k, {k})
    /\ admitted' = [admitted EXCEPT ![k] = now]

\* allow: the clock is read before the registry's mutex is taken.
ReadClock(w) ==
    /\ work[w].left # {} /\ work[w].asked = 0
    /\ work' = [work EXCEPT ![w].asked = clock]
    /\ UNCHANGED <<expires, clock, mishaps, admitted, displaced>>

\* allow_at, under the mutex, at the time read before.
Allow(w, k) ==
    /\ k \in work[w].left /\ work[w].asked # 0
    /\ Deny(w, k, work[w].asked) \/ Admit(w, k, work[w].asked)
    /\ UNCHANGED <<clock, mishaps>>

(* ----------------------------- evaluations ----------------------------- *)
Evaluate(w, m) ==
    /\ ~work[w].busy
    /\ work' = [work EXCEPT ![w] = [message |-> m, left |-> m, allowed |-> {}, asked |-> 0,
                                    busy |-> TRUE]]
    /\ UNCHANGED <<expires, clock, mishaps, admitted, displaced>>

Decided(w) == work[w].busy /\ work[w].left = {}

\* The effects are persisted, or dropped: for an active restriction, for one
\* that cannot be read, or in a product without the punishment.
Conclude(w) ==
    /\ Decided(w)
    /\ work' = [work EXCEPT ![w] = Idling]
    /\ UNCHANGED <<expires, clock, mishaps, admitted, displaced>>

\* The transaction fails and the action is evaluated again.
PersistFails(w) ==
    /\ Decided(w)
    /\ mishaps < MaxFaults
    /\ mishaps' = mishaps + 1
    /\ work' = [work EXCEPT ![w] = [message |-> work[w].message, left |-> work[w].message,
                                    allowed |-> {}, asked |-> 0, busy |-> TRUE]]
    /\ UNCHANGED <<expires, clock, admitted, displaced>>

\* The registry does not outlive the process.
RestartProcess ==
    /\ mishaps < MaxFaults
    /\ mishaps' = mishaps + 1
    /\ expires' = NoEntries /\ admitted' = NoEntries /\ displaced' = {}
    /\ work' = [w \in Workers |-> Idling]
    /\ UNCHANGED clock

TimePasses ==
    /\ clock < MaxTime
    /\ clock' = clock + 1
    /\ UNCHANGED <<expires, work, mishaps, admitted, displaced>>

CooldownInit ==
    /\ expires = NoEntries /\ clock = 1 /\ mishaps = 0
    /\ work = [w \in Workers |-> Idling]
    /\ admitted = NoEntries /\ displaced = {}

CooldownNext ==
    \/ \E w \in Workers : \/ \E m \in Messages : Evaluate(w, m)
                          \/ ReadClock(w)
                          \/ \E k \in Keys : Allow(w, k)
                          \/ Conclude(w) \/ PersistFails(w)
    \/ RestartProcess \/ TimePasses

CooldownSpec == CooldownInit /\ [][CooldownNext]_cooldownVars

(* ------------------------------ properties ----------------------------- *)
\* However many evaluations run at once, and however long one waits for the
\* mutex with the time it read, a rule's side effect is let through once per
\* window, unless its entry made room for another key's, and is muted only when
\* that time is within the window of the last one let through; repeats do not
\* prolong it. A window runs from the time that was read for it.
OncePerWindow ==
    [][\A w \in Workers : \A k \in work[w].left \ work'[w].left :
         work'[w].busy =>
         IF k \in work'[w].allowed
         THEN admitted[k] = 0 \/ clock >= admitted[k] + Window \/ k \in displaced
         ELSE admitted[k] # 0 /\ work[w].asked < admitted[k] + Window]_cooldownVars
=============================================================================
