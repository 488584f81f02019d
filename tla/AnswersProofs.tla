------------------------------ MODULE AnswersProofs ------------------------------
(***************************************************************************)
(* The parts that answer one call, each by itself: a side effect is let    *)
(* through once per window; servers that are decided together get what     *)
(* each would have got alone, and what any layer censored stays hidden; no *)
(* replaced name is shown, the decision is the severest that a policy asks *)
(* for, and failures are not silent; the repeat of a request is answered   *)
(* as the original, and the shadow mode decides nothing; evaluations that  *)
(* share workers are misled only by those that were given up; a walk       *)
(* through a listing skips no row that was there all the time; a feature   *)
(* that is missing makes no rule apply; a word is found just where a       *)
(* reader reads it.                                                        *)
(***************************************************************************)
EXTENDS TextMatching, PolicyWorkers, SideEffectCooldown, ContentDecision, PolicyEvaluation, Requests,
        Listings, PolicyIr, SequenceTheorems, FiniteSetTheorems, WellFoundedInduction, TLAPS

(* ----------------------------- Side effects ----------------------------- *)

\* What a worker evaluates, and what is known of the entries and of the clock.
CooldownWork == [message : SUBSET Keys, left : SUBSET Keys, allowed : SUBSET Keys,
                 asked : Nat, busy : BOOLEAN]

CooldownTypeOK ==
    /\ expires \in [Keys -> Nat] /\ admitted \in [Keys -> Nat]
    /\ clock \in Nat \ {0}
    /\ work \in [Workers -> CooldownWork]

\* A side effect is asked for once: it is not left once it is allowed.
AskedOnce ==
    \A w \in Workers : /\ ~work[w].busy => work[w].left = {}
                       /\ work[w].left \cap work[w].allowed = {}

\* The time a worker asks with was read from the clock before.
AskedBefore == \A w \in Workers : work[w].asked <= clock

\* An entry ends with the window of the last time its key was let through, and
\* during that window the key has it unless it made room for another.
EntryIsTheWindow ==
    \A k \in Keys :
        /\ expires[k] # 0 => admitted[k] # 0 /\ expires[k] = admitted[k] + Window
        /\ admitted[k] # 0 /\ k \notin displaced /\ clock < admitted[k] + Window
              => expires[k] = admitted[k] + Window

CooldownIInv == CooldownTypeOK /\ AskedOnce /\ AskedBefore /\ EntryIsTheWindow

\* A process starts with an empty table of entries and no evaluation.
LEMMA CooldownStarts == CooldownInit => CooldownIInv
BY CooldownConstants DEF CooldownInit, CooldownIInv, CooldownTypeOK, AskedOnce, AskedBefore,
   EntryIsTheWindow, NoEntries, Idling, CooldownWork

\* Pruning drops the entries whose window is over and no other.
LEMMA PrunedEntries ==
    ASSUME CooldownTypeOK, NEW now \in Nat
    PROVE  /\ Pruned(now) \in [Keys -> Nat]
           /\ \A k \in Keys : Pruned(now)[k] = 0 \/ Pruned(now)[k] = expires[k]
           /\ \A k \in Keys : expires[k] > now => Pruned(now)[k] = expires[k]
           /\ \A k \in Keys : Pruned(now)[k] > now <=> expires[k] > now
BY DEF CooldownTypeOK, Pruned

\* The answer about one side effect takes it off what its worker has left to ask
\* and tells no other worker anything.
LEMMA WorkAsked ==
    ASSUME CooldownTypeOK, AskedOnce,
           NEW w \in Workers, NEW k \in Keys, NEW granted \in SUBSET {k}, k \in work[w].left,
           work' = AfterAsking(w, k, granted)
    PROVE  /\ work' \in [Workers -> CooldownWork]
           /\ AskedOnce'
           /\ work'[w].asked = 0
           /\ work'[w].left = work[w].left \ {k}
           /\ k \in work'[w].allowed <=> k \in granted
           /\ \A v \in Workers \ {w} : work'[v] = work[v]
<1>1. work[w] \in CooldownWork /\ work[w].busy \in BOOLEAN
  BY DEF CooldownTypeOK, CooldownWork
<1>2. work'[w] = [message |-> work[w].message, left |-> work[w].left \ {k},
                  allowed |-> work[w].allowed \cup granted, asked |-> 0,
                  busy |-> work[w].busy]
  BY DEF CooldownTypeOK, AfterAsking
<1>3. \A v \in Workers \ {w} : work'[v] = work[v]
  BY DEF CooldownTypeOK, AfterAsking
<1>4. work' \in [Workers -> CooldownWork]
  BY <1>1, DOMAIN work' = Workers DEF CooldownTypeOK, AfterAsking, CooldownWork
<1>5. AskedOnce'
  BY <1>2, <1>3 DEF AskedOnce
<1>6. QED
  BY <1>2, <1>3, <1>4, <1>5 DEF AskedOnce

\* Every step of the workers, of the clock and of the process keeps the
\* inductive invariant of the table.
LEMMA CooldownSteps == CooldownIInv /\ [CooldownNext]_cooldownVars => CooldownIInv'
<1> SUFFICES ASSUME CooldownIInv, [CooldownNext]_cooldownVars PROVE CooldownIInv'
  OBVIOUS
<1> USE CooldownConstants
<1>0. CooldownTypeOK /\ AskedOnce /\ AskedBefore /\ EntryIsTheWindow
  BY DEF CooldownIInv
<1>1. ASSUME NEW w \in Workers, NEW m \in Messages, Evaluate(w, m) PROVE CooldownIInv'
  <2>1. work' \in [Workers -> CooldownWork] /\ AskedOnce' /\ AskedBefore'
    BY <1>0, <1>1 DEF Evaluate, CooldownTypeOK, CooldownWork, AskedOnce, AskedBefore
  <2>2. QED
    BY <1>0, <1>1, <2>1 DEF Evaluate, CooldownIInv, CooldownTypeOK, EntryIsTheWindow
<1>2. ASSUME NEW w \in Workers, NEW k \in Keys, Allow(w, k) PROVE CooldownIInv'
  <2> DEFINE now == work[w].asked
  <2>1. k \in work[w].left /\ clock' = clock /\ now # 0
    BY <1>2 DEF Allow
  <2>0. now \in Nat \ {0} /\ now <= clock /\ clock \in Nat \ {0} /\ now + Window \in Nat
    BY <1>0, <2>1 DEF CooldownTypeOK, CooldownWork, AskedBefore
  <2>p. Pruned(now) \in [Keys -> Nat]
    BY <1>0, <2>0, PrunedEntries
  <2>k. \A granted \in SUBSET {k} : work' = AfterAsking(w, k, granted) =>
            work' \in [Workers -> CooldownWork] /\ AskedOnce' /\ AskedBefore'
    <3> SUFFICES ASSUME NEW granted \in SUBSET {k}, work' = AfterAsking(w, k, granted)
                 PROVE  work' \in [Workers -> CooldownWork] /\ AskedOnce' /\ AskedBefore'
      OBVIOUS
    <3>1. /\ work' \in [Workers -> CooldownWork] /\ AskedOnce'
          /\ work'[w].asked = 0
          /\ \A v \in Workers \ {w} : work'[v] = work[v]
      BY <1>0, <2>1, WorkAsked
    <3>2. AskedBefore'
      BY <1>0, <2>0, <2>1, <3>1 DEF AskedBefore
    <3>3. QED
      BY <3>1, <3>2
  <2>2. CASE Deny(w, k, now)
    <3>1. work' = AfterAsking(w, k, {}) /\ expires' = Pruned(now) /\ UNCHANGED <<admitted, displaced>>
      BY <2>2 DEF Deny
    <3>2. work' \in [Workers -> CooldownWork] /\ AskedOnce' /\ AskedBefore'
      BY <2>k, <3>1
    <3>3. EntryIsTheWindow'
      <4> HIDE DEF now
      <4> QED
        BY <1>0, <2>0, <2>1, <3>1 DEF CooldownTypeOK, EntryIsTheWindow, Pruned
    <3>4. QED
      BY <1>0, <2>1, <2>p, <3>1, <3>2, <3>3 DEF CooldownIInv, CooldownTypeOK
  <2>3. CASE Admit(w, k, now)
    <3>1. work' = AfterAsking(w, k, {k}) /\ admitted' = [admitted EXCEPT ![k] = now]
      BY <2>3 DEF Admit
    <3>2. work' \in [Workers -> CooldownWork] /\ AskedOnce' /\ AskedBefore'
      BY <2>k, <3>1
    <3>3. PICK gone \in SUBSET Keys :
              /\ expires' = [o \in Keys |-> IF o = k THEN now + Window
                                            ELSE IF o \in gone THEN 0 ELSE Pruned(now)[o]]
              /\ displaced' = (displaced \cup gone) \ {k}
      BY <2>3 DEF Admit, Earliest, Entries
    <3>4. EntryIsTheWindow'
      <4> HIDE DEF now
      <4> QED
        BY <1>0, <2>0, <2>1, <3>1, <3>3 DEF CooldownTypeOK, EntryIsTheWindow, Pruned
    <3>5. CooldownTypeOK'
      <4>1. expires' \in [Keys -> Nat]
        BY <2>0, <2>p, <3>3
      <4>2. admitted' \in [Keys -> Nat]
        BY <1>0, <2>0, <3>1 DEF CooldownTypeOK
      <4>3. QED
        BY <2>0, <2>1, <3>2, <4>1, <4>2 DEF CooldownTypeOK
    <3>6. QED
      BY <3>2, <3>4, <3>5 DEF CooldownIInv
  <2>4. QED
    BY <1>2, <2>2, <2>3 DEF Allow
<1>9. ASSUME NEW w \in Workers, ReadClock(w) PROVE CooldownIInv'
  <2>1. PICK r : r = [work[w] EXCEPT !.asked = clock]
    OBVIOUS
  <2>2. work' = [work EXCEPT ![w] = r] /\ UNCHANGED <<expires, clock, admitted, displaced>>
    BY <1>9, <2>1 DEF ReadClock
  <2>3. work[w] \in CooldownWork /\ clock \in Nat
    BY <1>0 DEF CooldownTypeOK
  <2>4. /\ r \in CooldownWork /\ r.asked = clock
        /\ r.left = work[w].left /\ r.allowed = work[w].allowed /\ r.busy = work[w].busy
    BY <2>1, <2>3 DEF CooldownWork
  <2>5. work' \in [Workers -> CooldownWork] /\ AskedOnce'
    BY <1>0, <2>2, <2>4 DEF CooldownTypeOK, AskedOnce
  <2>6. AskedBefore'
    BY <1>0, <2>2, <2>3, <2>4 DEF CooldownTypeOK, AskedBefore
  <2>7. QED
    BY <1>0, <2>2, <2>5, <2>6 DEF CooldownIInv, CooldownTypeOK, EntryIsTheWindow
<1>3. ASSUME NEW w \in Workers, Conclude(w) PROVE CooldownIInv'
  <2>1. work' \in [Workers -> CooldownWork] /\ AskedOnce' /\ AskedBefore'
    BY <1>0, <1>3 DEF Conclude, CooldownTypeOK, CooldownWork, AskedOnce, AskedBefore, Idling
  <2>2. QED
    BY <1>0, <1>3, <2>1 DEF Conclude, CooldownIInv, CooldownTypeOK, EntryIsTheWindow
<1>4. ASSUME NEW w \in Workers, PersistFails(w) PROVE CooldownIInv'
  <2>1. work' \in [Workers -> CooldownWork] /\ AskedOnce' /\ AskedBefore'
    BY <1>0, <1>4 DEF PersistFails, CooldownTypeOK, CooldownWork, AskedOnce, AskedBefore
  <2>2. QED
    BY <1>0, <1>4, <2>1 DEF PersistFails, CooldownIInv, CooldownTypeOK, EntryIsTheWindow
<1>5. ASSUME RestartProcess PROVE CooldownIInv'
  <2>1. work' \in [Workers -> CooldownWork] /\ AskedOnce' /\ AskedBefore'
    BY <1>0, <1>5 DEF RestartProcess, CooldownTypeOK, CooldownWork, AskedOnce, AskedBefore, Idling
  <2>2. QED
    BY <1>0, <1>5, <2>1 DEF RestartProcess, NoEntries, CooldownIInv, CooldownTypeOK, EntryIsTheWindow
<1>6. ASSUME TimePasses PROVE CooldownIInv'
  <2>1. /\ UNCHANGED <<expires, work, admitted, displaced>>
        /\ clock' = clock + 1 /\ clock' \in Nat \ {0}
    BY <1>0, <1>6 DEF TimePasses, CooldownTypeOK
  <2>2. AskedBefore'
    BY <1>0, <2>1 DEF AskedBefore, CooldownTypeOK, CooldownWork
  <2>3. EntryIsTheWindow'
    BY <1>0, <2>1 DEF EntryIsTheWindow, CooldownTypeOK
  <2>4. QED
    BY <1>0, <2>1, <2>2, <2>3 DEF CooldownIInv, CooldownTypeOK, AskedOnce
<1>7. ASSUME UNCHANGED cooldownVars PROVE CooldownIInv'
  BY <1>0, <1>7 DEF cooldownVars, CooldownIInv, CooldownTypeOK, AskedOnce, AskedBefore, EntryIsTheWindow
<1>10. ASSUME NEW w \in Workers,
              \/ \E m \in Messages : Evaluate(w, m)
              \/ ReadClock(w)
              \/ \E k \in Keys : Allow(w, k)
              \/ Conclude(w) \/ PersistFails(w)
       PROVE  CooldownIInv'
  BY <1>1, <1>2, <1>3, <1>4, <1>9, <1>10, Zenon
<1>11. CASE CooldownNext
  BY <1>5, <1>6, <1>10, <1>11 DEF CooldownNext
<1>12. QED
  BY <1>7, <1>11

\* What an evaluation learns of a side effect in one step.
FairAnswer(w, k) ==
    IF k \in work'[w].allowed
    THEN admitted[k] = 0 \/ clock >= admitted[k] + Window \/ k \in displaced
    ELSE admitted[k] # 0 /\ work[w].asked < admitted[k] + Window

\* A side effect that is no longer left was answered from the table as it stood:
\* let through outside the window of its last time, muted inside it.
LEMMA AnswersAreFair ==
    ASSUME CooldownIInv, [CooldownNext]_cooldownVars,
           NEW w \in Workers, NEW k \in work[w].left \ work'[w].left, work'[w].busy
    PROVE  FairAnswer(w, k)
<1> USE CooldownConstants
<1>0. CooldownTypeOK /\ AskedOnce /\ AskedBefore /\ EntryIsTheWindow
  BY DEF CooldownIInv
<1>1. k \in Keys
  BY <1>0 DEF CooldownTypeOK, CooldownWork
<1>2. ASSUME NEW v \in Workers, NEW o \in Keys, Allow(v, o) PROVE FairAnswer(w, k)
  <2>0. PICK granted \in SUBSET {o} : work' = AfterAsking(v, o, granted)
    BY <1>2 DEF Allow, Deny, Admit
  <2>1. o \in work[v].left
    BY <1>2 DEF Allow
  <2>2. /\ work'[v].left = work[v].left \ {o}
        /\ \A u \in Workers \ {v} : work'[u] = work[u]
    BY <1>0, <2>0, <2>1, WorkAsked
  <2>3. v = w /\ o = k
    BY <2>2
  <2> DEFINE now == work[w].asked
  <2>5. now \in Nat /\ now <= clock /\ clock \in Nat
    BY <1>0 DEF CooldownTypeOK, CooldownWork, AskedBefore
  <2>4. CASE Deny(w, k, now)
    <3>1. work' = AfterAsking(w, k, {}) /\ Pruned(now)[k] > now
      BY <2>4 DEF Deny
    <3>2. k \notin work'[w].allowed
      <4>1. k \in work'[w].allowed <=> k \in {}
        BY <1>0, <1>1, <3>1, <2>1, <2>3, WorkAsked
      <4>2. QED BY <4>1
    <3>3. expires[k] > now
      BY <1>0, <1>1, <2>5, <3>1, PrunedEntries
    <3>4. QED
      BY <1>0, <1>1, <2>5, <3>2, <3>3 DEF FairAnswer, EntryIsTheWindow, CooldownTypeOK
  <2>7. CASE Admit(w, k, now)
    <3>1. work' = AfterAsking(w, k, {k}) /\ Pruned(now)[k] <= now
      BY <2>7 DEF Admit
    <3>2. k \in work'[w].allowed
      <4>1. k \in work'[w].allowed <=> k \in {k}
        BY <1>0, <1>1, <3>1, <2>1, <2>3, WorkAsked
      <4>2. QED BY <4>1
    <3>3. ~(expires[k] > now)
      BY <1>0, <1>1, <2>5, <3>1, PrunedEntries DEF CooldownTypeOK
    <3>4. QED
      BY <1>0, <1>1, <2>5, <3>2, <3>3 DEF FairAnswer, EntryIsTheWindow, CooldownTypeOK
  <2>6. QED
    BY <1>2, <2>3, <2>4, <2>7 DEF Allow
<1>3. ASSUME NEW v \in Workers, NEW m \in Messages, Evaluate(v, m) PROVE FALSE
  BY <1>0, <1>3 DEF Evaluate, AskedOnce, CooldownTypeOK
<1>4. ASSUME NEW v \in Workers, Conclude(v) PROVE FALSE
  BY <1>0, <1>4 DEF Conclude, Decided, Idling, CooldownTypeOK
<1>5. ASSUME NEW v \in Workers, PersistFails(v) PROVE FALSE
  BY <1>0, <1>5 DEF PersistFails, Decided, CooldownTypeOK
<1>6. ASSUME RestartProcess PROVE FALSE
  BY <1>0, <1>6 DEF RestartProcess, Idling, CooldownTypeOK
<1>7. ASSUME TimePasses \/ UNCHANGED cooldownVars PROVE FALSE
  BY <1>7 DEF TimePasses, cooldownVars
<1>8. ASSUME NEW v \in Workers, ReadClock(v) PROVE FALSE
  <2>1. work' = [work EXCEPT ![v] = [work[v] EXCEPT !.asked = clock]]
    BY <1>8 DEF ReadClock
  <2>2. work'[w].left = work[w].left
    BY <1>0, <2>1 DEF CooldownTypeOK, CooldownWork
  <2>3. QED
    BY <2>2
<1>9. ASSUME NEW v \in Workers,
             \/ \E m \in Messages : Evaluate(v, m)
             \/ ReadClock(v)
             \/ \E o \in Keys : Allow(v, o)
             \/ Conclude(v) \/ PersistFails(v)
      PROVE  FairAnswer(w, k)
  BY <1>2, <1>3, <1>4, <1>5, <1>8, <1>9, Zenon
<1>10. CASE CooldownNext
  BY <1>6, <1>7, <1>9, <1>10 DEF CooldownNext
<1>11. QED
  BY <1>7, <1>10

\* The inductive invariant of the table holds in every reachable state.
LEMMA CooldownInvariant == CooldownSpec => []CooldownIInv
BY CooldownStarts, CooldownSteps, PTL DEF CooldownSpec

\* However many evaluations run at once, a rule's side effect is let through
\* once per window unless its entry made room for another key's, and is muted
\* only within the window of the last one let through.
THEOREM SideEffectsOncePerWindow == CooldownSpec => OncePerWindow
<1> DEFINE Fair == \A w \in Workers : \A k \in work[w].left \ work'[w].left :
                      work'[w].busy => FairAnswer(w, k)
<1>1. CooldownIInv /\ [CooldownNext]_cooldownVars => [Fair]_cooldownVars
  BY AnswersAreFair
<1>2. CooldownSpec => [][Fair]_cooldownVars
  BY <1>1, CooldownInvariant, PTL DEF CooldownSpec
<1>3. QED
  BY <1>2 DEF OncePerWindow, FairAnswer

(* -------------------------------- Numbers ------------------------------- *)

\* A set of numbers that has a member has a least one.
LEMMA LeastNumber ==
    ASSUME NEW T \in SUBSET Nat, T # {}
    PROVE  \E m \in T : \A n \in T : m <= n
<1>1. IsWellFoundedOn(OpToRel(<, Nat), Nat)
  BY NatLessThanWellFounded
<1>2. PICK m \in T : \A n \in T : ~(<<n, m>> \in OpToRel(<, Nat))
  BY <1>1, WFMin, Zenon
<1>3. ASSUME NEW n \in T PROVE m <= n
  <2>1. ~(n < m)
    BY <1>2 DEF OpToRel
  <2> QED BY <2>1
<1> QED BY <1>3

\* A set of numbers up to n that has a member has a greatest one.
LEMMA GreatestNumber ==
    ASSUME NEW n \in Nat, NEW T \in SUBSET (0..n), T # {}
    PROVE  \E m \in T : \A k \in T : k <= m
<1> DEFINE U == {b \in 0..n : \A k \in T : k <= b}
<1>1. U \in SUBSET Nat /\ n \in U
  OBVIOUS
<1>2. PICK b \in U : \A c \in U : b <= c
  <2> HIDE DEF U
  <2> QED BY <1>1, LeastNumber
<1>3. b \in 0..n /\ \A k \in T : k <= b
  BY <1>2
<1>4. CASE b \in T
  BY <1>3, <1>4
<1>5. CASE b \notin T
  <2>1. \A k \in T : k <= b - 1
    BY <1>3, <1>5
  <2>2. PICK k \in T : TRUE
    OBVIOUS
  <2>3. b - 1 \in U
    BY <1>3, <2>1, <2>2
  <2>4. b <= b - 1
    BY <1>2, <2>3
  <2> QED BY <1>3, <2>4
<1> QED BY <1>4, <1>5

\* A property of numbers that 0 has, and n with n - 1, is one of all up to n.
LEMMA UpToNumber ==
    ASSUME NEW n \in Nat, NEW T \in SUBSET (0..n), 0 \in T,
           \A k \in 1..n : k - 1 \in T => k \in T
    PROVE  T = 0..n
<1> DEFINE U == (0..n) \ T
<1>2. ASSUME U # {} PROVE FALSE
  <2>1. U \in SUBSET Nat
    OBVIOUS
  <2>2. PICK m \in U : \A k \in U : m <= k
    <3> HIDE DEF U
    <3> QED BY <1>2, <2>1, LeastNumber
  <2>3. m \in 1..n /\ m - 1 \in 0..n /\ ~(m <= m - 1)
    BY <2>2
  <2>4. m - 1 \in T
    BY <2>2, <2>3
  <2> QED BY <2>2, <2>3, <2>4
<1> QED BY <1>2

(* ------------------------- Numbers in order -------------------------- *)
\* One step of Ascending.
Ordered(f, S, k) ==
    IF k = 0 THEN <<>> ELSE IF k \in S THEN Append(f[k - 1], k) ELSE f[k - 1]

\* q lists the numbers of S up to n, in their order.
Lists(q, S, n) ==
    /\ q \in Seq(Nat)
    /\ \A a \in 1..Len(q) : q[a] \in S /\ q[a] \in 1..n
    /\ \A a, b \in 1..Len(q) : a < b => q[a] < q[b]
    /\ \A p \in S \cap (1..n) : \E a \in 1..Len(q) : q[a] = p

LEMMA OrderedExists ==
    ASSUME NEW S, NEW n \in Nat
    PROVE  \E f : f = [k \in 0..n |-> Ordered(f, S, k)]
<1> DEFINE T == {m \in 0..n : \E f : f = [k \in 0..m |-> Ordered(f, S, k)]}
<1>1. 0 \in T
  <2> DEFINE f == [k \in 0..0 |-> <<>>]
  <2>1. \A k \in 0..0 : Ordered(f, S, k) = <<>>
    BY DEF Ordered
  <2>2. f = [k \in 0..0 |-> Ordered(f, S, k)]
    BY <2>1
  <2> HIDE DEF f
  <2> QED BY <2>2
<1>2. ASSUME NEW m \in 1..n, m - 1 \in T PROVE m \in T
  <2>1. PICK f : f = [k \in 0..m - 1 |-> Ordered(f, S, k)]
    BY <1>2
  <2>2. PICK g : g = [k \in 0..m |-> IF k = m THEN Ordered(f, S, m) ELSE f[k]]
    OBVIOUS
  <2>3. \A k \in 0..m - 1 : g[k] = f[k]
    BY <2>2
  <2>4. ASSUME NEW k \in 0..m PROVE g[k] = Ordered(g, S, k)
    <3>1. Ordered(g, S, k) = Ordered(f, S, k)
      BY <2>3 DEF Ordered
    <3>2. k # m => f[k] = Ordered(f, S, k)
      BY <2>1
    <3> QED BY <2>2, <3>1, <3>2
  <2>5. g = [k \in 0..m |-> Ordered(g, S, k)]
    BY <2>2, <2>4
  <2> QED BY <2>5
<1>3. T = 0..n
  <2> HIDE DEF T
  <2>1. T \in SUBSET (0..n)
    BY DEF T
  <2> QED BY <1>1, <1>2, <2>1, UpToNumber
<1> QED BY <1>3

LEMMA AscendingLists ==
    ASSUME NEW S, NEW n \in Nat
    PROVE  Lists(Ascending(S, n), S, n)
<1> DEFINE E(f) == f = [k \in 0..n |-> Ordered(f, S, k)]
<1>1. PICK f : E(f) /\ Ascending(S, n) = f[n]
  <2>1. \E f : E(f)
    BY OrderedExists
  <2>2. Ascending(S, n) = (CHOOSE f : E(f))[n]
    BY DEF Ascending, Ordered
  <2> QED BY <2>1, <2>2
<1> DEFINE T == {m \in 0..n : Lists(f[m], S, m)}
<1>2. \A k \in 0..n : f[k] = Ordered(f, S, k)
  BY <1>1
<1>3. 0 \in T
  <2>1. f[0] = <<>>
    BY <1>2 DEF Ordered
  <2>2. <<>> \in Seq(Nat) /\ 1..Len(<<>>) = {} /\ 1..0 = {}
    OBVIOUS
  <2>3. Lists(<<>>, S, 0)
    BY <2>2 DEF Lists
  <2> QED BY <2>1, <2>3
<1>4. ASSUME NEW m \in 1..n, m - 1 \in T PROVE m \in T
  <2>1. PICK q : q = f[m - 1]
    OBVIOUS
  <2>2. Lists(q, S, m - 1) /\ f[m] = IF m \in S THEN Append(q, m) ELSE q
    BY <1>2, <1>4, <2>1 DEF Ordered
  <2>3. CASE m \notin S
    <3>1. S \cap (1..m) = S \cap (1..m - 1)
      BY <2>3
    <3>2. \A x \in 1..m - 1 : x \in 1..m
      OBVIOUS
    <3>3. Lists(q, S, m)
      BY <2>2, <3>1, <3>2 DEF Lists
    <3> QED BY <2>2, <2>3, <3>3
  <2>4. CASE m \in S
    <3>1. PICK r : r = Append(q, m)
      OBVIOUS
    <3>2. /\ q \in Seq(Nat) /\ r \in Seq(Nat) /\ Len(r) = Len(q) + 1 /\ Len(q) \in Nat
          /\ r[Len(r)] = m /\ \A a \in 1..Len(q) : r[a] = q[a]
      BY <2>2, <3>1 DEF Lists
    <3>3. ASSUME NEW a \in 1..Len(r) PROVE r[a] \in S /\ r[a] \in 1..m
      <4>1. CASE a = Len(r)
        BY <2>4, <3>2, <4>1
      <4>2. CASE a # Len(r)
        <5>1. a \in 1..Len(q)
          BY <3>2, <4>2
        <5>2. q[a] \in S /\ q[a] \in 1..m - 1 /\ r[a] = q[a]
          BY <2>2, <3>2, <5>1 DEF Lists
        <5> QED BY <5>2
      <4> QED BY <4>1, <4>2
    <3>4. ASSUME NEW a \in 1..Len(r), NEW b \in 1..Len(r), a < b PROVE r[a] < r[b]
      <4>1. a \in 1..Len(q) /\ r[a] = q[a] /\ q[a] \in 1..m - 1
        BY <2>2, <3>2, <3>4 DEF Lists
      <4>2. CASE b = Len(r)
        BY <3>2, <4>1, <4>2
      <4>3. CASE b # Len(r)
        <5>1. b \in 1..Len(q) /\ r[b] = q[b]
          BY <3>2, <4>3
        <5>2. q[a] < q[b]
          BY <2>2, <3>4, <4>1, <5>1 DEF Lists
        <5> QED BY <4>1, <5>1, <5>2
      <4> QED BY <4>2, <4>3
    <3>5. ASSUME NEW p \in S \cap (1..m) PROVE \E a \in 1..Len(r) : r[a] = p
      <4>1. CASE p = m
        BY <3>2, <4>1
      <4>2. CASE p # m
        <5>1. p \in S \cap (1..m - 1)
          BY <4>2
        <5>2. PICK a \in 1..Len(q) : q[a] = p
          BY <2>2, <5>1 DEF Lists
        <5> QED BY <3>2, <5>2
      <4> QED BY <4>1, <4>2
    <3>6. Lists(r, S, m)
      BY <3>2, <3>3, <3>4, <3>5 DEF Lists
    <3>7. f[m] = r
      BY <2>2, <2>4, <3>1
    <3>8. m \in 0..n /\ Lists(f[m], S, m)
      BY <3>6, <3>7
    <3> QED BY <3>8
  <2> QED BY <2>3, <2>4
<1>5. T = 0..n
  <2> HIDE DEF T
  <2>1. T \in SUBSET (0..n)
    BY DEF T
  <2> QED BY <1>3, <1>4, <2>1, UpToNumber
<1> QED BY <1>1, <1>5

LEMMA OneListing ==
    ASSUME NEW q, NEW S, NEW n \in Nat, NEW r, NEW T, NEW m \in Nat,
           Lists(q, S, n), Lists(r, T, m), S \cap (1..n) = T \cap (1..m)
    PROVE  q = r
<1>1. q \in Seq(Nat) /\ r \in Seq(Nat) /\ Len(q) \in Nat /\ Len(r) \in Nat
  BY DEF Lists
<1>2. (\A a \in 1..Len(q) : q[a] \in Nat) /\ (\A a \in 1..Len(r) : r[a] \in Nat)
  BY <1>1
<1>3. ASSUME NEW a \in 1..Len(q) PROVE \E b \in 1..Len(r) : r[b] = q[a]
  <2>1. q[a] \in S \cap (1..n)
    BY DEF Lists
  <2>2. q[a] \in T \cap (1..m)
    BY <2>1
  <2> QED BY <2>2 DEF Lists
<1>4. ASSUME NEW a \in 1..Len(r) PROVE \E b \in 1..Len(q) : q[b] = r[a]
  <2>1. r[a] \in T \cap (1..m)
    BY DEF Lists
  <2>2. r[a] \in S \cap (1..n)
    BY <2>1
  <2> QED BY <2>2 DEF Lists
<1>5. /\ \A a, b \in 1..Len(q) : a < b => q[a] < q[b]
      /\ \A a, b \in 1..Len(r) : a < b => r[a] < r[b]
  BY DEF Lists
<1> DEFINE D == {a \in Nat : a \in 1..Len(q) /\ a \in 1..Len(r) /\ q[a] # r[a]}
<1>6. ASSUME D # {} PROVE FALSE
  <2>1. PICK a \in D : \A b \in D : a <= b
    <3>1. D \in SUBSET Nat
      OBVIOUS
    <3> HIDE DEF D
    <3> QED BY <1>6, <3>1, LeastNumber
  <2>2. a \in 1..Len(q) /\ a \in 1..Len(r) /\ q[a] # r[a]
    BY <2>1
  <2>3. ASSUME NEW b \in 1..a - 1
        PROVE  b \in 1..Len(q) /\ b \in 1..Len(r) /\ b < a /\ q[b] = r[b]
    BY <1>1, <2>1, <2>2
  <2> HIDE DEF D
  <2>4. PICK b \in 1..Len(r) : r[b] = q[a]
    BY <1>3, <2>2
  <2>5. PICK c \in 1..Len(q) : q[c] = r[a]
    BY <1>4, <2>2
  <2>6. b > a
    <3>1. CASE b < a
      <4>1. b \in 1..a - 1
        BY <1>1, <2>2, <3>1
      <4>2. q[b] < q[a] /\ q[b] = r[b]
        BY <1>5, <2>2, <2>3, <4>1
      <4> QED BY <1>2, <2>2, <2>4, <4>2
    <3> QED BY <1>1, <2>2, <2>4, <3>1
  <2>7. c > a
    <3>1. CASE c < a
      <4>1. c \in 1..a - 1
        BY <1>1, <2>2, <3>1
      <4>2. r[c] < r[a] /\ q[c] = r[c]
        BY <1>5, <2>2, <2>3, <4>1
      <4> QED BY <1>2, <2>2, <2>5, <4>2
    <3> QED BY <1>1, <2>2, <2>5, <3>1
  <2>8. r[a] < r[b] /\ q[a] < q[c]
    BY <1>1, <1>5, <2>2, <2>6, <2>7
  <2> QED BY <1>2, <2>2, <2>4, <2>5, <2>8
<1>7. \A a \in Nat : a \in 1..Len(q) /\ a \in 1..Len(r) => q[a] = r[a]
  BY <1>6
<1> HIDE DEF D
<1>8. ~(Len(q) < Len(r))
  <2>1. SUFFICES ASSUME Len(q) < Len(r) PROVE FALSE
    OBVIOUS
  <2>2. PICK b : b = Len(q) + 1
    OBVIOUS
  <2>3. b \in 1..Len(r)
    BY <1>1, <2>1, <2>2
  <2>4. PICK a \in 1..Len(q) : q[a] = r[b]
    BY <1>4, <2>3
  <2>5. a \in 1..Len(r) /\ a < b /\ a \in Nat
    BY <1>1, <2>1, <2>2
  <2>6. q[a] = r[a] /\ r[a] < r[b]
    BY <1>5, <1>7, <2>3, <2>5
  <2> QED BY <1>2, <2>3, <2>4, <2>5, <2>6
<1>9. ~(Len(r) < Len(q))
  <2>1. SUFFICES ASSUME Len(r) < Len(q) PROVE FALSE
    OBVIOUS
  <2>2. PICK b : b = Len(r) + 1
    OBVIOUS
  <2>3. b \in 1..Len(q)
    BY <1>1, <2>1, <2>2
  <2>4. PICK a \in 1..Len(r) : r[a] = q[b]
    BY <1>3, <2>3
  <2>5. a \in 1..Len(q) /\ a < b /\ a \in Nat
    BY <1>1, <2>1, <2>2
  <2>6. q[a] = r[a] /\ q[a] < q[b]
    BY <1>5, <1>7, <2>3, <2>5
  <2> QED BY <1>2, <2>3, <2>4, <2>5, <2>6
<1>10. Len(q) = Len(r)
  BY <1>1, <1>8, <1>9
<1>11. \A a \in 1..Len(q) : q[a] = r[a]
  BY <1>1, <1>7, <1>10
<1> QED BY <1>1, <1>10, <1>11, SeqEqual, Zenon

(* ------------------------- What a view shows ------------------------- *)
Marks(C, s) == [c : C, from : 1..Len(s), to : 1..Len(s)]

\* The characters of a view are of ranges of the text, in their order.
Ranged(V, s, C) ==
    /\ V \in Seq(Marks(C, s))
    /\ \A k \in 1..Len(V) : V[k].from <= V[k].to
    /\ \A k, l \in 1..Len(V) : k < l => V[k].to < V[l].from

\* Its letters are those of the text, the one at p as im[p].
Lettered(V, s, im) ==
    /\ \A k \in 1..Len(V) : V[k].c \in Alphabetic =>
          V[k].from = V[k].to /\ s[V[k].from] \in Alphabetic /\ V[k].c = im[V[k].from]
    /\ \A p \in 1..Len(s) : s[p] \in Alphabetic =>
          \E k \in 1..Len(V) : V[k].from = p /\ V[k].to = p /\ V[k].c = im[p]
    /\ \A p \in 1..Len(s) : s[p] \in Alphabetic => im[p] \in Alphabetic

\* Two letters stand side by side just where all between them is Hidden.
Closed(V, s, Hidden) ==
    /\ \A k, l \in 1..Len(V) : l = k + 1 /\ V[k].c \in Alphabetic /\ V[l].c \in Alphabetic =>
          \A m \in 1..Len(s) : V[k].from < m /\ m < V[l].from => s[m] \in Hidden
    /\ \A p, q \in 1..Len(s) : \A k \in 1..Len(V) :
          s[p] \in Alphabetic /\ s[q] \in Alphabetic /\ p < V[k].from /\ V[k].from < q =>
              \E m \in 1..Len(s) : p < m /\ m < q /\ s[m] \notin Hidden

Shows(V, s, Hidden, im, C) == Ranged(V, s, C) /\ Lettered(V, s, im) /\ Closed(V, s, Hidden)

\* lit stands in V from k on.
StandsAt(V, lit, k) ==
    /\ k \in 1..Len(V) /\ k + Len(lit) - 1 \in 1..Len(V)
    /\ \A a \in 1..Len(lit) : V[k + a - 1].c = lit[a]

\* lit is what is read from i to j.
Seen(s, Hidden, i, j) == Ascending({k \in i..j : s[k] \notin Hidden}, j)
Reads(s, Hidden, im, lit, i, j) ==
    /\ i \in 1..Len(s) /\ j \in 1..Len(s) /\ i <= j
    /\ s[i] \in Alphabetic /\ s[j] \in Alphabetic
    /\ Len(Seen(s, Hidden, i, j)) = Len(lit)
    /\ \A n \in 1..Len(lit) : /\ s[Seen(s, Hidden, i, j)[n]] \in Alphabetic
                              /\ im[Seen(s, Hidden, i, j)[n]] = lit[n]

LEMMA MarksAre ==
    ASSUME NEW V, NEW s, NEW C, Ranged(V, s, C), Len(s) \in Nat
    PROVE  /\ Len(V) \in Nat
           /\ \A k \in 1..Len(V) : V[k].from \in 1..Len(s) /\ V[k].to \in 1..Len(s) /\ V[k].c \in C
<1>1. V \in Seq(Marks(C, s))
  BY DEF Ranged
<1>2. Len(V) \in Nat
  BY <1>1
<1>3. ASSUME NEW k \in 1..Len(V)
      PROVE  V[k].from \in 1..Len(s) /\ V[k].to \in 1..Len(s) /\ V[k].c \in C
  <2>1. V[k] \in Marks(C, s)
    BY <1>1
  <2> QED BY <2>1 DEF Marks
<1> QED BY <1>2, <1>3

\* What is seen from i to j is listed by Seen.
LEMMA SeenLists ==
    ASSUME NEW s, NEW Hidden, NEW i \in Nat, NEW j \in Nat
    PROVE  Lists(Seen(s, Hidden, i, j), {k \in i..j : s[k] \notin Hidden}, j)
BY AscendingLists DEF Seen

LEMMA MatchIsRead ==
    ASSUME NEW s, NEW V, NEW Hidden, NEW im, NEW C, NEW lit \in Seq(Alphabetic), NEW k,
           Len(s) \in Nat, Shows(V, s, Hidden, im, C), lit # <<>>, Hidden \cap Alphabetic = {},
           StandsAt(V, lit, k)
    PROVE  Reads(s, Hidden, im, lit, V[k].from, V[k + Len(lit) - 1].to)
<1>1. PICK n \in Nat \ {0} : n = Len(lit)
  BY EmptySeq
<1>2. PICK w : w = k + n - 1
  OBVIOUS
<1>3. /\ Len(V) \in Nat
      /\ \A x \in 1..Len(V) : V[x].from \in 1..Len(s) /\ V[x].to \in 1..Len(s) /\ V[x].c \in C
  BY MarksAre DEF Shows
<1>4. k \in 1..Len(V) /\ w \in 1..Len(V) /\ k <= w
  BY <1>1, <1>2, <1>3 DEF StandsAt
<1>5. PICK e : e = [a \in 1..n |-> k + a - 1]
  OBVIOUS
<1>6. \A a \in 1..n : e[a] \in 1..Len(V) /\ e[a] = k + a - 1 /\ e[a] \in k..w
  BY <1>2, <1>3, <1>4, <1>5
<1>7. PICK q : q = [a \in 1..n |-> V[e[a]].from]
  OBVIOUS
<1>8. ASSUME NEW a \in 1..n
      PROVE  /\ q[a] = V[e[a]].from /\ q[a] = V[e[a]].to /\ q[a] \in 1..Len(s)
             /\ s[q[a]] \in Alphabetic /\ im[q[a]] = lit[a] /\ V[e[a]].c \in Alphabetic
  <2>1. V[e[a]].c = lit[a] /\ lit[a] \in Alphabetic
    BY <1>1, <1>6 DEF StandsAt
  <2> QED BY <1>3, <1>6, <1>7, <2>1 DEF Shows, Lettered
<1>9. \A a, b \in 1..n : a < b => q[a] < q[b]
  <2>1. SUFFICES ASSUME NEW a \in 1..n, NEW b \in 1..n, a < b PROVE q[a] < q[b]
    OBVIOUS
  <2>2. e[a] < e[b]
    BY <1>4, <1>6, <2>1
  <2>3. V[e[a]].to < V[e[b]].from
    BY <1>6, <2>2 DEF Shows, Ranged
  <2> QED BY <1>8, <2>3
<1>10. PICK i : i = V[k].from
  OBVIOUS
<1>11. PICK j : j = V[w].to
  OBVIOUS
<1>12. 1 \in 1..n /\ n \in 1..n
  BY <1>1
<1>13. q[1] = i /\ q[n] = j
  <2>1. e[1] = k /\ e[n] = w
    BY <1>1, <1>2, <1>3, <1>4, <1>5, <1>12
  <2> QED BY <1>8, <1>10, <1>11, <1>12, <2>1
<1>14. i \in 1..Len(s) /\ j \in 1..Len(s) /\ i <= j /\ \A a \in 1..n : q[a] \in i..j
  BY <1>1, <1>8, <1>9, <1>12, <1>13
<1> DEFINE S == {m \in i..j : s[m] \notin Hidden}
<1>15. ASSUME NEW m \in i..j, s[m] \notin Hidden PROVE \E a \in 1..n : q[a] = m
  <2> DEFINE T == {a \in 1..n : q[a] <= m}
  <2>1. T \in SUBSET (0..n) /\ 1 \in T
    BY <1>12, <1>13, <1>14
  <2>2. PICK a \in T : \A b \in T : b <= a
    <3> HIDE DEF T
    <3> QED BY <1>1, <2>1, GreatestNumber
  <2>3. a \in 1..n /\ q[a] <= m
    BY <2>2
  <2>4. CASE q[a] = m
    BY <2>3, <2>4
  <2>5. CASE q[a] # m
    <3>1. q[a] < m
      BY <1>8, <1>14, <2>3, <2>5
    <3>2. a # n
      BY <1>13, <1>14, <3>1
    <3>3. a + 1 \in 1..n
      BY <1>1, <2>3, <3>2
    <3>4. ~(q[a + 1] <= m)
      BY <2>2, <2>3, <3>3
    <3>5. PICK b : b = a + 1
      OBVIOUS
    <3>6. m < q[b] /\ b \in 1..n
      BY <1>8, <1>14, <3>3, <3>4, <3>5
    <3>7. e[b] = e[a] + 1
      BY <1>4, <1>5, <2>3, <3>5, <3>6
    <3>8. \A x \in 1..Len(s) : V[e[a]].from < x /\ x < V[e[b]].from => s[x] \in Hidden
      BY <1>6, <1>8, <2>3, <3>6, <3>7 DEF Shows, Closed
    <3>9. m \in 1..Len(s)
      BY <1>14
    <3> QED BY <1>8, <1>15, <2>3, <3>1, <3>6, <3>8, <3>9
  <2> QED BY <2>4, <2>5
<1>16. Lists(q, S, j)
  <2>1. q \in Seq(Nat) /\ Len(q) = n
    <3>1. \A a \in 1..n : V[e[a]].from \in Nat
      BY <1>3, <1>6
    <3> QED BY <1>1, <1>7, <3>1
  <2>2. \A a \in 1..n : q[a] \in S /\ q[a] \in 1..j
    <3>1. \A a \in 1..n : q[a] \in 1..j
      BY <1>14
    <3>2. \A a \in 1..n : s[q[a]] \notin Hidden
      BY <1>8
    <3> QED BY <1>14, <3>1, <3>2
  <2>3. \A p \in S \cap (1..j) : \E a \in 1..n : q[a] = p
    BY <1>15
  <2> HIDE DEF S
  <2> QED BY <1>9, <2>1, <2>2, <2>3 DEF Lists
<1>17. Seen(s, Hidden, i, j) = q
  <2>1. Lists(Seen(s, Hidden, i, j), S, j)
    BY <1>14, SeenLists
  <2>2. j \in Nat
    BY <1>14
  <2> HIDE DEF S
  <2> QED BY <1>16, <2>1, <2>2, OneListing
<1>18. Reads(s, Hidden, im, lit, i, j)
  <2>1. Len(q) = n
    BY <1>1, <1>7
  <2> QED BY <1>1, <1>8, <1>12, <1>13, <1>14, <1>17, <2>1 DEF Reads
<1> QED BY <1>1, <1>2, <1>10, <1>11, <1>18

\* Two characters of a view stand in the order of what they are of.
LEMMA MarksInOrder ==
    ASSUME NEW V, NEW s, NEW C, Ranged(V, s, C), Len(s) \in Nat,
           NEW x \in 1..Len(V), NEW y \in 1..Len(V), V[x].from < V[y].from
    PROVE  x < y
<1>1. /\ Len(V) \in Nat
      /\ \A k \in 1..Len(V) : V[k].from \in 1..Len(s) /\ V[k].to \in 1..Len(s) /\ V[k].c \in C
  BY MarksAre
<1>2. CASE y < x
  <2>1. V[y].to < V[x].from /\ V[y].from <= V[y].to
    BY <1>2 DEF Ranged
  <2>2. FALSE
    BY <1>1, <2>1
  <2> QED BY <2>2
<1>3. CASE x = y
  <2>1. FALSE
    BY <1>1, <1>3
  <2> QED BY <2>1
<1> QED BY <1>1, <1>2, <1>3

\* Letters with nothing but Hidden between them stand side by side.
LEMMA SideBySide ==
    ASSUME NEW V, NEW s, NEW C, NEW Hidden, NEW im, Shows(V, s, Hidden, im, C), Len(s) \in Nat,
           NEW x \in 1..Len(V), NEW y \in 1..Len(V), V[x].from < V[y].from,
           s[V[x].from] \in Alphabetic, s[V[y].from] \in Alphabetic,
           V[x].to = V[x].from,
           \A m \in 1..Len(s) : V[x].from < m /\ m < V[y].from => s[m] \in Hidden
    PROVE  y = x + 1
<1>1. /\ Len(V) \in Nat
      /\ \A k \in 1..Len(V) : V[k].from \in 1..Len(s) /\ V[k].to \in 1..Len(s) /\ V[k].c \in C
  BY MarksAre DEF Shows
<1>2. x < y
  BY MarksInOrder DEF Shows
<1>3. SUFFICES ASSUME y # x + 1 PROVE FALSE
  OBVIOUS
<1>4. PICK z : z = x + 1
  OBVIOUS
<1>5. z \in 1..Len(V) /\ x < z /\ z < y
  BY <1>1, <1>2, <1>3, <1>4
<1>6. V[x].to < V[z].from /\ V[z].to < V[y].from /\ V[z].from <= V[z].to
  BY <1>5 DEF Shows, Ranged
<1>7. V[x].from < V[z].from /\ V[z].from < V[y].from
  BY <1>1, <1>5, <1>6
<1>8. V[x].from \in 1..Len(s) /\ V[y].from \in 1..Len(s)
  BY <1>1
<1>9. \E m \in 1..Len(s) : V[x].from < m /\ m < V[y].from /\ s[m] \notin Hidden
  BY <1>5, <1>7, <1>8 DEF Shows, Closed
<1> QED BY <1>9

LEMMA ReadIsMatch ==
    ASSUME NEW s, NEW V, NEW Hidden, NEW im, NEW C, NEW lit \in Seq(Alphabetic), NEW i, NEW j,
           Len(s) \in Nat, Shows(V, s, Hidden, im, C), lit # <<>>, Hidden \cap Alphabetic = {},
           Reads(s, Hidden, im, lit, i, j)
    PROVE  \E k : StandsAt(V, lit, k) /\ i = V[k].from /\ j = V[k + Len(lit) - 1].to
<1>1. PICK n \in Nat \ {0} : n = Len(lit)
  BY EmptySeq
<1>2. PICK q : q = Seen(s, Hidden, i, j)
  OBVIOUS
<1>3. /\ i \in 1..Len(s) /\ j \in 1..Len(s) /\ i <= j
      /\ s[i] \in Alphabetic /\ s[j] \in Alphabetic
      /\ Len(q) = n
      /\ \A a \in 1..n : s[q[a]] \in Alphabetic /\ im[q[a]] = lit[a]
  BY <1>1, <1>2 DEF Reads
<1> DEFINE S == {m \in i..j : s[m] \notin Hidden}
<1>4. Lists(q, S, j)
  <2>1. i \in Nat /\ j \in Nat
    BY <1>3
  <2> HIDE DEF S
  <2> QED BY <1>2, <2>1, SeenLists DEF S
<1>5. /\ \A a \in 1..n : q[a] \in i..j /\ q[a] \in 1..Len(s)
      /\ \A a, b \in 1..n : a < b => q[a] < q[b]
      /\ \A p \in i..j : s[p] \notin Hidden => \E a \in 1..n : q[a] = p
  <2>1. \A a \in 1..n : q[a] \in i..j
    BY <1>3, <1>4 DEF Lists
  <2>2. \A a, b \in 1..n : a < b => q[a] < q[b]
    BY <1>3, <1>4 DEF Lists
  <2>3. ASSUME NEW p \in i..j, s[p] \notin Hidden PROVE \E a \in 1..n : q[a] = p
    <3>1. p \in S \cap (1..j)
      BY <1>3, <2>3
    <3> HIDE DEF S
    <3> QED BY <1>3, <1>4, <3>1 DEF Lists
  <2> QED BY <1>3, <2>1, <2>2, <2>3
<1>6. 1 \in 1..n /\ n \in 1..n
  BY <1>1
<1>7. q[1] = i
  <2>0. i \in i..j /\ s[i] \notin Hidden
    BY <1>3
  <2>1. PICK a \in 1..n : q[a] = i
    BY <1>5, <2>0
  <2>2. a = 1 \/ q[1] < q[a]
    BY <1>1, <1>5, <1>6
  <2>3. q[1] \in i..j
    BY <1>5, <1>6
  <2> QED BY <1>3, <2>1, <2>2, <2>3
<1>8. q[n] = j
  <2>0. j \in i..j /\ s[j] \notin Hidden
    BY <1>3
  <2>1. PICK a \in 1..n : q[a] = j
    BY <1>5, <2>0
  <2>2. a = n \/ q[a] < q[n]
    BY <1>1, <1>5, <1>6
  <2>3. q[n] \in i..j
    BY <1>5, <1>6
  <2> QED BY <1>3, <2>1, <2>2, <2>3
<1>9. /\ Len(V) \in Nat
      /\ \A x \in 1..Len(V) : V[x].from \in 1..Len(s) /\ V[x].to \in 1..Len(s) /\ V[x].c \in C
  BY MarksAre DEF Shows
<1>10. ASSUME NEW a \in 1..n
       PROVE  \E x \in 1..Len(V) : V[x].from = q[a] /\ V[x].to = q[a] /\ V[x].c = lit[a]
  <2>1. q[a] \in 1..Len(s) /\ s[q[a]] \in Alphabetic /\ im[q[a]] = lit[a]
    BY <1>3, <1>5
  <2>2. \E x \in 1..Len(V) : V[x].from = q[a] /\ V[x].to = q[a] /\ V[x].c = im[q[a]]
    BY <2>1 DEF Shows, Lettered
  <2> QED BY <2>1, <2>2
<1>11. PICK k \in 1..Len(V) : V[k].from = i /\ V[k].to = i /\ V[k].c = lit[1]
  BY <1>6, <1>7, <1>10
<1> DEFINE Right(a) == /\ k + a \in 1..Len(V) /\ V[k + a].from = q[a + 1]
                       /\ V[k + a].to = q[a + 1] /\ V[k + a].c = lit[a + 1]
           T == {a \in 0..n - 1 : Right(a)}
<1>12. 0 \in T
  BY <1>1, <1>7, <1>9, <1>11
<1>13. ASSUME NEW a \in 1..n - 1, a - 1 \in T PROVE a \in T
  <2>1. PICK x : x = k + (a - 1)
    OBVIOUS
  <2>2. (a - 1) + 1 = a /\ a \in 1..n /\ a + 1 \in 1..n
    BY <1>1
  <2>3. x \in 1..Len(V) /\ V[x].from = q[a] /\ V[x].to = q[a]
    BY <1>13, <2>1, <2>2
  <2>4. PICK y \in 1..Len(V) : V[y].from = q[a + 1] /\ V[y].to = q[a + 1] /\ V[y].c = lit[a + 1]
    BY <1>10, <2>2
  <2>5. V[x].from < V[y].from
    BY <1>1, <1>5, <2>2, <2>3, <2>4
  <2>6. ASSUME NEW m \in 1..Len(s), V[x].from < m, m < V[y].from PROVE s[m] \in Hidden
    <3>1. SUFFICES ASSUME s[m] \notin Hidden PROVE FALSE
      OBVIOUS
    <3>2. q[a] < m /\ m < q[a + 1] /\ q[a] \in i..j /\ q[a + 1] \in i..j
      BY <1>5, <2>2, <2>3, <2>4, <2>6
    <3>3. m \in i..j
      BY <1>3, <3>2
    <3>4. PICK b \in 1..n : q[b] = m
      BY <1>5, <3>1, <3>3
    <3>5. CASE b <= a
      <4>1. b = a \/ q[b] < q[a]
        BY <1>1, <1>5, <2>2, <3>5
      <4> QED BY <1>3, <3>2, <3>3, <3>4, <4>1
    <3>6. CASE b > a
      <4>1. b = a + 1 \/ q[a + 1] < q[b]
        BY <1>1, <1>5, <2>2, <3>6
      <4> QED BY <1>3, <3>2, <3>3, <3>4, <4>1
    <3> QED BY <1>1, <3>5, <3>6
  <2>7. s[V[x].from] \in Alphabetic /\ s[V[y].from] \in Alphabetic
    BY <1>3, <2>2, <2>3, <2>4
  <2>8. y = x + 1
    BY <2>3, <2>4, <2>5, <2>6, <2>7, SideBySide
  <2>9. y = k + a
    BY <1>9, <2>1, <2>8
  <2> QED BY <2>4, <2>9
<1>14. T = 0..n - 1
  <2>1. T \in SUBSET (0..n - 1) /\ n - 1 \in Nat
    BY <1>1
  <2> HIDE DEF T
  <2> QED BY <1>12, <1>13, <2>1, UpToNumber
<1>15. ASSUME NEW a \in 1..n
       PROVE  k + a - 1 \in 1..Len(V) /\ V[k + a - 1].to = q[a] /\ V[k + a - 1].c = lit[a]
  <2>1. PICK b : b = a - 1
    OBVIOUS
  <2>2. b \in 0..n - 1 /\ k + b = k + a - 1 /\ b + 1 = a
    BY <1>1, <1>9, <2>1
  <2>3. Right(b)
    BY <1>14, <2>2
  <2> QED BY <2>2, <2>3
<1>16. StandsAt(V, lit, k)
  BY <1>1, <1>6, <1>15 DEF StandsAt
<1> QED BY <1>1, <1>6, <1>8, <1>11, <1>15, <1>16

(* ------------------------ Where a match ends ------------------------- *)
StandBefore(Hidden, i) == {k \in 1..i - 1 : text[k] \notin Hidden}
StandAfter(Hidden, j) == {k \in j + 1..Len(text) : text[k] \notin Hidden}
BeginsThere(Hidden, i) ==
    \A k \in StandBefore(Hidden, i) : (\A l \in StandBefore(Hidden, i) : l <= k) => text[k] \notin Alphabetic
EndsThere(Hidden, j) ==
    \A k \in StandAfter(Hidden, j) : (\A l \in StandAfter(Hidden, j) : l >= k) => text[k] \notin Alphabetic

LEMMA BeginsLeft ==
    ASSUME NEW V, NEW Hidden, NEW im, NEW C, Len(text) \in Nat,
           Shows(V, text, Hidden, im, C), Hidden \cap Alphabetic = {},
           NEW k \in 1..Len(V), V[k].c \in Alphabetic
    PROVE  LeftOK(V, k) <=> BeginsThere(Hidden, V[k].from)
<1>1. /\ Len(V) \in Nat
      /\ \A x \in 1..Len(V) : V[x].from \in 1..Len(text) /\ V[x].to \in 1..Len(text) /\ V[x].c \in C
  BY MarksAre DEF Shows
<1>2. PICK i : i = V[k].from
  OBVIOUS
<1>3. i \in 1..Len(text) /\ text[i] \in Alphabetic
  BY <1>1, <1>2 DEF Shows, Lettered
<1>4. ASSUME LeftOK(V, k), ~BeginsThere(Hidden, i) PROVE FALSE
  <2>1. PICK x \in StandBefore(Hidden, i) : (\A l \in StandBefore(Hidden, i) : l <= x) /\ text[x] \in Alphabetic
    BY <1>4 DEF BeginsThere
  <2>2. x \in 1..Len(text) /\ x < i
    BY <1>3, <2>1 DEF StandBefore
  <2>3. PICK y \in 1..Len(V) : V[y].from = x /\ V[y].to = x /\ V[y].c \in Alphabetic
    BY <2>1, <2>2 DEF Shows, Lettered
  <2>4. ASSUME NEW m \in 1..Len(text), V[y].from < m, m < V[k].from PROVE text[m] \in Hidden
    <3>1. SUFFICES ASSUME text[m] \notin Hidden PROVE FALSE
      OBVIOUS
    <3>2. m \in 1..i - 1 /\ ~(m <= x)
      BY <1>2, <1>3, <2>2, <2>3, <2>4
    <3>3. m \in StandBefore(Hidden, i)
      BY <3>1, <3>2 DEF StandBefore
    <3> QED BY <2>1, <3>2, <3>3
  <2>5. k = y + 1
    BY <1>2, <1>3, <2>1, <2>2, <2>3, <2>4, SideBySide
  <2>6. k # 1 /\ k - 1 = y
    BY <1>1, <2>5
  <2> QED BY <1>4, <2>3, <2>6 DEF LeftOK
<1>5. ASSUME ~LeftOK(V, k), BeginsThere(Hidden, i) PROVE FALSE
  <2>1. PICK y : y = k - 1
    OBVIOUS
  <2>2. y \in 1..Len(V) /\ k = y + 1 /\ y < k /\ V[y].c \in Alphabetic
    BY <1>1, <1>5, <2>1 DEF LeftOK
  <2>3. PICK x : x = V[y].from
    OBVIOUS
  <2>4. x = V[y].to /\ text[x] \in Alphabetic /\ x \in 1..Len(text)
    BY <1>1, <2>2, <2>3 DEF Shows, Lettered
  <2>5. x < i
    <3>1. V[y].to < V[k].from
      BY <2>2 DEF Shows, Ranged
    <3> QED BY <1>2, <2>4, <3>1
  <2>6. x \in StandBefore(Hidden, i)
    BY <1>3, <2>4, <2>5 DEF StandBefore
  <2>7. ASSUME NEW l \in StandBefore(Hidden, i) PROVE l <= x
    <3>1. SUFFICES ASSUME x < l PROVE FALSE
      BY <2>4, <2>7 DEF StandBefore
    <3>2. l \in 1..Len(text) /\ l < i /\ text[l] \notin Hidden
      BY <1>3, <2>7 DEF StandBefore
    <3>3. text[l] \in Hidden
      BY <1>2, <2>2, <2>3, <3>1, <3>2 DEF Shows, Closed
    <3> QED BY <3>2, <3>3
  <2> QED BY <1>5, <2>4, <2>6, <2>7 DEF BeginsThere
<1> QED BY <1>2, <1>4, <1>5

LEMMA EndsRight ==
    ASSUME NEW V, NEW Hidden, NEW im, NEW C, Len(text) \in Nat,
           Shows(V, text, Hidden, im, C), Hidden \cap Alphabetic = {},
           NEW k \in 1..Len(V), V[k].c \in Alphabetic
    PROVE  RightOK(V, k) <=> EndsThere(Hidden, V[k].to)
<1>1. /\ Len(V) \in Nat
      /\ \A x \in 1..Len(V) : V[x].from \in 1..Len(text) /\ V[x].to \in 1..Len(text) /\ V[x].c \in C
  BY MarksAre DEF Shows
<1>2. PICK i : i = V[k].to
  OBVIOUS
<1>3. i \in 1..Len(text) /\ i = V[k].from /\ text[i] \in Alphabetic
  BY <1>1, <1>2 DEF Shows, Lettered
<1>4. ASSUME RightOK(V, k), ~EndsThere(Hidden, i) PROVE FALSE
  <2>1. PICK x \in StandAfter(Hidden, i) : (\A l \in StandAfter(Hidden, i) : l >= x) /\ text[x] \in Alphabetic
    BY <1>4 DEF EndsThere
  <2>2. x \in 1..Len(text) /\ i < x
    BY <1>3, <2>1 DEF StandAfter
  <2>3. PICK y \in 1..Len(V) : V[y].from = x /\ V[y].to = x /\ V[y].c \in Alphabetic
    BY <2>1, <2>2 DEF Shows, Lettered
  <2>4. ASSUME NEW m \in 1..Len(text), V[k].from < m, m < V[y].from PROVE text[m] \in Hidden
    <3>1. SUFFICES ASSUME text[m] \notin Hidden PROVE FALSE
      OBVIOUS
    <3>2. m \in i + 1..Len(text) /\ ~(m >= x)
      BY <1>3, <2>2, <2>3, <2>4
    <3>3. m \in StandAfter(Hidden, i)
      BY <3>1, <3>2 DEF StandAfter
    <3> QED BY <2>1, <3>2, <3>3
  <2>5. y = k + 1
    BY <1>2, <1>3, <2>1, <2>2, <2>3, <2>4, SideBySide
  <2>6. k # Len(V) /\ k + 1 = y
    BY <1>1, <2>3, <2>5
  <2> QED BY <1>4, <2>3, <2>6 DEF RightOK
<1>5. ASSUME ~RightOK(V, k), EndsThere(Hidden, i) PROVE FALSE
  <2>1. PICK y : y = k + 1
    OBVIOUS
  <2>2. y \in 1..Len(V) /\ k < y /\ V[y].c \in Alphabetic
    BY <1>1, <1>5, <2>1 DEF RightOK
  <2>3. PICK x : x = V[y].from
    OBVIOUS
  <2>4. text[x] \in Alphabetic /\ x \in 1..Len(text)
    BY <1>1, <2>2, <2>3 DEF Shows, Lettered
  <2>5. i < x
    BY <1>2, <2>2, <2>3 DEF Shows, Ranged
  <2>6. x \in StandAfter(Hidden, i)
    BY <1>3, <2>4, <2>5 DEF StandAfter
  <2>7. ASSUME NEW l \in StandAfter(Hidden, i) PROVE l >= x
    <3>1. SUFFICES ASSUME l < x PROVE FALSE
      BY <1>3, <2>4, <2>7 DEF StandAfter
    <3>2. l \in 1..Len(text) /\ i < l /\ text[l] \notin Hidden
      BY <1>3, <2>7 DEF StandAfter
    <3>3. text[l] \in Hidden
      BY <1>3, <2>1, <2>2, <2>3, <3>1, <3>2 DEF Shows, Closed
    <3> QED BY <3>2, <3>3
  <2> QED BY <1>5, <2>4, <2>6, <2>7 DEF EndsThere
<1> QED BY <1>2, <1>4, <1>5

WordTypes == {"EXACT_WORD", "PREFIX", "SUFFIX", "CONTAINS"}

LEMMA EndsAtBoundary ==
    ASSUME NEW V, NEW Hidden, NEW im, NEW C, Len(text) \in Nat,
           Shows(V, text, Hidden, im, C), Hidden \cap Alphabetic = {},
           NEW k \in 1..Len(V), V[k].c \in Alphabetic, NEW l \in 1..Len(V), V[l].c \in Alphabetic,
           NEW type \in WordTypes
    PROVE  AtBoundary(V, k, l, type) <=> Ends(type, Hidden, V[k].from, V[l].to)
<1>1. LeftOK(V, k) <=> BeginsThere(Hidden, V[k].from)
  BY BeginsLeft
<1>2. RightOK(V, l) <=> EndsThere(Hidden, V[l].to)
  BY EndsRight
<1>3. Ends(type, Hidden, V[k].from, V[l].to) <=>
        /\ type \in {"EXACT_WORD", "PREFIX"} => BeginsThere(Hidden, V[k].from)
        /\ type \in {"EXACT_WORD", "SUFFIX"} => EndsThere(Hidden, V[l].to)
  BY DEF Ends, BeginsThere, EndsThere, StandBefore, StandAfter
<1>4. AtBoundary(V, k, l, type) <=>
        /\ type \in {"EXACT_WORD", "PREFIX"} => LeftOK(V, k)
        /\ type \in {"EXACT_WORD", "SUFFIX"} => RightOK(V, l)
  BY DEF AtBoundary, WordTypes
<1> QED BY <1>1, <1>2, <1>3, <1>4

\* Where a view matches is where the literal is read and ends as its type wants.
ReadRanges(Hidden, im, lit, type) ==
    {range \in (1..Len(text)) \X (1..Len(text)) :
        /\ Reads(text, Hidden, im, lit, range[1], range[2])
        /\ Ends(type, Hidden, range[1], range[2])}

LEMMA MatchesAreRead ==
    ASSUME NEW V, NEW Hidden, NEW im, NEW C, NEW lit \in Seq(Alphabetic), NEW type \in WordTypes,
           Len(text) \in Nat, Shows(V, text, Hidden, im, C), Hidden \cap Alphabetic = {}, lit # <<>>
    PROVE  MatchesOf(V, lit, type) = ReadRanges(Hidden, im, lit, type)
<1>1. PICK n \in Nat \ {0} : n = Len(lit)
  BY EmptySeq
<1>2. /\ Len(V) \in Nat
      /\ \A x \in 1..Len(V) : V[x].from \in 1..Len(text) /\ V[x].to \in 1..Len(text) /\ V[x].c \in C
  BY MarksAre DEF Shows
<1>3. ASSUME NEW k \in 1..Len(V) - n + 1
      PROVE  (SubSeq(Text(V), k, k + n - 1) = lit) <=> StandsAt(V, lit, k)
  <2>1. PICK t : t = Text(V)
    OBVIOUS
  <2>2. t \in Seq(C) /\ Len(t) = Len(V) /\ \A a \in 1..Len(V) : t[a] = V[a].c
    BY <1>2, <2>1 DEF Text
  <2>3. k \in 1..Len(V) /\ k + n - 1 \in 1..Len(V) /\ \A a \in 1..n : k + a - 1 \in 1..Len(V)
    BY <1>1, <1>2
  <2>4. PICK u : u = SubSeq(t, k, k + n - 1)
    OBVIOUS
  <2>5. u \in Seq(C) /\ Len(u) = n /\ \A a \in 1..n : u[a] = t[k + a - 1]
    <3>1. \A a \in k..k + n - 1 : t[a] \in C
      BY <1>1, <1>2, <2>2, <2>3
    <3>2. (k + n - 1) - k + 1 = n
      BY <1>1, <2>3
    <3> QED BY <1>1, <2>2, <2>3, <2>4, <3>2
  <2>6. (u = lit) <=> \A a \in 1..n : u[a] = lit[a]
    <3>1. u \in Seq(C \cup Alphabetic) /\ lit \in Seq(C \cup Alphabetic)
      BY <2>5
    <3> QED BY <1>1, <2>5, <3>1, SeqEqual
  <2>7. (\A a \in 1..n : u[a] = lit[a]) <=> \A a \in 1..n : V[k + a - 1].c = lit[a]
    BY <2>2, <2>3, <2>5
  <2> QED BY <1>1, <2>1, <2>3, <2>4, <2>6, <2>7 DEF StandsAt
<1>4. ASSUME NEW k, StandsAt(V, lit, k)
      PROVE  /\ k \in 1..Len(V) - n + 1 /\ k \in 1..Len(V) /\ k + n - 1 \in 1..Len(V)
             /\ V[k].c \in Alphabetic /\ V[k + n - 1].c \in Alphabetic
             /\ AtBoundary(V, k, k + n - 1, type) <=> Ends(type, Hidden, V[k].from, V[k + n - 1].to)
  <2>1. k \in 1..Len(V) /\ k + n - 1 \in 1..Len(V)
    BY <1>1, <1>4 DEF StandsAt
  <2>2. V[k].c = lit[1] /\ V[k + n - 1].c = lit[n]
    <3>1. 1 \in 1..n /\ n \in 1..n /\ k + 1 - 1 = k
      BY <1>1, <2>1
    <3>2. \A a \in 1..n : V[k + a - 1].c = lit[a]
      BY <1>1, <1>4 DEF StandsAt
    <3>3. V[k + 1 - 1].c = lit[1] /\ V[k + n - 1].c = lit[n]
      BY <3>1, <3>2
    <3> QED BY <3>1, <3>3
  <2>3. V[k].c \in Alphabetic /\ V[k + n - 1].c \in Alphabetic
    BY <1>1, <2>2
  <2>4. k \in 1..Len(V) - n + 1
    BY <1>1, <1>2, <2>1
  <2>5. AtBoundary(V, k, k + n - 1, type) <=> Ends(type, Hidden, V[k].from, V[k + n - 1].to)
    BY <2>1, <2>3, EndsAtBoundary
  <2> QED BY <2>1, <2>3, <2>4, <2>5
<1>5. ASSUME NEW r \in MatchesOf(V, lit, type) PROVE r \in ReadRanges(Hidden, im, lit, type)
  <2>1. PICK k \in 1..Len(V) - n + 1 :
            /\ SubSeq(Text(V), k, k + n - 1) = lit /\ AtBoundary(V, k, k + n - 1, type)
            /\ r = <<V[k].from, V[k + n - 1].to>>
    BY <1>1, <1>5 DEF MatchesOf
  <2>2. StandsAt(V, lit, k)
    BY <1>3, <2>1
  <2>3. Reads(text, Hidden, im, lit, V[k].from, V[k + n - 1].to)
    BY <1>1, <2>2, MatchIsRead
  <2>4. V[k].from \in 1..Len(text) /\ V[k + n - 1].to \in 1..Len(text)
    BY <1>2, <1>4, <2>2
  <2>5. Ends(type, Hidden, V[k].from, V[k + n - 1].to)
    BY <1>4, <2>1, <2>2
  <2> QED BY <2>1, <2>3, <2>4, <2>5 DEF ReadRanges
<1>6. ASSUME NEW r \in ReadRanges(Hidden, im, lit, type) PROVE r \in MatchesOf(V, lit, type)
  <2>1. PICK i \in 1..Len(text), j \in 1..Len(text) :
            /\ r = <<i, j>> /\ Reads(text, Hidden, im, lit, i, j) /\ Ends(type, Hidden, i, j)
    BY <1>6 DEF ReadRanges
  <2>2. PICK k : StandsAt(V, lit, k) /\ i = V[k].from /\ j = V[k + n - 1].to
    BY <1>1, <2>1, ReadIsMatch
  <2>3. k \in 1..Len(V) - n + 1 /\ AtBoundary(V, k, k + n - 1, type)
    BY <1>4, <2>1, <2>2
  <2>4. SubSeq(Text(V), k, k + n - 1) = lit
    BY <1>3, <2>2, <2>3
  <2> QED BY <1>1, <2>1, <2>2, <2>3, <2>4 DEF MatchesOf
<1> QED BY <1>5, <1>6

(* ------------------------ The canonical view ------------------------- *)
LEMMA FoldedLetters ==
    /\ \A c : Fold(c) \in Alphabetic <=> c \in Alphabetic
    /\ \A c : Latin(c) <=> c \in LatinCharacters
    /\ \A c : Latin(c) => c \in Alphabetic /\ c \notin Greek /\ Fold(c) \in Letters
    /\ \A c : c \in Greek => c \in Alphabetic /\ ~Latin(c) /\ Fold(c) = c /\ c \notin Letters
                             /\ Likeness[c] \in Letters
    /\ \A c : c \in Alphabetic /\ ~Latin(c) => c \in Greek
    /\ \A c : c \in Letters => c \in Alphabetic /\ Latin(c)
<1>1. \A c \in DOMAIN Capital : Capital[c] \in Letters
  BY MatchingConstants
<1>2. \A c \in Greek : Likeness[c] \in Letters
  BY MatchingConstants
<1> QED BY <1>1, <1>2, MatchingConstants DEF Fold, Alphabetic, Latin, LatinCharacters, Greek

LEMMA NotLetters ==
    /\ \A c : Separates(c) => c \notin Alphabetic /\ c \notin Invisible
    /\ \A c : c \in Invisible \cup Joiners \cup Starred => c \notin Alphabetic
    /\ " " \notin Alphabetic /\ "*" \notin Alphabetic
    /\ Invisible \cap Joiners = {} /\ Invisible \cap Starred = {} /\ Joiners \cap Starred = {}
BY MatchingConstants DEF Separates, Dots, Invisible, Joiners, Starred

Shown(Characters) == Characters \cup Letters \cup {" "}

\* What Canonical has after the first n characters.
Placed(view, s, n, C) ==
    /\ view \in Seq(Marks(C, s))
    /\ \A k \in 1..Len(view) : view[k].from <= view[k].to /\ view[k].to <= n
    /\ \A k, l \in 1..Len(view) : k < l => view[k].to < view[l].from
Spelled(view, s, n) ==
    /\ \A k \in 1..Len(view) : s[view[k].from] \notin Invisible
    /\ \A k \in 1..Len(view) : view[k].c \in Alphabetic =>
          view[k].from = view[k].to /\ s[view[k].from] \in Alphabetic /\ view[k].c = Fold(s[view[k].from])
    /\ \A k \in 1..Len(view) : view[k].c \notin Alphabetic => s[view[k].from] \notin Alphabetic
    /\ \A p \in 1..n : s[p] \in Alphabetic =>
          \E k \in 1..Len(view) : view[k].from = p /\ view[k].to = p /\ view[k].c = Fold(s[p])
Separated(view, s) ==
    /\ \A k \in 1..Len(view) : Separates(s[view[k].from]) => k # 1 /\ k # Len(view)
    /\ \A k, l \in 1..Len(view) : l = k + 1 /\ view[k].c \in Alphabetic /\ view[l].c \in Alphabetic =>
          \A m \in 1..Len(s) : view[k].from < m /\ m < view[l].from => s[m] \in Invisible
Pending(view, gap, s, n) ==
    /\ \A m \in 1..n : (\A k \in 1..Len(view) : view[k].to < m) /\ gap = <<>> => s[m] \in Invisible
    /\ gap = <<>> \/ \E a, b \in 1..n : /\ gap = <<a, b>> /\ a <= b /\ Separates(s[a])
                                        /\ \A k \in 1..Len(view) : view[k].to < a
ReadTo(st, s, n, C) ==
    /\ Placed(st.view, s, n, C) /\ Spelled(st.view, s, n)
    /\ Separated(st.view, s) /\ Pending(st.view, st.gap, s, n)

LEMMA TakeInvisible ==
    ASSUME NEW Characters, NEW s \in Seq(Characters), NEW n \in 1..Len(s), NEW st,
           ReadTo(st, s, n - 1, Shown(Characters)), s[n] \in Invisible
    PROVE  ReadTo(st, s, n, Shown(Characters))
<1>1. PICK C : C = Shown(Characters)
  OBVIOUS
<1>2. PICK v : v = st.view
  OBVIOUS
<1>3. PICK g : g = st.gap
  OBVIOUS
<1>4. Placed(v, s, n - 1, C) /\ Spelled(v, s, n - 1) /\ Separated(v, s) /\ Pending(v, g, s, n - 1)
  BY <1>1, <1>2, <1>3 DEF ReadTo
<1>5. n \in Nat /\ Len(v) \in Nat /\ \A k \in 1..Len(v) : v[k] \in Marks(C, s)
  BY <1>4 DEF Placed
<1>6. \A k \in 1..Len(v) : v[k].to \in Nat
  BY <1>5 DEF Marks
<1>7. Placed(v, s, n, C)
  <2>1. \A k \in 1..Len(v) : v[k].to <= n - 1 => v[k].to <= n
    BY <1>5, <1>6
  <2> QED BY <1>4, <2>1 DEF Placed
<1>8. \A p \in 1..n : p = n \/ p \in 1..n - 1
  BY <1>5
<1>9. s[n] \notin Alphabetic
  BY NotLetters
<1>10. Spelled(v, s, n)
  BY <1>4, <1>8, <1>9 DEF Spelled
<1>11. Pending(v, g, s, n)
  <2>1. \A m \in 1..n : (\A k \in 1..Len(v) : v[k].to < m) /\ g = <<>> => s[m] \in Invisible
    BY <1>4, <1>8 DEF Pending
  <2>2. \A a \in 1..n - 1 : a \in 1..n
    BY <1>5
  <2> QED BY <1>4, <2>1, <2>2 DEF Pending
<1> QED BY <1>1, <1>2, <1>3, <1>4, <1>7, <1>10, <1>11 DEF ReadTo

LEMMA TakeSeparator ==
    ASSUME NEW Characters, NEW s \in Seq(Characters), NEW n \in 1..Len(s), NEW st,
           ReadTo(st, s, n - 1, Shown(Characters)), Separates(s[n])
    PROVE  ReadTo(Take(st, s[n], n), s, n, Shown(Characters))
<1>1. PICK C : C = Shown(Characters)
  OBVIOUS
<1>2. PICK v : v = st.view
  OBVIOUS
<1>3. PICK g : g = st.gap
  OBVIOUS
<1>4. Placed(v, s, n - 1, C) /\ Spelled(v, s, n - 1) /\ Separated(v, s) /\ Pending(v, g, s, n - 1)
  BY <1>1, <1>2, <1>3 DEF ReadTo
<1>5. n \in Nat /\ Len(v) \in Nat /\ \A k \in 1..Len(v) : v[k] \in Marks(C, s)
  BY <1>4 DEF Placed
<1>6. \A k \in 1..Len(v) : v[k].to \in Nat
  BY <1>5 DEF Marks
<1>7. PICK h : h = IF g = <<>> THEN <<n, n>> ELSE <<g[1], n>>
  OBVIOUS
<1>8. Take(st, s[n], n) = [view |-> v, gap |-> h]
  BY <1>2, <1>3, <1>7, NotLetters DEF Take
<1>9. Placed(v, s, n, C)
  <2>1. \A k \in 1..Len(v) : v[k].to <= n - 1 => v[k].to <= n
    BY <1>5, <1>6
  <2> QED BY <1>4, <2>1 DEF Placed
<1>10. \A p \in 1..n : p = n \/ p \in 1..n - 1
  BY <1>5
<1>11. s[n] \notin Alphabetic
  BY NotLetters
<1>12. Spelled(v, s, n)
  BY <1>4, <1>10, <1>11 DEF Spelled
<1>13. Pending(v, h, s, n)
  <2>1. \E a, b \in 1..n : /\ h = <<a, b>> /\ a <= b /\ Separates(s[a])
                           /\ \A k \in 1..Len(v) : v[k].to < a
    <3>1. CASE g = <<>>
      <4>1. h = <<n, n>> /\ n \in 1..n /\ n <= n
        BY <1>5, <1>7, <3>1
      <4>2. \A k \in 1..Len(v) : v[k].to < n
        <5>1. \A k \in 1..Len(v) : v[k].to <= n - 1
          BY <1>4 DEF Placed
        <5> QED BY <1>5, <1>6, <5>1
      <4> QED BY <4>1, <4>2
    <3>2. CASE g # <<>>
      <4>1. PICK a \in 1..n - 1 : \E b \in 1..n - 1 : /\ g = <<a, b>> /\ a <= b /\ Separates(s[a])
                                        /\ \A k \in 1..Len(v) : v[k].to < a
        BY <1>4, <3>2 DEF Pending
      <4>2. h = <<a, n>> /\ a \in 1..n /\ n \in 1..n /\ a <= n
        BY <1>5, <1>7, <3>2, <4>1
      <4> QED BY <4>1, <4>2
    <3> QED BY <3>1, <3>2
  <2>2. h # <<>>
    BY <2>1
  <2> QED BY <2>1, <2>2 DEF Pending
<1>14. ReadTo([view |-> v, gap |-> h], s, n, C)
  BY <1>4, <1>9, <1>12, <1>13 DEF ReadTo
<1> QED BY <1>1, <1>8, <1>14

LEMMA TakeKept ==
    ASSUME NEW Characters, NEW s \in Seq(Characters), NEW n \in 1..Len(s), NEW st,
           ReadTo(st, s, n - 1, Shown(Characters)), s[n] \notin Invisible, ~Separates(s[n])
    PROVE  ReadTo(Take(st, s[n], n), s, n, Shown(Characters))
<1>1. PICK C : C = Shown(Characters)
  OBVIOUS
<1>2. PICK v : v = st.view
  OBVIOUS
<1>3. PICK g : g = st.gap
  OBVIOUS
<1>4. Placed(v, s, n - 1, C) /\ Spelled(v, s, n - 1) /\ Separated(v, s) /\ Pending(v, g, s, n - 1)
  BY <1>1, <1>2, <1>3 DEF ReadTo
<1>5. n \in Nat /\ Len(s) \in Nat /\ Len(v) \in Nat /\ v \in Seq(Marks(C, s))
      /\ \A k \in 1..Len(v) : v[k] \in Marks(C, s)
  BY <1>4 DEF Placed
<1>6. \A k \in 1..Len(v) : v[k].to \in Nat /\ v[k].from \in Nat
  BY <1>5 DEF Marks
<1>7. PICK e : e = [c |-> Fold(s[n]), from |-> n, to |-> n]
  OBVIOUS
<1>8. PICK d : d = [c |-> " ", from |-> g[1], to |-> g[2]]
  OBVIOUS
<1>9. PICK w : w = v \o (IF g # <<>> /\ v # <<>> THEN <<d>> ELSE <<>>) \o <<e>>
  OBVIOUS
<1>10. Take(st, s[n], n) = [view |-> w, gap |-> <<>>]
  BY <1>2, <1>3, <1>7, <1>8, <1>9 DEF Take
<1>11. e.c = Fold(s[n]) /\ e.from = n /\ e.to = n /\ e \in Marks(C, s)
  <2>1. s[n] \in Characters
    BY <1>5
  <2>2. Fold(s[n]) \in C
    BY <1>1, <2>1, MatchingConstants DEF Fold, Shown
  <2> QED BY <1>5, <1>7, <2>2 DEF Marks
<1>12. g # <<>> =>
          /\ d.c = " " /\ d \in Marks(C, s) /\ d.from <= d.to /\ d.to <= n - 1
          /\ d.from \in 1..n - 1 /\ d.to \in 1..n - 1 /\ Separates(s[d.from])
          /\ \A k \in 1..Len(v) : v[k].to < d.from
  <2>1. SUFFICES ASSUME g # <<>>
                 PROVE  /\ d.c = " " /\ d \in Marks(C, s) /\ d.from <= d.to /\ d.to <= n - 1
                        /\ d.from \in 1..n - 1 /\ d.to \in 1..n - 1 /\ Separates(s[d.from])
                        /\ \A k \in 1..Len(v) : v[k].to < d.from
    OBVIOUS
  <2>2. PICK a \in 1..n - 1, b \in 1..n - 1 : /\ g = <<a, b>> /\ a <= b /\ Separates(s[a])
                                        /\ \A k \in 1..Len(v) : v[k].to < a
    BY <1>4, <2>1 DEF Pending
  <2>3. d.c = " " /\ d.from = a /\ d.to = b
    BY <1>8, <2>2
  <2>4. d \in Marks(C, s)
    <3>1. " " \in C
      BY <1>1 DEF Shown
    <3>2. a \in 1..Len(s) /\ b \in 1..Len(s)
      BY <1>5
    <3>3. d = [c |-> " ", from |-> a, to |-> b]
      BY <1>8, <2>2
    <3> QED BY <3>1, <3>2, <3>3 DEF Marks
  <2>5. b <= n - 1
    BY <1>5
  <2>6. \A k \in 1..Len(v) : v[k].to < d.from
    BY <2>2, <2>3
  <2>7. Separates(s[d.from])
    BY <2>2, <2>3
  <2> QED BY <2>2, <2>3, <2>4, <2>5, <2>6, <2>7
<1>13. PICK N \in Nat : N = Len(w)
  <2> DEFINE M == {e, d} \cup Marks(C, s)
  <2>1. v \in Seq(M)
    BY <1>5
  <2>2. <<>> \in Seq(M) /\ <<d>> \in Seq(M) /\ <<e>> \in Seq(M)
    OBVIOUS
  <2>3. w \in Seq(M)
    <3> HIDE DEF M
    <3> QED BY <1>9, <2>1, <2>2
  <2> QED BY <2>3
<1>14. /\ w \in Seq(Marks(C, s)) /\ w[N] = e
       /\ \A k \in 1..Len(v) : w[k] = v[k]
       /\ \/ N = Len(v) + 1 /\ (g = <<>> \/ Len(v) = 0)
          \/ N = Len(v) + 2 /\ g # <<>> /\ Len(v) # 0 /\ w[N - 1] = d
  <2>1. CASE g # <<>> /\ v # <<>>
    <3>1. w = v \o <<d>> \o <<e>> /\ Len(v) # 0
      BY <1>5, <1>9, <2>1, EmptySeq
    <3>2. d \in Marks(C, s)
      BY <1>12, <2>1
    <3> QED BY <1>5, <1>11, <1>13, <2>1, <3>1, <3>2
  <2>2. CASE ~(g # <<>> /\ v # <<>>)
    <3>1. w = v \o <<>> \o <<e>> /\ (g = <<>> \/ Len(v) = 0)
      BY <1>5, <1>9, <2>2, EmptySeq
    <3>2. v \o <<>> = v
      BY <1>5
    <3>3. w = v \o <<e>>
      BY <3>1, <3>2
    <3> QED BY <1>5, <1>11, <1>13, <3>1, <3>3
  <2> QED BY <2>1, <2>2
<1>15. ASSUME NEW k \in 1..N
       PROVE  \/ k \in 1..Len(v) /\ w[k] = v[k] /\ k # N
              \/ k = N /\ w[k] = e
              \/ k = N - 1 /\ w[k] = d /\ g # <<>> /\ k # 1 /\ k # N /\ k = Len(v) + 1
  <2>1. CASE N = Len(v) + 1
    <3>1. k \in 1..Len(v) \/ k = N
      BY <1>5, <2>1
    <3>2. k \in 1..Len(v) => k # N
      BY <1>5, <2>1
    <3> QED BY <1>14, <3>1, <3>2
  <2>2. CASE N = Len(v) + 2 /\ g # <<>> /\ Len(v) # 0 /\ w[N - 1] = d
    <3>1. \/ k \in 1..Len(v) /\ k # N
          \/ k = N
          \/ k = N - 1 /\ k # 1 /\ k # N /\ k = Len(v) + 1
      BY <1>5, <2>2
    <3> QED BY <1>14, <2>2, <3>1
  <2> QED BY <1>14, <2>1, <2>2
<1>16. \A k \in 1..Len(v) : v[k].from <= v[k].to /\ v[k].to <= n - 1
  BY <1>4 DEF Placed
<1>17. Placed(w, s, n, C)
  <2>1. ASSUME NEW k \in 1..N PROVE w[k].from <= w[k].to /\ w[k].to <= n
    <3>1. CASE k \in 1..Len(v) /\ w[k] = v[k]
      BY <1>5, <1>6, <1>16, <3>1
    <3>2. CASE w[k] = e
      BY <1>5, <1>11, <3>2
    <3>3. CASE w[k] = d /\ g # <<>>
      <4>1. d.from <= d.to /\ d.to <= n - 1 /\ d.to \in 1..n - 1
        BY <1>12, <3>3, Zenon
      <4> QED BY <1>5, <3>3, <4>1
    <3>4. (k \in 1..Len(v) /\ w[k] = v[k]) \/ w[k] = e \/ (w[k] = d /\ g # <<>>)
      BY <1>15
    <3> QED BY <3>1, <3>2, <3>3, <3>4, Zenon
  <2>2. ASSUME NEW k \in 1..N, NEW l \in 1..N, k < l PROVE w[k].to < w[l].from
    <3>1. CASE l \in 1..Len(v) /\ w[l] = v[l]
      <4>1. k \in 1..Len(v) /\ w[k] = v[k]
        BY <1>5, <1>14, <2>2, <3>1
      <4> QED BY <1>4, <2>2, <3>1, <4>1 DEF Placed
    <3>2. CASE l = N /\ w[l] = e
      <4>1. k # N
        BY <2>2, <3>2
      <4>2. w[k].to <= n - 1 /\ w[k].to \in Nat
        <5>1. CASE k \in 1..Len(v) /\ w[k] = v[k]
          BY <1>6, <1>16, <5>1
        <5>2. CASE w[k] = d /\ g # <<>>
          <6>1. d.to <= n - 1 /\ d.to \in 1..n - 1
            BY <1>12, <5>2, Zenon
          <6> QED BY <5>2, <6>1
        <5>3. (k \in 1..Len(v) /\ w[k] = v[k]) \/ (w[k] = d /\ g # <<>>)
          BY <1>15, <4>1
        <5> QED BY <5>1, <5>2, <5>3, Zenon
      <4> QED BY <1>5, <1>11, <3>2, <4>2
    <3>3. CASE w[l] = d /\ g # <<>> /\ l = Len(v) + 1
      <4>1. k \in 1..Len(v) /\ w[k] = v[k]
        BY <1>5, <1>14, <2>2, <3>3
      <4> QED BY <1>12, <3>3, <4>1
    <3> QED BY <1>15, <3>1, <3>2, <3>3
  <2> QED BY <1>13, <1>14, <2>1, <2>2 DEF Placed
<1>18. ASSUME NEW k \in 1..N, w[k] = d, g # <<>>
       PROVE  w[k].c \notin Alphabetic /\ Separates(s[w[k].from])
  BY <1>12, <1>18, NotLetters
<1>19. Spelled(w, s, n)
  <2>1. ASSUME NEW k \in 1..N
        PROVE  /\ s[w[k].from] \notin Invisible
               /\ w[k].c \in Alphabetic => w[k].from = w[k].to /\ s[w[k].from] \in Alphabetic
                                             /\ w[k].c = Fold(s[w[k].from])
               /\ w[k].c \notin Alphabetic => s[w[k].from] \notin Alphabetic
    <3>1. CASE k \in 1..Len(v) /\ w[k] = v[k]
      BY <1>4, <3>1 DEF Spelled
    <3>2. CASE k = N /\ w[k] = e
      BY <1>11, <3>2, FoldedLetters
    <3>3. CASE w[k] = d /\ g # <<>>
      BY <1>18, <3>3, NotLetters
    <3> QED BY <1>15, <3>1, <3>2, <3>3
  <2>2. ASSUME NEW p \in 1..n, s[p] \in Alphabetic
        PROVE  \E k \in 1..N : w[k].from = p /\ w[k].to = p /\ w[k].c = Fold(s[p])
    <3>1. CASE p = n
      <4>1. N \in 1..N
        BY <1>5, <1>13, <1>14
      <4> QED BY <1>11, <1>14, <3>1, <4>1
    <3>2. CASE p # n
      <4>1. p \in 1..n - 1
        BY <1>5, <3>2
      <4>2. PICK k \in 1..Len(v) : v[k].from = p /\ v[k].to = p /\ v[k].c = Fold(s[p])
        BY <1>4, <2>2, <4>1 DEF Spelled
      <4>3. k \in 1..N
        BY <1>5, <1>14
      <4> QED BY <1>14, <4>2, <4>3
    <3> QED BY <3>1, <3>2
  <2> QED BY <1>13, <2>1, <2>2 DEF Spelled
<1>20. Separated(w, s)
  <2>1. ASSUME NEW k \in 1..N, Separates(s[w[k].from]) PROVE k # 1 /\ k # N
    <3>1. CASE k \in 1..Len(v) /\ w[k] = v[k] /\ k # N
      BY <1>4, <2>1, <3>1 DEF Separated
    <3>2. CASE k = N /\ w[k] = e
      BY <1>11, <2>1, <3>2
    <3> QED BY <1>15, <3>1, <3>2
  <2>2. ASSUME NEW k \in 1..N, NEW l \in 1..N, l = k + 1, w[k].c \in Alphabetic, w[l].c \in Alphabetic,
               NEW m \in 1..Len(s), w[k].from < m, m < w[l].from
        PROVE  s[m] \in Invisible
    <3>1. w[k] # d \/ g = <<>>
      BY <1>18, <2>2
    <3>2. w[l] # d \/ g = <<>>
      BY <1>18, <2>2
    <3>3. k \in 1..Len(v) /\ w[k] = v[k] /\ k # N
      BY <1>13, <1>15, <2>2, <3>1
    <3>4. CASE l \in 1..Len(v) /\ w[l] = v[l]
      BY <1>4, <2>2, <3>3, <3>4 DEF Separated
    <3>5. CASE l = N /\ w[l] = e
      <4>1. k = Len(v) /\ g = <<>>
        BY <1>5, <1>13, <1>14, <1>18, <2>2, <3>1, <3>2, <3>3, <3>5
      <4>2. v[k].to = v[k].from
        BY <1>4, <2>2, <3>3 DEF Spelled
      <4>3. ASSUME NEW x \in 1..Len(v) PROVE v[x].to < m
        <5>1. CASE x = k
          BY <2>2, <3>3, <4>2, <5>1
        <5>2. CASE x # k
          <6>1. x < k
            BY <1>5, <4>1, <5>2
          <6>2. v[x].to < v[k].from
            BY <1>4, <3>3, <6>1 DEF Placed
          <6> QED BY <1>6, <2>2, <3>3, <6>2
        <5> QED BY <5>1, <5>2
      <4>4. m \in 1..n - 1
        BY <1>5, <1>11, <2>2, <3>5
      <4> QED BY <1>4, <4>1, <4>3, <4>4 DEF Pending
    <3> QED BY <1>15, <3>2, <3>4, <3>5
  <2> QED BY <1>13, <2>1, <2>2 DEF Separated
<1>21. Pending(w, <<>>, s, n)
  <2>1. ASSUME NEW m \in 1..n, \A k \in 1..N : w[k].to < m PROVE FALSE
    <3>1. N \in 1..N
      BY <1>5, <1>13, <1>14
    <3>2. n < m
      BY <1>11, <1>14, <2>1, <3>1
    <3> QED BY <1>5, <3>2
  <2> QED BY <1>13, <2>1 DEF Pending
<1>22. ReadTo([view |-> w, gap |-> <<>>], s, n, C)
  BY <1>17, <1>19, <1>20, <1>21 DEF ReadTo
<1> QED BY <1>1, <1>10, <1>22

\* One step of Canonical.
ReadOne(f, s, i) == IF i = 0 THEN [view |-> <<>>, gap |-> <<>>] ELSE Take(f[i - 1], s[i], i)

LEMMA ReadExists ==
    ASSUME NEW s, Len(s) \in Nat
    PROVE  \E f : f = [i \in 0..Len(s) |-> ReadOne(f, s, i)]
<1> DEFINE T == {m \in 0..Len(s) : \E f : f = [i \in 0..m |-> ReadOne(f, s, i)]}
<1>1. 0 \in T
  <2>1. PICK f : f = [i \in 0..0 |-> [view |-> <<>>, gap |-> <<>>]]
    OBVIOUS
  <2>2. \A i \in 0..0 : ReadOne(f, s, i) = [view |-> <<>>, gap |-> <<>>]
    BY DEF ReadOne
  <2>3. f = [i \in 0..0 |-> ReadOne(f, s, i)]
    BY <2>1, <2>2
  <2> QED BY <2>3
<1>2. ASSUME NEW m \in 1..Len(s), m - 1 \in T PROVE m \in T
  <2>1. PICK f : f = [i \in 0..m - 1 |-> ReadOne(f, s, i)]
    BY <1>2
  <2>2. PICK g : g = [i \in 0..m |-> IF i = m THEN ReadOne(f, s, m) ELSE f[i]]
    OBVIOUS
  <2>3. \A i \in 0..m - 1 : g[i] = f[i]
    BY <2>2
  <2>4. ASSUME NEW i \in 0..m PROVE g[i] = ReadOne(g, s, i)
    <3>1. ReadOne(g, s, i) = ReadOne(f, s, i)
      BY <2>3 DEF ReadOne
    <3>2. i # m => f[i] = ReadOne(f, s, i)
      BY <2>1
    <3> QED BY <2>2, <3>1, <3>2
  <2>5. g = [i \in 0..m |-> ReadOne(g, s, i)]
    BY <2>2, <2>4
  <2> QED BY <2>5
<1>3. T = 0..Len(s)
  <2> HIDE DEF T
  <2>1. T \in SUBSET (0..Len(s))
    BY DEF T
  <2> QED BY <1>1, <1>2, <2>1, UpToNumber
<1> QED BY <1>3

LEMMA CanonicalRead ==
    ASSUME NEW Characters, NEW s \in Seq(Characters)
    PROVE  /\ Placed(Canonical(s), s, Len(s), Shown(Characters))
           /\ Spelled(Canonical(s), s, Len(s))
           /\ Separated(Canonical(s), s)
<1>1. Len(s) \in Nat
  OBVIOUS
<1> DEFINE E(f) == f = [i \in 0..Len(s) |-> ReadOne(f, s, i)]
<1>2. PICK f : E(f) /\ Canonical(s) = f[Len(s)].view
  <2>1. \E f : E(f)
    BY <1>1, ReadExists
  <2>2. Canonical(s) = (CHOOSE f : E(f))[Len(s)].view
    BY DEF Canonical, ReadOne
  <2> QED BY <2>1, <2>2
<1>3. \A i \in 0..Len(s) : f[i] = ReadOne(f, s, i)
  BY <1>2
<1>4. PICK C : C = Shown(Characters)
  OBVIOUS
<1> DEFINE T == {m \in 0..Len(s) : ReadTo(f[m], s, m, C)}
<1>5. 0 \in T
  <2>1. f[0] = [view |-> <<>>, gap |-> <<>>]
    BY <1>1, <1>3 DEF ReadOne
  <2>2. 1..Len(<<>>) = {} /\ 1..0 = {} /\ <<>> \in Seq(Marks(C, s))
    OBVIOUS
  <2>3. Placed(<<>>, s, 0, C) /\ Spelled(<<>>, s, 0) /\ Separated(<<>>, s) /\ Pending(<<>>, <<>>, s, 0)
    BY <2>2 DEF Placed, Spelled, Separated, Pending
  <2>4. ReadTo(f[0], s, 0, C)
    BY <2>1, <2>3 DEF ReadTo
  <2> QED BY <1>1, <2>4
<1>6. ASSUME NEW m \in 1..Len(s), m - 1 \in T PROVE m \in T
  <2>1. PICK st : st = f[m - 1]
    OBVIOUS
  <2>2. ReadTo(st, s, m - 1, Shown(Characters)) /\ f[m] = Take(st, s[m], m)
    <3>1. m \in 0..Len(s) /\ m # 0
      OBVIOUS
    <3>2. f[m] = ReadOne(f, s, m)
      BY <1>3, <3>1
    <3> QED BY <1>4, <1>6, <2>1, <3>1, <3>2 DEF ReadOne
  <2>3. CASE s[m] \in Invisible
    <3>1. Take(st, s[m], m) = st
      BY <2>3 DEF Take
    <3> QED BY <1>4, <2>2, <2>3, <3>1, TakeInvisible
  <2>4. CASE Separates(s[m])
    BY <1>4, <2>2, <2>4, TakeSeparator
  <2>5. CASE s[m] \notin Invisible /\ ~Separates(s[m])
    BY <1>4, <2>2, <2>5, TakeKept
  <2> QED BY <2>3, <2>4, <2>5
<1>7. T = 0..Len(s)
  <2> HIDE DEF T
  <2>1. T \in SUBSET (0..Len(s))
    BY DEF T
  <2> QED BY <1>5, <1>6, <2>1, UpToNumber
<1>8. ReadTo(f[Len(s)], s, Len(s), C)
  BY <1>1, <1>7
<1> QED BY <1>2, <1>4, <1>8 DEF ReadTo

Folded(s) == [p \in 1..Len(s) |-> Fold(s[p])]

LEMMA CanonicalShows ==
    ASSUME NEW Characters, NEW s \in Seq(Characters)
    PROVE  Shows(Canonical(s), s, Invisible, Folded(s), Shown(Characters))
<1>1. PICK C : C = Shown(Characters)
  OBVIOUS
<1>2. PICK V : V = Canonical(s)
  OBVIOUS
<1>3. Placed(V, s, Len(s), C) /\ Spelled(V, s, Len(s)) /\ Separated(V, s)
  BY <1>1, <1>2, CanonicalRead
<1>4. Ranged(V, s, C)
  BY <1>3 DEF Placed, Ranged
<1>5. \A k \in 1..Len(V) : V[k].from \in 1..Len(s)
  BY <1>4, MarksAre
<1>6. Lettered(V, s, Folded(s))
  <2>1. \A p \in 1..Len(s) : Folded(s)[p] = Fold(s[p])
    BY DEF Folded
  <2>2. \A p \in 1..Len(s) : s[p] \in Alphabetic => Folded(s)[p] \in Alphabetic
    BY <2>1, FoldedLetters
  <2>3. \A k \in 1..Len(V) : V[k].c \in Alphabetic =>
          V[k].from = V[k].to /\ s[V[k].from] \in Alphabetic /\ V[k].c = Folded(s)[V[k].from]
    BY <1>3, <1>5, <2>1 DEF Spelled
  <2>4. \A p \in 1..Len(s) : s[p] \in Alphabetic =>
          \E k \in 1..Len(V) : V[k].from = p /\ V[k].to = p /\ V[k].c = Folded(s)[p]
    BY <1>3, <2>1 DEF Spelled
  <2> QED BY <2>2, <2>3, <2>4 DEF Lettered
<1>7. Closed(V, s, Invisible)
  <2>1. ASSUME NEW p \in 1..Len(s), NEW q \in 1..Len(s), NEW k \in 1..Len(V),
               p < V[k].from, V[k].from < q
        PROVE  \E m \in 1..Len(s) : p < m /\ m < q /\ s[m] \notin Invisible
    BY <1>3, <1>5, <2>1 DEF Spelled
  <2> QED BY <1>3, <2>1 DEF Closed, Separated
<1> QED BY <1>1, <1>2, <1>4, <1>6, <1>7 DEF Shows

\* The canonical form of a pattern that is one word.
Kept(s) == Ascending({i \in 1..Len(s) : s[i] # "*"}, Len(s))
LEMMA CanonicalWord ==
    ASSUME NEW Characters, NEW s \in Seq(Characters),
           \A i \in 1..Len(s) : s[i] \in Alphabetic \/ (s[i] = "*" /\ i \in {1, Len(s)})
    PROVE  Text(Canonical(s)) = [n \in 1..Len(Kept(s)) |-> Fold(s[Kept(s)[n]])]
<1>1. PICK C : C = Shown(Characters)
  OBVIOUS
<1>2. PICK V : V = Canonical(s)
  OBVIOUS
<1>3. Placed(V, s, Len(s), C) /\ Spelled(V, s, Len(s)) /\ Separated(V, s) /\ Ranged(V, s, C)
  BY <1>1, <1>2, CanonicalRead DEF Placed, Ranged
<1>4. Len(s) \in Nat
  OBVIOUS
<1>5. /\ Len(V) \in Nat
      /\ \A k \in 1..Len(V) : V[k].from \in 1..Len(s) /\ V[k].to \in 1..Len(s) /\ V[k].c \in C
  BY <1>3, <1>4, MarksAre
<1>6. ASSUME NEW k \in 1..Len(V)
      PROVE  s[V[k].from] # "*" /\ V[k].c = Fold(s[V[k].from])
  <2>1. PICK p \in 1..Len(s) : p = V[k].from
    BY <1>5
  <2>2. ASSUME s[p] = "*" PROVE FALSE
    <3>1. k # 1 /\ k # Len(V)
      BY <1>3, <2>1, <2>2 DEF Separates, Separated
    <3>2. p \in {1, Len(s)}
      BY <2>2, NotLetters
    <3>3. CASE p = 1
      <4>1. 1 \in 1..Len(V) /\ 1 < k
        BY <1>5, <3>1
      <4>2. V[1].to < V[k].from
        BY <1>3, <4>1 DEF Ranged
      <4> QED BY <1>5, <2>1, <3>3, <4>1, <4>2
    <3>4. CASE p = Len(s)
      <4>1. PICK l : l = k + 1
        OBVIOUS
      <4>2. l \in 1..Len(V) /\ k < l
        BY <1>5, <3>1, <4>1
      <4>3. V[k].to < V[l].from /\ V[k].from <= V[k].to
        BY <1>3, <4>2 DEF Ranged
      <4>4. V[l].from \in 1..Len(s) /\ V[k].to \in 1..Len(s)
        BY <1>5, <4>2
      <4> QED BY <1>4, <2>1, <3>4, <4>3, <4>4
    <3> QED BY <3>2, <3>3, <3>4
  <2>3. V[k].c \in Alphabetic
    BY <1>3, <2>1, <2>2 DEF Spelled
  <2> QED BY <1>3, <2>1, <2>2, <2>3 DEF Spelled
<1>7. PICK q : q = [k \in 1..Len(V) |-> V[k].from]
  OBVIOUS
<1> DEFINE S == {i \in 1..Len(s) : s[i] # "*"}
<1>8. q \in Seq(Nat) /\ Len(q) = Len(V) /\ \A k \in 1..Len(V) : q[k] = V[k].from
  <2>1. \A k \in 1..Len(V) : V[k].from \in Nat
    BY <1>5
  <2> QED BY <1>5, <1>7, <2>1
<1>9. Lists(q, S, Len(s))
  <2>1. \A k \in 1..Len(V) : q[k] \in S /\ q[k] \in 1..Len(s)
    BY <1>5, <1>6, <1>8
  <2>2. ASSUME NEW k \in 1..Len(V), NEW l \in 1..Len(V), k < l PROVE q[k] < q[l]
    <3>1. V[k].to < V[l].from /\ V[k].from <= V[k].to
      BY <1>3, <2>2 DEF Ranged
    <3>2. V[k].to \in Nat /\ V[k].from \in Nat /\ V[l].from \in Nat
      BY <1>5
    <3> QED BY <1>8, <3>1, <3>2
  <2>3. ASSUME NEW p \in S \cap (1..Len(s)) PROVE \E k \in 1..Len(V) : q[k] = p
    <3>1. p \in 1..Len(s) /\ s[p] \in Alphabetic
      OBVIOUS
    <3>2. \E k \in 1..Len(V) : V[k].from = p
      BY <1>3, <3>1 DEF Spelled
    <3> QED BY <1>8, <3>2
  <2> HIDE DEF S
  <2> QED BY <1>8, <2>1, <2>2, <2>3 DEF Lists
<1>10. Kept(s) = q
  <2>1. Lists(Kept(s), S, Len(s))
    BY <1>4, AscendingLists DEF Kept
  <2> HIDE DEF S
  <2> QED BY <1>4, <1>9, <2>1, OneListing
<1>11. Text(V) = [k \in 1..Len(V) |-> Fold(s[q[k]])]
  BY <1>6, <1>8 DEF Text
<1> QED BY <1>2, <1>8, <1>10, <1>11

(* ------------------------- The security view ------------------------- *)
HiddenInWords == Invisible \cup Joiners \cup Starred

LEMMA NextIs ==
    ASSUME NEW s, NEW kept \in SUBSET Nat, NEW Skipped, NEW m \in Nat, NEW q \in kept,
           m < q, s[q] \notin Skipped, \A j \in kept : m < j /\ j < q => s[j] \in Skipped
    PROVE  Neighbour(s, kept, m, 1, Skipped) = s[q]
<1> DEFINE stands == {j \in kept : 1 * m < 1 * j /\ s[j] \notin Skipped}
<1>1. q \in stands /\ \A k \in stands : 1 * q <= 1 * k
  OBVIOUS
<1>2. \A j \in stands : (\A k \in stands : 1 * j <= 1 * k) => j = q
  BY <1>1
<1>3. (CHOOSE j \in stands : \A k \in stands : 1 * j <= 1 * k) = q
  <2> HIDE DEF stands
  <2> QED BY <1>1, <1>2
<1> QED BY <1>1, <1>3 DEF Neighbour

LEMMA PreviousIs ==
    ASSUME NEW s, NEW kept \in SUBSET Nat, NEW Skipped, NEW m \in Nat, NEW p \in kept,
           p < m, s[p] \notin Skipped, \A j \in kept : p < j /\ j < m => s[j] \in Skipped
    PROVE  Neighbour(s, kept, m, -1, Skipped) = s[p]
<1> DEFINE stands == {j \in kept : (-1) * m < (-1) * j /\ s[j] \notin Skipped}
<1>1. p \in stands /\ \A k \in stands : (-1) * p <= (-1) * k
  OBVIOUS
<1>2. \A j \in stands : (\A k \in stands : (-1) * j <= (-1) * k) => j = p
  BY <1>1
<1>3. (CHOOSE j \in stands : \A k \in stands : (-1) * j <= (-1) * k) = p
  <2> HIDE DEF stands
  <2> QED BY <1>1, <1>2
<1> QED BY <1>1, <1>3 DEF Neighbour

Visible(s) == {i \in 1..Len(s) : s[i] \notin Invisible}
JoinedIn(s) == Compacted(s, Visible(s), Joiners, Joiners \cup Starred, LatinCharacters)

\* What is dropped is hidden, and letters are kept.
LEMMA KeptIs ==
    ASSUME NEW s, Len(s) \in Nat
    PROVE  /\ SecurityKept(s) = Compacted(s, JoinedIn(s), Starred, Starred, Alphabetic)
           /\ SecurityKept(s) \subseteq JoinedIn(s) /\ JoinedIn(s) \subseteq Visible(s)
           /\ Visible(s) \subseteq 1..Len(s)
           /\ \A m \in 1..Len(s) : m \notin SecurityKept(s) => s[m] \in HiddenInWords
           /\ \A m \in 1..Len(s) : s[m] \in Alphabetic => m \in SecurityKept(s)
<1>1. SecurityKept(s) = Compacted(s, JoinedIn(s), Starred, Starred, Alphabetic)
  BY DEF SecurityKept, JoinedIn, Visible
<1>2. JoinedIn(s) \subseteq Visible(s) /\ \A m \in Visible(s) : m \notin JoinedIn(s) => s[m] \in Joiners
  BY DEF JoinedIn, Compacted
<1>3. /\ SecurityKept(s) \subseteq JoinedIn(s)
      /\ \A m \in JoinedIn(s) : m \notin SecurityKept(s) => s[m] \in Starred
  BY <1>1 DEF Compacted
<1>4. Visible(s) \subseteq 1..Len(s) /\ \A m \in 1..Len(s) : m \notin Visible(s) => s[m] \in Invisible
  BY DEF Visible
<1>5. \A m \in 1..Len(s) : m \notin SecurityKept(s) => s[m] \in HiddenInWords
  BY <1>2, <1>3, <1>4 DEF HiddenInWords
<1>6. \A m \in 1..Len(s) : s[m] \in Alphabetic => m \in SecurityKept(s)
  BY <1>5, NotLetters DEF HiddenInWords
<1> QED BY <1>1, <1>2, <1>3, <1>4, <1>5, <1>6

\* Nothing that is hidden in a word is kept, unless it joins another script.
LEMMA HiddenIsDropped ==
    ASSUME NEW s, Len(s) \in Nat,
           ~(\E i, j \in 1..Len(s) : s[i] \in Greek /\ s[j] \in Joiners),
           NEW p \in 1..Len(s), NEW q \in 1..Len(s), s[p] \in Alphabetic, s[q] \in Alphabetic,
           \A m \in 1..Len(s) : p < m /\ m < q => s[m] \in HiddenInWords,
           NEW m \in 1..Len(s), p < m, m < q
    PROVE  m \notin SecurityKept(s)
<1>1. /\ SecurityKept(s) \subseteq JoinedIn(s) /\ JoinedIn(s) \subseteq Visible(s)
      /\ Visible(s) \subseteq 1..Len(s)
      /\ SecurityKept(s) = Compacted(s, JoinedIn(s), Starred, Starred, Alphabetic)
      /\ p \in SecurityKept(s) /\ q \in SecurityKept(s)
  BY KeptIs
<1>2. Visible(s) \in SUBSET Nat /\ JoinedIn(s) \in SUBSET Nat
  BY <1>1
<1>3. \A j \in Visible(s) : p < j /\ j < q => s[j] \in Joiners \cup Starred
  BY <1>1 DEF HiddenInWords, Visible
<1>4. p \in JoinedIn(s) /\ q \in JoinedIn(s) /\ p \in Visible(s) /\ q \in Visible(s)
  BY <1>1
<1>5. s[p] \notin Joiners \cup Starred /\ s[q] \notin Joiners \cup Starred
  BY NotLetters
<1>6. p \in Nat /\ q \in Nat
  OBVIOUS
<1>7. ASSUME NEW x \in 1..Len(s), p < x, x < q, s[x] \in Joiners PROVE x \notin JoinedIn(s)
  <2>1. SUFFICES ASSUME x \in JoinedIn(s) PROVE FALSE
    OBVIOUS
  <2>2. PICK Skipped : Skipped = Joiners \cup Starred
    OBVIOUS
  <2>3. PICK kept : kept = Visible(s)
    OBVIOUS
  <2>4. /\ kept \in SUBSET Nat /\ x \in Nat /\ p \in kept /\ q \in kept
        /\ s[p] \notin Skipped /\ s[q] \notin Skipped
    BY <1>2, <1>4, <1>5, <2>2, <2>3
  <2>5. Neighbour(s, kept, x, 1, Skipped) = s[q]
    <3>1. \A j \in kept : x < j /\ j < q => s[j] \in Skipped
      BY <1>3, <1>6, <1>7, <2>2, <2>3, <2>4
    <3> QED BY <1>7, <2>4, <3>1, NextIs
  <2>6. Neighbour(s, kept, x, -1, Skipped) = s[p]
    <3>1. \A j \in kept : p < j /\ j < x => s[j] \in Skipped
      BY <1>3, <1>6, <1>7, <2>2, <2>3, <2>4
    <3> QED BY <1>7, <2>4, <3>1, PreviousIs
  <2>7. s[q] \in LatinCharacters /\ s[p] \in LatinCharacters
    BY <1>7, FoldedLetters
  <2> QED BY <1>7, <2>1, <2>2, <2>3, <2>5, <2>6, <2>7 DEF JoinedIn, Compacted
<1>8. \A j \in JoinedIn(s) : p < j /\ j < q => s[j] \in Starred
  BY <1>1, <1>3, <1>7
<1>9. SUFFICES ASSUME m \in SecurityKept(s) PROVE FALSE
  OBVIOUS
<1>10. \A j \in JoinedIn(s) : m < j /\ j < q => s[j] \in Starred
  BY <1>1, <1>8
<1>11. \A j \in JoinedIn(s) : p < j /\ j < m => s[j] \in Starred
  BY <1>1, <1>8
<1>12. Neighbour(s, JoinedIn(s), m, 1, Starred) = s[q]
  BY <1>2, <1>4, <1>5, <1>10, NextIs
<1>13. Neighbour(s, JoinedIn(s), m, -1, Starred) = s[p]
  BY <1>2, <1>4, <1>5, <1>11, PreviousIs
<1>14. m \in JoinedIn(s) /\ s[m] \in Starred
  BY <1>1, <1>8, <1>9
<1> QED BY <1>1, <1>9, <1>12, <1>13, <1>14 DEF Compacted

\* Of what stands between two letters of a word, only letters are kept.
LEMMA KeptInWord ==
    ASSUME NEW s, Len(s) \in Nat,
           ~(\E i, j \in 1..Len(s) : s[i] \in Greek /\ s[j] \in Joiners),
           NEW p \in 1..Len(s), NEW q \in 1..Len(s), s[p] \in Alphabetic, s[q] \in Alphabetic,
           \A m \in 1..Len(s) : p < m /\ m < q => s[m] \in Alphabetic \cup HiddenInWords,
           NEW m \in SecurityKept(s), p < m, m < q
    PROVE  s[m] \in Alphabetic
<1>1. m \in 1..Len(s)
  BY KeptIs
<1>2. SUFFICES ASSUME s[m] \notin Alphabetic PROVE FALSE
  OBVIOUS
<1> DEFINE T == {x \in 1..Len(s) : x < m /\ s[x] \in Alphabetic}
           U == {x \in 1..Len(s) : m < x /\ s[x] \in Alphabetic}
<1>3. PICK l \in T : \A x \in T : x <= l
  <2>1. T \in SUBSET (0..Len(s)) /\ p \in T
    OBVIOUS
  <2> HIDE DEF T
  <2> QED BY <2>1, GreatestNumber
<1>4. PICK r \in U : \A x \in U : r <= x
  <2>1. U \in SUBSET Nat /\ q \in U
    OBVIOUS
  <2> HIDE DEF U
  <2> QED BY <2>1, LeastNumber
<1>5. p \in T /\ q \in U
  OBVIOUS
<1>6. /\ l \in 1..Len(s) /\ l < m /\ s[l] \in Alphabetic /\ p <= l
      /\ r \in 1..Len(s) /\ m < r /\ s[r] \in Alphabetic /\ r <= q
  BY <1>3, <1>4, <1>5
<1>7. ASSUME NEW x \in 1..Len(s), l < x, x < r PROVE s[x] \in HiddenInWords
  <2>1. SUFFICES ASSUME s[x] \in Alphabetic PROVE FALSE
    BY <1>6, <1>7
  <2>2. x < m => x \in T
    BY <2>1
  <2>3. m < x => x \in U
    BY <2>1
  <2>4. x # m
    BY <1>2, <2>1
  <2>5. ~(x <= l) /\ ~(r <= x)
    BY <1>6, <1>7
  <2> QED BY <1>1, <1>3, <1>4, <2>2, <2>3, <2>4, <2>5
<1> HIDE DEF T, U
<1>8. m \notin SecurityKept(s)
  BY <1>1, <1>6, <1>7, HiddenIsDropped
<1> QED BY <1>8

Unmasked(s) == [p \in 1..Len(s) |-> Unmixed(s, SecurityKept(s), p)]

LEMMA UnmixedLetters ==
    ASSUME NEW s, NEW kept, NEW i
    PROVE  Unmixed(s, kept, i) \in Alphabetic <=> s[i] \in Alphabetic
<1>1. s[i] \in Greek => Likeness[s[i]] \in Alphabetic /\ s[i] \in Alphabetic
  BY FoldedLetters
<1>2. Fold(s[i]) \in Alphabetic <=> s[i] \in Alphabetic
  BY FoldedLetters
<1>3. Unmixed(s, kept, i) = Fold(s[i]) \/ (s[i] \in Greek /\ Unmixed(s, kept, i) = Likeness[s[i]])
  BY DEF Unmixed
<1> QED BY <1>1, <1>2, <1>3

LEMMA UnmixedIn ==
    ASSUME NEW Characters, NEW s, NEW kept, NEW i, s[i] \in Characters
    PROVE  Unmixed(s, kept, i) \in Shown(Characters)
<1>1. s[i] \in Greek => Likeness[s[i]] \in Letters
  BY FoldedLetters
<1>2. Fold(s[i]) \in Characters \cup Letters
  BY MatchingConstants DEF Fold
<1>3. Unmixed(s, kept, i) = Fold(s[i]) \/ (s[i] \in Greek /\ Unmixed(s, kept, i) = Likeness[s[i]])
  BY DEF Unmixed
<1> QED BY <1>1, <1>2, <1>3 DEF Shown

LEMMA SecurityShows ==
    ASSUME NEW Characters, NEW s \in Seq(Characters),
           ~(\E i, j \in 1..Len(s) : s[i] \in Greek /\ s[j] \in Joiners)
    PROVE  Shows(Security(s), s, HiddenInWords, Unmasked(s), Shown(Characters))
<1>1. PICK C : C = Shown(Characters)
  OBVIOUS
<1>2. PICK V : V = Security(s)
  OBVIOUS
<1>3. Len(s) \in Nat /\ \A p \in 1..Len(s) : s[p] \in Characters
  OBVIOUS
<1>4. PICK K : K = SecurityKept(s)
  OBVIOUS
<1>5. PICK o : o = Ascending(K, Len(s))
  OBVIOUS
<1>6. Lists(o, K, Len(s))
  BY <1>3, <1>5, AscendingLists
<1>7. Len(o) \in Nat /\ \A k \in 1..Len(o) : o[k] \in K /\ o[k] \in 1..Len(s)
  BY <1>6 DEF Lists
<1>8. /\ K \subseteq 1..Len(s)
      /\ \A m \in 1..Len(s) : m \notin K => s[m] \in HiddenInWords
      /\ \A m \in 1..Len(s) : s[m] \in Alphabetic => m \in K
  BY <1>3, <1>4, KeptIs
<1>9. PICK im : im = Unmasked(s)
  OBVIOUS
<1>10. \A p \in 1..Len(s) : im[p] = Unmixed(s, K, p) /\ im[p] \in C /\ (im[p] \in Alphabetic <=> s[p] \in Alphabetic)
  <2>1. \A p \in 1..Len(s) : im[p] = Unmixed(s, K, p)
    BY <1>4, <1>9 DEF Unmasked
  <2> QED BY <1>1, <1>3, <2>1, UnmixedLetters, UnmixedIn
<1>11. V = [k \in 1..Len(o) |-> [c |-> Unmixed(s, K, o[k]), from |-> o[k], to |-> o[k]]]
  BY <1>2, <1>4, <1>5 DEF Security
<1>12. ASSUME NEW k \in 1..Len(o)
       PROVE  V[k] \in Marks(C, s) /\ V[k].from = o[k] /\ V[k].to = o[k] /\ V[k].c = im[o[k]]
  <2>1. V[k] = [c |-> im[o[k]], from |-> o[k], to |-> o[k]]
    BY <1>7, <1>10, <1>11
  <2> QED BY <1>7, <1>10, <2>1 DEF Marks
<1>13. V \in Seq(Marks(C, s)) /\ Len(V) = Len(o)
  BY <1>7, <1>11, <1>12
<1>14. Ranged(V, s, C)
  <2>1. \A k, l \in 1..Len(o) : k < l => o[k] < o[l]
    BY <1>6 DEF Lists
  <2>2. \A k \in 1..Len(V) : V[k].from <= V[k].to
    BY <1>7, <1>12, <1>13
  <2>3. \A k, l \in 1..Len(V) : k < l => V[k].to < V[l].from
    BY <1>12, <1>13, <2>1
  <2> QED BY <1>13, <2>2, <2>3 DEF Ranged
<1>15. Lettered(V, s, im)
  <2>1. ASSUME NEW p \in 1..Len(s), s[p] \in Alphabetic
        PROVE  \E k \in 1..Len(V) : V[k].from = p /\ V[k].to = p /\ V[k].c = im[p]
    <3>1. p \in K \cap (1..Len(s))
      BY <1>8, <2>1
    <3>2. PICK k \in 1..Len(o) : o[k] = p
      BY <1>6, <3>1 DEF Lists
    <3> QED BY <1>12, <1>13, <3>2
  <2>2. \A k \in 1..Len(V) : V[k].c \in Alphabetic =>
          V[k].from = V[k].to /\ s[V[k].from] \in Alphabetic /\ V[k].c = im[V[k].from]
    BY <1>7, <1>10, <1>12, <1>13
  <2> QED BY <1>10, <2>1, <2>2 DEF Lettered
<1>16. Closed(V, s, HiddenInWords)
  <2>1. ASSUME NEW k \in 1..Len(V), NEW l \in 1..Len(V), l = k + 1,
               NEW m \in 1..Len(s), V[k].from < m, m < V[l].from
        PROVE  s[m] \in HiddenInWords
    <3>1. SUFFICES ASSUME m \in K PROVE FALSE
      BY <1>8
    <3>2. m \in K \cap (1..Len(s))
      BY <3>1
    <3>3. PICK x \in 1..Len(o) : o[x] = m
      BY <1>6, <3>2 DEF Lists
    <3>4. V[k].from < V[x].from /\ V[x].from < V[l].from /\ x \in 1..Len(V)
      BY <1>12, <1>13, <2>1, <3>3
    <3>5. k < x /\ x < l
      BY <1>3, <1>14, <3>4, MarksInOrder
    <3> QED BY <1>7, <1>13, <2>1, <3>5
  <2>2. ASSUME NEW p \in 1..Len(s), NEW q \in 1..Len(s), NEW k \in 1..Len(V),
               s[p] \in Alphabetic, s[q] \in Alphabetic, p < V[k].from, V[k].from < q
        PROVE  \E m \in 1..Len(s) : p < m /\ m < q /\ s[m] \notin HiddenInWords
    <3>1. SUFFICES ASSUME \A m \in 1..Len(s) : p < m /\ m < q => s[m] \in HiddenInWords
                   PROVE  FALSE
      OBVIOUS
    <3>2. PICK m \in 1..Len(s) : m = V[k].from /\ m \in K
      BY <1>7, <1>12, <1>13
    <3>3. m \notin SecurityKept(s)
      BY <1>3, <2>2, <3>1, <3>2, HiddenIsDropped
    <3> QED BY <1>4, <3>2, <3>3
  <2> QED BY <2>1, <2>2 DEF Closed
<1> QED BY <1>1, <1>2, <1>9, <1>14, <1>15, <1>16 DEF Shows

\* A word of Latin letters is its own security view.
LEMMA SecurityWord ==
    ASSUME NEW Characters, NEW s \in Seq(Characters), \A i \in 1..Len(s) : Latin(s[i])
    PROVE  Text(Security(s)) = Folded(s)
<1>1. Len(s) \in Nat
  OBVIOUS
<1>2. PICK K : K = SecurityKept(s)
  OBVIOUS
<1>3. K = 1..Len(s)
  BY <1>1, <1>2, KeptIs, FoldedLetters
<1>4. PICK o : o = Ascending(K, Len(s))
  OBVIOUS
<1>5. PICK q : q = [k \in 1..Len(s) |-> k]
  OBVIOUS
<1>6. Lists(q, K, Len(s))
  <2>1. q \in Seq(Nat) /\ Len(q) = Len(s) /\ \A k \in 1..Len(s) : q[k] = k
    BY <1>1, <1>5
  <2> QED BY <1>1, <1>3, <2>1 DEF Lists
<1>7. o = q
  <2>1. Lists(o, K, Len(s))
    BY <1>1, <1>4, AscendingLists
  <2> QED BY <1>1, <1>6, <2>1, OneListing
<1>8. Len(q) = Len(s) /\ \A k \in 1..Len(s) : q[k] = k
  BY <1>1, <1>5
<1>9. Security(s) = [k \in 1..Len(s) |-> [c |-> Unmixed(s, K, k), from |-> k, to |-> k]]
  BY <1>2, <1>4, <1>7, <1>8 DEF Security
<1>10. \A k \in 1..Len(s) : Unmixed(s, K, k) = Fold(s[k])
  BY FoldedLetters DEF Unmixed
<1>11. PICK v : v = Security(s)
  OBVIOUS
<1>12. Len(v) = Len(s) /\ \A k \in 1..Len(s) : v[k].c = Fold(s[k])
  BY <1>1, <1>9, <1>10, <1>11
<1> QED BY <1>11, <1>12 DEF Text, Folded

(* --------------------- A pattern that is a word ---------------------- *)
Bounded(lo, hi) ==
    /\ lo \in 1..Len(pattern) /\ hi \in 1..Len(pattern) /\ lo <= hi
    /\ \A i \in 1..Len(pattern) : i \in lo..hi => pattern[i] \in Alphabetic
    /\ \A i \in 1..Len(pattern) : i \notin lo..hi => pattern[i] = "*" /\ i \in {1, Len(pattern)}

\* A word has letters, and stars.
LEMMA WordHas ==
    ASSUME NEW Characters, pattern \in Seq(Characters), IsWord
    PROVE  /\ \A i \in 1..Len(pattern) : pattern[i] = "*" \/ pattern[i] \in Alphabetic
           /\ \E i \in 1..Len(pattern) : pattern[i] \in Alphabetic
<1>1. Len(pattern) \in Nat
  OBVIOUS
<1>2. PICK kept : kept = Kept(pattern)
  OBVIOUS
<1>3. Lists(kept, {i \in 1..Len(pattern) : pattern[i] # "*"}, Len(pattern))
  BY <1>1, <1>2, AscendingLists DEF Kept
<1>4. Word = [n \in 1..Len(kept) |-> pattern[kept[n]]]
  BY <1>2 DEF Word, Kept
<1>5. Len(kept) \in Nat /\ \A n \in 1..Len(kept) : kept[n] \in 1..Len(pattern)
  BY <1>3 DEF Lists
<1>6. PICK w : w = Word
  OBVIOUS
<1>7. Len(w) = Len(kept) /\ \A n \in 1..Len(kept) : w[n] = pattern[kept[n]] /\ w[n] \in Alphabetic
  BY <1>4, <1>5, <1>6 DEF IsWord
<1>8. ASSUME NEW i \in 1..Len(pattern), pattern[i] # "*" PROVE pattern[i] \in Alphabetic
  <2>1. PICK n \in 1..Len(kept) : kept[n] = i
    BY <1>3, <1>8 DEF Lists
  <2> QED BY <1>7, <2>1
<1>9. \E i \in 1..Len(pattern) : pattern[i] \in Alphabetic
  <2>1. Len(kept) # 0
    <3>1. SUFFICES ASSUME Len(kept) = 0 PROVE FALSE
      OBVIOUS
    <3>2. w = <<>>
      <4>1. 1..Len(kept) = {}
        BY <3>1
      <4> QED BY <1>4, <1>6, <4>1
    <3> QED BY <1>6, <3>2 DEF IsWord
  <2>2. 1 \in 1..Len(kept)
    BY <1>5, <2>1
  <2> QED BY <1>5, <1>7, <2>2
<1> QED BY <1>8, <1>9

LEMMA WordIsTrimmed ==
    ASSUME NEW Characters, pattern \in Seq(Characters), IsWord
    PROVE  Trim(pattern) = pattern
<1>1. PICK L \in Nat : L = Len(pattern)
  OBVIOUS
<1>2. /\ \A i \in 1..L : pattern[i] = "*" \/ pattern[i] \in Alphabetic
      /\ \E i \in 1..L : pattern[i] \in Alphabetic
  BY <1>1, WordHas
<1>3. \A i \in 1..L : pattern[i] \notin Spaces
  BY <1>2, NotLetters DEF Spaces
<1>4. {i \in 1..Len(pattern) : pattern[i] \notin Spaces} = 1..L
  BY <1>1, <1>3
<1>5. L # 0
  BY <1>2
<1>6. (CHOOSE i \in 1..L : \A j \in 1..L : i <= j) = 1
  <2>1. 1 \in 1..L /\ \A j \in 1..L : 1 <= j
    BY <1>5
  <2>2. \A i \in 1..L : (\A j \in 1..L : i <= j) => i = 1
    BY <2>1
  <2> QED BY <2>1, <2>2
<1>7. (CHOOSE i \in 1..L : \A j \in 1..L : i >= j) = L
  <2>1. L \in 1..L /\ \A j \in 1..L : L >= j
    BY <1>5
  <2>2. \A i \in 1..L : (\A j \in 1..L : i >= j) => i = L
    BY <2>1
  <2> QED BY <2>1, <2>2
<1>8. 1..L # {}
  <2>1. 1 \in 1..L
    BY <1>5
  <2> QED BY <2>1
<1>9. Trim(pattern) = SubSeq(pattern, 1, L)
  BY <1>4, <1>6, <1>7, <1>8 DEF Trim
<1>10. SubSeq(pattern, 1, L) = pattern
  <2>1. PICK u : u = SubSeq(pattern, 1, L)
    OBVIOUS
  <2>2. u \in Seq(Characters) /\ Len(u) = L /\ \A i \in 1..L : u[i] = pattern[i]
    BY <1>1, <2>1
  <2> QED BY <1>1, <2>1, <2>2, SeqEqual
<1> QED BY <1>9, <1>10

LEMMA WordIsParsed ==
    ASSUME NEW Characters, pattern \in Seq(Characters), IsWord, Parse(pattern) \notin {Refused, Panics}
    PROVE  /\ Parse(pattern).type \in WordTypes
           /\ \E lo, hi : /\ Bounded(lo, hi)
                          /\ AuthoredLiteral(pattern, Parse(pattern).type) = SubSeq(pattern, lo, hi)
<1>1. PICK L \in Nat : L = Len(pattern)
  OBVIOUS
<1>2. /\ \A i \in 1..L : pattern[i] = "*" \/ pattern[i] \in Alphabetic
      /\ \E i \in 1..L : pattern[i] \in Alphabetic
  BY <1>1, WordHas
<1>3. L # 0 /\ 1 \in 1..L /\ L \in 1..L
  BY <1>2
<1>4. pattern # <<>>
  BY <1>1, <1>3
<1>5. ~Has(pattern, "quote")
  <2>1. "quote" \notin Alphabetic
    BY MatchingConstants
  <2> QED BY <1>1, <1>2, <2>1 DEF Has
<1>6. pattern # <<"*">>
  <2>1. SUFFICES ASSUME pattern = <<"*">> PROVE FALSE
    OBVIOUS
  <2>2. L = 1 /\ pattern[1] = "*"
    BY <1>1, <2>1
  <2>3. PICK i \in 1..L : pattern[i] \in Alphabetic
    BY <1>2
  <2>4. i = 1
    BY <2>2
  <2>5. "*" \in Alphabetic
    BY <2>2, <2>3, <2>4
  <2> QED BY <2>5, NotLetters
<1>7. Parse(pattern) = ParseWord(pattern)
  BY <1>4, <1>5, <1>6, WordIsTrimmed DEF Parse
<1>8. PICK leading \in BOOLEAN : leading = (Head(pattern) = "*")
  OBVIOUS
<1>9. PICK trailing \in BOOLEAN : trailing = (pattern[L] = "*")
  OBVIOUS
<1>10. leading = (pattern[1] = "*")
  BY <1>3, <1>4, <1>8, HeadTailProperties
<1>11. PICK lo : lo = IF leading THEN 2 ELSE 1
  OBVIOUS
<1>12. PICK hi : hi = IF trailing THEN L - 1 ELSE L
  OBVIOUS
<1>13. PICK word : word = SubSeq(pattern, lo, hi)
  OBVIOUS
<1>14. ~Has(word, "*") /\ Parse(pattern).type = TypeOf(leading, trailing)
  <2>1. ParseWord(pattern) =
          IF Has(pattern, " ") \/ Unsupported(pattern) \/ Has(word, "*") \/ Text(Canonical(word)) = <<>>
          THEN Refused
          ELSE [type |-> TypeOf(leading, trailing), text |-> Text(Canonical(word))]
    <3>1. (Head(pattern) = "*") = leading /\ (pattern[Len(pattern)] = "*") = trailing
      BY <1>1, <1>8, <1>9
    <3> QED BY <1>1, <1>11, <1>12, <1>13, <3>1 DEF ParseWord
  <2>2. ~(Has(pattern, " ") \/ Unsupported(pattern) \/ Has(word, "*") \/ Text(Canonical(word)) = <<>>)
    BY <1>7, <2>1
  <2>3. Parse(pattern) = [type |-> TypeOf(leading, trailing), text |-> Text(Canonical(word))]
    BY <1>7, <2>1, <2>2
  <2>4. Parse(pattern).type = TypeOf(leading, trailing)
    BY <2>3
  <2> QED BY <2>2, <2>4
<1>15. PICK a \in 1..L : pattern[a] \in Alphabetic
  BY <1>2
<1>16. lo \in 1..L /\ hi \in 1..L /\ lo <= a /\ a <= hi
  <2>1. pattern[a] # "*"
    BY <1>15, NotLetters
  <2>2. leading => a # 1
    BY <1>10, <2>1
  <2>3. trailing => a # L
    BY <1>9, <2>1
  <2> QED BY <1>11, <1>12, <2>2, <2>3
<1>17. ASSUME NEW i \in 1..L, i \in lo..hi PROVE pattern[i] \in Alphabetic
  <2>1. PICK n : n = i - lo + 1
    OBVIOUS
  <2>2. Len(word) = hi - lo + 1 /\ n \in 1..Len(word) /\ word[n] = pattern[i]
    <3>1. Len(word) = hi - lo + 1 /\ \A m \in 1..hi - lo + 1 : word[m] = pattern[lo + m - 1]
      BY <1>1, <1>13, <1>16, SubSeqProperties
    <3>2. n \in 1..hi - lo + 1 /\ lo + n - 1 = i
      BY <1>16, <1>17, <2>1
    <3> QED BY <3>1, <3>2
  <2>3. pattern[i] # "*"
    BY <1>14, <2>2 DEF Has
  <2> QED BY <1>2, <2>3
<1>18. ASSUME NEW i \in 1..L, i \notin lo..hi PROVE pattern[i] = "*" /\ i \in {1, L}
  <2>1. (leading /\ i = 1) \/ (trailing /\ i = L)
    BY <1>11, <1>12, <1>18
  <2> QED BY <1>9, <1>10, <2>1
<1>19. Bounded(lo, hi)
  BY <1>1, <1>16, <1>17, <1>18 DEF Bounded
<1>20. PICK type : type = TypeOf(leading, trailing)
  OBVIOUS
<1>21. /\ type \in WordTypes
       /\ type \in {"SUFFIX", "CONTAINS"} <=> leading
       /\ type \in {"PREFIX", "CONTAINS"} <=> trailing
  <2>1. CASE leading
    BY <1>20, <2>1 DEF TypeOf, WordTypes
  <2>2. CASE ~leading
    BY <1>20, <2>2 DEF TypeOf, WordTypes
  <2> QED BY <2>1, <2>2
<1>22. AuthoredLiteral(pattern, type) = SubSeq(pattern, lo, hi)
  BY <1>1, <1>8, <1>9, <1>11, <1>12, <1>21 DEF AuthoredLiteral
<1> QED BY <1>14, <1>19, <1>20, <1>21, <1>22

\* The letters of a pattern that is one word are the word.
LEMMA WordIsWithin ==
    ASSUME NEW Characters, pattern \in Seq(Characters), NEW lo, NEW hi, Bounded(lo, hi)
    PROVE  /\ Word = SubSeq(pattern, lo, hi) /\ Word \in Seq(Alphabetic)
           /\ Text(Canonical(pattern)) = Folded(Word)
<1>1. PICK L \in Nat : L = Len(pattern)
  OBVIOUS
<1>2. lo \in 1..L /\ hi \in 1..L /\ lo <= hi
  BY <1>1 DEF Bounded
<1>3. PICK n \in Nat : n = hi - lo + 1
  BY <1>2
<1>4. PICK q : q = [a \in 1..n |-> lo + a - 1]
  OBVIOUS
<1>5. q \in Seq(Nat) /\ Len(q) = n /\ \A a \in 1..n : q[a] = lo + a - 1 /\ q[a] \in lo..hi /\ q[a] \in 1..L
  <2>1. \A a \in 1..n : lo + a - 1 \in lo..hi /\ lo + a - 1 \in 1..L /\ lo + a - 1 \in Nat
    BY <1>2, <1>3
  <2> QED BY <1>4, <2>1
<1> DEFINE S == {i \in 1..Len(pattern) : pattern[i] # "*"}
<1>6. \A i \in 1..L : i \in S <=> i \in lo..hi
  BY <1>1, NotLetters DEF Bounded
<1>7. Lists(q, S, L)
  <2>1. ASSUME NEW p \in S \cap (1..L) PROVE \E a \in 1..n : q[a] = p
    <3>1. p \in lo..hi
      BY <1>6
    <3>2. p - lo + 1 \in 1..n /\ lo + (p - lo + 1) - 1 = p
      BY <1>2, <1>3, <3>1
    <3> QED BY <1>4, <3>2
  <2>2. \A a \in 1..n : q[a] \in S /\ q[a] \in 1..L
    BY <1>5, <1>6
  <2>3. \A a, b \in 1..n : a < b => q[a] < q[b]
    BY <1>2, <1>5
  <2> HIDE DEF S
  <2> QED BY <1>5, <2>1, <2>2, <2>3 DEF Lists
<1>8. Kept(pattern) = q
  <2>1. Lists(Kept(pattern), S, L)
    BY <1>1, AscendingLists DEF Kept
  <2> HIDE DEF S
  <2> QED BY <1>7, <2>1, OneListing
<1>9. PICK w : w = Word
  OBVIOUS
<1>10. w = [a \in 1..n |-> pattern[q[a]]]
  BY <1>5, <1>8, <1>9 DEF Word, Kept
<1>11. \A a \in 1..n : pattern[q[a]] \in Alphabetic
  BY <1>1, <1>5 DEF Bounded
<1>12. w \in Seq(Alphabetic) /\ Len(w) = n
  BY <1>10, <1>11
<1>13. w = SubSeq(pattern, lo, hi)
  <2>1. PICK u : u = SubSeq(pattern, lo, hi)
    OBVIOUS
  <2>2. u \in Seq(Characters) /\ Len(u) = n /\ \A a \in 1..n : u[a] = pattern[lo + a - 1]
    <3>1. \A a \in lo..hi : a \in 1..Len(pattern)
      BY <1>1, <1>2
    <3>3. u \in Seq(Characters)
      BY <1>1, <1>2, <2>1
    <3> QED BY <1>1, <1>2, <1>3, <2>1, <3>3, SubSeqProperties
  <2>3. \A a \in 1..n : u[a] = w[a]
    BY <1>5, <1>10, <2>2
  <2>4. u \in Seq(Characters \cup Alphabetic) /\ w \in Seq(Characters \cup Alphabetic)
    BY <1>12, <2>2
  <2> QED BY <1>12, <2>1, <2>2, <2>3, <2>4, SeqEqual
<1>14. Text(Canonical(pattern)) = [a \in 1..Len(Kept(pattern)) |-> Fold(pattern[Kept(pattern)[a]])]
  <2>1. \A i \in 1..Len(pattern) : pattern[i] \in Alphabetic \/ (pattern[i] = "*" /\ i \in {1, Len(pattern)})
    BY DEF Bounded
  <2> QED BY <2>1, CanonicalWord
<1>15. Text(Canonical(pattern)) = [a \in 1..n |-> Fold(w[a])]
  BY <1>5, <1>8, <1>10, <1>14
<1>16. Folded(w) = [a \in 1..n |-> Fold(w[a])]
  BY <1>12 DEF Folded
<1> QED BY <1>9, <1>12, <1>13, <1>15, <1>16

(* ----------------------- Where a word is read ------------------------ *)
\* Unmixed finds a Latin letter in the token just where InLatin does in the text.
TokenOf(k, kept) ==
    {j \in kept : \A x \in kept \cap (IF k < j THEN k..j ELSE j..k) : text[x] \in Alphabetic}

LEMMA MixedIsInLatin ==
    ASSUME NEW Characters, text \in Seq(Characters), ~SeveralScriptsJoined,
           NEW k \in 1..Len(text), text[k] \in Alphabetic
    PROVE  (\E j \in TokenOf(k, SecurityKept(text)) : Latin(text[j])) <=> InLatin(k, HiddenInWords)
<1>1. Len(text) \in Nat /\ k \in Nat
  OBVIOUS
<1>2. PICK K : K = SecurityKept(text)
  OBVIOUS
<1>3. /\ K \subseteq 1..Len(text)
      /\ \A m \in 1..Len(text) : m \notin K => text[m] \in HiddenInWords
      /\ \A m \in 1..Len(text) : text[m] \in Alphabetic => m \in K
  BY <1>1, <1>2, KeptIs
<1>4. ASSUME NEW j \in TokenOf(k, K), Latin(text[j]) PROVE InLatin(k, HiddenInWords)
  <2>1. j \in K /\ \A x \in K \cap (IF k < j THEN k..j ELSE j..k) : text[x] \in Alphabetic
    BY DEF TokenOf
  <2>2. j \in 1..Len(text)
    BY <1>3, <2>1
  <2>3. ASSUME NEW m \in (IF k < j THEN k..j ELSE j..k) PROVE text[m] \in Alphabetic \cup HiddenInWords
    <3>1. m \in 1..Len(text)
      BY <1>1, <2>2
    <3> QED BY <1>3, <2>1, <3>1
  <2> QED BY <1>4, <2>2, <2>3 DEF InLatin
<1>5. ASSUME InLatin(k, HiddenInWords) PROVE \E j \in TokenOf(k, K) : Latin(text[j])
  <2>1. PICK l \in 1..Len(text) :
            /\ Latin(text[l])
            /\ \A m \in (IF k < l THEN k..l ELSE l..k) : text[m] \in Alphabetic \cup HiddenInWords
    BY <1>5 DEF InLatin
  <2>2. text[l] \in Alphabetic /\ l \in K
    BY <1>3, <2>1, FoldedLetters
  <2>3. ~(\E i, j \in 1..Len(text) : text[i] \in Greek /\ text[j] \in Joiners)
    BY DEF SeveralScriptsJoined
  <2>4. ASSUME NEW x \in K, x \in (IF k < l THEN k..l ELSE l..k) PROVE text[x] \in Alphabetic
    <3>1. x \in 1..Len(text) /\ x \in Nat /\ l \in Nat
      BY <1>3
    <3>2. CASE x = k \/ x = l
      BY <2>2, <3>2
    <3>3. CASE k < x /\ x < l
      <4>1. \A m \in 1..Len(text) : k < m /\ m < l => text[m] \in Alphabetic \cup HiddenInWords
        BY <1>1, <2>1, <3>1, <3>3
      <4> QED BY <1>1, <1>2, <2>2, <2>3, <3>3, <4>1, KeptInWord
    <3>4. CASE l < x /\ x < k
      <4>1. \A m \in 1..Len(text) : l < m /\ m < k => text[m] \in Alphabetic \cup HiddenInWords
        BY <1>1, <2>1, <3>1, <3>4
      <4> QED BY <1>1, <1>2, <2>2, <2>3, <3>4, <4>1, KeptInWord
    <3> QED BY <1>1, <2>4, <3>1, <3>2, <3>3, <3>4
  <2>5. l \in TokenOf(k, K)
    BY <2>2, <2>4 DEF TokenOf
  <2> QED BY <2>1, <2>5
<1> QED BY <1>2, <1>4, <1>5

AlikeInWord(k, c) ==
    \/ Fold(text[k]) = c
    \/ text[k] \in Greek /\ Likeness[text[k]] = c /\ InLatin(k, HiddenInWords)

\* A letter that may be taken for c is the one that the security view has there.
LEMMA AlikeIsUnmasked ==
    ASSUME NEW Characters, text \in Seq(Characters), ~SeveralScriptsJoined,
           NEW k \in 1..Len(text), NEW c \in Letters
    PROVE  AlikeInWord(k, c) <=> (text[k] \in Alphabetic /\ Unmasked(text)[k] = c)
<1>1. PICK K : K = SecurityKept(text)
  OBVIOUS
<1>2. Unmasked(text)[k] = Unmixed(text, K, k)
  BY <1>1 DEF Unmasked
<1>3. PICK mixed \in BOOLEAN : mixed = (\E j \in TokenOf(k, K) : Latin(text[j]))
  OBVIOUS
<1>4. Unmixed(text, K, k) = IF text[k] \in Greek /\ mixed THEN Likeness[text[k]] ELSE Fold(text[k])
  BY <1>3 DEF Unmixed, TokenOf
<1>5. CASE text[k] \in Greek
  <2>1. text[k] \in Alphabetic /\ Fold(text[k]) # c
    BY <1>5, FoldedLetters
  <2>2. mixed <=> InLatin(k, HiddenInWords)
    BY <1>1, <1>3, <2>1, MixedIsInLatin
  <2> QED BY <1>2, <1>4, <1>5, <2>1, <2>2 DEF AlikeInWord
<1>6. CASE text[k] \notin Greek
  <2>1. Fold(text[k]) = c => text[k] \in Alphabetic
    BY FoldedLetters
  <2> QED BY <1>2, <1>4, <1>6, <2>1 DEF AlikeInWord
<1> QED BY <1>5, <1>6

\* What is seen of a range is in it.
LEMMA SeenWithin ==
    ASSUME NEW Characters, text \in Seq(Characters), NEW Hidden,
           NEW i \in 1..Len(text), NEW j \in 1..Len(text)
    PROVE  /\ Len(Seen(text, Hidden, i, j)) \in Nat
           /\ \A n \in 1..Len(Seen(text, Hidden, i, j)) : Seen(text, Hidden, i, j)[n] \in 1..Len(text)
<1>1. PICK q : q = Seen(text, Hidden, i, j)
  OBVIOUS
<1>2. Lists(q, {k \in i..j : text[k] \notin Hidden}, j)
  BY <1>1, SeenLists
<1>3. Len(q) \in Nat /\ \A n \in 1..Len(q) : q[n] \in i..j
  BY <1>2 DEF Lists
<1>4. \A n \in 1..Len(q) : q[n] \in 1..Len(text)
  BY <1>3
<1> QED BY <1>1, <1>3, <1>4

ReadPlainly(r) ==
    LET inside == Seen(text, Invisible, r[1], r[2])
    IN  /\ r[1] <= r[2] /\ {text[r[1]], text[r[2]]} \subseteq Alphabetic
        /\ Len(inside) = Len(Word)
        /\ \A n \in 1..Len(inside) : Fold(text[inside[n]]) = Fold(Word[n])
ReadDisguised(r) ==
    LET inside == Seen(text, HiddenInWords, r[1], r[2])
    IN  /\ r[1] <= r[2] /\ {text[r[1]], text[r[2]]} \subseteq Alphabetic
        /\ Len(inside) = Len(Word)
        /\ \A n \in 1..Len(inside) : AlikeInWord(inside[n], Fold(Word[n]))

LEMMA PlainIs ==
    ASSUME NEW Characters, text \in Seq(Characters), Word \in Seq(Alphabetic), NEW type
    PROVE  Plain(type) = ReadRanges(Invisible, Folded(text), Folded(Word), type)
<1>1. Plain(type) = {r \in (1..Len(text)) \X (1..Len(text)) : ReadPlainly(r) /\ Ends(type, Invisible, r[1], r[2])}
  BY DEF Plain, Readings, ReadPlainly, Seen
<1>2. ASSUME NEW i \in 1..Len(text), NEW j \in 1..Len(text)
      PROVE  ReadPlainly(<<i, j>>) <=> Reads(text, Invisible, Folded(text), Folded(Word), i, j)
  <2>1. PICK inside : inside = Seen(text, Invisible, i, j)
    OBVIOUS
  <2>2. Len(inside) \in Nat /\ \A n \in 1..Len(inside) : inside[n] \in 1..Len(text)
    BY <2>1, SeenWithin
  <2>3. PICK w : w = Word
    OBVIOUS
  <2>4. Len(Folded(w)) = Len(w) /\ \A n \in 1..Len(w) : Folded(w)[n] = Fold(w[n]) /\ Folded(w)[n] \in Alphabetic
    BY <2>3, FoldedLetters DEF Folded
  <2>5. ASSUME Len(inside) = Len(w), NEW n \in 1..Len(inside)
        PROVE  (Fold(text[inside[n]]) = Fold(w[n])) <=>
                  (text[inside[n]] \in Alphabetic /\ Folded(text)[inside[n]] = Folded(w)[n])
    <3>1. Folded(text)[inside[n]] = Fold(text[inside[n]])
      BY <2>2 DEF Folded
    <3> QED BY <2>4, <2>5, <3>1, FoldedLetters
  <2>6. ReadPlainly(<<i, j>>) <=>
            /\ i <= j /\ text[i] \in Alphabetic /\ text[j] \in Alphabetic /\ Len(inside) = Len(w)
            /\ \A n \in 1..Len(inside) : Fold(text[inside[n]]) = Fold(w[n])
    BY <2>1, <2>3 DEF ReadPlainly
  <2>7. Reads(text, Invisible, Folded(text), Folded(w), i, j) <=>
            /\ i <= j /\ text[i] \in Alphabetic /\ text[j] \in Alphabetic /\ Len(inside) = Len(w)
            /\ \A n \in 1..Len(w) : text[inside[n]] \in Alphabetic /\ Folded(text)[inside[n]] = Folded(w)[n]
    BY <2>1, <2>4 DEF Reads
  <2> QED BY <2>3, <2>5, <2>6, <2>7
<1> QED BY <1>1, <1>2 DEF ReadRanges

LEMMA DisguisedIs ==
    ASSUME NEW Characters, text \in Seq(Characters), Word \in Seq(Alphabetic), NEW type,
           ~SeveralScriptsJoined, \A n \in 1..Len(Word) : Latin(Word[n])
    PROVE  Disguised(type) = ReadRanges(HiddenInWords, Unmasked(text), Folded(Word), type)
<1>1. Disguised(type) =
        {r \in (1..Len(text)) \X (1..Len(text)) : ReadDisguised(r) /\ Ends(type, HiddenInWords, r[1], r[2])}
  BY DEF Disguised, Readings, ReadDisguised, Seen, AlikeInWord, HiddenInWords
<1>2. ASSUME NEW i \in 1..Len(text), NEW j \in 1..Len(text)
      PROVE  ReadDisguised(<<i, j>>) <=> Reads(text, HiddenInWords, Unmasked(text), Folded(Word), i, j)
  <2>1. PICK inside : inside = Seen(text, HiddenInWords, i, j)
    OBVIOUS
  <2>2. Len(inside) \in Nat /\ \A n \in 1..Len(inside) : inside[n] \in 1..Len(text)
    BY <2>1, SeenWithin
  <2>3. PICK w : w = Word
    OBVIOUS
  <2>4. Len(Folded(w)) = Len(w) /\ \A n \in 1..Len(w) : Folded(w)[n] = Fold(w[n]) /\ Fold(w[n]) \in Letters
    BY <2>3, FoldedLetters DEF Folded
  <2>5. ASSUME Len(inside) = Len(w), NEW n \in 1..Len(inside)
        PROVE  AlikeInWord(inside[n], Fold(w[n])) <=>
                  (text[inside[n]] \in Alphabetic /\ Unmasked(text)[inside[n]] = Folded(w)[n])
    <3>1. PICK k \in 1..Len(text) : k = inside[n]
      BY <2>2
    <3>2. PICK c \in Letters : c = Fold(w[n]) /\ c = Folded(w)[n]
      BY <2>4, <2>5
    <3>3. AlikeInWord(k, c) <=> (text[k] \in Alphabetic /\ Unmasked(text)[k] = c)
      BY AlikeIsUnmasked
    <3> QED BY <3>1, <3>2, <3>3
  <2>6. ReadDisguised(<<i, j>>) <=>
            /\ i <= j /\ text[i] \in Alphabetic /\ text[j] \in Alphabetic /\ Len(inside) = Len(w)
            /\ \A n \in 1..Len(inside) : AlikeInWord(inside[n], Fold(w[n]))
    BY <2>1, <2>3 DEF ReadDisguised
  <2>7. Reads(text, HiddenInWords, Unmasked(text), Folded(w), i, j) <=>
            /\ i <= j /\ text[i] \in Alphabetic /\ text[j] \in Alphabetic /\ Len(inside) = Len(w)
            /\ \A n \in 1..Len(w) : text[inside[n]] \in Alphabetic /\ Unmasked(text)[inside[n]] = Folded(w)[n]
    BY <2>1, <2>4 DEF Reads
  <2> QED BY <2>3, <2>5, <2>6, <2>7
<1> QED BY <1>1, <1>2 DEF ReadRanges

\* The matcher finds a word just where it is read.
LEMMA MatchesWhereRead ==
    ASSUME NEW Characters, text \in Seq(Characters), pattern \in Seq(Characters),
           IsWord, ~SeveralScriptsJoined, Parse(pattern) \notin {Refused, Panics}
    PROVE  MatchText(text, pattern) =
              Plain(Parse(pattern).type)
                 \cup (IF Eligible(Word) THEN Disguised(Parse(pattern).type) ELSE {})
<1>1. PICK type : type = Parse(pattern).type
  OBVIOUS
<1>2. type \in WordTypes
  BY <1>1, WordIsParsed
<1>3. PICK lo, hi : Bounded(lo, hi) /\ AuthoredLiteral(pattern, type) = SubSeq(pattern, lo, hi)
  BY <1>1, WordIsParsed
<1>4. /\ Word = SubSeq(pattern, lo, hi) /\ Word \in Seq(Alphabetic)
      /\ Text(Canonical(pattern)) = Folded(Word)
  BY <1>3, WordIsWithin
<1>5. PICK w : w = Word
  OBVIOUS
<1>6. PICK lit : lit = Folded(w)
  OBVIOUS
<1>7. w \in Seq(Alphabetic) /\ w # <<>>
  BY <1>4, <1>5 DEF IsWord
<1>8. lit \in Seq(Alphabetic) /\ lit # <<>>
  <2>1. Len(w) \in Nat /\ Len(w) # 0
    BY <1>7, EmptySeq
  <2>2. \A n \in 1..Len(w) : Fold(w[n]) \in Alphabetic
    BY <1>7, FoldedLetters
  <2>3. lit \in Seq(Alphabetic) /\ Len(lit) = Len(w)
    BY <1>6, <2>1, <2>2 DEF Folded
  <2> QED BY <2>1, <2>3
<1>9. Len(text) \in Nat
  OBVIOUS
<1>10. ~(\E i, j \in 1..Len(text) : text[i] \in Greek /\ text[j] \in Joiners)
  BY DEF SeveralScriptsJoined
<1>11. MatchesOf(Canonical(text), lit, type) = Plain(type)
  <2>1. Shows(Canonical(text), text, Invisible, Folded(text), Shown(Characters))
    BY CanonicalShows
  <2>2. Invisible \cap Alphabetic = {}
    BY NotLetters
  <2>3. MatchesOf(Canonical(text), lit, type) = ReadRanges(Invisible, Folded(text), lit, type)
    BY <1>2, <1>8, <1>9, <2>1, <2>2, MatchesAreRead
  <2> QED BY <1>4, <1>5, <1>6, <2>3, PlainIs
<1>12. ASSUME Eligible(w)
       PROVE  /\ MatchesOf(Security(text), lit, type) = Disguised(type)
              /\ Text(Security(w)) = lit
  <2>1. Shows(Security(text), text, HiddenInWords, Unmasked(text), Shown(Characters))
    BY <1>10, SecurityShows
  <2>2. HiddenInWords \cap Alphabetic = {}
    BY NotLetters DEF HiddenInWords
  <2>3. MatchesOf(Security(text), lit, type) = ReadRanges(HiddenInWords, Unmasked(text), lit, type)
    BY <1>2, <1>8, <1>9, <2>1, <2>2, MatchesAreRead
  <2>4. \A n \in 1..Len(w) : Latin(w[n])
    BY <1>12 DEF Eligible
  <2>5. Disguised(type) = ReadRanges(HiddenInWords, Unmasked(text), lit, type)
    BY <1>4, <1>5, <1>6, <2>4, DisguisedIs
  <2>6. Text(Security(w)) = lit
    BY <1>6, <1>7, <2>4, SecurityWord
  <2> QED BY <2>3, <2>5, <2>6
<1>13. MatchText(text, pattern) =
         MatchesOf(Canonical(text), lit, type)
           \cup (IF Eligible(w) THEN MatchesOf(Security(text), Text(Security(w)), type) ELSE {})
  <2>1. type # "PHRASE"
    BY <1>2 DEF WordTypes
  <2>2. AuthoredLiteral(pattern, type) = w /\ Text(Canonical(pattern)) = lit
    BY <1>3, <1>4, <1>5, <1>6
  <2> QED BY <1>1, <2>1, <2>2 DEF MatchText
<1> QED BY <1>1, <1>5, <1>11, <1>12, <1>13

\* A text and a pattern are what they were given, and what was found is what
\* the matcher finds.
Matched(texts, patterns) ==
    /\ text \in texts /\ pattern \in patterns
    /\ answer = "MATCHED" =>
          Parse(pattern) \notin {Refused, Panics} /\ found = MatchText(text, pattern)

LEMMA MatchedInvariant ==
    ASSUME NEW texts, NEW patterns
    PROVE  MatchSpec(texts, patterns) => []Matched(texts, patterns)
<1>1. MatchInitWith(texts, patterns) => Matched(texts, patterns)
  BY DEF MatchInitWith, Matched
<1>2. Matched(texts, patterns) /\ [MatchNext]_matchVars => Matched(texts, patterns)'
  <2>1. SUFFICES ASSUME Matched(texts, patterns), [MatchNext]_matchVars PROVE Matched(texts, patterns)'
    OBVIOUS
  <2>2. CASE Refuse
    <3>1. Parse(pattern).type # "MATCHED"
      <4>1. Parse(pattern) = Refused \/ Parse(pattern) = Panics
        BY <2>2 DEF Refuse
      <4>2. Refused.type = "REFUSED" /\ Panics.type = "PANIC"
        BY DEF Refused, Panics
      <4> QED BY <4>1, <4>2
    <3> QED BY <2>1, <2>2, <3>1 DEF Refuse, Matched
  <2>3. CASE Match
    BY <2>1, <2>3 DEF Match, Matched
  <2>4. CASE UNCHANGED matchVars
    BY <2>1, <2>4 DEF Matched, matchVars
  <2> QED BY <2>1, <2>2, <2>3, <2>4 DEF MatchNext
<1> QED BY <1>1, <1>2, PTL DEF MatchSpec

\* For every alphabet, and all texts and patterns: a pattern that is one word is
\* found just where a reader reads the word, disguised or not, as its type wants.
THEOREM WordsAreFoundWhereRead ==
    ASSUME NEW Characters, NEW texts \in SUBSET Seq(Characters), NEW patterns \in SUBSET Seq(Characters)
    PROVE  MatchSpec(texts, patterns) => []FoundWhereItIsRead
<1>1. Matched(texts, patterns) => FoundWhereItIsRead
  <2>1. SUFFICES ASSUME Matched(texts, patterns), answer = "MATCHED", IsWord, ~SeveralScriptsJoined
                 PROVE  found = Plain(Parse(pattern).type)
                           \cup (IF Eligible(Word) THEN Disguised(Parse(pattern).type) ELSE {})
    BY DEF FoundWhereItIsRead
  <2>2. /\ text \in Seq(Characters) /\ pattern \in Seq(Characters)
        /\ Parse(pattern) \notin {Refused, Panics} /\ found = MatchText(text, pattern)
    BY <2>1 DEF Matched
  <2> QED BY <2>1, <2>2, MatchesWhereRead
<1> QED BY <1>1, MatchedInvariant, PTL

(* ----------------------------- Rule programs ---------------------------- *)

\* The conditions that nest at most n deep.
UpToDepth(n) == UNION {Nested[m] : m \in 1..n}

\* One step of Tree and of EvaluateCondition: what a function of the conditions
\* gives for a condition, from what it gives for the conditions in it.
TreeOf(f, c) == {c} \cup UNION {f[d] : d \in Subconditions(c)}
HoldsOf(f, c, told) ==
    CASE c.operator = "all" -> \A e \in Subconditions(c) : f[e]
      [] c.operator = "any" -> \E e \in Subconditions(c) : f[e]
      [] c.operator = "not" -> ~f[c.condition]
      [] OTHER -> Says(c, told)

\* Every condition nests at some depth, and what it joins nests less deep.
LEMMA DepthOf ==
    /\ Len(Nested) \in Nat
    /\ Conditions = UpToDepth(Len(Nested))
    /\ UpToDepth(0) = {}
    /\ \A n \in 1..Len(Nested) : UpToDepth(n) = UpToDepth(n - 1) \cup Nested[n]
    /\ \A n \in 1..Len(Nested) : \A c \in UpToDepth(n) : Subconditions(c) \subseteq UpToDepth(n - 1)
<1>1. Len(Nested) \in Nat
  BY ConditionsNest
<1>2. Conditions = UpToDepth(Len(Nested)) /\ UpToDepth(0) = {}
  BY DEF Conditions, UpToDepth
<1>3. ASSUME NEW n \in 1..Len(Nested) PROVE UpToDepth(n) = UpToDepth(n - 1) \cup Nested[n]
  <2>1. 1..n = (1..n - 1) \cup {n}
    BY <1>1
  <2> QED BY <2>1 DEF UpToDepth
<1>4. ASSUME NEW n \in 1..Len(Nested), NEW c \in UpToDepth(n), NEW d \in Subconditions(c)
      PROVE  d \in UpToDepth(n - 1)
  <2>1. PICK m \in 1..n : c \in Nested[m]
    BY DEF UpToDepth
  <2>2. m \in 1..Len(Nested)
    BY <1>1
  <2>3. PICK k \in 1..m - 1 : d \in Nested[k]
    BY <2>1, <2>2, ConditionsNest
  <2>4. k \in 1..n - 1
    BY <1>1, <2>3
  <2> QED BY <2>3, <2>4 DEF UpToDepth
<1> QED BY <1>1, <1>2, <1>3, <1>4

\* A set of numbers up to Len(Nested) that has 0, and n with n - 1, is all of them.
LEMMA ByDepth ==
    ASSUME NEW T \in SUBSET (0..Len(Nested)), 0 \in T,
           \A n \in 1..Len(Nested) : n - 1 \in T => n \in T
    PROVE  Len(Nested) \in T
<1>1. Len(Nested) \in Nat
  BY DepthOf
<1> DEFINE U == (0..Len(Nested)) \ T
<1>2. ASSUME U # {} PROVE FALSE
  <2>1. U \in SUBSET Nat
    OBVIOUS
  <2>2. PICK m \in U : \A n \in U : m <= n
    <3> HIDE DEF U
    <3> QED BY <1>2, <2>1, LeastNumber
  <2>3. m \in 1..Len(Nested) /\ m - 1 \in 0..Len(Nested) /\ ~(m <= m - 1)
    BY <1>1, <2>2
  <2>4. m - 1 \in T
    BY <2>2, <2>3
  <2> QED BY <2>2, <2>3, <2>4
<1> QED BY <1>1, <1>2

\* What TreeOf and HoldsOf give for a condition depends on the conditions in it only.
LEMMA StepsAgree ==
    ASSUME NEW f, NEW g, NEW c, NEW told, \A d \in Subconditions(c) : f[d] = g[d]
    PROVE  TreeOf(f, c) = TreeOf(g, c) /\ HoldsOf(f, c, told) = HoldsOf(g, c, told)
<1>1. TreeOf(f, c) = TreeOf(g, c)
  <2>1. UNION {f[d] : d \in Subconditions(c)} = UNION {g[d] : d \in Subconditions(c)}
    OBVIOUS
  <2> QED BY <2>1 DEF TreeOf
<1>2. CASE c.operator = "not"
  <2>1. c.condition \in Subconditions(c)
    BY <1>2 DEF Subconditions
  <2> QED BY <1>1, <1>2, <2>1 DEF HoldsOf
<1>3. CASE c.operator # "not"
  <2>1. (\A e \in Subconditions(c) : f[e]) <=> (\A e \in Subconditions(c) : g[e])
    OBVIOUS
  <2>2. (\E e \in Subconditions(c) : f[e]) <=> (\E e \in Subconditions(c) : g[e])
    OBVIOUS
  <2> QED BY <1>1, <1>3, <2>1, <2>2 DEF HoldsOf
<1> QED BY <1>2, <1>3

\* There is a function that gives every condition what HoldsOf does.
LEMMA SomeHold ==
    ASSUME NEW told
    PROVE  \E f : f = [c \in Conditions |-> HoldsOf(f, c, told)]
<1> DEFINE Upto(f, n) == \A c \in UpToDepth(n) : f[c] = HoldsOf(f, c, told)
           T == {n \in 0..Len(Nested) : \E f : Upto(f, n)}
<1>1. 0 \in T
  BY DepthOf
<1>2. ASSUME NEW n \in 1..Len(Nested), n - 1 \in T PROVE n \in T
  <2>1. PICK g : Upto(g, n - 1)
    BY <1>2
  <2>2. PICK f : f = [c \in Conditions |-> IF c \in UpToDepth(n - 1) THEN g[c] ELSE HoldsOf(g, c, told)]
    OBVIOUS
  <2>3. UpToDepth(n - 1) \subseteq UpToDepth(n) /\ UpToDepth(n) \subseteq Conditions
    BY DepthOf DEF UpToDepth
  <2>4. \A c \in UpToDepth(n - 1) : f[c] = g[c]
    BY <2>2, <2>3
  <2>5. ASSUME NEW c \in UpToDepth(n) PROVE f[c] = HoldsOf(f, c, told)
    <3>1. f[c] = HoldsOf(g, c, told)
      BY <2>1, <2>2, <2>3
    <3>2. \A d \in Subconditions(c) : f[d] = g[d]
      BY <2>4, DepthOf
    <3>3. HoldsOf(f, c, told) = HoldsOf(g, c, told)
      BY <3>2, StepsAgree
    <3> QED BY <3>1, <3>3
  <2>6. n \in 0..Len(Nested)
    BY DepthOf
  <2> QED BY <2>5, <2>6
<1>3. Len(Nested) \in T
  <2> HIDE DEF T
  <2>1. T \in SUBSET (0..Len(Nested))
    BY DEF T
  <2> QED BY <1>1, <1>2, <2>1, ByDepth
<1>4. PICK g : \A c \in Conditions : g[c] = HoldsOf(g, c, told)
  BY <1>3, DepthOf
<1>5. PICK f : f = [c \in Conditions |-> g[c]]
  OBVIOUS
<1>6. ASSUME NEW c \in Conditions PROVE g[c] = HoldsOf(f, c, told)
  <2>1. \A d \in Subconditions(c) : d \in Conditions
    BY DepthOf DEF UpToDepth
  <2>2. \A d \in Subconditions(c) : f[d] = g[d]
    BY <1>5, <2>1
  <2>3. HoldsOf(f, c, told) = HoldsOf(g, c, told)
    BY <2>2, StepsAgree
  <2> QED BY <1>4, <2>3
<1>7. f = [c \in Conditions |-> HoldsOf(f, c, told)]
  BY <1>5, <1>6
<1> QED BY <1>7
\* There is a function that gives every condition what TreeOf does.
LEMMA SomeTree == \E f : f = [c \in Conditions |-> TreeOf(f, c)]
<1> DEFINE Upto(f, n) == \A c \in UpToDepth(n) : f[c] = TreeOf(f, c)
           T == {n \in 0..Len(Nested) : \E f : Upto(f, n)}
<1>1. 0 \in T
  BY DepthOf
<1>2. ASSUME NEW n \in 1..Len(Nested), n - 1 \in T PROVE n \in T
  <2>1. PICK g : Upto(g, n - 1)
    BY <1>2
  <2>2. PICK f : f = [c \in Conditions |-> IF c \in UpToDepth(n - 1) THEN g[c] ELSE TreeOf(g, c)]
    OBVIOUS
  <2>3. UpToDepth(n - 1) \subseteq UpToDepth(n) /\ UpToDepth(n) \subseteq Conditions
    BY DepthOf DEF UpToDepth
  <2>4. \A c \in UpToDepth(n - 1) : f[c] = g[c]
    BY <2>2, <2>3
  <2>5. ASSUME NEW c \in UpToDepth(n) PROVE f[c] = TreeOf(f, c)
    <3>1. f[c] = TreeOf(g, c)
      BY <2>1, <2>2, <2>3
    <3>2. \A d \in Subconditions(c) : f[d] = g[d]
      BY <2>4, DepthOf
    <3>3. TreeOf(f, c) = TreeOf(g, c)
      BY <3>2, StepsAgree
    <3> QED BY <3>1, <3>3
  <2>6. n \in 0..Len(Nested)
    BY DepthOf
  <2> QED BY <2>5, <2>6
<1>3. Len(Nested) \in T
  <2> HIDE DEF T
  <2>1. T \in SUBSET (0..Len(Nested))
    BY DEF T
  <2> QED BY <1>1, <1>2, <2>1, ByDepth
<1>4. PICK g : \A c \in Conditions : g[c] = TreeOf(g, c)
  BY <1>3, DepthOf
<1>5. PICK f : f = [c \in Conditions |-> g[c]]
  OBVIOUS
<1>6. ASSUME NEW c \in Conditions PROVE g[c] = TreeOf(f, c)
  <2>1. \A d \in Subconditions(c) : d \in Conditions
    BY DepthOf DEF UpToDepth
  <2>2. \A d \in Subconditions(c) : f[d] = g[d]
    BY <1>5, <2>1
  <2>3. TreeOf(f, c) = TreeOf(g, c)
    BY <2>2, StepsAgree
  <2> QED BY <1>4, <2>3
<1>7. f = [c \in Conditions |-> TreeOf(f, c)]
  BY <1>5, <1>6
<1> QED BY <1>7

\* So the recursive definitions say what they seem to say.
LEMMA TreeIs ==
    ASSUME NEW c \in Conditions
    PROVE  Tree[c] = {c} \cup UNION {Tree[d] : d \in Subconditions(c)}
<1>1. PICK g : g = [d \in Conditions |-> TreeOf(g, d)]
  BY SomeTree
<1>2. g = [d \in Conditions |-> {d} \cup UNION {g[e] : e \in Subconditions(d)}]
  BY <1>1 DEF TreeOf
<1>3. Tree = [d \in Conditions |-> {d} \cup UNION {Tree[e] : e \in Subconditions(d)}]
  BY <1>2 DEF Tree
<1> QED BY <1>3

LEMMA HoldsIs ==
    ASSUME NEW told
    PROVE  \E f : /\ f = [c \in Conditions |-> HoldsOf(f, c, told)]
                  /\ \A c : EvaluateCondition(c, told) = f[c]
<1> DEFINE F == CHOOSE f : f = [d \in Conditions |->
                    CASE d.operator = "all" -> \A e \in Subconditions(d) : f[e]
                      [] d.operator = "any" -> \E e \in Subconditions(d) : f[e]
                      [] d.operator = "not" -> ~f[d.condition]
                      [] OTHER -> Says(d, told)]
<1>1. PICK g : g = [d \in Conditions |-> HoldsOf(g, d, told)]
  BY SomeHold
<1>2. g = [d \in Conditions |->
             CASE d.operator = "all" -> \A e \in Subconditions(d) : g[e]
               [] d.operator = "any" -> \E e \in Subconditions(d) : g[e]
               [] d.operator = "not" -> ~g[d.condition]
               [] OTHER -> Says(d, told)]
  BY <1>1 DEF HoldsOf
<1>3. F = [d \in Conditions |->
             CASE d.operator = "all" -> \A e \in Subconditions(d) : F[e]
               [] d.operator = "any" -> \E e \in Subconditions(d) : F[e]
               [] d.operator = "not" -> ~F[d.condition]
               [] OTHER -> Says(d, told)]
  BY <1>2
<1>4. \A c : EvaluateCondition(c, told) = F[c]
  BY DEF EvaluateCondition
<1> HIDE DEF F
<1>5. F = [d \in Conditions |-> HoldsOf(F, d, told)]
  BY <1>3 DEF HoldsOf
<1> QED BY <1>4, <1>5

\* What holds for a condition when it holds for those in it holds for all.
LEMMA ForConditions ==
    ASSUME NEW S, \A c \in Conditions : Subconditions(c) \subseteq S => c \in S
    PROVE  Conditions \subseteq S
<1> DEFINE T == {n \in 0..Len(Nested) : UpToDepth(n) \subseteq S}
<1>1. 0 \in T
  BY DepthOf
<1>2. ASSUME NEW n \in 1..Len(Nested), n - 1 \in T PROVE n \in T
  <2>1. UpToDepth(n) \subseteq Conditions /\ n \in 0..Len(Nested)
    BY DepthOf DEF UpToDepth
  <2>2. ASSUME NEW c \in UpToDepth(n) PROVE c \in S
    <3>1. Subconditions(c) \subseteq S
      BY <1>2, DepthOf
    <3> QED BY <2>1, <3>1
  <2> QED BY <2>1, <2>2
<1>3. Len(Nested) \in T
  <2> HIDE DEF T
  <2>1. T \in SUBSET (0..Len(Nested))
    BY DEF T
  <2> QED BY <1>1, <1>2, <2>1, ByDepth
<1> QED BY <1>3, DepthOf

\* A condition has itself in it, and what the conditions that it joins have.
LEMMA TreeHas ==
    ASSUME NEW c \in Conditions
    PROVE  /\ c \in Tree[c]
           /\ \A d \in Subconditions(c) : d \in Conditions /\ Tree[d] \subseteq Tree[c]
<1>1. \A d \in Subconditions(c) : d \in Conditions
  BY DepthOf DEF UpToDepth
<1> QED BY <1>1, TreeIs

\* What is not missing stays when more is answered.
Fills(full) == \A f \in Features : answered[f] # Missing => full[f] = answered[f]

\* The values a condition reads are there to be read.
Readable(c) == \A v \in ReadBy(c) : v.source = "feature" => v.name \in Features

LEMMA ResolveStays ==
    ASSUME NEW c \in Conditions, Readable(c), NEW v \in ReadBy(c), NEW full, Fills(full)
    PROVE  /\ Resolve(v, answered) # Missing => Resolve(v, full) = Resolve(v, answered)
           /\ v.source = "literal" => Resolve(v, answered) # Missing
<1>1. v.source \in {"literal", "action", "feature"} /\ (v.source = "literal" => v.value # Missing)
  BY ConditionsNest
<1>2. v.source = "feature" => v.name \in Features
  BY DEF Readable
<1> QED BY <1>1, <1>2 DEF Resolve, Fills

\* A condition that joins no others, negates nothing and does not compare two
\* values that may be missing holds still.
LEMMA SaysStays ==
    ASSUME NEW c \in Conditions, Readable(c), NEW full, Fills(full),
           c.operator \notin {"all", "any", "not", "not_eq"},
           c.operator = "eq" => c.left.source = "literal" \/ c.right.source = "literal",
           Says(c, answered)
    PROVE  Says(c, full)
<1>1. CASE c.operator = "literal"
  BY <1>1 DEF Says
<1>2. CASE c.operator = "exists"
  <2>1. c.value \in ReadBy(c) /\ Resolve(c.value, answered) # Missing
    BY <1>2 DEF Says, ReadBy
  <2>2. Resolve(c.value, full) # Missing
    BY <2>1, ResolveStays
  <2> QED BY <1>2, <2>2 DEF Says
<1>3. CASE c.operator \in Both
  <2>1. c.left \in ReadBy(c) /\ c.right \in ReadBy(c)
    BY <1>3 DEF ReadBy, Both
  <2>2. /\ Resolve(c.left, answered) # Missing => Resolve(c.left, full) = Resolve(c.left, answered)
        /\ c.left.source = "literal" => Resolve(c.left, answered) # Missing
    BY <2>1, ResolveStays
  <2>3. /\ Resolve(c.right, answered) # Missing => Resolve(c.right, full) = Resolve(c.right, answered)
        /\ c.right.source = "literal" => Resolve(c.right, answered) # Missing
    BY <2>1, ResolveStays
  <2>4. Resolve(c.left, answered) # Missing /\ Resolve(c.right, answered) # Missing
    <3>1. CASE c.operator = "eq"
      BY <2>2, <2>3, <3>1 DEF Says
    <3>2. CASE c.operator = "contains"
      <4>1. c.operator \notin {"literal", "exists", "eq", "not_eq"}
        BY <3>2
      <4>2. Contained(Resolve(c.left, answered), Resolve(c.right, answered))
        BY <3>2, <4>1 DEF Says
      <4>3. ASSUME NEW l, NEW r, Contained(l, r) PROVE l # Missing /\ r # Missing
        <5>1. Missing.kind = "missing"
          BY DEF Missing
        <5>2. \/ l.kind = "string" /\ r.kind = "string"
              \/ l.kind = "array" /\ r # Missing
          BY <4>3 DEF Contained
        <5> QED BY <5>1, <5>2
      <4> QED BY <4>2, <4>3
    <3>3. CASE c.operator # "eq" /\ c.operator # "contains"
      <4>1. c.operator \notin {"literal", "exists", "eq", "not_eq", "contains"}
        BY <1>3, <3>3 DEF Both
      <4>2. CompareNumbers(c.operator, Resolve(c.left, answered), Resolve(c.right, answered))
        BY <4>1 DEF Says
      <4> QED BY <4>2 DEF CompareNumbers, Missing
    <3> QED BY <3>1, <3>2, <3>3
  <2>5. Resolve(c.left, full) = Resolve(c.left, answered) /\ Resolve(c.right, full) = Resolve(c.right, answered)
    BY <2>2, <2>3, <2>4
  <2>6. c.operator # "exists" /\ c.operator # "literal"
    BY <1>3 DEF Both
  <2>7. Says(c, full) = Says(c, answered)
    BY <2>5, <2>6 DEF Says
  <2> QED BY <2>7
<1> QED BY <1>1, <1>2, <1>3, ConditionsNest

\* A condition without negation that reads features of the manifest holds still.
Stays(c, full) ==
    (\A d \in Tree[c] : Readable(d)) /\ Positive(c) /\ EvaluateCondition(c, answered)
        => EvaluateCondition(c, full)

LEMMA HoldingStays ==
    ASSUME NEW full, Fills(full)
    PROVE  \A c \in Conditions : Stays(c, full)
<1>1. PICK f : /\ f = [c \in Conditions |-> HoldsOf(f, c, answered)]
               /\ \A c : EvaluateCondition(c, answered) = f[c]
  BY HoldsIs
<1>2. PICK g : /\ g = [c \in Conditions |-> HoldsOf(g, c, full)]
               /\ \A c : EvaluateCondition(c, full) = g[c]
  BY HoldsIs
<1> DEFINE S == {c \in Conditions : Stays(c, full)}
<1>3. ASSUME NEW c \in Conditions, Subconditions(c) \subseteq S,
             \A d \in Tree[c] : Readable(d), Positive(c), f[c]
      PROVE  g[c]
  <2>1. HoldsOf(f, c, answered)
    <3>1. f[c] = HoldsOf(f, c, answered)
      BY <1>1
    <3> QED BY <1>3, <3>1
  <2>2. g[c] = HoldsOf(g, c, full)
    BY <1>2
  <2>3. c \in Tree[c] /\ \A d \in Subconditions(c) : d \in Conditions /\ Tree[d] \subseteq Tree[c]
    BY TreeHas
  <2>4. ASSUME NEW d \in Subconditions(c), f[d] PROVE g[d]
    <3>1. /\ \A e \in Tree[d] : Readable(e)
          /\ Positive(d)
      BY <1>3, <2>3 DEF Positive
    <3>2. EvaluateCondition(d, answered)
      BY <1>1, <2>4
    <3>3. EvaluateCondition(d, full)
      BY <1>3, <3>1, <3>2 DEF Stays
    <3> QED BY <1>2, <3>3
  <2>5. /\ c.operator \notin {"not", "not_eq"}
        /\ c.operator = "eq" => c.left.source = "literal" \/ c.right.source = "literal"
    BY <1>3, <2>3 DEF Positive
  <2>6. CASE c.operator = "all"
    <3>1. \A d \in Subconditions(c) : f[d]
      BY <2>1, <2>6 DEF HoldsOf
    <3> QED BY <2>2, <2>4, <2>6, <3>1 DEF HoldsOf
  <2>7. CASE c.operator = "any"
    <3>1. \E d \in Subconditions(c) : f[d]
      BY <2>1, <2>7 DEF HoldsOf
    <3> QED BY <2>2, <2>4, <2>7, <3>1 DEF HoldsOf
  <2>8. CASE c.operator # "all" /\ c.operator # "any"
    <3>1. Says(c, answered)
      BY <2>1, <2>5, <2>8 DEF HoldsOf
    <3>2. Readable(c)
      BY <1>3, <2>3
    <3>3. Says(c, full)
      BY <2>5, <2>8, <3>1, <3>2, SaysStays
    <3> QED BY <2>2, <2>5, <2>8, <3>3 DEF HoldsOf
  <2> QED BY <2>6, <2>7, <2>8
<1>4. ASSUME NEW c \in Conditions, Subconditions(c) \subseteq S PROVE c \in S
  BY <1>1, <1>2, <1>3, <1>4 DEF Stays
<1>5. Conditions \subseteq S
  <2> HIDE DEF S
  <2> QED BY <1>4, ForConditions
<1> QED BY <1>5

\* The conditions of a program are of those that nest, its features have names,
\* and the rules that apply are those of a program that was accepted whose
\* conditions hold.
IrIInv ==
    /\ \A i \in DOMAIN program : program[i].when \in Conditions
    /\ declared \subseteq Features
    /\ applied # {} => ValidProgram(program, declared)
    /\ \A i \in applied : i \in DOMAIN program /\ EvaluateCondition(program[i].when, answered)

\* Whatever a rule without negation asks for, it asks for whatever the features
\* that are missing would have said, because only declared features are read.
LEMMA AppliesAnyway == IrIInv => AbsenceNeverApplies
<1> SUFFICES ASSUME IrIInv, NEW i \in applied, Positive(program[i].when), NEW missing \in [Features -> Values]
             PROVE  EvaluateCondition(program[i].when,
                        [f \in Features |-> IF answered[f] = Missing THEN missing[f] ELSE answered[f]])
  BY DEF AbsenceNeverApplies
<1>1. PICK c : c = program[i].when
  OBVIOUS
<1>2. PICK full : full = [f \in Features |-> IF answered[f] = Missing THEN missing[f] ELSE answered[f]]
  OBVIOUS
<1>3. Fills(full)
  BY <1>2 DEF Fills
<1>4. i \in DOMAIN program /\ c \in Conditions /\ Positive(c) /\ EvaluateCondition(c, answered)
  BY <1>1 DEF IrIInv
<1>5. \A v \in ValueRefs(c) : v.source = "feature" => v.name \in Features
  BY <1>1, <1>4 DEF IrIInv, ValidProgram
<1>6. \A d \in Tree[c] : Readable(d)
  BY <1>5 DEF ValueRefs, Readable
<1>7. EvaluateCondition(c, full)
  BY <1>3, <1>4, <1>6, HoldingStays DEF Stays
<1> QED BY <1>1, <1>2, <1>7

\* A rule without negation applies only if it would apply with every feature there.
THEOREM AbsenceDecidesNothing ==
    ASSUME NEW programs, NEW manifests \in SUBSET SUBSET Features,
           \A rules \in programs : \A i \in DOMAIN rules : rules[i].when \in Conditions
    PROVE  IrSpec(programs, manifests) => []AbsenceNeverApplies
<1>1. IrInitWith(programs, manifests) => IrIInv
  BY DEF IrInitWith, IrIInv
<1>2. IrIInv /\ [IrNext]_irVars => IrIInv'
  <2> SUFFICES ASSUME IrIInv, [IrNext]_irVars PROVE IrIInv'
    OBVIOUS
  <2>1. CASE RefuseProgram
    BY <2>1 DEF RefuseProgram, IrIInv
  <2>2. CASE RunProgram
    BY <2>2 DEF RunProgram, IrIInv
  <2>3. CASE UNCHANGED irVars
    BY <2>3 DEF irVars, IrIInv
  <2> QED BY <2>1, <2>2, <2>3 DEF IrNext
<1>3. IrIInv => AbsenceNeverApplies
  BY AppliesAnyway
<1> QED
  BY <1>1, <1>2, <1>3, PTL DEF IrSpec

(* -------------------------- Content decisions --------------------------- *)

USE DecisionConstants

\* A span is a nonempty interval of positions of the text.
LEMMA SpanBounds ==
    ASSUME NEW s \in Spans
    PROVE  /\ s[1] \in 0..Length /\ s[2] \in 0..Length /\ s[1] < s[2]
           /\ s = <<s[1], s[2]>>
           /\ \A p : p \in Within(s) <=> p \in Int /\ s[1] <= p /\ p < s[2]
BY DEF Spans, Within

\* A position is covered by spans when one of them has it.
LEMMA CoveredBy ==
    ASSUME NEW X \in SUBSET Spans, NEW p
    PROVE  /\ p \in Covered(X) <=> p \in Int /\ \E s \in X : s[1] <= p /\ p < s[2]
           /\ p \in Covered(X) => p \in 0..(Length - 1)
<1>1. p \in Covered(X) <=> \E s \in X : p \in Within(s)
  BY DEF Covered
<1>2. \A s \in X : /\ p \in Within(s) <=> p \in Int /\ s[1] <= p /\ p < s[2]
                   /\ s[1] \in 0..Length /\ s[2] \in 0..Length
  BY SpanBounds
<1>3. p \in Covered(X) <=> p \in Int /\ \E s \in X : s[1] <= p /\ p < s[2]
  BY <1>1, <1>2
<1>4. p \in Covered(X) => p \in 0..(Length - 1)
  BY <1>2, <1>3
<1> QED BY <1>3, <1>4

\* Where a covered stretch that reaches up to k begins.
LEMMA StretchBegins ==
    ASSUME NEW X \in SUBSET Spans, NEW k \in Covered(X)
    PROVE  \E a \in X : /\ a[1] <= k /\ a[1] - 1 \notin Covered(X)
                        /\ a[1]..k \subseteq Covered(X)
<1>1. k \in 0..(Length - 1)
  BY CoveredBy
<1> DEFINE L == {i \in 0..k : i..k \subseteq Covered(X)}
<1>2. k \in L
  BY <1>1
<1>3. PICK lo \in L : \A i \in L : lo <= i
  <2> L \in SUBSET Nat
    BY <1>1
  <2> HIDE DEF L
  <2> QED BY <1>2, LeastNumber
<1>4. lo \in 0..k /\ lo..k \subseteq Covered(X)
  OBVIOUS
<1>5. lo - 1 \notin Covered(X)
  <2> SUFFICES ASSUME lo - 1 \in Covered(X) PROVE FALSE
    OBVIOUS
  <2>1. lo - 1 \in 0..k
    BY <1>1, <1>4, CoveredBy
  <2>2. (lo - 1)..k \subseteq Covered(X)
    BY <1>1, <1>4
  <2> QED BY <1>1, <1>3, <1>4, <2>1, <2>2
<1>6. lo \in Covered(X)
  BY <1>1, <1>4
<1>7. PICK a \in X : a[1] <= lo /\ lo < a[2]
  BY <1>6, CoveredBy
<1>8. a[1] \in 0..Length /\ a[2] \in 0..Length
  BY SpanBounds
<1>9. a[1] = lo
  <2> SUFFICES ASSUME a[1] # lo PROVE FALSE
    OBVIOUS
  <2>1. a[1] <= lo - 1 /\ lo - 1 < a[2] /\ lo - 1 \in Int
    BY <1>1, <1>4, <1>7, <1>8
  <2> QED BY <1>5, <2>1, CoveredBy
<1> QED BY <1>1, <1>4, <1>5, <1>9

\* Where the stretch that begins at or before k ends.
LEMMA StretchEnds ==
    ASSUME NEW X \in SUBSET Spans, NEW k \in Covered(X)
    PROVE  \E b \in X : /\ k < b[2] /\ b[2] \notin Covered(X)
                        /\ k..(b[2] - 1) \subseteq Covered(X)
<1>1. k \in 0..(Length - 1)
  BY CoveredBy
<1> DEFINE R == {i \in 0..(Length - 1 - k) : k..(Length - 1 - i) \subseteq Covered(X)}
<1>2. (Length - 1 - k) \in R
  BY <1>1
<1>3. PICK i \in R : \A j \in R : i <= j
  <2> R \in SUBSET Nat
    BY <1>1
  <2> HIDE DEF R
  <2> QED BY <1>2, LeastNumber
<1> DEFINE hi == Length - i
<1>4. i \in 0..(Length - 1 - k) /\ k..(hi - 1) \subseteq Covered(X)
  BY <1>1
<1>5. hi \in Nat /\ k < hi /\ hi <= Length
  BY <1>1, <1>4
<1>6. hi \notin Covered(X)
  <2> SUFFICES ASSUME hi \in Covered(X) PROVE FALSE
    OBVIOUS
  <2>1. hi \in 0..(Length - 1)
    BY CoveredBy
  <2>2. i - 1 \in 0..(Length - 1 - k)
    BY <1>1, <1>4, <2>1
  <2>3. k..(Length - 1 - (i - 1)) \subseteq Covered(X)
    BY <1>1, <1>4, <2>1
  <2> QED BY <1>1, <1>3, <1>4, <2>2, <2>3
<1>7. hi - 1 \in Covered(X)
  BY <1>1, <1>4, <1>5
<1> HIDE DEF hi
<1>8. PICK b \in X : b[1] <= hi - 1 /\ hi - 1 < b[2]
  BY <1>7, CoveredBy
<1>9. b[1] \in 0..Length /\ b[2] \in 0..Length
  BY SpanBounds
<1>10. b[2] = hi
  <2> SUFFICES ASSUME b[2] # hi PROVE FALSE
    OBVIOUS
  <2>1. b[1] <= hi /\ hi < b[2] /\ hi \in Int
    BY <1>5, <1>8, <1>9
  <2> QED BY <1>6, <2>1, CoveredBy
<1> QED BY <1>4, <1>5, <1>6, <1>10

\* Spans that were merged are the maximal runs of what was covered.
LEMMA MergedSpan ==
    ASSUME NEW X \in SUBSET Spans
    PROVE  /\ MergeSpans(X) \in SUBSET Spans
           /\ \A s \in Spans : s \in MergeSpans(X) <=>
                /\ \E a \in X, b \in X : s[1] = a[1] /\ s[2] = b[2]
                /\ Within(s) \subseteq Covered(X)
                /\ s[1] - 1 \notin Covered(X) /\ s[2] \notin Covered(X)
<1>1. \A a \in X : a[1] \in 0..Length /\ a[2] \in 0..Length
  BY SpanBounds
<1>2. MergeSpans(X) \in SUBSET Spans
  BY <1>1 DEF MergeSpans, Spans
<1>3. ASSUME NEW s \in Spans
      PROVE s \in MergeSpans(X) <=>
                /\ \E a \in X, b \in X : s[1] = a[1] /\ s[2] = b[2]
                /\ Within(s) \subseteq Covered(X)
                /\ s[1] - 1 \notin Covered(X) /\ s[2] \notin Covered(X)
  <2>1. s[1] < s[2] /\ s = <<s[1], s[2]>>
    BY SpanBounds
  <2>2. s \in MergeSpans(X) <=>
          /\ \E a \in X, b \in X : s = <<a[1], b[2]>>
          /\ s[1] < s[2] /\ Within(s) \subseteq Covered(X)
          /\ s[1] - 1 \notin Covered(X) /\ s[2] \notin Covered(X)
    BY DEF MergeSpans
  <2>3. \A a \in X, b \in X : s = <<a[1], b[2]>> <=> s[1] = a[1] /\ s[2] = b[2]
    BY <2>1
  <2> QED BY <2>1, <2>2, <2>3
<1> QED BY <1>2, <1>3

\* Merging hides no part of a span: one of the merged spans has all of it.
LEMMA HullExists ==
    ASSUME NEW X \in SUBSET Spans, NEW m \in X
    PROVE  \E s \in MergeSpans(X) : s[1] <= m[1] /\ m[2] <= s[2]
<1>1. m[1] \in 0..Length /\ m[2] \in 0..Length /\ m[1] < m[2]
  BY SpanBounds
<1>2. m[1] \in Covered(X) /\ m[2] - 1 \in Covered(X) /\ m[1]..(m[2] - 1) \subseteq Covered(X)
  BY <1>1 DEF Covered, Within
<1>3. PICK a \in X : a[1] <= m[1] /\ a[1] - 1 \notin Covered(X) /\ a[1]..m[1] \subseteq Covered(X)
  BY <1>2, StretchBegins
<1>4. PICK b \in X : /\ m[2] - 1 < b[2] /\ b[2] \notin Covered(X)
                     /\ (m[2] - 1)..(b[2] - 1) \subseteq Covered(X)
  BY <1>2, StretchEnds
<1>5. a[1] \in 0..Length /\ b[2] \in 0..Length
  BY SpanBounds
<1> DEFINE s == <<a[1], b[2]>>
<1>6. s \in Spans /\ s[1] = a[1] /\ s[2] = b[2]
  BY <1>1, <1>3, <1>4, <1>5 DEF Spans
<1>7. Within(s) \subseteq Covered(X)
  <2> SUFFICES ASSUME NEW p \in a[1]..(b[2] - 1) PROVE p \in Covered(X)
    BY <1>6 DEF Within
  <2> QED BY <1>1, <1>2, <1>3, <1>4, <1>5
<1>8. s \in MergeSpans(X)
  <2> HIDE DEF s
  <2> QED BY <1>3, <1>4, <1>6, <1>7, MergedSpan
<1> QED BY <1>1, <1>3, <1>4, <1>5, <1>6, <1>8

\* Merging spans covers what they covered.
LEMMA MergedCovers ==
    ASSUME NEW X \in SUBSET Spans
    PROVE  Covered(MergeSpans(X)) = Covered(X)
<1>1. MergeSpans(X) \in SUBSET Spans
  BY MergedSpan
<1>2. ASSUME NEW p \in Covered(MergeSpans(X)) PROVE p \in Covered(X)
  <2>1. PICK s \in MergeSpans(X) : p \in Within(s)
    BY DEF Covered
  <2> QED BY <1>1, <2>1, MergedSpan
<1>3. ASSUME NEW p \in Covered(X) PROVE p \in Covered(MergeSpans(X))
  <2>1. PICK m \in X : m[1] <= p /\ p < m[2]
    BY CoveredBy
  <2>2. p \in Int
    BY CoveredBy
  <2>3. PICK s \in MergeSpans(X) : s[1] <= m[1] /\ m[2] <= s[2]
    BY HullExists
  <2>4. /\ m[1] \in 0..Length /\ m[2] \in 0..Length
        /\ s[1] \in 0..Length /\ s[2] \in 0..Length
    BY <1>1, SpanBounds
  <2>5. s[1] <= p /\ p < s[2]
    BY <2>1, <2>2, <2>3, <2>4
  <2> QED BY <1>1, <2>2, <2>5, CoveredBy
<1> QED BY <1>2, <1>3

\* Merged spans are merged already.
LEMMA MergedIsMerged ==
    ASSUME NEW X \in SUBSET Spans
    PROVE  MergeSpans(MergeSpans(X)) = MergeSpans(X)
<1> DEFINE M == MergeSpans(X)
<1>1. M \in SUBSET Spans /\ Covered(M) = Covered(X)
  BY MergedSpan, MergedCovers
<1>2. MergeSpans(M) \in SUBSET Spans
  BY <1>1, MergedSpan
<1>3. ASSUME NEW s \in Spans PROVE s \in MergeSpans(M) <=> s \in M
  <2>1. s \in MergeSpans(M) <=>
                /\ \E a \in M, b \in M : s[1] = a[1] /\ s[2] = b[2]
                /\ Within(s) \subseteq Covered(X)
                /\ s[1] - 1 \notin Covered(X) /\ s[2] \notin Covered(X)
    <3> HIDE DEF M
    <3> QED BY <1>1, MergedSpan
  <2>2. s \in M <=>
                /\ \E a \in X, b \in X : s[1] = a[1] /\ s[2] = b[2]
                /\ Within(s) \subseteq Covered(X)
                /\ s[1] - 1 \notin Covered(X) /\ s[2] \notin Covered(X)
    BY MergedSpan
  <2>3. \A a \in M : \E c \in X, d \in X : a[1] = c[1] /\ a[2] = d[2]
    BY <1>1, MergedSpan
  <2> HIDE DEF M
  <2> QED BY <2>1, <2>2, <2>3
<1> HIDE DEF M
<1>4. MergeSpans(M) = M
  BY <1>1, <1>2, <1>3
<1> QED BY <1>4 DEF M

\* Rules are records with the spans they matched, of the text and of the name.
RuleOK(r) ==
    /\ r = [id |-> r.id, name |-> r.name, reason |-> r.reason, actions |-> r.actions, matched |-> r.matched]
    /\ r.matched \in [Surfaces -> SUBSET Spans]

PolicyOK(p) ==
    /\ \A r \in Rules(p) : RuleOK(r)
    /\ \A r \in Rules(p), o \in Rules(p) : o.name = r.name => o = r

\* Effects on the delivery whose spans are merged.
DeliveryOK(d) ==
    /\ d = [blockedBy |-> d.blockedBy, censor |-> d.censor, strip |-> d.strip,
            suppress |-> d.suppress, rename |-> d.rename]
    /\ d.censor \in [Surfaces -> SUBSET Spans]
    /\ d.strip \in BOOLEAN /\ d.suppress \in BOOLEAN
    /\ \A f \in Surfaces : MergeSpans(d.censor[f]) = d.censor[f]

\* What the layers that every destination shares come to.
SharedLayers ==
    IF product = "hub" THEN ComposeDelivery(Resolved("GLOBAL"), Resolved("HUB")) ELSE Resolved("GLOBAL")

SharedBlock == Blocked(Resolved("GLOBAL")) \/ (product = "hub" /\ Blocked(Resolved("HUB")))

DecisionIInv ==
    /\ urls \subseteq Spans
    /\ \A s \in Scopes : PolicyOK(policy[s])
    /\ stage \in {"GLOBAL", "HUB", "SERVER", "done"}
    /\ stage = "HUB" => /\ product = "hub" /\ shared = Resolved("GLOBAL")
                        /\ ~Blocked(Resolved("GLOBAL"))
    /\ stage = "SERVER" => shared = SharedLayers /\ ~SharedBlock
    /\ stage = "done" /\ ~SharedBlock => /\ shared = SharedLayers
                                         /\ decision = [s \in Servers |-> ServerDecision(s)]
    /\ stage = "done" /\ SharedBlock => \A s \in Servers : decision[s].variant = {}

\* The layers are decided one after the other: global, hub, then servers.
LEMMA DecisionSteps ==
    ASSUME DecisionIInv, [DecisionNext]_decisionVars
    PROVE  DecisionIInv'
<1>1. CASE EvaluateGlobal
  <2>1. /\ product' = product /\ urls' = urls /\ policy' = policy
        /\ shared' = Resolved("GLOBAL") /\ stage = "GLOBAL"
    BY <1>1 DEF EvaluateGlobal
  <2>2. /\ Resolved("GLOBAL")' = Resolved("GLOBAL") /\ Resolved("HUB")' = Resolved("HUB")
    BY <2>1 DEF Resolved
  <2>3. SharedLayers' = SharedLayers /\ (SharedBlock' <=> SharedBlock)
    BY <2>1, <2>2 DEF SharedLayers, SharedBlock
  <2>4. CASE Blocked(Resolved("GLOBAL"))
    <3>1. stage' = "done" /\ decision' = Stopped(Resolved("GLOBAL")) /\ SharedBlock
      BY <1>1, <2>4 DEF EvaluateGlobal, SharedBlock
    <3>2. \A s \in Servers : decision'[s].variant = {}
      BY <3>1 DEF Stopped
    <3> QED BY <2>1, <2>3, <3>1, <3>2 DEF DecisionIInv
  <2>5. CASE ~Blocked(Resolved("GLOBAL"))
    <3>1. stage' = (IF product = "hub" THEN "HUB" ELSE "SERVER")
      BY <1>1, <2>5 DEF EvaluateGlobal
    <3>2. product # "hub" => SharedLayers = Resolved("GLOBAL") /\ ~SharedBlock
      BY <2>5 DEF SharedLayers, SharedBlock
    <3> QED BY <2>1, <2>2, <2>3, <2>5, <3>1, <3>2 DEF DecisionIInv
  <2> QED BY <2>4, <2>5
<1>2. CASE EvaluateHub
  <2>1. /\ product' = product /\ urls' = urls /\ policy' = policy /\ stage = "HUB"
        /\ product = "hub" /\ shared = Resolved("GLOBAL") /\ ~Blocked(Resolved("GLOBAL"))
    BY <1>2 DEF EvaluateHub, DecisionIInv
  <2>2. /\ Resolved("GLOBAL")' = Resolved("GLOBAL") /\ Resolved("HUB")' = Resolved("HUB")
    BY <2>1 DEF Resolved
  <2>3. SharedLayers' = SharedLayers /\ (SharedBlock' <=> SharedBlock)
    BY <2>1, <2>2 DEF SharedLayers, SharedBlock
  <2>4. CASE Blocked(Resolved("HUB"))
    <3>1. stage' = "done" /\ decision' = Stopped(Resolved("HUB")) /\ SharedBlock
      BY <1>2, <2>1, <2>4 DEF EvaluateHub, SharedBlock
    <3>2. \A s \in Servers : decision'[s].variant = {}
      BY <3>1 DEF Stopped
    <3> QED BY <2>1, <2>3, <3>1, <3>2 DEF DecisionIInv
  <2>5. CASE ~Blocked(Resolved("HUB"))
    <3>1. stage' = "SERVER" /\ shared' = ComposeDelivery(shared, Resolved("HUB"))
      BY <1>2, <2>5 DEF EvaluateHub
    <3>2. SharedLayers = shared' /\ ~SharedBlock
      BY <2>1, <2>5, <3>1 DEF SharedLayers, SharedBlock
    <3> QED BY <2>1, <2>3, <3>1, <3>2 DEF DecisionIInv
  <2> QED BY <2>4, <2>5
<1>3. CASE EvaluateServers
  <2>1. /\ product' = product /\ urls' = urls /\ policy' = policy /\ shared' = shared
        /\ stage = "SERVER" /\ stage' = "done"
        /\ decision' = [s \in Servers |-> ServerDecision(s)]
    BY <1>3 DEF EvaluateServers
  <2>2. /\ Resolved("GLOBAL")' = Resolved("GLOBAL") /\ Resolved("HUB")' = Resolved("HUB")
    BY <2>1 DEF Resolved
  <2>3. SharedLayers' = SharedLayers /\ (SharedBlock' <=> SharedBlock)
    BY <2>1, <2>2 DEF SharedLayers, SharedBlock
  <2>4. decision' = [s \in Servers |-> ServerDecision(s)']
    BY <2>1 DEF ServerDecision, Representative, Remapped, Materialize, Content, Moved
  <2> QED BY <2>1, <2>3, <2>4 DEF DecisionIInv
<1>4. CASE UNCHANGED decisionVars
  <2>1. /\ product' = product /\ urls' = urls /\ policy' = policy /\ shared' = shared
        /\ stage' = stage /\ decision' = decision
    BY <1>4 DEF decisionVars
  <2>2. /\ Resolved("GLOBAL")' = Resolved("GLOBAL") /\ Resolved("HUB")' = Resolved("HUB")
    BY <2>1 DEF Resolved
  <2>3. SharedLayers' = SharedLayers /\ (SharedBlock' <=> SharedBlock)
    BY <2>1, <2>2 DEF SharedLayers, SharedBlock
  <2>4. [s \in Servers |-> ServerDecision(s)]' = [s \in Servers |-> ServerDecision(s)]
    BY <2>1 DEF ServerDecision, Representative, Remapped, Materialize, Content, Moved
  <2> QED BY <2>1, <2>2, <2>3, <2>4 DEF DecisionIInv
<1> QED BY <1>1, <1>2, <1>3, <1>4 DEF DecisionNext

\* Texts with spans in them, and loaded whose rules are records.
InputsOK(texts, loaded) ==
    /\ texts \subseteq SUBSET Spans
    /\ \A level \in {"GLOBAL", "HUB", "SERVER"} : \A p \in loaded[level] : \A r \in Rules(p) : RuleOK(r)

\* A policy that validation lets through has no two rules of a name.
LEMMA ValidIsUnique ==
    ASSUME NEW level, NEW p, ValidPolicy(level, p), \A r \in Rules(p) : RuleOK(r)
    PROVE  PolicyOK(p)
BY DEF ValidPolicy, PolicyOK

\* What is loaded for a decision was validated.
LEMMA DecisionStarts ==
    ASSUME NEW texts, NEW loaded, InputsOK(texts, loaded), DecisionInitWith(texts, loaded)
    PROVE  DecisionIInv
<1>1. PICK g \in {p \in loaded["GLOBAL"] : ValidPolicy("GLOBAL", p)},
           h \in {p \in loaded["HUB"] : ValidPolicy("HUB", p)},
           v \in [Servers -> {p \in loaded["SERVER"] : ValidPolicy("SERVER", p)}] :
         policy = [s \in Scopes |-> IF s = "GLOBAL" THEN g ELSE IF s = "HUB" THEN h ELSE v[s]]
  BY DEF DecisionInitWith
<1>2. PolicyOK(g)
  <2>1. g \in loaded["GLOBAL"] /\ ValidPolicy("GLOBAL", g)
    OBVIOUS
  <2> QED BY <2>1, ValidIsUnique DEF InputsOK
<1>3. PolicyOK(h)
  <2>1. h \in loaded["HUB"] /\ ValidPolicy("HUB", h)
    OBVIOUS
  <2> QED BY <2>1, ValidIsUnique DEF InputsOK
<1>4. ASSUME NEW s \in Servers PROVE PolicyOK(v[s])
  <2>1. v[s] \in loaded["SERVER"] /\ ValidPolicy("SERVER", v[s])
    OBVIOUS
  <2> QED BY <2>1, ValidIsUnique DEF InputsOK
<1>5. \A s \in Scopes : PolicyOK(policy[s])
  <2>1. \A s \in Scopes : \/ s = "GLOBAL" /\ policy[s] = g
                          \/ s = "HUB" /\ policy[s] = h
                          \/ s \in Servers /\ policy[s] = v[s]
    BY <1>1 DEF Scopes
  <2> QED BY <1>2, <1>3, <1>4, <2>1
<1> QED BY <1>5 DEF DecisionInitWith, DecisionIInv, InputsOK

\* The delivery that a scope resolves to has its spans merged.
LEMMA ResolvedIsMerged ==
    ASSUME NEW p, PolicyOK(p), NEW authority
    PROVE  DeliveryOK(ResolveScope(authority, Rules(p)))
<1> DEFINE R == Rules(p)
           d == ResolveScope(authority, R)
           X(f) == UNION {r.matched[f] : r \in {q \in R : "CENSOR_MATCH" \in Types(q)}}
<1>1. \A f \in Surfaces : X(f) \in SUBSET Spans
  BY DEF PolicyOK, RuleOK
<1>2. d.censor = [f \in Surfaces |-> IF d.blockedBy # {} THEN {} ELSE MergeSpans(X(f))]
  <2>1. d.blockedBy # {} <=> {r \in R : "BLOCK" \in Types(r)} # {}
    BY DEF ResolveScope
  <2> QED BY <2>1 DEF ResolveScope
<1>3. d = [blockedBy |-> d.blockedBy, censor |-> d.censor, strip |-> d.strip,
           suppress |-> d.suppress, rename |-> d.rename]
  BY DEF ResolveScope
<1>8. d.strip \in BOOLEAN /\ d.suppress \in BOOLEAN
  BY DEF ResolveScope
<1> HIDE DEF X, d
<1>4. MergeSpans({}) = {}
  BY DEF MergeSpans
<1>5. ASSUME NEW f \in Surfaces
      PROVE d.censor[f] \in SUBSET Spans /\ MergeSpans(d.censor[f]) = d.censor[f]
  <2>1. CASE d.blockedBy # {}
    BY <1>2, <1>4, <2>1
  <2>2. CASE d.blockedBy = {}
    <3>1. d.censor[f] = MergeSpans(X(f)) /\ X(f) \in SUBSET Spans
      BY <1>1, <1>2, <2>2
    <3> QED BY <3>1, MergedSpan, MergedIsMerged
  <2> QED BY <2>1, <2>2
<1>6. d.censor \in [Surfaces -> SUBSET Spans]
  BY <1>2, <1>5
<1>7. DeliveryOK(d)
  BY <1>3, <1>5, <1>6, <1>8 DEF DeliveryOK
<1> QED BY <1>7 DEF d

\* Two layers composed have their spans merged again.
LEMMA ComposedIsMerged ==
    ASSUME NEW upper, NEW lower, DeliveryOK(upper), DeliveryOK(lower)
    PROVE  DeliveryOK(ComposeDelivery(upper, lower))
<1> DEFINE d == ComposeDelivery(upper, lower)
           X(f) == upper.censor[f] \cup lower.censor[f]
<1>1. \A f \in Surfaces : X(f) \in SUBSET Spans
  BY DEF DeliveryOK
<1>2. d.censor = [f \in Surfaces |-> IF d.blockedBy # {} THEN {} ELSE MergeSpans(X(f))]
  BY DEF ComposeDelivery
<1>3. d = [blockedBy |-> d.blockedBy, censor |-> d.censor, strip |-> d.strip,
           suppress |-> d.suppress, rename |-> d.rename]
  BY DEF ComposeDelivery
<1>8. d.strip \in BOOLEAN /\ d.suppress \in BOOLEAN
  BY DEF ComposeDelivery
<1> HIDE DEF X, d
<1>4. MergeSpans({}) = {}
  BY DEF MergeSpans
<1>5. ASSUME NEW f \in Surfaces
      PROVE d.censor[f] \in SUBSET Spans /\ MergeSpans(d.censor[f]) = d.censor[f]
  <2>1. CASE d.blockedBy # {}
    BY <1>2, <1>4, <2>1
  <2>2. CASE d.blockedBy = {}
    <3>1. d.censor[f] = MergeSpans(X(f)) /\ X(f) \in SUBSET Spans
      BY <1>1, <1>2, <2>2
    <3> QED BY <3>1, MergedSpan, MergedIsMerged
  <2> QED BY <2>1, <2>2
<1>6. d.censor \in [Surfaces -> SUBSET Spans]
  BY <1>2, <1>5
<1>7. DeliveryOK(d)
  BY <1>3, <1>5, <1>6, <1>8 DEF DeliveryOK
<1> QED BY <1>7 DEF d

\* So the layers that all servers share are merged.
LEMMA SharedIsMerged ==
    ASSUME DecisionIInv PROVE DeliveryOK(SharedLayers)
<1>1. PolicyOK(policy["GLOBAL"]) /\ PolicyOK(policy["HUB"])
  BY DEF DecisionIInv, Scopes
<1>2. DeliveryOK(Resolved("GLOBAL")) /\ DeliveryOK(Resolved("HUB"))
  BY <1>1, ResolvedIsMerged DEF Resolved
<1> QED BY <1>2, ComposedIsMerged DEF SharedLayers

\* A destination without a policy adds nothing to the shared layers.
LEMMA NothingToAdd ==
    ASSUME NEW d, DeliveryOK(d), ~Blocked(d)
    PROVE  ComposeDelivery(d, ResolveScope("SERVER", {})) = d
<1> DEFINE none == ResolveScope("SERVER", {})
<1>1. /\ none.blockedBy = {} /\ none.strip = FALSE /\ none.suppress = FALSE /\ none.rename = {}
      /\ none.censor = [f \in Surfaces |-> {}]
  <2>1. MergeSpans({}) = {}
    BY DEF MergeSpans
  <2> QED BY <2>1 DEF ResolveScope, Renaming
<1> HIDE DEF none
<1>2. d.blockedBy \cup none.blockedBy = {}
  BY <1>1 DEF Blocked
<1>3. \A f \in Surfaces : MergeSpans(d.censor[f] \cup none.censor[f]) = d.censor[f]
  BY <1>1 DEF DeliveryOK
<1>4. ComposeDelivery(d, none) =
        [blockedBy |-> {}, censor |-> [f \in Surfaces |-> d.censor[f]], strip |-> d.strip,
         suppress |-> d.suppress, rename |-> d.rename]
  <2>1. d.strip = (d.strip \/ none.strip) /\ d.suppress = (d.suppress \/ none.suppress)
    BY <1>1 DEF DeliveryOK
  <2>2. (IF d.rename # {} THEN d.rename ELSE none.rename) = d.rename
    BY <1>1
  <2>3. [f \in Surfaces |-> IF {} # {} THEN {} ELSE MergeSpans(d.censor[f] \cup none.censor[f])]
          = [f \in Surfaces |-> d.censor[f]]
    BY <1>3
  <2>4. ComposeDelivery(d, none) =
          [blockedBy |-> {},
           censor    |-> [f \in Surfaces |-> IF {} # {} THEN {} ELSE MergeSpans(d.censor[f] \cup none.censor[f])],
           strip |-> (d.strip \/ none.strip), suppress |-> (d.suppress \/ none.suppress),
           rename |-> IF d.rename # {} THEN d.rename ELSE none.rename]
    BY <1>2 DEF ComposeDelivery
  <2> QED BY <2>1, <2>2, <2>3, <2>4
<1>5. ComposeDelivery(d, none) = d
  BY <1>4 DEF DeliveryOK, Blocked
<1> QED BY <1>5 DEF none

\* Two loaded of one profile have the same matches, and so the same effects.
LEMMA SameProfile ==
    ASSUME NEW p, NEW q, PolicyOK(p), PolicyOK(q), Profile(p) = Profile(q)
    PROVE  \A r \in Rules(p) : \E o \in Rules(q) :
             o.name = r.name /\ o.reason = r.reason /\ o.actions = r.actions /\ o.matched = r.matched
<1> SUFFICES ASSUME NEW r \in Rules(p)
             PROVE \E o \in Rules(q) : o.name = r.name /\ o.reason = r.reason
                                       /\ o.actions = r.actions /\ o.matched = r.matched
  OBVIOUS
<1>1. Behaviour(r) \in Profile(q)
  BY DEF Profile
<1>2. PICK o \in Rules(q) : Behaviour(o) = Behaviour(r)
  BY <1>1 DEF Profile
<1> QED BY <1>2 DEF Behaviour

\* Policies of one profile resolve to the same effects: which rule of a name
\* blocks is the only thing that the identifiers tell.
LEMMA SameEffects ==
    ASSUME NEW p, NEW q, PolicyOK(p), PolicyOK(q), Profile(p) = Profile(q)
    PROVE  LET c == ResolveScope("SERVER", Rules(p))
               d == ResolveScope("SERVER", Rules(q))
           IN /\ Blocked(c) <=> Blocked(d)
              /\ c.censor = d.censor /\ c.rename = d.rename
              /\ c.strip = d.strip /\ c.suppress = d.suppress
<1> DEFINE c == ResolveScope("SERVER", Rules(p))
           d == ResolveScope("SERVER", Rules(q))
<1>1. /\ \A r \in Rules(p) : \E o \in Rules(q) : o.actions = r.actions /\ o.matched = r.matched
      /\ \A r \in Rules(q) : \E o \in Rules(p) : o.actions = r.actions /\ o.matched = r.matched
  BY SameProfile
<1>2. ASSUME NEW type
      PROVE (\E r \in Rules(p) : type \in Types(r)) <=> (\E r \in Rules(q) : type \in Types(r))
  BY <1>1 DEF Types
<1>3. c.strip = d.strip /\ c.suppress = d.suppress
  BY <1>2 DEF ResolveScope
<1>4. /\ Blocked(c) <=> (\E r \in Rules(p) : "BLOCK" \in Types(r))
      /\ Blocked(d) <=> (\E r \in Rules(q) : "BLOCK" \in Types(r))
  BY DEF Blocked, ResolveScope
<1>5. Blocked(c) <=> Blocked(d)
  BY <1>2, <1>4
<1> DEFINE X(of, f) == UNION {r.matched[f] : r \in {o \in Rules(of) : "CENSOR_MATCH" \in Types(o)}}
<1>6. ASSUME NEW f \in Surfaces PROVE X(p, f) = X(q, f)
  <2>1. ASSUME NEW s PROVE s \in X(p, f) <=> s \in X(q, f)
    <3>1. s \in X(p, f) <=> \E r \in Rules(p) : "CENSOR_MATCH" \in Types(r) /\ s \in r.matched[f]
      OBVIOUS
    <3>2. s \in X(q, f) <=> \E r \in Rules(q) : "CENSOR_MATCH" \in Types(r) /\ s \in r.matched[f]
      OBVIOUS
    <3> HIDE DEF X
    <3> QED BY <1>1, <3>1, <3>2 DEF Types
  <2> HIDE DEF X
  <2> QED BY <2>1
<1>7. c.censor = d.censor
  <2>1. /\ c.censor = [f \in Surfaces |-> IF Blocked(c) THEN {} ELSE MergeSpans(X(p, f))]
        /\ d.censor = [f \in Surfaces |-> IF Blocked(d) THEN {} ELSE MergeSpans(X(q, f))]
    <3>1. /\ Blocked(c) <=> {r \in Rules(p) : "BLOCK" \in Types(r)} # {}
          /\ Blocked(d) <=> {r \in Rules(q) : "BLOCK" \in Types(r)} # {}
      BY DEF Blocked, ResolveScope
    <3> QED BY <3>1 DEF ResolveScope
  <2> HIDE DEF X, c, d
  <2> QED BY <1>5, <1>6, <2>1
<1>8. c.rename = d.rename
  <2> DEFINE named(of) == \E r \in Rules(of) : "REPLACE_NAME" \in Types(r) /\ r.matched["name"] # {}
  <2>1. named(p) <=> named(q)
    BY <1>1 DEF Types
  <2>2. /\ c.rename = IF named(p) THEN {DefaultName} ELSE {}
        /\ d.rename = IF named(q) THEN {DefaultName} ELSE {}
    BY DEF ResolveScope, Renaming
  <2> HIDE DEF named, c, d
  <2> QED BY <2>1, <2>2
<1> QED BY <1>3, <1>5, <1>7, <1>8

\* A server's rules are recognized, under their ids, by the matches of the
\* server that was evaluated for it.
LEMMA RemappedAreItsOwn ==
    ASSUME DecisionIInv, NEW s \in Servers, NEW o \in Servers,
           Profile(policy[o]) = Profile(policy[s])
    PROVE  Remapped(s, o) = Rules(policy[s])
<1>1. PolicyOK(policy[s]) /\ PolicyOK(policy[o])
  BY DEF DecisionIInv, Scopes
<1> DEFINE match(own) == CHOOSE r \in Rules(policy[o]) : r.name = own.name
           rebuilt(own) == [id |-> own.id, name |-> own.name, reason |-> own.reason,
                            actions |-> own.actions, matched |-> match(own).matched]
<1>2. ASSUME NEW own \in Rules(policy[s])
      PROVE (\E q \in Rules(policy[o]) : q.name = own.name) /\ rebuilt(own) = own
  <2>1. PICK q \in Rules(policy[o]) : q.name = own.name /\ q.matched = own.matched
    BY <1>1, SameProfile
  <2>2. match(own) = q
    <3>1. match(own) \in Rules(policy[o]) /\ match(own).name = own.name
      BY <2>1
    <3> HIDE DEF match
    <3> QED BY <1>1, <2>1, <3>1 DEF PolicyOK
  <2>3. RuleOK(own)
    BY <1>1 DEF PolicyOK
  <2> HIDE DEF match
  <2> QED BY <2>1, <2>2, <2>3 DEF RuleOK
<1>3. Remapped(s, o) = {rebuilt(own) : own \in {r \in Rules(policy[s]) : \E q \in Rules(policy[o]) : q.name = r.name}}
  BY DEF Remapped
<1> HIDE DEF rebuilt
<1> QED BY <1>2, <1>3

\* What is composed with one policy is, but for who is named for a block, what
\* is composed with another of the same effects.
LEMMA SameComposition ==
    ASSUME NEW u, NEW c, NEW d, Blocked(c) <=> Blocked(d), c.censor = d.censor,
           c.rename = d.rename, c.strip = d.strip, c.suppress = d.suppress
    PROVE  /\ Blocked(ComposeDelivery(u, c)) <=> Blocked(ComposeDelivery(u, d))
           /\ Materialize(ComposeDelivery(u, c)) = Materialize(ComposeDelivery(u, d))
<1> DEFINE x == ComposeDelivery(u, c)
           y == ComposeDelivery(u, d)
<1>1. (u.blockedBy \cup c.blockedBy # {}) <=> (u.blockedBy \cup d.blockedBy # {})
  BY DEF Blocked
<1>2. /\ Blocked(x) <=> u.blockedBy \cup c.blockedBy # {}
      /\ Blocked(y) <=> u.blockedBy \cup d.blockedBy # {}
  BY DEF Blocked, ComposeDelivery
<1>3. x.censor = y.censor /\ x.rename = y.rename /\ x.strip = y.strip /\ x.suppress = y.suppress
  BY <1>1 DEF ComposeDelivery
<1> HIDE DEF x, y
<1>4. Content(x) = Content(y) /\ Name(x) = Name(y)
  BY <1>3 DEF Content, Name
<1>5. Materialize(x) = Materialize(y) /\ (Blocked(x) <=> Blocked(y))
  BY <1>1, <1>2, <1>3, <1>4 DEF Materialize
<1> QED BY <1>5 DEF x, y

\* A server gets from the decision of its group what its own policy alone, on
\* top of the shared layers, gives it.
LEMMA DecidedAlone ==
    ASSUME DecisionIInv, Done, ~SharedBlock, NEW s \in Servers
    PROVE  LET own == ResolveScope("SERVER", Rules(policy[s]))
               alone == ComposeDelivery(shared, own)
           IN decision[s] = [blockedBy |-> own.blockedBy,
                             rules     |-> {r.id : r \in Rules(policy[s])},
                             variant   |-> IF Blocked(alone) THEN {} ELSE {Materialize(alone)}]
<1> DEFINE own == ResolveScope("SERVER", Rules(policy[s]))
           alone == ComposeDelivery(shared, own)
<1>1. shared = SharedLayers /\ decision[s] = ServerDecision(s) /\ DeliveryOK(shared)
  BY SharedIsMerged DEF DecisionIInv, Done
<1>2. PolicyOK(policy[s])
  BY DEF DecisionIInv, Scopes
<1>3. CASE policy[s] = NoPolicy
  <2>1. Rules(policy[s]) = {}
    BY <1>3 DEF Rules
  <2>2. ~Blocked(shared)
    BY <1>1 DEF SharedBlock, SharedLayers, Blocked, ComposeDelivery
  <2>3. own.blockedBy = {}
    BY <2>1 DEF ResolveScope
  <2>4. alone = shared
    BY <1>1, <2>1, <2>2, NothingToAdd
  <2>5. ServerDecision(s) = [blockedBy |-> {}, rules |-> {}, variant |-> {Materialize(shared)}]
    BY <1>3 DEF ServerDecision
  <2>6. {r.id : r \in Rules(policy[s])} = {}
    BY <2>1
  <2> HIDE DEF own, alone
  <2>7. decision[s] = [blockedBy |-> own.blockedBy,
                       rules     |-> {r.id : r \in Rules(policy[s])},
                       variant   |-> IF Blocked(alone) THEN {} ELSE {Materialize(alone)}]
    BY <1>1, <2>2, <2>3, <2>4, <2>5, <2>6
  <2> QED BY <2>7 DEF own, alone
<1>4. CASE policy[s] # NoPolicy
  <2>1. PICK o : o = Representative(s)
    OBVIOUS
  <2>2. o \in Servers /\ Profile(policy[o]) = Profile(policy[s])
    BY <1>4, <2>1 DEF Representative
  <2>3. PolicyOK(policy[o])
    BY <2>2 DEF DecisionIInv, Scopes
  <2>4. Remapped(s, o) = Rules(policy[s])
    BY <2>2, RemappedAreItsOwn
  <2> DEFINE other == ResolveScope("SERVER", Rules(policy[o]))
             composed == ComposeDelivery(shared, other)
  <2>5. /\ Blocked(other) <=> Blocked(own)
        /\ other.censor = own.censor /\ other.rename = own.rename
        /\ other.strip = own.strip /\ other.suppress = own.suppress
    BY <1>2, <2>2, <2>3, SameEffects
  <2>6. ServerDecision(s) =
          [blockedBy |-> own.blockedBy, rules |-> {r.id : r \in Rules(policy[s])},
           variant |-> IF Blocked(composed) \/ Blocked(own) THEN {} ELSE {Materialize(composed)}]
    BY <1>4, <2>1, <2>4 DEF ServerDecision
  <2> HIDE DEF own, other
  <2>7. /\ Blocked(composed) <=> Blocked(alone)
        /\ Materialize(composed) = Materialize(alone)
    BY <2>5, SameComposition
  <2>8. Blocked(own) => Blocked(alone)
    BY DEF Blocked, ComposeDelivery
  <2> HIDE DEF composed, alone
  <2>9. decision[s] = [blockedBy |-> own.blockedBy,
                       rules     |-> {r.id : r \in Rules(policy[s])},
                       variant   |-> IF Blocked(alone) THEN {} ELSE {Materialize(alone)}]
    BY <1>1, <2>6, <2>7, <2>8
  <2> QED BY <2>9 DEF own, alone
<1> QED BY <1>3, <1>4

\* What the shared layers block, the global policy or the hub's blocks.
LEMMA SharedBlockIsBlockedIn ==
    SharedBlock <=> BlockedIn("GLOBAL") \/ (product = "hub" /\ BlockedIn("HUB"))
BY DecisionConstants DEF SharedBlock, BlockedIn, Resolved, Authority

\* The inductive invariant of the decision holds in every reachable state.
LEMMA DecisionInvariant ==
    ASSUME NEW texts, NEW loaded, InputsOK(texts, loaded)
    PROVE  DecisionSpec(texts, loaded) => []DecisionIInv
<1>1. DecisionInitWith(texts, loaded) => DecisionIInv
  BY DecisionStarts
<1>2. DecisionIInv /\ [DecisionNext]_decisionVars => DecisionIInv'
  BY DecisionSteps
<1> QED BY <1>1, <1>2, PTL DEF DecisionSpec

\* Servers of one profile are decided once, by a representative, and the others'
\* decisions are remapped to their own rules: the result for each is what
\* deciding it alone gives, whatever servers there are and whatever their
\* policies say.
THEOREM ServersAreDecidedAlone ==
    ASSUME NEW texts, NEW loaded, InputsOK(texts, loaded)
    PROVE  DecisionSpec(texts, loaded) => []GroupingIsTransparent
<1>1. DecisionIInv => GroupingIsTransparent
  BY DecidedAlone, SharedBlockIsBlockedIn DEF GroupingIsTransparent
<1> QED BY <1>1, DecisionInvariant, PTL

\* A span censored in the delivery d has all of the match m.
Covers(d, f, m) == \E s \in d.censor[f] : s[1] <= m[1] /\ m[2] <= s[2]

\* What a rule of a scope censors is covered by the spans of the scope.
LEMMA ResolvedCovers ==
    ASSUME NEW p, PolicyOK(p), NEW authority, NEW r \in Rules(p), NEW f \in Surfaces,
           "CENSOR_MATCH" \in Types(r), NEW m \in r.matched[f],
           ~Blocked(ResolveScope(authority, Rules(p)))
    PROVE  Covers(ResolveScope(authority, Rules(p)), f, m)
<1> DEFINE X == UNION {q.matched[f] : q \in {o \in Rules(p) : "CENSOR_MATCH" \in Types(o)}}
<1>1. X \in SUBSET Spans /\ m \in X
  BY DEF PolicyOK, RuleOK
<1>2. ResolveScope(authority, Rules(p)).censor[f] = MergeSpans(X)
  <2>1. {q \in Rules(p) : "BLOCK" \in Types(q)} = {}
    BY DEF Blocked, ResolveScope
  <2> QED BY <2>1 DEF ResolveScope
<1> HIDE DEF X
<1> QED BY <1>1, <1>2, HullExists DEF Covers

\* What either of two layers covers stays covered when they are composed.
LEMMA ComposedCovers ==
    ASSUME NEW u, NEW c, DeliveryOK(u), DeliveryOK(c), NEW f \in Surfaces, NEW m \in Spans,
           Covers(u, f, m) \/ Covers(c, f, m), ~Blocked(ComposeDelivery(u, c))
    PROVE  Covers(ComposeDelivery(u, c), f, m)
<1> DEFINE X == u.censor[f] \cup c.censor[f]
<1>1. X \in SUBSET Spans
  BY DEF DeliveryOK
<1>2. ComposeDelivery(u, c).censor[f] = MergeSpans(X)
  BY DEF ComposeDelivery, Blocked
<1>3. PICK s \in X : s[1] <= m[1] /\ m[2] <= s[2]
  BY DEF Covers
<1> HIDE DEF X
<1>4. PICK t \in MergeSpans(X) : t[1] <= s[1] /\ s[2] <= t[2]
  BY <1>1, HullExists
<1>5. t \in Spans /\ s \in Spans
  BY <1>1, MergedSpan
<1>6. t[1] <= m[1] /\ m[2] <= t[2]
  BY <1>3, <1>4, <1>5, SpanBounds
<1> QED BY <1>2, <1>6 DEF Covers

\* The layers of a destination, as deliveries.
LEMMA LayersCompose ==
    ASSUME DecisionIInv, NEW s \in Servers, NEW l \in LayersOf(s),
           shared = SharedLayers, NEW alone,
           alone = ComposeDelivery(shared, ResolveScope("SERVER", Rules(policy[s]))), ~Blocked(alone)
    PROVE  LET d == ResolveScope(Authority(l), Rules(policy[l]))
           IN /\ PolicyOK(policy[l]) /\ ~Blocked(d)
              /\ d.strip => alone.strip
              /\ \A f \in Surfaces, m \in Spans : Covers(d, f, m) => Covers(alone, f, m)
<1> DEFINE global == Resolved("GLOBAL")
           hub == Resolved("HUB")
           own == ResolveScope("SERVER", Rules(policy[s]))
           d == ResolveScope(Authority(l), Rules(policy[l]))
<1>1. PolicyOK(policy["GLOBAL"]) /\ PolicyOK(policy["HUB"]) /\ PolicyOK(policy[s])
  BY DEF DecisionIInv, Scopes
<1>2. DeliveryOK(global) /\ DeliveryOK(hub) /\ DeliveryOK(own) /\ DeliveryOK(shared)
  BY <1>1, ResolvedIsMerged, SharedIsMerged DEF Resolved
<1>3. \/ l = s /\ d = own
      \/ l = "GLOBAL" /\ d = global
      \/ l = "HUB" /\ product = "hub" /\ d = hub
  BY DecisionConstants DEF LayersOf, Authority, Resolved
<1>4. shared = IF product = "hub" THEN ComposeDelivery(global, hub) ELSE global
  BY DEF SharedLayers
<1>5. alone = ComposeDelivery(shared, own)
  OBVIOUS
<1> HIDE DEF global, hub, own, d
<1>6. ~Blocked(shared) /\ ~Blocked(own) /\ (shared.strip \/ own.strip => alone.strip)
  <2>1. ~Blocked(shared) /\ ~Blocked(own)
    BY <1>5 DEF Blocked, ComposeDelivery
  <2>2. alone.strip = (shared.strip \/ own.strip)
    BY <1>5 DEF ComposeDelivery
  <2>3. shared.strip \in BOOLEAN /\ own.strip \in BOOLEAN
    BY <1>2 DEF DeliveryOK
  <2> QED BY <2>1, <2>2, <2>3
<1>7. \A f \in Surfaces, m \in Spans : Covers(shared, f, m) \/ Covers(own, f, m) => Covers(alone, f, m)
  BY <1>2, <1>5, ComposedCovers
<1>8. CASE l = s /\ d = own
  BY <1>1, <1>6, <1>7, <1>8 DEF d
<1>9. CASE product = "hub"
  <2>1. shared = ComposeDelivery(global, hub)
    BY <1>4, <1>9
  <2>2. ~Blocked(global) /\ ~Blocked(hub) /\ (global.strip \/ hub.strip => shared.strip)
    <3>1. ~Blocked(global) /\ ~Blocked(hub)
      BY <1>6, <2>1 DEF Blocked, ComposeDelivery
    <3>2. shared.strip = (global.strip \/ hub.strip)
      BY <2>1 DEF ComposeDelivery
    <3>3. global.strip \in BOOLEAN /\ hub.strip \in BOOLEAN
      BY <1>2 DEF DeliveryOK
    <3> QED BY <3>1, <3>2, <3>3
  <2>3. \A f \in Surfaces, m \in Spans : Covers(global, f, m) \/ Covers(hub, f, m) => Covers(shared, f, m)
    BY <1>2, <1>6, <2>1, ComposedCovers
  <2>4. CASE l = "GLOBAL" /\ d = global
    BY <1>1, <1>6, <1>7, <2>2, <2>3, <2>4 DEF d
  <2>5. CASE l = "HUB" /\ d = hub
    BY <1>1, <1>6, <1>7, <2>2, <2>3, <2>5 DEF d
  <2> QED BY <1>3, <1>8, <2>4, <2>5
<1>10. CASE product # "hub"
  <2>1. shared = global
    BY <1>4, <1>10
  <2>2. CASE l = "GLOBAL" /\ d = global
    BY <1>1, <1>6, <1>7, <2>1, <2>2 DEF d
  <2> QED BY <1>3, <1>8, <1>10, <2>2
<1> QED BY <1>9, <1>10

\* What a span covers is masked but for its first and its last character.
LEMMA CoveredIsMasked ==
    ASSUME NEW d, DeliveryOK(d), NEW f \in Surfaces, NEW m \in Spans, Covers(d, f, m),
           NEW p \in (m[1] + 1)..(m[2] - 2)
    PROVE  p \in MaskedBy(d.censor[f])
<1>1. PICK s \in d.censor[f] : s[1] <= m[1] /\ m[2] <= s[2]
  BY DEF Covers
<1>2. s \in Spans /\ s \in MergeSpans(d.censor[f])
  BY DEF DeliveryOK
<1>3. /\ s[1] \in 0..Length /\ s[2] \in 0..Length /\ m[1] \in 0..Length /\ m[2] \in 0..Length
  BY <1>2, SpanBounds
<1>4. p \in Masked(s)
  BY <1>1, <1>3 DEF Masked, Within
<1> QED BY <1>2, <1>4 DEF MaskedBy

\* Inside a span that overlaps no link, positions move by the same distance.
LEMMA MovedTogether ==
    ASSUME urls \subseteq Spans, NEW s \in Spans, \A u \in urls : ~Overlaps(s, u)
    PROVE  \E c \in 0..s[1] : \A p \in s[1]..s[2] : Moved(p) = p - c
<1> DEFINE CutBefore(p) == {u \in Covered(urls) : u < p}
<1>1. s[1] \in 0..Length /\ s[2] \in 0..Length /\ s[1] < s[2]
  BY SpanBounds
<1>2. \A u \in Covered(urls) : u \in 0..(Length - 1) /\ (u < s[1] \/ s[2] <= u)
  <2> SUFFICES ASSUME NEW u \in Covered(urls) PROVE u \in 0..(Length - 1) /\ (u < s[1] \/ s[2] <= u)
    OBVIOUS
  <2>1. u \in 0..(Length - 1)
    BY CoveredBy
  <2>2. PICK w \in urls : w[1] <= u /\ u < w[2]
    BY CoveredBy
  <2>3. w[1] \in 0..Length /\ w[2] \in 0..Length
    BY SpanBounds
  <2>4. ~(s[1] < w[2] /\ w[1] < s[2])
    BY DEF Overlaps
  <2> QED BY <1>1, <2>1, <2>2, <2>3, <2>4
<1>3. ASSUME NEW p \in s[1]..s[2] PROVE CutBefore(p) = CutBefore(s[1])
  <2> SUFFICES ASSUME NEW u \in Covered(urls) PROVE u < p <=> u < s[1]
    OBVIOUS
  <2>1. u \in Int /\ (u < s[1] \/ s[2] <= u)
    BY <1>2
  <2> QED BY <1>1, <2>1
<1>4. CutBefore(s[1]) \subseteq 0..(s[1] - 1)
  <2> SUFFICES ASSUME NEW u \in Covered(urls), u < s[1] PROVE u \in 0..(s[1] - 1)
    OBVIOUS
  <2>1. u \in 0..(Length - 1)
    BY <1>2
  <2> QED BY <1>1, <2>1
<1>5. IsFiniteSet(0..(s[1] - 1)) /\ Cardinality(0..(s[1] - 1)) = s[1]
  <2> DEFINE e == s[1] - 1
  <2>1. 0 \in Int /\ e \in Int /\ s[1] = e - 0 + 1 /\ (0 > e => s[1] = 0)
    BY <1>1
  <2> HIDE DEF e
  <2>2. IsFiniteSet(0..e) /\ Cardinality(0..e) = IF 0 > e THEN 0 ELSE e - 0 + 1
    BY <2>1, FS_Interval
  <2> QED BY <2>1, <2>2 DEF e
<1> DEFINE c == Cardinality(CutBefore(s[1]))
<1>6. c \in 0..s[1]
  <2> HIDE DEF CutBefore
  <2>1. IsFiniteSet(CutBefore(s[1])) /\ c <= s[1]
    BY <1>4, <1>5, FS_Subset
  <2>2. c \in Nat
    BY <2>1, FS_CardinalityType
  <2> QED BY <1>1, <2>1, <2>2
<1>7. \A p \in s[1]..s[2] : Moved(p) = p - c
  BY <1>3 DEF Moved
<1> HIDE DEF c
<1> QED BY <1>6, <1>7

\* The inside of a censored match is masked, unless links are cut out of the
\* text and the span the match was merged into overlaps one.
LEMMA MaskedUnlessCut ==
    ASSUME urls \subseteq Spans, NEW d, DeliveryOK(d), NEW s \in d.censor["content"], NEW m \in Spans,
           s[1] <= m[1], m[2] <= s[2], NEW p \in (m[1] + 1)..(m[2] - 2),
           d.strip => \A u \in urls : ~Overlaps(s, u)
    PROVE  Content(d)[p] = "masked"
<1> DEFINE cut == IF d.strip THEN urls ELSE {}
           kept == {k \in d.censor["content"] : \A u \in cut : ~Overlaps(k, u)}
           shifted == {<<Moved(k[1]), Moved(k[2])>> : k \in kept}
<1>1. s \in Spans /\ "content" \in Surfaces /\ d.censor["content"] \in SUBSET Spans
  BY DEF DeliveryOK, Surfaces
<1>2. /\ s[1] \in 0..Length /\ s[2] \in 0..Length
      /\ m[1] \in 0..Length /\ m[2] \in 0..Length
  BY <1>1, SpanBounds
<1>3. /\ p \in 0..(Length - 1) /\ s[1] <= p /\ p < s[2]
      /\ s[1] + 1 <= p /\ p <= s[2] - 2
  BY <1>2
<1>4. Content(d)[p] = IF p \in Covered(cut) THEN "gone"
                      ELSE IF cut # {} /\ Moved(p) \in MaskedBy(shifted) THEN "masked"
                      ELSE IF cut = {} /\ p \in MaskedBy(kept) THEN "masked" ELSE "plain"
  BY <1>3 DEF Content
<1>5. CASE cut = {}
  <2>1. kept = d.censor["content"] /\ Covered(cut) = {}
    BY <1>5 DEF Covered
  <2>2. Covers(d, "content", m)
    BY DEF Covers
  <2>3. p \in MaskedBy(d.censor["content"])
    BY <1>1, <2>2, CoveredIsMasked
  <2> HIDE DEF cut, kept, shifted
  <2> QED BY <1>4, <1>5, <2>1, <2>3
<1>6. CASE cut # {}
  <2>1. cut = urls /\ \A u \in urls : ~Overlaps(s, u)
    BY <1>6
  <2>2. s \in kept
    BY <2>1
  <2>3. p \notin Covered(cut)
    <3> SUFFICES ASSUME p \in Covered(urls) PROVE FALSE
      BY <2>1
    <3>1. PICK u \in urls : u[1] <= p /\ p < u[2]
      BY CoveredBy
    <3>2. u[1] \in 0..Length /\ u[2] \in 0..Length
      BY SpanBounds
    <3>3. Overlaps(s, u)
      BY <1>2, <1>3, <3>1, <3>2 DEF Overlaps
    <3> QED BY <2>1, <3>3
  <2>4. shifted \in SUBSET Spans
    <3> SUFFICES ASSUME NEW k \in kept PROVE <<Moved(k[1]), Moved(k[2])>> \in Spans
      OBVIOUS
    <3>1. k \in Spans /\ \A u \in urls : ~Overlaps(k, u)
      BY <1>1, <2>1
    <3>2. k[1] \in 0..Length /\ k[2] \in 0..Length /\ k[1] < k[2]
      BY <3>1, SpanBounds
    <3>3. PICK c \in 0..k[1] : \A q \in k[1]..k[2] : Moved(q) = q - c
      BY <3>1, MovedTogether
    <3>4. Moved(k[1]) = k[1] - c /\ Moved(k[2]) = k[2] - c
      BY <3>2, <3>3
    <3>5. Moved(k[1]) \in 0..Length /\ Moved(k[2]) \in 0..Length /\ Moved(k[1]) < Moved(k[2])
      BY <3>2, <3>4
    <3> QED BY <3>5 DEF Spans
  <2>5. PICK c \in 0..s[1] : \A q \in s[1]..s[2] : Moved(q) = q - c
    BY <1>1, <2>1, MovedTogether
  <2>6. Moved(s[1]) = s[1] - c /\ Moved(s[2]) = s[2] - c /\ Moved(p) = p - c
    BY <1>2, <1>3, <2>5
  <2>7. PICK h : h = <<Moved(s[1]), Moved(s[2])>>
    OBVIOUS
  <2>8. h \in shifted /\ h[1] = s[1] - c /\ h[2] = s[2] - c
    BY <2>2, <2>6, <2>7
  <2> HIDE DEF cut, kept, shifted
  <2>9. PICK t \in MergeSpans(shifted) : t[1] <= h[1] /\ h[2] <= t[2]
    BY <2>4, <2>8, HullExists
  <2>10. t[1] \in 0..Length /\ t[2] \in 0..Length
    BY <2>4, <2>9, MergedSpan, SpanBounds
  <2>11. Moved(p) \in Masked(t)
    <3>1. /\ t[1] + 1 <= p - c /\ p - c <= t[2] - 2 /\ p - c \in Int
      BY <1>2, <1>3, <2>5, <2>8, <2>9, <2>10
    <3>2. t[2] - t[1] > 2
      BY <1>2, <1>3, <2>5, <2>10, <3>1
    <3>3. Masked(t) = (t[1] + 1)..(t[2] - 2)
      BY <2>10, <3>2 DEF Masked
    <3> QED BY <2>6, <2>10, <3>1, <3>3
  <2>12. Moved(p) \in MaskedBy(shifted)
    BY <2>9, <2>11 DEF MaskedBy
  <2> QED BY <1>4, <1>6, <2>3, <2>12
<1> QED BY <1>5, <1>6

\* What a scope censors is what its rules matched, and no more.
LEMMA ResolvedIsCensored ==
    ASSUME NEW q, PolicyOK(q), NEW authority, NEW f \in Surfaces, NEW X \in SUBSET Spans,
           \A r \in Rules(q) : "CENSOR_MATCH" \in Types(r) => r.matched[f] \subseteq X
    PROVE  Covered(ResolveScope(authority, Rules(q)).censor[f]) \subseteq Covered(X)
<1> DEFINE Y == UNION {r.matched[f] : r \in {o \in Rules(q) : "CENSOR_MATCH" \in Types(o)}}
<1>1. Y \in SUBSET Spans /\ Y \subseteq X
  OBVIOUS
<1>2. \/ ResolveScope(authority, Rules(q)).censor[f] = MergeSpans(Y)
      \/ ResolveScope(authority, Rules(q)).censor[f] = {}
  BY DEF ResolveScope
<1> HIDE DEF Y
<1>3. Covered(MergeSpans(Y)) = Covered(Y) /\ Covered(Y) \subseteq Covered(X) /\ Covered({}) = {}
  <2>1. Covered(MergeSpans(Y)) = Covered(Y)
    BY <1>1, MergedCovers
  <2>2. Covered(Y) \subseteq Covered(X) /\ Covered({}) = {}
    BY <1>1 DEF Covered
  <2> QED BY <2>1, <2>2
<1> QED BY <1>2, <1>3

\* Layers that are composed censor no more than either of them.
LEMMA ComposedIsCensored ==
    ASSUME NEW u, NEW c, DeliveryOK(u), DeliveryOK(c), NEW f \in Surfaces, NEW X,
           Covered(u.censor[f]) \subseteq X, Covered(c.censor[f]) \subseteq X
    PROVE  Covered(ComposeDelivery(u, c).censor[f]) \subseteq X
<1> DEFINE Y == u.censor[f] \cup c.censor[f]
<1>1. Y \in SUBSET Spans
  BY DEF DeliveryOK
<1>2. ComposeDelivery(u, c).censor[f] \in {MergeSpans(Y), {}}
  BY DEF ComposeDelivery
<1>3. Covered(Y) \subseteq X /\ Covered({}) = {}
  BY DEF Covered
<1> HIDE DEF Y
<1>4. Covered(MergeSpans(Y)) = Covered(Y)
  BY <1>1, MergedCovers
<1> QED BY <1>2, <1>3, <1>4

\* A span of what a server is sent that overlaps a link is a censored run of
\* the layers' matches that has a position of the link.
LEMMA OverlapRunsIntoLink ==
    ASSUME DecisionIInv, NEW s \in Servers, shared = SharedLayers, NEW alone,
           alone = ComposeDelivery(shared, ResolveScope("SERVER", Rules(policy[s]))),
           NEW k \in alone.censor["content"], NEW u \in urls, Overlaps(k, u), NEW p \in Within(k)
    PROVE  RunsIntoLink(s, p)
<1> DEFINE X == CensoredFor(s)
           global == Resolved("GLOBAL")
           hub == Resolved("HUB")
           own == ResolveScope("SERVER", Rules(policy[s]))
<1>0. "content" \in Surfaces
  BY DEF Surfaces
<1>1. PolicyOK(policy["GLOBAL"]) /\ PolicyOK(policy["HUB"]) /\ PolicyOK(policy[s])
  BY DEF DecisionIInv, Scopes
<1>2. \A l \in LayersOf(s) : \A r \in Rules(policy[l]) :
         "CENSOR_MATCH" \in Types(r) => r.matched["content"] \subseteq X
  BY DEF CensoredFor
<1>3. X \in SUBSET Spans
  BY <1>0, <1>1 DEF CensoredFor, LayersOf, PolicyOK, RuleOK
<1>4. DeliveryOK(global) /\ DeliveryOK(hub) /\ DeliveryOK(own) /\ DeliveryOK(shared) /\ DeliveryOK(alone)
  BY <1>1, ResolvedIsMerged, SharedIsMerged, ComposedIsMerged DEF Resolved
<1>5. shared = IF product = "hub" THEN ComposeDelivery(global, hub) ELSE global
  BY DEF SharedLayers
<1> HIDE DEF X
<1>6. Covered(own.censor["content"]) \subseteq Covered(X)
  BY <1>0, <1>1, <1>2, <1>3, ResolvedIsCensored DEF LayersOf
<1>7. Covered(global.censor["content"]) \subseteq Covered(X)
  BY <1>0, <1>1, <1>2, <1>3, ResolvedIsCensored DEF LayersOf, Resolved
<1>8. product = "hub" => Covered(hub.censor["content"]) \subseteq Covered(X)
  BY <1>0, <1>1, <1>2, <1>3, ResolvedIsCensored DEF LayersOf, Resolved
<1> HIDE DEF global, hub
<1>9. Covered(shared.censor["content"]) \subseteq Covered(X)
  BY <1>0, <1>4, <1>5, <1>7, <1>8, ComposedIsCensored
<1>10. alone = ComposeDelivery(shared, own)
  OBVIOUS
<1> HIDE DEF own
<1>11. Covered(alone.censor["content"]) \subseteq Covered(X)
  BY <1>0, <1>4, <1>6, <1>9, <1>10, ComposedIsCensored
<1>12. k \in Spans /\ u \in Spans /\ urls \in SUBSET Spans
  BY <1>0, <1>4 DEF DeliveryOK, DecisionIInv
<1>13. /\ k[1] \in 0..Length /\ k[2] \in 0..Length /\ k[1] < k[2]
       /\ u[1] \in 0..Length /\ u[2] \in 0..Length /\ u[1] < u[2]
       /\ p \in Int /\ k[1] <= p /\ p < k[2]
  BY <1>12, SpanBounds
<1>14. \A x \in Int : k[1] <= x /\ x < k[2] => x \in Covered(X)
  <2> SUFFICES ASSUME NEW x \in Int, k[1] <= x, x < k[2] PROVE x \in Covered(alone.censor["content"])
    BY <1>11
  <2>1. x \in Within(k)
    BY <1>12, SpanBounds
  <2> QED BY <2>1 DEF Covered
<1>15. PICK y \in Int : k[1] <= y /\ y < k[2] /\ u[1] <= y /\ y < u[2]
  <2>1. CASE k[1] <= u[1]
    BY <1>13, <2>1 DEF Overlaps
  <2>2. CASE u[1] <= k[1]
    BY <1>13, <2>2 DEF Overlaps
  <2> QED BY <1>13, <2>1, <2>2
<1>16. y \in Covered(urls)
  BY <1>12, <1>15, CoveredBy
<1>17. \A x \in (p..y) \cup (y..p) : x \in Covered(X)
  BY <1>13, <1>14, <1>15
<1> QED BY <1>16, <1>17 DEF RunsIntoLink, X

\* In the text that is sent to a server, links that a layer strips are gone and
\* the inside of a match that a layer censors is masked, unless it runs into a
\* link that is stripped.
LEMMA HiddenOnceMasked ==
    ASSUME DecisionIInv, Done, ~SharedBlock, NEW s \in Servers, NEW v \in decision[s].variant
    PROVE  /\ StrippedFor(s) => \A p \in Covered(urls) : v.content[p] = "gone"
           /\ \A m \in CensoredFor(s) : \A p \in (m[1] + 1)..(m[2] - 2) :
                \/ v.content[p] = "masked"
                \/ StrippedFor(s) /\ RunsIntoLink(s, p)
<1> DEFINE own == ResolveScope("SERVER", Rules(policy[s]))
<1>1. PICK alone : alone = ComposeDelivery(shared, own)
  OBVIOUS
<1>2. decision[s].variant = (IF Blocked(alone) THEN {} ELSE {Materialize(alone)})
  <2>1. decision[s] = [blockedBy |-> own.blockedBy,
                       rules     |-> {q.id : q \in Rules(policy[s])},
                       variant   |-> IF Blocked(ComposeDelivery(shared, own)) THEN {}
                                     ELSE {Materialize(ComposeDelivery(shared, own))}]
    BY DecidedAlone
  <2> HIDE DEF own
  <2> QED BY <1>1, <2>1
<1>3. ~Blocked(alone) /\ v = Materialize(alone)
  BY <1>2
<1>4. shared = SharedLayers /\ DeliveryOK(shared)
  BY SharedIsMerged DEF DecisionIInv, Done
<1>5. PolicyOK(policy[s]) /\ urls \in SUBSET Spans
  BY DEF DecisionIInv, Scopes
<1>6. DeliveryOK(own) /\ DeliveryOK(alone)
  BY <1>1, <1>4, <1>5, ResolvedIsMerged, ComposedIsMerged
<1>7. \A l \in LayersOf(s) :
         LET d == ResolveScope(Authority(l), Rules(policy[l]))
         IN /\ PolicyOK(policy[l]) /\ ~Blocked(d)
            /\ d.strip => alone.strip
            /\ \A f \in Surfaces, m \in Spans : Covers(d, f, m) => Covers(alone, f, m)
  BY <1>1, <1>3, <1>4, LayersCompose
<1>8. v.content = Content(alone)
  BY <1>3 DEF Materialize
<1>9. ASSUME StrippedFor(s), NEW p \in Covered(urls) PROVE v.content[p] = "gone"
  <2>1. PICK l \in LayersOf(s) : \E r \in Rules(policy[l]) : "STRIP_LINK" \in Types(r)
    BY <1>9 DEF StrippedFor
  <2>2. ResolveScope(Authority(l), Rules(policy[l])).strip
    BY <2>1 DEF ResolveScope
  <2>3. p \in 0..(Length - 1)
    BY <1>5, <1>9, CoveredBy
  <2>4. alone.strip
    BY <1>7, <2>2
  <2> QED BY <1>8, <1>9, <2>3, <2>4 DEF Content
<1>10. ASSUME NEW m \in CensoredFor(s), NEW p \in (m[1] + 1)..(m[2] - 2)
       PROVE v.content[p] = "masked" \/ (StrippedFor(s) /\ RunsIntoLink(s, p))
  <2>1. "content" \in Surfaces
    BY DEF Surfaces
  <2>0. PICK l \in LayersOf(s) :
            \E r \in Rules(policy[l]) : "CENSOR_MATCH" \in Types(r) /\ m \in r.matched["content"]
    BY <1>10 DEF CensoredFor
  <2>2. PICK r \in Rules(policy[l]) : "CENSOR_MATCH" \in Types(r) /\ m \in r.matched["content"]
    BY <2>0
  <2>3. m \in Spans
    BY <1>7, <2>1, <2>2 DEF PolicyOK, RuleOK
  <2>4. Covers(ResolveScope(Authority(l), Rules(policy[l])), "content", m)
    BY <1>7, <2>1, <2>2, ResolvedCovers
  <2>5. Covers(alone, "content", m)
    BY <1>7, <2>1, <2>3, <2>4
  <2>6. PICK k \in alone.censor["content"] : k[1] <= m[1] /\ m[2] <= k[2]
    BY <2>5 DEF Covers
  <2>7. alone.strip => StrippedFor(s)
    <3>1. own.strip => StrippedFor(s)
      BY DEF ResolveScope, LayersOf, StrippedFor
    <3>2. Resolved("GLOBAL").strip => StrippedFor(s)
      BY DEF Resolved, ResolveScope, LayersOf, StrippedFor
    <3>3. product = "hub" /\ Resolved("HUB").strip => StrippedFor(s)
      BY DEF Resolved, ResolveScope, LayersOf, StrippedFor
    <3> HIDE DEF own
    <3>4. shared.strip => StrippedFor(s)
      BY <1>4, <3>2, <3>3 DEF SharedLayers, ComposeDelivery
    <3> QED BY <1>1, <3>1, <3>4 DEF ComposeDelivery
  <2>8. p \in Within(k)
    <3>1. k \in Spans
      BY <1>6, <2>1 DEF DeliveryOK
    <3>2. /\ k[1] \in 0..Length /\ k[2] \in 0..Length /\ m[1] \in 0..Length /\ m[2] \in 0..Length
      BY <2>3, <3>1, SpanBounds
    <3> QED BY <1>10, <2>6, <3>1, <3>2, SpanBounds
  <2>9. CASE alone.strip /\ \E u \in urls : Overlaps(k, u)
    BY <1>1, <1>4, <2>7, <2>8, <2>9, OverlapRunsIntoLink
  <2>10. CASE ~(alone.strip /\ \E u \in urls : Overlaps(k, u))
    <3>1. Content(alone)[p] = "masked"
      BY <1>5, <1>6, <1>10, <2>3, <2>6, <2>10, MaskedUnlessCut
    <3> QED BY <1>8, <3>1
  <2> QED BY <2>9, <2>10
<1> QED BY <1>9, <1>10

\* What the shared layers block is sent to no server.
LEMMA NothingIsSent ==
    ASSUME DecisionIInv, Done, SharedBlock, NEW s \in Servers PROVE decision[s].variant = {}
BY DEF DecisionIInv, Done

\* Merging spans, composing layers, cutting out links and masking what is left
\* never show the inside of a censored match, and no server of a group is sent
\* what its own policy hides, unless the run of the match reaches a link that
\* is stripped.
THEOREM CensoredStaysHidden ==
    ASSUME NEW texts, NEW loaded, InputsOK(texts, loaded)
    PROVE  DecisionSpec(texts, loaded) => []CensoredIsHidden
<1>1. ASSUME DecisionIInv PROVE CensoredIsHidden
  <2> SUFFICES ASSUME Done, NEW s \in Servers, NEW v \in decision[s].variant
               PROVE  /\ StrippedFor(s) => \A p \in Covered(urls) : v.content[p] = "gone"
                      /\ \A m \in CensoredFor(s) : \A p \in (m[1] + 1)..(m[2] - 2) :
                            \/ v.content[p] = "masked"
                            \/ StrippedFor(s) /\ RunsIntoLink(s, p)
    BY DEF CensoredIsHidden
  <2>1. ~SharedBlock
    BY <1>1, NothingIsSent
  <2> QED BY <1>1, <2>1, HiddenOnceMasked
<1> QED BY <1>1, DecisionInvariant, PTL

HIDE DecisionConstants

(* -------------------------------- Names --------------------------------- *)

\* The names of a user and of a server, and what the policy makes of them.
LEMMA LabelsAre ==
    ASSUME NEW l \in Labels
    PROVE  /\ l.old["display"] \in {"", "d"} /\ l.old["username"] \in {"", "u"} /\ l.old["server"] \in {"", "s"}
           /\ \A f \in Fields : /\ ~Changed(l, f) => l.new[f] = l.old[f]
                                /\ Changed(l, f) => l.old[f] # "" /\ l.new[f] = "x"
           /\ l.nicknames \in {"yes", "no", "unset"}
           /\ \A n \in l.producer :
                \/ l.old["display"] # "" /\ n = "d" /\ l.nicknames # "no"
                \/ l.old["username"] # "" /\ n = "u" /\ l.nicknames # "yes"
                \/ l.old["server"] # "" /\ n = "s"
<1>1. /\ l.old \in [Fields -> {"", "d", "u", "s"}]
      /\ l.new \in [Fields -> {"", "d", "u", "s", "x"}]
      /\ l.nicknames \in {"yes", "no", "unset"}
  BY DEF Labels
<1>2. /\ l.old["display"] \in {"", "d"} /\ l.old["username"] \in {"", "u"} /\ l.old["server"] \in {"", "s"}
      /\ \A f \in Fields : l.new[f] = l.old[f] \/ (l.old[f] # "" /\ l.new[f] = "x")
  BY <1>1 DEF Labels, Fields
<1>3. PICK user \in IF l.nicknames = "yes" THEN {l.old["display"]}
                    ELSE IF l.nicknames = "no" THEN {l.old["username"]}
                    ELSE {l.old["display"], l.old["username"]} :
         l.producer \in {Nonempty(user), Nonempty(user) \cup Nonempty(l.old["server"])}
  BY <1>1 DEF Labels
<1>4. ASSUME NEW n \in l.producer PROVE n # "" /\ n \in {user, l.old["server"]}
  BY <1>3, <1>4 DEF Nonempty
<1>5. \/ user = l.old["display"] /\ l.nicknames # "no"
      \/ user = l.old["username"] /\ l.nicknames # "yes"
  BY <1>1, <1>3
<1>6. ASSUME NEW n \in l.producer
      PROVE  \/ l.old["display"] # "" /\ n = "d" /\ l.nicknames # "no"
             \/ l.old["username"] # "" /\ n = "u" /\ l.nicknames # "yes"
             \/ l.old["server"] # "" /\ n = "s"
  BY <1>2, <1>4, <1>5, <1>6
<1>7. \A f \in Fields : /\ ~Changed(l, f) => l.new[f] = l.old[f]
                        /\ Changed(l, f) => l.old[f] # "" /\ l.new[f] = "x"
  BY <1>2 DEF Changed
<1> QED BY <1>1, <1>2, <1>6, <1>7

Replaced(l) == {l.old[f] : f \in {g \in Fields : Changed(l, g)}}

\* The names that were replaced are the old ones of the fields that changed.
LEMMA ReplacedAre ==
    ASSUME NEW l \in Labels
    PROVE  /\ "d" \in Replaced(l) <=> Changed(l, "display")
           /\ "u" \in Replaced(l) <=> Changed(l, "username")
           /\ "s" \in Replaced(l) <=> Changed(l, "server")
           /\ Replaced(l) \subseteq {"d", "u", "s"}
<1>1. \A n : n \in Replaced(l) <=> \/ Changed(l, "display") /\ n = l.old["display"]
                                   \/ Changed(l, "username") /\ n = l.old["username"]
                                   \/ Changed(l, "server") /\ n = l.old["server"]
  BY DEF Replaced, Fields
<1>2. /\ l.old["display"] \in {"", "d"} /\ l.old["username"] \in {"", "u"} /\ l.old["server"] \in {"", "s"}
      /\ Changed(l, "display") => l.old["display"] # ""
      /\ Changed(l, "username") => l.old["username"] # ""
      /\ Changed(l, "server") => l.old["server"] # ""
  BY LabelsAre DEF Fields
<1>3. /\ Changed(l, "display") => l.old["display"] = "d"
      /\ Changed(l, "username") => l.old["username"] = "u"
      /\ Changed(l, "server") => l.old["server"] = "s"
      /\ l.old["display"] \notin {"u", "s"} /\ l.old["username"] \notin {"d", "s"}
      /\ l.old["server"] \notin {"d", "u"}
  BY <1>2
<1> HIDE DEF Replaced
<1>4. \A n \in Replaced(l) : n \in {"d", "u", "s"}
  BY <1>1, <1>3
<1>5. "d" \in Replaced(l) <=> Changed(l, "display")
  BY <1>1, <1>3
<1>6. "u" \in Replaced(l) <=> Changed(l, "username")
  BY <1>1, <1>3
<1>7. "s" \in Replaced(l) <=> Changed(l, "server")
  BY <1>1, <1>3
<1> QED BY <1>4, <1>5, <1>6, <1>7

\* What is written anew is the name as it is now.
LEMMA RewrittenIsNew ==
    ASSUME NEW l \in Labels, NEW part \in {"display", "username"}, NEW server \in BOOLEAN
    PROVE  Rewritten(l, part, server) \cap Replaced(l) = {}
<1>1. l.new[part] \notin Replaced(l)
  <2>1. \/ l.new[part] = "x" 
        \/ ~Changed(l, part) /\ l.new[part] \in {"", IF part = "display" THEN "d" ELSE "u"}
    BY LabelsAre DEF Fields
  <2> QED BY <2>1, ReplacedAre
<1>2. Nonempty(l.new["server"]) \cap Replaced(l) = {}
  <2>1. l.new["server"] = "x" \/ (~Changed(l, "server") /\ l.new["server"] \in {"", "s"})
    BY LabelsAre DEF Fields
  <2> QED BY <2>1, ReplacedAre DEF Nonempty
<1>3. SafeName \notin Replaced(l)
  BY ReplacedAre DEF SafeName
<1> QED BY <1>1, <1>2, <1>3 DEF Rewritten

\* The user part of a label changed when any name of the user did.
LEMMA PartIsTheUser ==
    ASSUME NEW l \in Labels
    PROVE  /\ UserPart(l) \in {"display", "username"}
           /\ ~Changed(l, UserPart(l)) => ~Changed(l, "display") /\ ~Changed(l, "username")
BY DEF UserPart

\* A hub shows no replaced name.
LEMMA HubNamesAreNew ==
    ASSUME NEW l \in Labels PROVE HubNames(l) \cap Replaced(l) = {}
<1>1. PICK part : part = IF l.nicknames = "no" THEN "username" ELSE IF l.nicknames = "yes" THEN "display"
                         ELSE UserPart(l)
  OBVIOUS
<1>2. part \in {"display", "username"}
  BY <1>1, PartIsTheUser
<1>3. HubNames(l) = IF Changed(l, part) \/ Changed(l, "server") THEN Rewritten(l, part, TRUE) ELSE l.producer
  BY <1>1 DEF HubNames
<1>4. CASE Changed(l, part) \/ Changed(l, "server")
  BY <1>2, <1>3, <1>4, RewrittenIsNew
<1>5. CASE ~Changed(l, part) /\ ~Changed(l, "server")
  <2>1. ASSUME NEW n \in l.producer PROVE n \notin Replaced(l)
    <3>1. CASE n = "d" /\ l.nicknames # "no"
      <4>1. ~Changed(l, "display")
        BY <1>1, <1>5, <3>1, PartIsTheUser
      <4> QED BY <3>1, <4>1, ReplacedAre
    <3>2. CASE n = "u" /\ l.nicknames # "yes"
      <4>1. ~Changed(l, "username")
        BY <1>1, <1>5, <3>2, PartIsTheUser
      <4> QED BY <3>2, <4>1, ReplacedAre
    <3>3. CASE n = "s"
      BY <1>5, <3>3, ReplacedAre
    <3> QED BY <2>1, <3>1, <3>2, <3>3, LabelsAre
  <2> QED BY <1>3, <1>5, <2>1
<1> QED BY <1>4, <1>5

\* A call shows no replaced name.
LEMMA CallNamesAreNew ==
    ASSUME NEW l \in Labels PROVE CallNames(l) \cap Replaced(l) = {}
<1>1. PICK showsServer \in BOOLEAN : showsServer <=> l.old["server"] # "" /\ l.old["server"] \in l.producer
  OBVIOUS
<1> DEFINE changed == \/ Changed(l, "display") \/ Changed(l, "username")
                      \/ showsServer /\ Changed(l, "server")
<1>2. CallNames(l) = IF changed THEN Rewritten(l, UserPart(l), showsServer) ELSE l.producer
  <2>1. showsServer = (l.old["server"] # "" /\ l.old["server"] \in l.producer)
    BY <1>1
  <2> QED BY <2>1 DEF CallNames
<1>3. CASE changed
  BY <1>2, <1>3, RewrittenIsNew, PartIsTheUser
<1>4. CASE ~changed
  <2>1. ASSUME NEW n \in l.producer PROVE n \notin Replaced(l)
    <3>1. CASE n = "d" \/ n = "u"
      BY <1>4, <3>1, ReplacedAre
    <3>2. CASE l.old["server"] # "" /\ n = "s"
      <4>1. l.old["server"] = "s"
        BY <3>2, LabelsAre
      <4> QED BY <1>1, <1>4, <2>1, <3>2, <4>1, ReplacedAre
    <3> QED BY <2>1, <3>1, <3>2, LabelsAre
  <2> QED BY <1>2, <1>4, <2>1
<1> QED BY <1>3, <1>4

\* Only the application of a decision changes the names that are shown.
LEMMA NamesStay ==
    ASSUME NoReplacedNameIsShown, [EvaluationNext]_evaluationVars
    PROVE  NoReplacedNameIsShown'
<1>1. CASE shown' = shown
  BY <1>1 DEF NoReplacedNameIsShown
<1>2. CASE PersistAndApply
  <2>1. \/ shown' = shown
        \/ \E l \in Labels :
              shown' = [names |-> IF action.kind = "hub" THEN HubNames(l) ELSE CallNames(l),
                        replaced |-> Replaced(l)]
    BY <1>2 DEF PersistAndApply, Replaced
  <2>2. ASSUME NEW l \in Labels,
               shown' = [names |-> IF action.kind = "hub" THEN HubNames(l) ELSE CallNames(l),
                         replaced |-> Replaced(l)]
        PROVE NoReplacedNameIsShown'
    BY <2>2, HubNamesAreNew, CallNamesAreNew DEF NoReplacedNameIsShown
  <2> QED BY <1>1, <2>1, <2>2
<1>3. CASE ResolveFeatures \/ LookAtRestrictions \/ EvaluatePolicy \/ FinishPolicies
           \/ ApplyFails \/ PersistShadowComparison \/ ResolveHold \/ UNCHANGED evaluationVars
  BY <1>1, <1>3 DEF ResolveFeatures, LookAtRestrictions, EvaluatePolicy, FinishPolicies, ApplyFails,
     PersistShadowComparison, ResolveHold, evaluationVars, results
<1> QED BY <1>2, <1>3 DEF EvaluationNext

\* A rename hides the name it replaces in every product, whichever parts of the
\* label the producer composed and whatever the policies evaluated.
THEOREM ReplacedNamesAreNotShown ==
    ASSUME NEW actions, NEW sequences, NEW plans, NEW restricted
    PROVE  EvaluationSpec(actions, sequences, plans, restricted) => []NoReplacedNameIsShown
<1>1. EvaluationInitWith(actions, sequences, plans, restricted) => NoReplacedNameIsShown
  BY DEF EvaluationInitWith, NobodyShown, NoReplacedNameIsShown
<1>2. NoReplacedNameIsShown /\ [EvaluationNext]_evaluationVars => NoReplacedNameIsShown'
  BY NamesStay
<1> QED BY <1>1, <1>2, PTL DEF EvaluationSpec

(* ------------------ What the policies say, and the decision ------------ *)

\* A sequence of whatever.
IsList(s) == \E S : s \in Seq(S)

\* What is known of a policy: its priority is a number, its rules say lists of
\* effects, and the ids that its author gave those do not have the prefix of a
\* policy version's id, which is drawn when the version is stored.
InOrder(p) ==
    /\ p.priority \in Int
    /\ IsList(p.program)
    /\ \A k \in 1..Len(p.program) :
         /\ IsList(p.program[k])
         /\ \A j \in 1..Len(p.program[k]) : p.program[k][j].id[3] = 0

\* And of the policies in force.
AllInOrder(ps) == IsList(ps) /\ \A n \in 1..Len(ps) : InOrder(ps[n])

\* A journal of effects that are numbered in the order in which they were emitted.
Journal(E) ==
    /\ IsList(E)
    /\ \A k \in 1..Len(E) : E[k].at = k /\ E[k].origin.priority \in Int

\* The places of two lists that are appended.
LEMMA Appended ==
    ASSUME NEW U, NEW E \in Seq(U), NEW F \in Seq(U)
    PROVE  LET m == Len(E)
               n == Len(F)
           IN
           /\ m \in Nat /\ n \in Nat /\ E \o F \in Seq(U) /\ Len(E \o F) = m + n
           /\ \A k \in 1..m : k \in 1..m + n /\ (E \o F)[k] = E[k]
           /\ \A j \in 1..n : m + j \in 1..m + n /\ (E \o F)[m + j] = F[j]
           /\ \A k \in 1..m + n : k \in 1..m \/ \E j \in 1..n : k = m + j
<1> DEFINE m == Len(E)
           n == Len(F)
<1>1. m \in Nat /\ n \in Nat
  BY LenProperties
<1>2. /\ E \o F \in Seq(U) /\ Len(E \o F) = m + n
      /\ \A k \in 1..m + n : (E \o F)[k] = IF k <= m THEN E[k] ELSE F[k - m]
  BY ConcatProperties
<1>3. ASSUME NEW k \in 1..m PROVE k \in 1..m + n /\ (E \o F)[k] = E[k]
  <2>1. k \in 1..m + n /\ k <= m
    BY <1>1
  <2> QED BY <1>2, <2>1
<1>4. ASSUME NEW j \in 1..n PROVE m + j \in 1..m + n /\ (E \o F)[m + j] = F[j]
  <2>1. m + j \in 1..m + n /\ ~(m + j <= m) /\ (m + j) - m = j
    BY <1>1
  <2> QED BY <1>2, <2>1
<1>5. ASSUME NEW k \in 1..m + n PROVE k \in 1..m \/ \E j \in 1..n : k = m + j
  <2>1. CASE ~(k <= m)
    <3>1. k - m \in 1..n /\ k = m + (k - m)
      BY <1>1, <2>1
    <3> QED BY <3>1
  <2> QED BY <1>1, <2>1
<1> QED BY <1>1, <1>2, <1>3, <1>4, <1>5

\* What is emitted is appended.
LEMMA Emitted ==
    ASSUME NEW E, Journal(E), NEW list, IsList(list), NEW origin, origin.priority \in Int
    PROVE  /\ Journal(Emit(E, list, origin))
           /\ \A x : x \in Items(Emit(E, list, origin)) <=>
                \/ x \in Items(E)
                \/ \E j \in 1..Len(list) : x = [effect |-> list[j], origin |-> origin, at |-> Len(E) + j]
<1>1. PICK m, n : m = Len(E) /\ n = Len(list)
  OBVIOUS
<1> DEFINE item(j) == [effect |-> list[j], origin |-> origin, at |-> m + j]
<1>2. PICK F : F = [k \in 1..n |-> item(k)]
  OBVIOUS
<1>3. PICK G : G = Emit(E, list, origin)
  OBVIOUS
<1>4. G = E \o F
  BY <1>1, <1>2, <1>3 DEF Emit
<1>5. PICK S : E \in Seq(S)
  BY DEF Journal, IsList
<1>6. n \in Nat
  <2>1. PICK T : list \in Seq(T)
    BY DEF IsList
  <2> QED BY <1>1, <2>1, LenProperties
<1>7. \A j : item(j).at = m + j /\ item(j).origin = origin
  OBVIOUS
<1> HIDE DEF item
<1>8. F \in Seq({F[k] : k \in 1..n}) /\ Len(F) = n /\ \A j \in 1..n : F[j] = item(j)
  BY <1>2, <1>6
<1>9. PICK U : E \in Seq(U) /\ F \in Seq(U)
  <2>1. PICK T : F \in Seq(T)
    BY <1>8
  <2>2. E \in Seq(S \cup T) /\ F \in Seq(S \cup T)
    BY <1>5, <2>1
  <2> QED BY <2>2
<1>10. n = Len(F)
  BY <1>8
<1>11. /\ m \in Nat /\ E \o F \in Seq(U) /\ Len(E \o F) = m + n
       /\ \A k \in 1..m : k \in 1..m + n /\ (E \o F)[k] = E[k]
       /\ \A j \in 1..n : m + j \in 1..m + n /\ (E \o F)[m + j] = F[j]
       /\ \A k \in 1..m + n : k \in 1..m \/ \E j \in 1..n : k = m + j
  <2>1. m = Len(E)
    BY <1>1
  <2>2. /\ Len(E) \in Nat /\ Len(F) \in Nat /\ E \o F \in Seq(U) /\ Len(E \o F) = Len(E) + Len(F)
        /\ \A k \in 1..Len(E) : k \in 1..Len(E) + Len(F) /\ (E \o F)[k] = E[k]
        /\ \A j \in 1..Len(F) : Len(E) + j \in 1..Len(E) + Len(F) /\ (E \o F)[Len(E) + j] = F[j]
        /\ \A k \in 1..Len(E) + Len(F) : k \in 1..Len(E) \/ \E j \in 1..Len(F) : k = Len(E) + j
    <3>1. E \in Seq(U) /\ F \in Seq(U)
      BY <1>9
    <3> QED BY <3>1, Appended, Zenon
  <2> QED BY <1>10, <2>1, <2>2, Zenon
<1>12. /\ m \in Nat /\ G \in Seq(U) /\ Len(G) = m + n
       /\ \A k \in 1..m : k \in 1..m + n /\ G[k] = E[k]
       /\ \A j \in 1..n : m + j \in 1..m + n /\ G[m + j] = item(j)
       /\ \A k \in 1..m + n : k \in 1..m \/ \E j \in 1..n : k = m + j
  BY <1>4, <1>8, <1>11
<1>13. \A k \in 1..m : E[k].at = k /\ E[k].origin.priority \in Int
  BY <1>1 DEF Journal
<1>14. Journal(G)
  <2>1. ASSUME NEW k \in 1..m + n PROVE G[k].at = k /\ G[k].origin.priority \in Int
    <3>1. CASE k \in 1..m
      BY <1>12, <1>13, <3>1
    <3>2. ASSUME NEW j \in 1..n, k = m + j PROVE G[k].at = k /\ G[k].origin.priority \in Int
      BY <1>7, <1>12, <3>2
    <3> QED BY <1>12, <3>1, <3>2
  <2> QED BY <1>12, <2>1 DEF Journal, IsList
<1>15. \A x : x \in Items(G) <=> x \in Items(E) \/ \E j \in 1..n : x = item(j)
  <2>1. Items(G) = {G[k] : k \in 1..m + n} /\ Items(E) = {E[k] : k \in 1..m}
    BY <1>1, <1>12 DEF Items
  <2>2. ASSUME NEW k \in 1..m + n PROVE G[k] \in Items(E) \/ \E j \in 1..n : G[k] = item(j)
    <3>1. CASE k \in 1..m
      BY <1>12, <2>1, <3>1
    <3>2. ASSUME NEW j \in 1..n, k = m + j PROVE G[k] = item(j)
      BY <1>12, <3>2
    <3> QED BY <1>12, <3>1, <3>2
  <2>3. ASSUME NEW k \in 1..m PROVE E[k] \in Items(G)
    BY <1>12, <2>1
  <2>4. ASSUME NEW j \in 1..n PROVE item(j) \in Items(G)
    BY <1>12, <2>1
  <2> QED BY <2>1, <2>2, <2>3, <2>4
<1> QED BY <1>1, <1>3, <1>14, <1>15 DEF item

\* Nothing is emitted at first.
LEMMA NothingEmitted == Journal(<<>>) /\ Items(<<>>) = {}
<1>1. <<>> \in Seq({}) /\ Len(<<>>) = 0
  OBVIOUS
<1> QED BY <1>1 DEF Journal, IsList, Items

\* The effects the engine puts in a policy's place are its own.
LEMMA FallbacksAre ==
    ASSUME NEW n, NEW component, NEW behavior
    PROVE  LET s == FallbackEffects(n, component, behavior)
           IN /\ IsList(s)
              /\ \A j \in 1..Len(s) : s[j].id[3] = n
              /\ behavior # "CONTINUE" => \E j \in 1..Len(s) : s[j].kind = "HOLD"
              /\ behavior = "REVIEW" => \E j \in 1..Len(s) : s[j].kind = "ROUTE_REVIEW"
<1> DEFINE s == FallbackEffects(n, component, behavior)
<1>1. PICK hold, review : /\ hold = FallbackEffect("HOLD", n, component, "hold", <<>>)
                          /\ review = FallbackEffect("ROUTE_REVIEW", n, component, "review", <<"policy-errors">>)
  OBVIOUS
<1>2. /\ hold.kind = "HOLD" /\ hold.id = <<"hold", component, n>>
      /\ review.kind = "ROUTE_REVIEW" /\ review.id = <<"review", component, n>>
  BY <1>1 DEF FallbackEffect
<1>3. s = IF behavior = "CONTINUE" THEN <<>> ELSE IF behavior = "HOLD" THEN <<hold>> ELSE <<hold, review>>
  BY <1>1 DEF FallbackEffects
<1> SUFFICES /\ IsList(s)
             /\ \A j \in 1..Len(s) : s[j].id[3] = n
             /\ behavior # "CONTINUE" => \E j \in 1..Len(s) : s[j].kind = "HOLD"
             /\ behavior = "REVIEW" => \E j \in 1..Len(s) : s[j].kind = "ROUTE_REVIEW"
  OBVIOUS
<1> HIDE DEF s
<1>4. CASE behavior = "CONTINUE"
  <2>1. s = <<>> /\ <<>> \in Seq({}) /\ Len(s) = 0
    BY <1>3, <1>4
  <2> QED BY <1>4, <2>1 DEF IsList
<1>5. CASE behavior = "HOLD"
  <2>1. s = <<hold>> /\ s \in Seq({hold}) /\ Len(s) = 1 /\ s[1] = hold
    BY <1>3, <1>5
  <2>2. 1..Len(s) = {1}
    BY <2>1
  <2>3. IsList(s)
    BY <2>1 DEF IsList
  <2> QED BY <1>2, <1>5, <2>1, <2>2, <2>3
<1>6. CASE behavior # "CONTINUE" /\ behavior # "HOLD"
  <2>1. s = <<hold, review>>
    BY <1>3, <1>6
  <2>2. s \in Seq({hold, review}) /\ Len(s) = 2 /\ s[1] = hold /\ s[2] = review
    BY <2>1
  <2>3. 1..Len(s) = {1, 2}
    BY <2>2
  <2>4. IsList(s)
    BY <2>2 DEF IsList
  <2> QED BY <1>2, <2>2, <2>3, <2>4
<1> QED BY <1>4, <1>5, <1>6

\* F is the journal E with the effects S, of one origin, emitted after it.
Grown(E, F, S, origin) ==
    /\ Journal(F)
    /\ Items(E) \subseteq Items(F)
    /\ \A x \in Items(F) : x \in Items(E) \/ (x.effect \in S /\ x.origin = origin)
    /\ \A e \in S : \E x \in Items(F) : x.effect = e /\ x.origin = origin

\* The effects of a list.
Listed(s) == {s[j] : j \in 1..Len(s)}

\* What is emitted is added, under its origin.
LEMMA EmitGrows ==
    ASSUME NEW E, Journal(E), NEW list, IsList(list), NEW origin, origin.priority \in Int
    PROVE  Grown(E, Emit(E, list, origin), Listed(list), origin)
<1> DEFINE item(j) == [effect |-> list[j], origin |-> origin, at |-> Len(E) + j]
<1>1. PICK F : F = Emit(E, list, origin)
  OBVIOUS
<1>2. /\ Journal(F)
      /\ \A x : x \in Items(F) <=> x \in Items(E) \/ \E j \in 1..Len(list) : x = item(j)
  BY <1>1, Emitted
<1>3. \A j : item(j).effect = list[j] /\ item(j).origin = origin
  OBVIOUS
<1> HIDE DEF item
<1>4. \A x \in Items(F) : x \in Items(E) \/ (x.effect \in Listed(list) /\ x.origin = origin)
  BY <1>2, <1>3 DEF Listed
<1>5. \A e \in Listed(list) : \E x \in Items(F) : x.effect = e /\ x.origin = origin
  BY <1>2, <1>3 DEF Listed
<1> QED BY <1>1, <1>2, <1>4, <1>5 DEF Grown

\* What grew, and grew again.
LEMMA GrownAgain ==
    ASSUME NEW E, NEW F, NEW G, NEW S, NEW T, NEW origin, Grown(E, F, S, origin), Grown(F, G, T, origin)
    PROVE  Grown(E, G, S \cup T, origin)
BY DEF Grown

\* f is the journal E with the lists s emitted one after the other.
Turns(f, E, s, origin, L) == f = [k \in 0..L |-> IF k = 0 THEN E ELSE Emit(f[k - 1], s[k], origin)]

\* Lists of effects that are emitted one after the other have a journal.
LEMMA InTurn ==
    ASSUME NEW E, NEW s, NEW origin, NEW L \in Nat
    PROVE  \E f : Turns(f, E, s, origin, L)
<1> DEFINE Built(m) == \E f : f = [k \in 0..m |-> IF k = 0 THEN E ELSE Emit(f[k - 1], s[k], origin)]
           T == {m \in Nat : ~Built(m)}
<1>1. Built(0)
  <2>1. PICK f : f = [k \in 0..0 |-> E]
    OBVIOUS
  <2>2. f = [k \in 0..0 |-> IF k = 0 THEN E ELSE Emit(f[k - 1], s[k], origin)]
    BY <2>1
  <2> QED BY <2>2
<1>2. ASSUME NEW m \in Nat, Built(m) PROVE Built(m + 1)
  <2>1. PICK f : f = [k \in 0..m |-> IF k = 0 THEN E ELSE Emit(f[k - 1], s[k], origin)]
    BY <1>2
  <2>2. PICK h : h = [k \in 0..m + 1 |-> IF k <= m THEN f[k] ELSE Emit(f[m], s[m + 1], origin)]
    OBVIOUS
  <2>3. \A k \in 0..m : h[k] = f[k]
    BY <2>2
  <2>4. ASSUME NEW k \in 0..m + 1
        PROVE (IF k <= m THEN f[k] ELSE Emit(f[m], s[m + 1], origin))
                = (IF k = 0 THEN E ELSE Emit(h[k - 1], s[k], origin))
    <3>1. CASE k = 0
      BY <2>1, <3>1
    <3>2. CASE k # 0 /\ k <= m
      <4>1. k \in 0..m /\ k - 1 \in 0..m
        BY <3>2
      <4>2. f[k] = Emit(f[k - 1], s[k], origin) /\ h[k - 1] = f[k - 1]
        BY <2>1, <2>3, <3>2, <4>1
      <4> QED BY <3>2, <4>2
    <3>3. CASE ~(k <= m)
      <4>1. k = m + 1 /\ k - 1 = m /\ k # 0 /\ m \in 0..m
        BY <3>3
      <4> QED BY <2>3, <3>3, <4>1
    <3> QED BY <3>1, <3>2, <3>3
  <2>5. h = [k \in 0..m + 1 |-> IF k = 0 THEN E ELSE Emit(h[k - 1], s[k], origin)]
    BY <2>2, <2>4
  <2> QED BY <2>5
<1> HIDE DEF Built
<1>3. ASSUME T # {} PROVE FALSE
  <2>1. PICK m \in T : \A k \in T : m <= k
    <3>1. T \in SUBSET Nat
      OBVIOUS
    <3> HIDE DEF T
    <3> QED BY <1>3, <3>1, LeastNumber
  <2>2. m # 0 /\ m \in Nat /\ ~Built(m)
    BY <1>1, <2>1
  <2>3. m - 1 \in Nat /\ ~(m <= m - 1) /\ (m - 1) + 1 = m
    BY <2>2
  <2>4. Built(m - 1)
    BY <2>1, <2>3
  <2>5. Built((m - 1) + 1)
    BY <1>2, <2>3, <2>4
  <2> QED BY <2>2, <2>3, <2>5
<1> QED BY <1>3 DEF Built, Turns

\* And what that journal has.
LEMMA InTurnGrows ==
    ASSUME NEW E, Journal(E), NEW L \in Nat, NEW s, \A k \in 1..L : IsList(s[k]),
           NEW origin, origin.priority \in Int,
           NEW f, Turns(f, E, s, origin, L)
    PROVE  Grown(E, f[L], UNION {Listed(s[k]) : k \in 1..L}, origin)
<1> DEFINE upto(m) == UNION {Listed(s[k]) : k \in 1..m}
           T == {m \in 0..L : ~Grown(E, f[m], upto(m), origin)}
<1>1. f[0] = E /\ upto(0) = {}
  BY DEF Turns
<1>2. Grown(E, f[0], upto(0), origin)
  BY <1>1 DEF Grown
<1>3. ASSUME NEW m \in 1..L, Grown(E, f[m - 1], upto(m - 1), origin)
      PROVE  Grown(E, f[m], upto(m), origin)
  <2>1. f[m] = Emit(f[m - 1], s[m], origin)
    BY DEF Turns
  <2>2. Journal(f[m - 1])
    BY <1>3 DEF Grown
  <2>3. Grown(f[m - 1], f[m], Listed(s[m]), origin)
    BY <2>1, <2>2, EmitGrows
  <2>4. upto(m) = upto(m - 1) \cup Listed(s[m])
    <3>1. 1..m = (1..m - 1) \cup {m}
      OBVIOUS
    <3> QED BY <3>1
  <2> HIDE DEF upto
  <2> QED BY <1>3, <2>3, <2>4, GrownAgain
<1>4. ASSUME T # {} PROVE FALSE
  <2>1. PICK m \in T : \A k \in T : m <= k
    <3>1. T \in SUBSET Nat
      OBVIOUS
    <3> HIDE DEF T
    <3> QED BY <1>4, <3>1, LeastNumber
  <2> HIDE DEF upto
  <2>2. m # 0 /\ m \in 0..L /\ ~Grown(E, f[m], upto(m), origin)
    BY <1>2, <2>1
  <2>3. m \in 1..L /\ m - 1 \in 0..L /\ ~(m <= m - 1)
    BY <2>2
  <2>4. Grown(E, f[m - 1], upto(m - 1), origin)
    BY <2>1, <2>3
  <2> QED BY <1>3, <2>2, <2>3, <2>4
<1> HIDE DEF upto
<1>5. Grown(E, f[L], upto(L), origin)
  BY <1>4
<1> QED BY <1>5 DEF upto

\* The rules of a policy say lists of effects.
LEMMA RulesAre ==
    ASSUME NEW n, InOrder(policies[n]), NEW k \in 1..Len(policies[n].program)
    PROVE  IsList(RuleEffects(n, k))
<1>1. IsList(policies[n].program[k])
  BY DEF InOrder
<1>2. IsList(FallbackEffects(n, "malformed_effect", policies[n].onError))
  BY FallbacksAre
<1> QED BY <1>1, <1>2 DEF RuleEffects

\* A program emits what its rules say.
LEMMA RunGrows ==
    ASSUME NEW n, InOrder(policies[n]), NEW E, Journal(E)
    PROVE  Grown(E, Run(n, E), UNION {Listed(RuleEffects(n, k)) : k \in 1..Len(policies[n].program)}, Origin(n))
<1>1. PICK L : L = Len(policies[n].program)
  OBVIOUS
<1>2. L \in Nat
  <2>1. PICK S : policies[n].program \in Seq(S)
    BY DEF InOrder, IsList
  <2> QED BY <1>1, <2>1, LenProperties
<1>3. PICK o : o = Origin(n)
  OBVIOUS
<1>4. o.priority \in Int
  BY <1>3 DEF Origin, InOrder
<1>5. PICK s : s = [k \in 1..L |-> RuleEffects(n, k)]
  OBVIOUS
<1>6. \A k \in 1..L : s[k] = RuleEffects(n, k)
  BY <1>5
<1>7. \A k \in 1..L : IsList(s[k])
  BY <1>1, <1>6, RulesAre
<1> DEFINE f[k \in 0..L] == IF k = 0 THEN E ELSE Emit(f[k - 1], RuleEffects(n, k), o)
<1>8. Run(n, E) = f[L]
  BY <1>1, <1>3 DEF Run
<1>9. PICK g : Turns(g, E, s, o, L)
  BY <1>2, InTurn
<1>10. g = [k \in 0..L |-> IF k = 0 THEN E ELSE Emit(g[k - 1], RuleEffects(n, k), o)]
  <2>1. ASSUME NEW k \in 0..L
        PROVE (IF k = 0 THEN E ELSE Emit(g[k - 1], s[k], o))
                = (IF k = 0 THEN E ELSE Emit(g[k - 1], RuleEffects(n, k), o))
    <3>1. CASE k = 0
      BY <3>1
    <3>2. CASE k # 0
      <4>1. k \in 1..L
        BY <1>2, <3>2
      <4> QED BY <1>6, <4>1
    <3> QED BY <3>1, <3>2
  <2> QED BY <1>9, <2>1 DEF Turns
<1>11. f = [k \in 0..L |-> IF k = 0 THEN E ELSE Emit(f[k - 1], RuleEffects(n, k), o)]
  <2> HIDE DEF Emit, RuleEffects
  <2> QED BY <1>10
<1> HIDE DEF f
<1>12. Turns(f, E, s, o, L)
  <2>1. ASSUME NEW k \in 0..L
        PROVE (IF k = 0 THEN E ELSE Emit(f[k - 1], s[k], o))
                = (IF k = 0 THEN E ELSE Emit(f[k - 1], RuleEffects(n, k), o))
    <3>1. CASE k = 0
      BY <3>1
    <3>2. CASE k # 0
      <4>1. k \in 1..L
        BY <1>2, <3>2
      <4> QED BY <1>6, <4>1
    <3> QED BY <3>1, <3>2
  <2> QED BY <1>11, <2>1 DEF Turns
<1>13. Grown(E, f[L], UNION {Listed(s[k]) : k \in 1..L}, o)
  BY <1>2, <1>4, <1>7, <1>12, InTurnGrows
<1>14. UNION {Listed(s[k]) : k \in 1..L} = UNION {Listed(RuleEffects(n, k)) : k \in 1..L}
  BY <1>6
<1> QED BY <1>1, <1>3, <1>8, <1>13, <1>14

\* What a policy says by itself, case by case.
LEMMA AloneIs ==
    ASSUME NEW n, InOrder(policies[n])
    PROVE  LET p == policies[n]
               need == p.needs[FirstFailed(p)]
           IN /\ FailedNeeds(p) # {} => Alone(n) = Listed(FallbackEffects(n, need.name, need.behavior))
              /\ FailedNeeds(p) = {} /\ ~p.runs => Alone(n) = Listed(FallbackEffects(n, "runtime", p.onError))
              /\ FailedNeeds(p) = {} /\ p.runs =>
                    Alone(n) = UNION {Listed(RuleEffects(n, k)) : k \in 1..Len(p.program)}
<1>1. PICK p : p = policies[n]
  OBVIOUS
<1>2. PICK need : need = p.needs[FirstFailed(p)]
  OBVIOUS
<1>3. ASSUME NEW s PROVE UNION {{<<s>>[k][j] : j \in 1..Len(<<s>>[k])} : k \in 1..Len(<<s>>)} = Listed(s)
  <2>1. Len(<<s>>) = 1 /\ <<s>>[1] = s
    OBVIOUS
  <2>2. 1..Len(<<s>>) = {1}
    BY <2>1
  <2> QED BY <2>1, <2>2 DEF Listed
<1>4. CASE FailedNeeds(p) # {}
  <2>1. Alone(n) = UNION {{<<FallbackEffects(n, need.name, need.behavior)>>[k][j] :
                            j \in 1..Len(<<FallbackEffects(n, need.name, need.behavior)>>[k])} :
                          k \in 1..Len(<<FallbackEffects(n, need.name, need.behavior)>>)}
    BY <1>1, <1>2, <1>4 DEF Alone
  <2>2. Alone(n) = Listed(FallbackEffects(n, need.name, need.behavior))
    BY <1>3, <2>1
  <2> QED BY <1>1, <1>2, <1>4, <2>2
<1>5. CASE FailedNeeds(p) = {} /\ ~p.runs
  <2>1. Alone(n) = UNION {{<<FallbackEffects(n, "runtime", p.onError)>>[k][j] :
                            j \in 1..Len(<<FallbackEffects(n, "runtime", p.onError)>>[k])} :
                          k \in 1..Len(<<FallbackEffects(n, "runtime", p.onError)>>)}
    BY <1>1, <1>5 DEF Alone
  <2>2. Alone(n) = Listed(FallbackEffects(n, "runtime", p.onError))
    BY <1>3, <2>1
  <2> QED BY <1>1, <1>5, <2>2
<1>6. CASE FailedNeeds(p) = {} /\ p.runs
  <2>1. PICK L : L = Len(p.program)
    OBVIOUS
  <2>2. L \in Nat
    <3>1. PICK S : p.program \in Seq(S)
      BY <1>1 DEF InOrder, IsList
    <3> QED BY <2>1, <3>1, LenProperties
  <2>3. PICK said : said = [k \in 1..L |-> RuleEffects(n, k)]
    OBVIOUS
  <2>4. Len(said) = L /\ \A k \in 1..L : said[k] = RuleEffects(n, k)
    BY <2>2, <2>3
  <2>5. Alone(n) = UNION {{said[k][j] : j \in 1..Len(said[k])} : k \in 1..Len(said)}
    BY <1>1, <1>6, <2>1, <2>3 DEF Alone
  <2>6. Alone(n) = UNION {Listed(RuleEffects(n, k)) : k \in 1..L}
    BY <2>4, <2>5 DEF Listed
  <2> QED BY <1>1, <1>6, <2>1, <2>6
<1> QED BY <1>1, <1>2, <1>4, <1>5, <1>6

\* Each of the three ways to evaluate a policy emits what it says by itself.
LEMMA PolicySays ==
    ASSUME InOrder(P), Journal(emitted), FeatureFails \/ RuntimeFails \/ ProgramRuns
    PROVE  Grown(emitted, emitted', Alone(round.at), Origin(round.at))
<1>1. PICK n : n = round.at
  OBVIOUS
<1>2. InOrder(policies[n]) /\ P = policies[n]
  BY <1>1 DEF P
<1>3. Origin(n).priority \in Int
  BY <1>2 DEF Origin, InOrder
<1>4. CASE FeatureFails
  <2>1. PICK s : s = FallbackEffects(n, policies[n].needs[FirstFailed(policies[n])].name,
                                        policies[n].needs[FirstFailed(policies[n])].behavior)
    OBVIOUS
  <2>2. emitted' = Emit(emitted, s, Origin(n)) /\ FailedNeeds(policies[n]) # {}
    BY <1>1, <1>2, <1>4, <2>1 DEF FeatureFails
  <2>3. IsList(s)
    BY <2>1, FallbacksAre
  <2>4. Alone(n) = Listed(s)
    BY <1>2, <2>1, <2>2, AloneIs
  <2>5. Grown(emitted, emitted', Listed(s), Origin(n))
    BY <1>3, <2>2, <2>3, EmitGrows
  <2> QED BY <1>1, <2>4, <2>5
<1>5. CASE RuntimeFails
  <2>1. PICK s : s = FallbackEffects(n, "runtime", policies[n].onError)
    OBVIOUS
  <2>2. emitted' = Emit(emitted, s, Origin(n)) /\ FailedNeeds(policies[n]) = {} /\ ~policies[n].runs
    BY <1>1, <1>2, <1>5, <2>1 DEF RuntimeFails
  <2>3. IsList(s)
    BY <2>1, FallbacksAre
  <2>4. Alone(n) = Listed(s)
    BY <1>2, <2>1, <2>2, AloneIs
  <2>5. Grown(emitted, emitted', Listed(s), Origin(n))
    BY <1>3, <2>2, <2>3, EmitGrows
  <2> QED BY <1>1, <2>4, <2>5
<1>6. CASE ProgramRuns
  <2>1. emitted' = Run(n, emitted) /\ FailedNeeds(policies[n]) = {} /\ policies[n].runs
    BY <1>1, <1>2, <1>6 DEF ProgramRuns
  <2>2. Alone(n) = UNION {Listed(RuleEffects(n, k)) : k \in 1..Len(policies[n].program)}
    BY <1>2, <2>1, AloneIs
  <2>3. Grown(emitted, Run(n, emitted), UNION {Listed(RuleEffects(n, k)) : k \in 1..Len(policies[n].program)}, Origin(n))
    BY <1>2, RunGrows
  <2> QED BY <1>1, <2>1, <2>2, <2>3
<1> QED BY <1>4, <1>5, <1>6

\* Effects whose ids name a policy version name that policy's.
LEMMA AloneNames ==
    ASSUME NEW n, InOrder(policies[n]), NEW e \in Alone(n)
    PROVE  e.id[3] \in {0, n}
<1>1. PICK p : p = policies[n]
  OBVIOUS
<1>2. PICK need : need = p.needs[FirstFailed(p)]
  OBVIOUS
<1>3. ASSUME NEW component, NEW behavior, e \in Listed(FallbackEffects(n, component, behavior))
      PROVE  e.id[3] = n
  BY <1>3, FallbacksAre DEF Listed
<1>4. CASE FailedNeeds(p) # {}
  BY <1>1, <1>2, <1>3, <1>4, AloneIs
<1>5. CASE FailedNeeds(p) = {} /\ ~p.runs
  BY <1>1, <1>3, <1>5, AloneIs
<1>6. CASE FailedNeeds(p) = {} /\ p.runs
  <2>1. PICK k \in 1..Len(p.program) : e \in Listed(RuleEffects(n, k))
    BY <1>1, <1>6, AloneIs
  <2>2. CASE e \in Listed(FallbackEffects(n, "malformed_effect", p.onError))
    BY <1>3, <2>2
  <2>3. CASE e \in Listed(p.program[k])
    BY <1>1, <2>1, <2>3 DEF Listed, InOrder
  <2> QED BY <1>1, <2>1, <2>2, <2>3 DEF RuleEffects
<1> QED BY <1>4, <1>5, <1>6

\* A mandatory block is one of the effects of its policy.
LEMMA BlockIsSaid ==
    ASSUME NEW n, InOrder(policies[n]), FailedNeeds(policies[n]) = {}, policies[n].runs, BlocksForAll(n)
    PROVE  \E e \in Alone(n) : e.kind = "BLOCK"
<1>1. PICK k \in 1..Len(policies[n].program) :
         /\ \A j \in 1..Len(policies[n].program[k]) : Fits(policies[n].program[k][j])
         /\ \E j \in 1..Len(policies[n].program[k]) : policies[n].program[k][j].kind = "BLOCK"
  BY DEF BlocksForAll
<1>2. RuleEffects(n, k) = policies[n].program[k]
  BY <1>1 DEF RuleEffects
<1>3. \E e \in Listed(RuleEffects(n, k)) : e.kind = "BLOCK"
  BY <1>1, <1>2 DEF Listed
<1> QED BY <1>3, AloneIs

\* Whether the subject is restricted could not be found out; or it is.
Unknown == Message /\ ~gathered[ActiveRestrictions]
Restricted == Message /\ ActiveRestriction # {}

\* What the policies that were looked at have said, unless what is known of the
\* restrictions went before them.
Said ==
    /\ \A x \in Items(emitted) : /\ x.origin.policy \in Wanted /\ x.origin.policy < round.at
                                 /\ x.effect \in Alone(x.origin.policy)
    /\ terminal \in {"no", "block"}
    /\ terminal = "no" => \A n \in Wanted : n < round.at =>
                             \A e \in Alone(n) : \E x \in Items(emitted) : x.effect = e /\ x.origin = Origin(n)
    /\ terminal = "block" => \E x \in Items(emitted) : x.effect.kind = "BLOCK"

\* What was emitted so far: the hold or the block of the restrictions alone, or
\* what the policies said.
Emissions ==
    /\ Journal(emitted)
    /\ IF Unknown
       THEN terminal = "hold" /\ Items(emitted) # {} /\ \A x \in Items(emitted) : x.effect.kind = "HOLD"
       ELSE IF Restricted
       THEN terminal = "block" /\ Items(emitted) # {} /\ \A x \in Items(emitted) : x.effect.kind = "BLOCK"
       ELSE Said

\* The inductive invariant of an evaluation.
EffectsIInv ==
    /\ AllInOrder(policies)
    /\ round.at \in Nat \ {0}
    /\ round.stage \in {"features", "restrictions"} => emitted = <<>> /\ terminal = "no"
    /\ round.stage \in {"policies", "merge"} /\ ~Native => Emissions
    /\ round.stage = "merge" /\ ~Native => round.at > Len(policies)

\* What a policy says and who is looked at depends on the inputs and on what
\* was gathered.
LEMMA SaidStays ==
    ASSUME UNCHANGED inputs
    PROVE  /\ (Native <=> Native') /\ (Message <=> Message') /\ ActiveRestriction' = ActiveRestriction
           /\ Wanted' = Wanted /\ policies' = policies
           /\ \A n : Origin(n)' = Origin(n)
           /\ gathered' = gathered => (Unknown <=> Unknown') /\ \A n : Alone(n)' = Alone(n)
<1>1. action' = action /\ policies' = policies /\ plan' = plan /\ restrictions' = restrictions
      /\ shadowOnly' = shadowOnly
  BY DEF inputs
<1>2. (Native <=> Native') /\ (Message <=> Message')
  BY <1>1 DEF Native, Message
<1>3. ActiveRestriction' = ActiveRestriction
  BY <1>1 DEF ActiveRestriction
<1>4. Wanted' = Wanted
  BY <1>1 DEF Wanted
<1>5. \A n : Origin(n)' = Origin(n)
  BY <1>1 DEF Origin
<1>6. ASSUME gathered' = gathered, NEW n PROVE Alone(n)' = Alone(n)
  BY <1>1, <1>6 DEF Alone, FailedNeeds, FirstFailed, RuleEffects
<1>7. ASSUME gathered' = gathered PROVE Unknown <=> Unknown'
  BY <1>2, <1>7 DEF Unknown
<1> QED BY <1>1, <1>2, <1>3, <1>4, <1>5, <1>6, <1>7

\* An evaluation starts with nothing emitted.
LEMMA EffectsStart ==
    ASSUME NEW actions, NEW sequences, NEW plans, NEW restricted, \A ps \in sequences : AllInOrder(ps),
           EvaluationInitWith(actions, sequences, plans, restricted)
    PROVE  EffectsIInv
<1>1. /\ AllInOrder(policies) /\ emitted = <<>> /\ terminal = "no"
      /\ round = [stage |-> "features", at |-> 1, failures |-> 0]
  BY DEF EvaluationInitWith
<1>2. round.stage = "features" /\ round.at = 1
  BY <1>1
<1> QED BY <1>1, <1>2 DEF EffectsIInv

\* The state of a round after it enters a stage.
LEMMA EntersIs ==
    ASSUME NEW s, NEW n, Enters(s, n) PROVE round'.stage = s /\ round'.at = n
BY DEF Enters

\* One effect alone.
LEMMA OneEffect ==
    ASSUME NEW e, NEW origin, origin.priority \in Int, NEW F, F = Emit(<<>>, <<e>>, origin)
    PROVE  Journal(F) /\ Items(F) # {} /\ \A x \in Items(F) : x.effect = e
<1>1. <<e>> \in Seq({e}) /\ Len(<<e>>) = 1 /\ <<e>>[1] = e
  OBVIOUS
<1>2. IsList(<<e>>)
  BY <1>1 DEF IsList
<1>3. 1..Len(<<e>>) = {1}
  BY <1>1
<1>4. Listed(<<e>>) = {e}
  BY <1>1, <1>3 DEF Listed
<1>5. Grown(<<>>, F, Listed(<<e>>), origin)
  BY <1>2, NothingEmitted, EmitGrows
<1> QED BY <1>4, <1>5, NothingEmitted DEF Grown

\* The restrictions are looked at before any policy.
LEMMA RestrictionsKeep ==
    ASSUME EffectsIInv, LookAtRestrictions PROVE EffectsIInv'
<1>1. /\ UNCHANGED inputs /\ gathered' = gathered /\ round.stage = "restrictions"
      /\ Enters(IF Native THEN "merge" ELSE "policies", 1)
  BY DEF LookAtRestrictions
<1>2. round'.stage = (IF Native THEN "merge" ELSE "policies") /\ round'.at = 1
  BY <1>1, EntersIs
<1>3. /\ (Native <=> Native') /\ (Unknown <=> Unknown') /\ (Restricted <=> Restricted')
      /\ Wanted' = Wanted /\ policies' = policies
  BY <1>1, SaidStays DEF Restricted
<1>4. AllInOrder(policies)'
  BY <1>3 DEF EffectsIInv
<1>5. ASSUME ~Native PROVE Emissions'
  <2>1. CASE Unknown
    <3>1. terminal' = "hold" /\ emitted' = Emit(<<>>, <<Effect("HOLD", "restrictions-active")>>, Builtin(1001))
      BY <2>1 DEF LookAtRestrictions, Unknown
    <3>2. PICK e, o : e = Effect("HOLD", "restrictions-active") /\ o = Builtin(1001)
      OBVIOUS
    <3>3. e.kind = "HOLD" /\ o.priority \in Int
      <4>1. e.kind = "HOLD"
        BY <3>2 DEF Effect
      <4>2. o.priority = 1001
        BY <3>2 DEF Builtin
      <4> QED BY <4>1, <4>2
    <3>4. Journal(emitted)' /\ Items(emitted)' # {} /\ \A x \in Items(emitted)' : x.effect = e
      BY <3>1, <3>2, <3>3, OneEffect
    <3> QED BY <1>3, <2>1, <3>1, <3>3, <3>4 DEF Emissions
  <2>2. CASE ~Unknown /\ Restricted
    <3>1. terminal' = "block" /\ emitted' = Emit(<<>>, <<Effect("BLOCK", "active-restriction")>>, Builtin(1000))
      BY <2>2 DEF LookAtRestrictions, Unknown, Restricted
    <3>2. PICK e, o : e = Effect("BLOCK", "active-restriction") /\ o = Builtin(1000)
      OBVIOUS
    <3>3. e.kind = "BLOCK" /\ o.priority \in Int
      <4>1. e.kind = "BLOCK"
        BY <3>2 DEF Effect
      <4>2. o.priority = 1000
        BY <3>2 DEF Builtin
      <4> QED BY <4>1, <4>2
    <3>4. Journal(emitted)' /\ Items(emitted)' # {} /\ \A x \in Items(emitted)' : x.effect = e
      BY <3>1, <3>2, <3>3, OneEffect
    <3> QED BY <1>3, <2>2, <3>1, <3>3, <3>4 DEF Emissions
  <2>3. CASE ~Unknown /\ ~Restricted
    <3>1. terminal' = "no" /\ emitted' = <<>>
      BY <1>5, <2>3 DEF LookAtRestrictions, Unknown, Restricted
    <3>2. Journal(emitted)' /\ Items(emitted)' = {}
      BY <3>1, NothingEmitted
    <3>3. \A n \in Wanted' : ~(n < round'.at)
      BY <1>2, <1>3 DEF Wanted
    <3> QED BY <1>3, <2>3, <3>1, <3>2, <3>3 DEF Emissions, Said
  <2> QED BY <2>1, <2>2, <2>3
<1> QED BY <1>2, <1>3, <1>4, <1>5 DEF EffectsIInv

\* A policy is passed over, or says what it says by itself.
LEMMA PolicyKeeps ==
    ASSUME EffectsIInv, EvaluatePolicy PROVE EffectsIInv'
<1>1. PICK n : n = round.at
  OBVIOUS
<1>2. /\ UNCHANGED inputs /\ gathered' = gathered /\ round.stage = "policies" /\ n <= Len(policies)
      /\ Enters("policies", n + 1) /\ n \in Nat \ {0}
      /\ Skip \/ FeatureFails \/ RuntimeFails \/ ProgramRuns
  BY <1>1 DEF EvaluatePolicy, EffectsIInv
<1>3. round'.stage = "policies" /\ round'.at = n + 1
  BY <1>2, EntersIs
<1>4. /\ (Native <=> Native') /\ (Unknown <=> Unknown') /\ (Restricted <=> Restricted')
      /\ Wanted' = Wanted /\ policies' = policies
      /\ (\A m : Origin(m)' = Origin(m)) /\ \A m : Alone(m)' = Alone(m)
  BY <1>2, SaidStays DEF Restricted
<1>5. AllInOrder(policies) /\ AllInOrder(policies)'
  BY <1>4 DEF EffectsIInv
<1>6. Len(policies) \in Nat
  <2>1. PICK S : policies \in Seq(S)
    BY <1>5 DEF AllInOrder, IsList
  <2> QED BY <2>1, LenProperties
<1>7. InOrder(P) /\ P = policies[n] /\ n \in 1..Len(policies)
  BY <1>1, <1>2, <1>5, <1>6 DEF AllInOrder, P
<1>8. n \in Wanted <=> P.shadow = shadowOnly /\ P.accepts
  BY <1>7 DEF Wanted
<1>9. \A m \in Wanted : m \in Nat
  BY <1>6 DEF Wanted
<1>10. ASSUME ~Native PROVE Emissions'
  <2>1. Emissions
    BY <1>2, <1>10 DEF EffectsIInv
  <2>2. CASE Skip
    <3>1. emitted' = emitted /\ terminal' = terminal /\ Items(emitted)' = Items(emitted)
      BY <2>2 DEF Skip, Items
    <3>2. terminal = "no" => n \notin Wanted
      BY <1>8, <2>2 DEF Skip
    <3>3. CASE Unknown \/ Restricted
      BY <1>4, <2>1, <3>1, <3>3 DEF Emissions
    <3>4. CASE ~Unknown /\ ~Restricted
      <4>1. Said
        BY <2>1, <3>4 DEF Emissions
      <4>2. \A x \in Items(emitted) : x.origin.policy \in Wanted /\ x.origin.policy < n
        BY <1>1, <4>1 DEF Said
      <4>3. \A x \in Items(emitted) : x.origin.policy < n + 1
        BY <1>2, <1>9, <4>2
      <4>4. ASSUME terminal = "no", NEW m \in Wanted, m < n + 1 PROVE m < n
        BY <1>2, <1>9, <3>2, <4>4
      <4>5. Said'
        BY <1>1, <1>3, <1>4, <3>1, <4>1, <4>3, <4>4 DEF Said
      <4> QED BY <1>4, <2>1, <3>1, <3>4, <4>5 DEF Emissions
    <3> QED BY <3>3, <3>4
  <2>3. CASE FeatureFails \/ RuntimeFails \/ ProgramRuns
    <3>1. terminal = "no" /\ n \in Wanted
      BY <1>8, <2>3 DEF FeatureFails, RuntimeFails, ProgramRuns, Evaluated
    <3>2. ~Unknown /\ ~Restricted /\ Said /\ Journal(emitted)
      BY <2>1, <3>1 DEF Emissions
    <3>3. Grown(emitted, emitted', Alone(n), Origin(n))
      BY <1>1, <1>7, <2>3, <3>2, PolicySays
    <3>4. Origin(n).policy = n
      BY DEF Origin
    <3>5. Journal(emitted') /\ Items(emitted)' = Items(emitted')
      BY <3>3 DEF Grown
    <3>6. ASSUME NEW x \in Items(emitted')
          PROVE x.origin.policy \in Wanted /\ x.origin.policy < n + 1 /\ x.effect \in Alone(x.origin.policy)
      <4>1. CASE x \in Items(emitted)
        BY <1>1, <1>2, <1>9, <3>2, <4>1 DEF Said
      <4>2. CASE x.effect \in Alone(n) /\ x.origin = Origin(n)
        BY <1>2, <3>1, <3>4, <4>2
      <4> QED BY <3>3, <4>1, <4>2 DEF Grown
    <3>7. ASSUME NEW m \in Wanted, m < n + 1, NEW e \in Alone(m)
          PROVE  \E x \in Items(emitted') : x.effect = e /\ x.origin = Origin(m)
      <4>1. CASE m = n
        BY <3>3, <3>7, <4>1 DEF Grown
      <4>2. CASE m # n
        <5>1. m < n
          BY <1>2, <1>9, <3>7, <4>2
        <5>2. \E x \in Items(emitted) : x.effect = e /\ x.origin = Origin(m)
          BY <1>1, <3>1, <3>2, <3>7, <5>1 DEF Said
        <5> QED BY <3>3, <5>2 DEF Grown
      <4> QED BY <4>1, <4>2
    <3>8. terminal' \in {"no", "block"} /\ (terminal' = "block" => \E x \in Items(emitted') : x.effect.kind = "BLOCK")
      <4>1. CASE ProgramRuns /\ BlocksForAll(n)
        <5>1. PICK e \in Alone(n) : e.kind = "BLOCK"
          BY <1>7, <4>1, BlockIsSaid DEF ProgramRuns
        <5>2. terminal' = "block"
          BY <1>1, <4>1 DEF ProgramRuns
        <5> QED BY <3>3, <5>1, <5>2 DEF Grown
      <4>2. CASE ~(ProgramRuns /\ BlocksForAll(n))
        BY <1>1, <2>3, <3>1, <4>2 DEF ProgramRuns, FeatureFails, RuntimeFails
      <4> QED BY <4>1, <4>2
    <3>9. Said'
      BY <1>3, <1>4, <3>5, <3>6, <3>7, <3>8 DEF Said
    <3> QED BY <1>4, <3>2, <3>5, <3>9 DEF Emissions
  <2> QED BY <1>2, <2>2, <2>3
<1> QED BY <1>2, <1>3, <1>4, <1>5, <1>10 DEF EffectsIInv

\* Every step of an evaluation keeps the invariant.
LEMMA EffectsKeep ==
    ASSUME EffectsIInv, [EvaluationNext]_evaluationVars PROVE EffectsIInv'
<1>1. UNCHANGED inputs
  BY DEF EvaluationNext, evaluationVars, ResolveFeatures, LookAtRestrictions, EvaluatePolicy, FinishPolicies,
     PersistAndApply, ApplyFails, PersistShadowComparison, ResolveHold, inputs
<1>2. /\ (Native <=> Native') /\ policies' = policies
      /\ gathered' = gathered => /\ (Unknown <=> Unknown') /\ (Restricted <=> Restricted')
                                 /\ Wanted' = Wanted
                                 /\ (\A m : Origin(m)' = Origin(m)) /\ \A m : Alone(m)' = Alone(m)
  BY <1>1, SaidStays DEF Restricted
<1>3. AllInOrder(policies)' /\ round.at \in Nat \ {0}
  BY <1>2 DEF EffectsIInv
<1>4. ASSUME gathered' = gathered, emitted' = emitted, terminal' = terminal, Emissions, round'.at = round.at
      PROVE Emissions'
  <2>1. Items(emitted)' = Items(emitted) /\ Journal(emitted)'
    BY <1>4 DEF Items, Emissions
  <2>2. Said => Said'
    BY <1>2, <1>4, <2>1 DEF Said
  <2> QED BY <1>2, <1>4, <2>1, <2>2 DEF Emissions
<1>5. CASE ResolveFeatures
  <2>1. round'.stage = "restrictions" /\ round'.at = round.at
    BY <1>5, EntersIs DEF ResolveFeatures
  <2>2. emitted' = <<>> /\ terminal' = "no"
    BY <1>5 DEF ResolveFeatures, EffectsIInv
  <2> QED BY <1>3, <2>1, <2>2 DEF EffectsIInv
<1>6. CASE FinishPolicies
  <2>1. /\ round'.stage = "merge" /\ round'.at = round.at /\ round.at > Len(policies) /\ round.stage = "policies"
        /\ gathered' = gathered /\ emitted' = emitted /\ terminal' = terminal
    BY <1>6, EntersIs DEF FinishPolicies
  <2> QED BY <1>2, <1>3, <1>4, <2>1 DEF EffectsIInv
<1>7. CASE PersistAndApply \/ PersistShadowComparison
  <2>1. round'.stage = "done" /\ round'.at = round.at
    BY <1>7, EntersIs DEF PersistAndApply, PersistShadowComparison
  <2> QED BY <1>3, <2>1 DEF EffectsIInv
<1>8. CASE ApplyFails
  <2>1. /\ round' = [stage |-> IF round.failures + 1 < MaxFailures THEN "features" ELSE "dead",
                     at |-> 1, failures |-> round.failures + 1]
        /\ emitted' = <<>> /\ terminal' = "no"
    BY <1>8 DEF ApplyFails
  <2>2. round'.stage \in {"features", "dead"} /\ round'.at = 1
    BY <2>1
  <2> QED BY <1>3, <2>1, <2>2 DEF EffectsIInv
<1>9. CASE ResolveHold \/ UNCHANGED evaluationVars
  <2>1. gathered' = gathered /\ emitted' = emitted /\ terminal' = terminal /\ round' = round
    BY <1>9 DEF ResolveHold, evaluationVars
  <2> QED BY <1>2, <1>3, <1>4, <2>1 DEF EffectsIInv
<1> QED BY <1>5, <1>6, <1>7, <1>8, <1>9, RestrictionsKeep, PolicyKeeps DEF EvaluationNext

(* The merge. *)

\* The largest of some numbers up to four.
LEMMA MostIs ==
    ASSUME NEW S \in SUBSET (0..4), S # {}
    PROVE  Most(S) \in S /\ \A k \in S : k <= Most(S)
<1> DEFINE T == {4 - k : k \in S}
<1>1. T \in SUBSET Nat /\ T # {}
  <2>1. ASSUME NEW k \in S PROVE 4 - k \in Nat
    <3>1. k \in 0..4
      OBVIOUS
    <3> QED BY <3>1
  <2> QED BY <2>1
<1>2. PICK m \in T : \A k \in T : m <= k
  <2> HIDE DEF T
  <2> QED BY <1>1, LeastNumber
<1>3. PICK l \in S : m = 4 - l
  OBVIOUS
<1>4. ASSUME NEW k \in S PROVE k <= l
  <2>1. m <= 4 - k
    BY <1>2
  <2>2. k \in 0..4 /\ l \in 0..4
    OBVIOUS
  <2> QED BY <1>3, <2>1, <2>2
<1>5. \E x \in S : \A k \in S : k <= x
  BY <1>4
<1> QED BY <1>5 DEF Most

\* What the severities of effects stand for.
LEMMA Severities ==
    ASSUME NEW kind
    PROVE  /\ Severity(kind) \in 0..4
           /\ Severity(kind) = 4 <=> kind = "BLOCK"
           /\ Severity(kind) = 3 <=> kind = "HOLD"
           /\ Severity(kind) = 1 <=> kind = "ALLOW"
BY DEF Severity

\* How severe what a policy says is.
LEMMA SeverestIs ==
    ASSUME NEW S
    PROVE  /\ Severest(S) \in 1..4
           /\ \A e \in S : Severity(e.kind) <= Severest(S)
           /\ Severest(S) = 1 \/ \E e \in S : Severest(S) = Severity(e.kind)
<1> DEFINE T == {Severity(e.kind) : e \in S} \cup {1}
<1>1. T \in SUBSET (0..4) /\ T # {} /\ 1 \in T
  BY Severities
<1>2. Most(T) \in T /\ \A k \in T : k <= Most(T)
  <2> HIDE DEF T
  <2> QED BY <1>1, MostIs
<1>3. Severest(S) = Most(T)
  BY DEF Severest
<1>4. \A e \in S : Severity(e.kind) \in T
  OBVIOUS
<1>5. Most(T) = 1 \/ \E e \in S : Most(T) = Severity(e.kind)
  BY <1>2
<1> HIDE DEF T
<1>6. Most(T) \in 1..4
  <2>1. Most(T) \in 0..4 /\ 1 <= Most(T)
    BY <1>1, <1>2
  <2> QED BY <2>1
<1> QED BY <1>2, <1>3, <1>4, <1>5, <1>6

\* The order of the merge is strict, and puts any two effects of a journal in
\* an order.
LEMMA RanksAreStrict ==
    ASSUME NEW E, Journal(E)
    PROVE  /\ \A x \in Items(E) : x.at \in Nat /\ ~Outranks(x, x)
           /\ \A x, y \in Items(E) : x # y => Outranks(x, y) \/ Outranks(y, x)
           /\ \A x, y, z \in Items(E) : Outranks(x, y) /\ Outranks(y, z) => Outranks(x, z)
           /\ \A x, y \in Items(E) : Outranks(x, y) => Severity(y.effect.kind) <= Severity(x.effect.kind)
<1>1. \A x \in Items(E) : x.at \in Nat /\ x.origin.priority \in Int
  BY DEF Journal, Items
<1>2. \A x, y \in Items(E) : x # y => x.at # y.at
  BY DEF Journal, Items
<1>3. \A x : Severity(x.effect.kind) \in 0..4 /\ Precedence(x.origin.scope) \in 0..3
  BY Severities DEF Precedence
<1>4. \A x \in Items(E) : ~Outranks(x, x)
  BY <1>1, <1>3 DEF Outranks
<1>5. ASSUME NEW x \in Items(E), NEW y \in Items(E), x # y PROVE Outranks(x, y) \/ Outranks(y, x)
  <2>1. /\ x.at \in Nat /\ y.at \in Nat /\ x.at # y.at
        /\ x.origin.priority \in Int /\ y.origin.priority \in Int
    BY <1>1, <1>2, <1>5
  <2>2. /\ Severity(x.effect.kind) \in 0..4 /\ Severity(y.effect.kind) \in 0..4
        /\ Precedence(x.origin.scope) \in 0..3 /\ Precedence(y.origin.scope) \in 0..3
    BY <1>3
  <2> QED BY <2>1, <2>2 DEF Outranks
<1>6. \A x, y, z \in Items(E) : Outranks(x, y) /\ Outranks(y, z) => Outranks(x, z)
  BY <1>1, <1>3 DEF Outranks
<1>7. \A x, y \in Items(E) : Outranks(x, y) => Severity(y.effect.kind) <= Severity(x.effect.kind)
  BY <1>3 DEF Outranks
<1> QED BY <1>1, <1>4, <1>5, <1>6, <1>7

\* A journal has finitely many effects.
LEMMA ItemsAreFinite ==
    ASSUME NEW E, Journal(E) PROVE IsFiniteSet(Items(E))
<1>1. PICK S : E \in Seq(S)
  BY DEF Journal, IsList
<1>2. PICK n : n = Len(E)
  OBVIOUS
<1>3. n \in Nat
  BY <1>1, <1>2, LenProperties
<1>4. PICK f : f = [k \in 1..n |-> E[k]]
  OBVIOUS
<1>5. f \in Surjection(1..n, Items(E))
  BY <1>2, <1>4 DEF Surjection, Items
<1>6. IsFiniteSet(1..n)
  BY <1>3, FS_Interval
<1> QED BY <1>5, <1>6, FS_Surjection

\* If anything decides, one effect outranks all others that do.
LEMMA SomeWins ==
    ASSUME NEW E, Journal(E), NEW d \in Items(E), Decides(d)
    PROVE  Winners(E) # {}
<1> DEFINE D == {x \in Items(E) : Decides(x)}
           Above(x) == {y \in D : Outranks(y, x)}
           N == {Cardinality(Above(x)) : x \in D}
<1>1. IsFiniteSet(D) /\ d \in D
  <2>1. D \subseteq Items(E) /\ d \in D
    OBVIOUS
  <2> HIDE DEF D
  <2> QED BY <2>1, ItemsAreFinite, FS_Subset
<1>2. \A x \in D : IsFiniteSet(Above(x)) /\ Cardinality(Above(x)) \in Nat
  <2> SUFFICES ASSUME NEW x \in D PROVE IsFiniteSet(Above(x)) /\ Cardinality(Above(x)) \in Nat
    OBVIOUS
  <2>1. Above(x) \subseteq D
    OBVIOUS
  <2> HIDE DEF D, Above
  <2> QED BY <1>1, <2>1, FS_Subset, FS_CardinalityType
<1>3. N \in SUBSET Nat /\ N # {}
  BY <1>1, <1>2
<1>4. PICK n \in N : \A k \in N : n <= k
  <2> HIDE DEF N
  <2> QED BY <1>3, LeastNumber
<1>5. PICK m \in D : n = Cardinality(Above(m))
  OBVIOUS
<1>6. ASSUME NEW o \in D \ {m}, ~Outranks(m, o) PROVE FALSE
  <2>1. Outranks(o, m)
    BY <1>6, RanksAreStrict
  <2>2. Above(o) \subseteq Above(m) /\ o \in Above(m) /\ o \notin Above(o)
    BY <2>1, RanksAreStrict
  <2>3. Cardinality(Above(o)) <= Cardinality(Above(m)) /\ Cardinality(Above(o)) # Cardinality(Above(m))
    <3> HIDE DEF Above
    <3> QED BY <1>2, <2>2, FS_Subset
  <2>4. n <= Cardinality(Above(o))
    BY <1>4
  <2> HIDE DEF Above, N
  <2> QED BY <1>2, <1>5, <2>3, <2>4
<1>7. m \in Winners(E)
  BY <1>6 DEF Winners
<1> QED BY <1>7

\* The first effect of an id is one of them.
LEMMA FirstIs ==
    ASSUME NEW E, Journal(E), NEW w \in Items(E)
    PROVE  /\ First(E, w.effect.id) \in Items(E) /\ First(E, w.effect.id).effect.id = w.effect.id
<1> DEFINE T == {x.at : x \in {y \in Items(E) : y.effect.id = w.effect.id}}
<1>1. T \in SUBSET Nat /\ T # {}
  BY RanksAreStrict
<1>2. PICK m \in T : \A k \in T : m <= k
  <2> HIDE DEF T
  <2> QED BY <1>1, LeastNumber
<1>3. PICK x \in Items(E) : x.effect.id = w.effect.id /\ x.at = m
  OBVIOUS
<1>4. \A y \in Items(E) : y.effect.id = w.effect.id => x.at <= y.at
  BY <1>2, <1>3
<1> QED BY <1>3, <1>4 DEF First

\* Effects of one id say the same.
SameIdsAgree(E) == \A x, y \in Items(E) : x.effect.id = y.effect.id => x.effect = y.effect

\* The decision of a merge is the severest of what was emitted.
LEMMA DecisionIs ==
    ASSUME NEW E, Journal(E), SameIdsAgree(E)
    PROVE  /\ Severity(FinalDecision(E)) \in 1..4
           /\ \A x \in Items(E) : Severity(x.effect.kind) <= Severity(FinalDecision(E))
           /\ \/ Severity(FinalDecision(E)) = 1
              \/ \E x \in Items(E) : Severity(x.effect.kind) = Severity(FinalDecision(E))
<1>1. CASE Winners(E) = {}
  <2>1. \A x \in Items(E) : ~(Severity(x.effect.kind) > 0)
    BY <1>1, SomeWins DEF Decides
  <2>2. FinalDecision(E) = "ALLOW"
    BY <1>1 DEF FinalDecision
  <2>3. Severity(FinalDecision(E)) = 1
    BY <2>2, Severities
  <2>4. \A x \in Items(E) : Severity(x.effect.kind) \in 0..4
    BY Severities
  <2> QED BY <2>1, <2>3, <2>4
<1>2. CASE Winners(E) # {}
  <2>1. PICK w : w = CHOOSE v \in Winners(E) : TRUE
    OBVIOUS
  <2>2. w \in Winners(E)
    BY <1>2, <2>1
  <2>3. w \in Items(E) /\ Severity(w.effect.kind) > 0
        /\ \A y \in Items(E) \ {w} : Severity(y.effect.kind) > 0 => Outranks(w, y)
    BY <2>2 DEF Winners, Decides
  <2>4. PICK x : x = First(E, w.effect.id)
    OBVIOUS
  <2>5. x \in Items(E) /\ x.effect = w.effect
    BY <2>3, <2>4, FirstIs DEF SameIdsAgree
  <2>6. FinalDecision(E) = w.effect.kind
    BY <1>2, <2>1, <2>3, <2>4, <2>5 DEF FinalDecision, Decides
  <2>7. \A y : Severity(y.effect.kind) \in 0..4
    BY Severities
  <2>8. ASSUME NEW y \in Items(E) PROVE Severity(y.effect.kind) <= Severity(w.effect.kind)
    <3>1. CASE y = w \/ ~(Severity(y.effect.kind) > 0)
      BY <2>3, <2>7, <3>1
    <3>2. CASE y # w /\ Severity(y.effect.kind) > 0
      BY <2>3, <3>2, RanksAreStrict
    <3> QED BY <3>1, <3>2
  <2> QED BY <2>3, <2>6, <2>7, <2>8
<1> QED BY <1>1, <1>2

\* What was merged, where nothing but the policies decided.
LEMMA SeverestDecides ==
    ASSUME EffectsIInv, Merged, Unambiguous, ~Native, ~Unknown, ~Restricted
    PROVE  /\ Severity(Decision) \in 1..4
           /\ \A n \in Wanted : Severest(Alone(n)) <= Severity(Decision)
           /\ Severity(Decision) = 1 \/ \E n \in Wanted : Severest(Alone(n)) = Severity(Decision)
<1>1. Journal(emitted) /\ Said /\ round.at \in Nat /\ round.at > Len(policies)
  BY DEF EffectsIInv, Merged, Emissions
<1>2. PICK d : d = Severity(Decision)
  OBVIOUS
<1>3. /\ d \in 1..4
      /\ \A x \in Items(emitted) : Severity(x.effect.kind) <= d
      /\ d = 1 \/ \E x \in Items(emitted) : Severity(x.effect.kind) = d
  BY <1>1, <1>2, DecisionIs DEF Decision, Unambiguous, SameIdsAgree
<1>4. \A n \in Wanted : n < round.at
  <2>1. PICK S : policies \in Seq(S)
    BY DEF EffectsIInv, AllInOrder, IsList
  <2>2. Len(policies) \in Nat
    BY <2>1, LenProperties
  <2> QED BY <1>1, <2>2 DEF Wanted
<1>5. \A n : /\ Severest(Alone(n)) \in 1..4
             /\ \A e \in Alone(n) : Severity(e.kind) <= Severest(Alone(n))
             /\ Severest(Alone(n)) = 1 \/ \E e \in Alone(n) : Severest(Alone(n)) = Severity(e.kind)
  BY SeverestIs
<1>6. ASSUME NEW n \in Wanted PROVE Severest(Alone(n)) <= d
  <2>1. CASE terminal = "block"
    <3>1. PICK x \in Items(emitted) : x.effect.kind = "BLOCK"
      BY <1>1, <2>1 DEF Said
    <3>2. 4 <= d
      BY <1>3, <3>1, Severities
    <3> QED BY <1>3, <1>5, <3>2
  <2>2. CASE terminal = "no"
    <3>1. CASE Severest(Alone(n)) = 1
      BY <1>3, <3>1
    <3>2. CASE Severest(Alone(n)) # 1
      <4>1. PICK e \in Alone(n) : Severest(Alone(n)) = Severity(e.kind)
        BY <1>5, <3>2
      <4>2. PICK x \in Items(emitted) : x.effect = e
        BY <1>1, <1>4, <2>2 DEF Said
      <4> QED BY <1>3, <4>1, <4>2
    <3> QED BY <3>1, <3>2
  <2> QED BY <1>1, <2>1, <2>2 DEF Said
<1>7. ASSUME d # 1 PROVE \E n \in Wanted : Severest(Alone(n)) = d
  <2>1. PICK x \in Items(emitted) : Severity(x.effect.kind) = d
    BY <1>3, <1>7
  <2>2. PICK n \in Wanted : n = x.origin.policy /\ x.effect \in Alone(n)
    BY <1>1 DEF Said
  <2>3. d <= Severest(Alone(n)) /\ Severest(Alone(n)) <= d /\ Severest(Alone(n)) \in 1..4
    BY <1>5, <1>6, <2>1, <2>2
  <2>4. Severest(Alone(n)) = d
    BY <1>3, <2>3
  <2> QED BY <2>4
<1> QED BY <1>2, <1>3, <1>6, <1>7

\* The decision after the invariant: the severest that a policy says by itself.
LEMMA InvariantDecides == EffectsIInv => DecisionIsSeverest
<1> SUFFICES ASSUME EffectsIInv, Merged, Unambiguous, ~Native
             PROVE  Severity(Decision) =
                      IF Unknown THEN 3 ELSE IF Restricted THEN 4
                      ELSE Most({Severest(Alone(n)) : n \in Wanted} \cup {1})
  BY DEF DecisionIsSeverest, Unknown, Restricted
<1>1. PICK d : d = Severity(Decision)
  OBVIOUS
<1>2. Journal(emitted) /\ Emissions
  BY DEF EffectsIInv, Merged, Emissions
<1>3. /\ d \in 1..4
      /\ \A x \in Items(emitted) : Severity(x.effect.kind) <= d
      /\ d = 1 \/ \E x \in Items(emitted) : Severity(x.effect.kind) = d
  BY <1>1, <1>2, DecisionIs DEF Decision, Unambiguous, SameIdsAgree
<1>4. CASE Unknown
  <2>1. Items(emitted) # {} /\ \A x \in Items(emitted) : x.effect.kind = "HOLD"
    BY <1>2, <1>4 DEF Emissions
  <2>2. \A x \in Items(emitted) : Severity(x.effect.kind) = 3
    BY <2>1, Severities
  <2>3. d = 3
    BY <1>3, <2>1, <2>2
  <2> QED BY <1>1, <1>4, <2>3
<1>5. CASE ~Unknown /\ Restricted
  <2>1. Items(emitted) # {} /\ \A x \in Items(emitted) : x.effect.kind = "BLOCK"
    BY <1>2, <1>5 DEF Emissions
  <2>2. \A x \in Items(emitted) : Severity(x.effect.kind) = 4
    BY <2>1, Severities
  <2>3. d = 4
    BY <1>3, <2>1, <2>2
  <2> QED BY <1>1, <1>5, <2>3
<1>6. CASE ~Unknown /\ ~Restricted
  <2> DEFINE S == {Severest(Alone(n)) : n \in Wanted} \cup {1}
  <2>1. /\ \A n \in Wanted : Severest(Alone(n)) <= d
        /\ d = 1 \/ \E n \in Wanted : Severest(Alone(n)) = d
    BY <1>1, <1>6, SeverestDecides
  <2>2. S \in SUBSET (0..4) /\ S # {}
    <3>1. \A n : Severest(Alone(n)) \in 1..4
      BY SeverestIs
    <3>2. 1..4 \subseteq 0..4 /\ 1 \in 0..4
      OBVIOUS
    <3> QED BY <3>1, <3>2
  <2>3. d \in S /\ \A k \in S : k <= d
    BY <1>3, <2>1
  <2> HIDE DEF S
  <2>4. Most(S) \in S /\ \A k \in S : k <= Most(S)
    BY <2>2, MostIs
  <2>5. Most(S) <= d /\ d <= Most(S) /\ Most(S) \in 0..4
    BY <2>2, <2>3, <2>4
  <2>6. Most(S) = d
    BY <1>3, <2>5
  <2> QED BY <1>1, <1>6, <2>6 DEF S
<1> QED BY <1>4, <1>5, <1>6

\* What is to be done of a policy whose dependency, runtime or rule failed.
Behavior(n) ==
    LET p == policies[n]
    IN IF FailedNeeds(p) # {} THEN p.needs[FirstFailed(p)].behavior
       ELSE IF ~p.runs \/ \E k \in 1..Len(p.program) : \E e \in 1..Len(p.program[k]) : ~Fits(p.program[k][e])
       THEN p.onError ELSE "CONTINUE"

\* What failed is held or blocked, and reviewed where its policy wants it.
LEMMA InvariantSpeaks == EffectsIInv => FailureIsNotSilent
<1> SUFFICES ASSUME EffectsIInv, Merged, Unambiguous, terminal = "no", NEW n \in Wanted, ~Native
             PROVE  /\ Behavior(n) # "CONTINUE" => Decision \in {"HOLD", "BLOCK"}
                    /\ Behavior(n) = "REVIEW" => \E x \in Accepted(emitted) :
                                                   x.effect.kind = "ROUTE_REVIEW" /\ x.origin.policy = n
  BY DEF FailureIsNotSilent, Behavior
<1>0. PICK behavior : behavior = Behavior(n)
  OBVIOUS
<1>1. PICK p : p = policies[n]
  OBVIOUS
<1>2. Journal(emitted) /\ Emissions /\ ~Unknown /\ ~Restricted /\ Said
  BY DEF EffectsIInv, Merged, Emissions
<1>3. n \in Nat \ {0} /\ n < round.at /\ \A m \in Wanted : m \in 1..Len(policies)
  <2>1. PICK S : policies \in Seq(S)
    BY DEF EffectsIInv, AllInOrder, IsList
  <2>2. Len(policies) \in Nat /\ round.at > Len(policies) /\ round.at \in Nat
    BY <2>1, LenProperties DEF EffectsIInv, Merged
  <2> QED BY <2>2 DEF Wanted
<1>4. \A m \in Wanted : InOrder(policies[m])
  BY <1>3 DEF EffectsIInv, AllInOrder
<1>5. \A e \in Alone(n) : \E x \in Items(emitted) : x.effect = e /\ x.origin.policy = n
  <2>1. Origin(n).policy = n
    BY DEF Origin
  <2> QED BY <1>2, <1>3, <2>1 DEF Said
<1>6. ASSUME behavior # "CONTINUE"
      PROVE  /\ \E e \in Alone(n) : e.kind = "HOLD"
             /\ behavior = "REVIEW" => \E e \in Alone(n) : e.kind = "ROUTE_REVIEW" /\ e.id[3] = n
  <2>1. ASSUME NEW component, Listed(FallbackEffects(n, component, behavior)) \subseteq Alone(n)
        PROVE  /\ \E e \in Alone(n) : e.kind = "HOLD"
               /\ behavior = "REVIEW" => \E e \in Alone(n) : e.kind = "ROUTE_REVIEW" /\ e.id[3] = n
    <3>1. PICK s : s = FallbackEffects(n, component, behavior)
      OBVIOUS
    <3>2. /\ \A j \in 1..Len(s) : s[j].id[3] = n
          /\ \E j \in 1..Len(s) : s[j].kind = "HOLD"
          /\ behavior = "REVIEW" => \E j \in 1..Len(s) : s[j].kind = "ROUTE_REVIEW"
      BY <1>6, <3>1, FallbacksAre
    <3>3. \A j \in 1..Len(s) : s[j] \in Alone(n)
      BY <2>1, <3>1 DEF Listed
    <3> QED BY <3>2, <3>3
  <2>2. CASE FailedNeeds(p) # {}
    <3>1. behavior = p.needs[FirstFailed(p)].behavior
      BY <1>0, <1>1, <2>2 DEF Behavior
    <3>2. Alone(n) = Listed(FallbackEffects(n, p.needs[FirstFailed(p)].name, behavior))
      BY <1>1, <1>4, <2>2, <3>1, AloneIs
    <3> QED BY <2>1, <3>2
  <2>3. CASE FailedNeeds(p) = {} /\ ~p.runs
    <3>1. behavior = p.onError
      BY <1>0, <1>1, <2>3 DEF Behavior
    <3>2. Alone(n) = Listed(FallbackEffects(n, "runtime", behavior))
      BY <1>1, <1>4, <2>3, <3>1, AloneIs
    <3> QED BY <2>1, <3>2
  <2>4. CASE FailedNeeds(p) = {} /\ p.runs
    <3>1. PICK k \in 1..Len(p.program) : \E j \in 1..Len(p.program[k]) : ~Fits(p.program[k][j])
      BY <1>0, <1>1, <1>6, <2>4 DEF Behavior
    <3>2. behavior = p.onError
      BY <1>0, <1>1, <2>4, <3>1 DEF Behavior
    <3>3. RuleEffects(n, k) = FallbackEffects(n, "malformed_effect", behavior)
      BY <1>1, <3>1, <3>2 DEF RuleEffects
    <3>4. Alone(n) = UNION {Listed(RuleEffects(n, m)) : m \in 1..Len(p.program)}
      BY <1>1, <1>4, <2>4, AloneIs
    <3>5. Listed(RuleEffects(n, k)) \subseteq Alone(n)
      BY <3>4
    <3> QED BY <2>1, <3>3, <3>5
  <2> QED BY <2>2, <2>3, <2>4
<1>7. ASSUME behavior # "CONTINUE" PROVE Decision \in {"HOLD", "BLOCK"}
  <2>1. PICK x \in Items(emitted) : x.effect.kind = "HOLD"
    BY <1>5, <1>6, <1>7
  <2>2. 3 <= Severity(Decision) /\ Severity(Decision) \in 1..4
    <3>1. /\ Severity(FinalDecision(emitted)) \in 1..4
          /\ Severity(x.effect.kind) <= Severity(FinalDecision(emitted))
      BY <1>2, DecisionIs DEF Unambiguous, SameIdsAgree
    <3> QED BY <2>1, <3>1, Severities DEF Decision
  <2>3. Severity(Decision) = 3 \/ Severity(Decision) = 4
    BY <2>2
  <2> QED BY <2>3, Severities
<1>8. ASSUME behavior = "REVIEW"
      PROVE  \E x \in Accepted(emitted) : x.effect.kind = "ROUTE_REVIEW" /\ x.origin.policy = n
  <2>1. PICK e \in Alone(n) : e.kind = "ROUTE_REVIEW" /\ e.id[3] = n
    BY <1>6, <1>8
  <2>2. PICK z \in Items(emitted) : z.effect = e
    BY <1>5
  <2>3. PICK x : x = First(emitted, z.effect.id)
    OBVIOUS
  <2>4. x \in Items(emitted) /\ x.effect = e
    BY <1>2, <2>2, <2>3, FirstIs DEF Unambiguous
  <2>5. ~Decides(x)
    BY <2>1, <2>4 DEF Decides, Severity
  <2>6. x \in Accepted(emitted)
    BY <2>2, <2>3, <2>4, <2>5 DEF Accepted
  <2>7. x.origin.policy \in Wanted /\ e \in Alone(x.origin.policy)
    BY <1>2, <2>4 DEF Said
  <2>8. e.id[3] \in {0, x.origin.policy}
    BY <1>4, <2>7, AloneNames
  <2>9. x.origin.policy = n
    BY <1>3, <2>1, <2>8
  <2> QED BY <2>1, <2>4, <2>6, <2>9
<1> QED BY <1>0, <1>7, <1>8

\* Every evaluation keeps the invariant.
LEMMA EffectsInvariant ==
    ASSUME NEW actions, NEW sequences, NEW plans, NEW restricted, \A ps \in sequences : AllInOrder(ps)
    PROVE  EvaluationSpec(actions, sequences, plans, restricted) => []EffectsIInv
<1>1. EvaluationInitWith(actions, sequences, plans, restricted) => EffectsIInv
  BY EffectsStart
<1>2. EffectsIInv /\ [EvaluationNext]_evaluationVars => EffectsIInv'
  BY EffectsKeep
<1> QED BY <1>1, <1>2, PTL DEF EvaluationSpec

\* The decision of an evaluation without native plan (evaluate_result, merge_effects)
\* is the severest that any policy asks for by itself, whatever the scopes and the
\* priorities are and although a mandatory platform block skips those after it;
\* restrictions that are in force block before any policy, and restrictions that
\* cannot be read hold.  For every sequence of policies, every outcome of their
\* features and runtimes, and any number of failed transactions.
THEOREM SeverestIsDecided ==
    ASSUME NEW actions, NEW sequences, NEW plans, NEW restricted, \A ps \in sequences : AllInOrder(ps)
    PROVE  EvaluationSpec(actions, sequences, plans, restricted) => []DecisionIsSeverest
BY EffectsInvariant, InvariantDecides, PTL

\* A policy whose dependency, runtime or rule failed (fallback_effects) is not taken
\* for one that has nothing to say: unless it continues on errors the message is
\* held or blocked, and if it wants a review one is routed in its name.
THEOREM FailuresSpeak ==
    ASSUME NEW actions, NEW sequences, NEW plans, NEW restricted, \A ps \in sequences : AllInOrder(ps)
    PROVE  EvaluationSpec(actions, sequences, plans, restricted) => []FailureIsNotSilent
BY EffectsInvariant, InvariantSpeaks, PTL

(* ------------------------------- Requests ------------------------------- *)

Filed == "create_staff_action_request"

\* What a handler asks, in the service's mode: only the filing of a staff
\* request wants an approval, and the shadow mode decides by no staff answer.
Questions ==
    {c \in [ask : {"service", "user", "check", "staff", "logged", "nobody"},
            wants : {"allow", "any", "approval"}, otherwise : {"denied", "precondition"}] :
       /\ c.ask = "nobody" => c = Never /\ mode # "Enforce"
       /\ c.ask = "logged" => c.wants = "any"
       /\ c.wants = "approval" => request.method = Filed /\ c.ask \in {"staff", "nobody"}
       /\ c.ask = "staff" /\ c.wants = "allow" => request.method # Filed
       /\ mode = "Shadow" => c.ask # "staff" /\ (c.otherwise = "precondition" => c.ask = "nobody")}

Gates == [hub : BOOLEAN, calls : Seq(Questions)]

\* Where the staff's decision is not asked for, a staff request is never filed.
Unfiled(gate) == ~gate.hub /\ gate.calls # <<>> /\ gate.calls[Len(gate.calls)] = Never

HandlerOK(h) ==
    /\ h.gate \in Gates /\ h.reads \in BOOLEAN /\ h.follows \in BOOLEAN
    /\ h.store \in {"nothing", "read", "claimed", "versioned", "broken"}
    /\ h.store = "versioned" => h.writes = "update"
    /\ h.before = "draft" \/ h.writes = "validate" => request.method = "validate_policy"
    /\ h.writes = "remove" => request.method = "delete_policy_fixture" \/ ~h.reads
    /\ request.method = Filed /\ mode # "Enforce" => Unfiled(h.gate)

\* Handlers that are not that of the filing of a staff request.
Usual == request.method \in (PlainMethods \cup ScopedMethods) \ {Filed} /\ mode \in {"Legacy", "Shadow", "Enforce"}

\* Short lists of questions.
LEMMA OneQuestion ==
    ASSUME NEW c \in Questions, NEW d \in Questions
    PROVE  <<>> \in Seq(Questions) /\ <<c>> \in Seq(Questions) /\ <<c, d>> \in Seq(Questions)
OBVIOUS

\* A list of questions after another.
LEMMA MoreQuestions ==
    ASSUME NEW p \in Seq(Questions), NEW q \in Seq(Questions) PROVE p \o q \in Seq(Questions)
BY ConcatProperties

\* The questions that handlers ask the authorization service.
LEMMA UsualQuestions ==
    ASSUME Usual
    PROVE  /\ Service \in Questions /\ User \in Questions /\ Check \in Questions /\ Logged \in Questions
           /\ mode # "Shadow" => Staff \in Questions /\ Punish \in Questions /\ Bypass \in Questions
BY DEF Usual, Questions, Service, User, Check, Logged, Staff, Punish, Bypass, Filed

\* The lists that handlers ask, one by one; in the shadow mode the staff is asked
\* nothing that decides.
LEMMA UsualCalls ==
    ASSUME Usual
    PROVE  /\ <<>> \in Seq(Questions)
           /\ <<Service>> \in Seq(Questions) /\ <<User>> \in Seq(Questions) /\ <<Check>> \in Seq(Questions)
           /\ \A c \in {Staff, Punish, Bypass} : AuthorizeStaff(c) \in Seq(Questions)
<1>1. /\ Service \in Questions /\ User \in Questions /\ Check \in Questions /\ Logged \in Questions
      /\ mode # "Shadow" => Staff \in Questions /\ Punish \in Questions /\ Bypass \in Questions
  BY UsualQuestions
<1>2. /\ <<>> \in Seq(Questions)
      /\ <<Service>> \in Seq(Questions) /\ <<User>> \in Seq(Questions) /\ <<Check>> \in Seq(Questions)
      /\ <<Check, Logged>> \in Seq(Questions)
  BY <1>1, OneQuestion
<1>3. ASSUME NEW c \in {Staff, Punish, Bypass} PROVE AuthorizeStaff(c) \in Seq(Questions)
  <2>1. CASE mode = "Legacy"
    BY <1>2, <2>1 DEF AuthorizeStaff
  <2>2. CASE mode = "Shadow"
    BY <1>2, <2>2 DEF AuthorizeStaff
  <2>3. CASE mode = "Enforce"
    <3>1. c \in Questions
      BY <1>1, <2>3
    <3>2. <<c>> \in Seq(Questions)
      BY <3>1, OneQuestion
    <3> QED BY <2>3, <3>2 DEF AuthorizeStaff
  <2> QED BY <2>1, <2>2, <2>3 DEF Usual
<1> QED BY <1>2, <1>3

\* A list of questions makes a gate.
LEMMA GateIsGate ==
    ASSUME NEW p \in Seq(Questions)
    PROVE  Gate(p) \in Gates /\ [hub |-> TRUE, calls |-> p] \in Gates
BY DEF Gate, Gates

\* The authorization functions that handlers share make gates.
LEMMA UsualGates ==
    ASSUME Usual, NEW q
    PROVE  /\ \A p \in {<<>>, <<Service>>, <<User>>, <<Check>>, AuthorizeStaff(Staff)} : Gate(p) \in Gates
           /\ AuthorizeScope \in Seq(Questions) /\ AuthorizePolicyBundle \in Seq(Questions)
           /\ AuthorizeScopeOrService(q) \in Seq(Questions) /\ LegacyScope \in Seq(Questions)
           /\ AuthorizeContentPolicyScope(q) \in Seq(Questions)
           /\ AuthorizeHubOrStaff(q) \in Gates /\ HubOrNonHub(q) \in Gates
           /\ AuthorizeNonHubStaffScope \in Gates /\ Nothing \in Gates
           /\ ReadRecord(q) \in Gates
<1>1. /\ <<>> \in Seq(Questions)
      /\ <<Service>> \in Seq(Questions) /\ <<User>> \in Seq(Questions) /\ <<Check>> \in Seq(Questions)
      /\ AuthorizeStaff(Staff) \in Seq(Questions)
  BY UsualCalls
<1>2. \A p \in {<<>>, <<Service>>, <<User>>, <<Check>>, AuthorizeStaff(Staff)} :
         Gate(p) \in Gates /\ [hub |-> TRUE, calls |-> p] \in Gates
  BY <1>1, GateIsGate
<1>3. /\ AuthorizeScope \in Seq(Questions) /\ AuthorizePolicyBundle \in Seq(Questions)
      /\ AuthorizeScopeOrService(q) \in Seq(Questions) /\ LegacyScope \in Seq(Questions)
      /\ AuthorizeContentPolicyScope(q) \in Seq(Questions)
  BY <1>1 DEF AuthorizeScope, AuthorizePolicyBundle, AuthorizeScopeOrService, LegacyScope,
     AuthorizeContentPolicyScope
<1>4. AuthorizeHubOrStaff(q) \in Gates /\ AuthorizeNonHubStaffScope \in Gates /\ Nothing \in Gates
  BY <1>2 DEF AuthorizeHubOrStaff, AuthorizeNonHubStaffScope, Nothing
<1>5. HubOrNonHub(q) \in Gates /\ ReadRecord(q) \in Gates
  BY <1>2, <1>4 DEF HubOrNonHub, ReadRecord
<1> QED BY <1>2, <1>3, <1>4, <1>5

\* The shapes of a handler.
LEMMA Shapes ==
    ASSUME Usual, NEW g \in Gates, NEW r \in BOOLEAN, NEW w \in {"create", "update"}
    PROVE  /\ HandlerOK(Read(g)) /\ HandlerOK(List(g)) /\ HandlerOK(Late(g))
           /\ HandlerOK(Mutate(r, g, w)) /\ HandlerOK([Mutate(r, g, w) EXCEPT !.follows = TRUE])
           /\ HandlerOK([Mutate(r, g, w) EXCEPT !.store = "broken"])
           /\ HandlerOK(Mutate(FALSE, g, "remove"))
           /\ HandlerOK([Mutate(r, g, "update") EXCEPT !.store = "versioned"])
BY DEF Usual, HandlerOK, Read, List, Late, Mutate

\* The handlers of policies are well formed.
LEMMA PolicyHandlers ==
    ASSUME Usual
    PROVE  /\ \A h \in {create_policy_bundle, get_policy_bundle, list_policy_bundles, update_policy_bundle,
                        disable_policy_bundle, retire_policy_bundle, create_policy_draft, run_policy_tests,
                        create_policy_fixture, update_policy_fixture, list_policy_fixtures, set_shadow_mode,
                        publish_policy_version, approve_policy_version, activate_policy_version,
                        rollback_policy, list_policy_versions} : HandlerOK(h)
           /\ request.method = "validate_policy" => HandlerOK(validate_policy)
           /\ request.method = "delete_policy_fixture" => HandlerOK(delete_policy_fixture)
<1> DEFINE g == Gate(<<Check>>)
<1>1. g \in Gates /\ AuthorizeScope = <<Check>> /\ AuthorizePolicyBundle = <<Check>>
  BY UsualGates DEF AuthorizeScope, AuthorizePolicyBundle
<1> HIDE DEF g
<1>2. /\ HandlerOK(Read(g)) /\ HandlerOK(List(g))
      /\ HandlerOK(Mutate(FALSE, g, "create")) /\ HandlerOK(Mutate(TRUE, g, "create"))
      /\ HandlerOK(Mutate(TRUE, g, "update"))
  BY <1>1, Shapes
<1>3. HandlerOK([Mutate(TRUE, g, "create") EXCEPT !.before = "replay"])
  BY <1>1 DEF Usual, HandlerOK, Mutate
<1>4. HandlerOK([Mutate(TRUE, g, "update") EXCEPT !.before = "providers"])
  BY <1>1 DEF Usual, HandlerOK, Mutate
<1>5. request.method = "validate_policy" => HandlerOK([Mutate(TRUE, g, "validate") EXCEPT !.before = "draft"])
  BY <1>1 DEF HandlerOK, Mutate, Filed
<1>6. request.method = "delete_policy_fixture" => HandlerOK(Mutate(TRUE, g, "remove"))
  BY <1>1 DEF HandlerOK, Mutate, Filed
<1>7. Gate(AuthorizeScope) = g /\ Gate(AuthorizePolicyBundle) = g /\ Gate(<<Check>>) = g
  BY <1>1 DEF g
<1> QED BY <1>2, <1>3, <1>4, <1>5, <1>6, <1>7
        DEF create_policy_bundle, get_policy_bundle, list_policy_bundles, update_policy_bundle,
            disable_policy_bundle, retire_policy_bundle, create_policy_draft, run_policy_tests,
            create_policy_fixture, update_policy_fixture, list_policy_fixtures, set_shadow_mode,
            publish_policy_version, approve_policy_version, activate_policy_version,
            rollback_policy, list_policy_versions, validate_policy, delete_policy_fixture, Bundle

\* So are those of commands, traces, overrides, reports and appeals filed.
LEMMA OtherHandlers ==
    ASSUME Usual
    PROVE  \A h \in {evaluate_action, claim_command, complete_command, get_execution_trace,
                     get_provider_health, create_nsfw_override, get_nsfw_override, list_nsfw_overrides,
                     update_nsfw_override, delete_nsfw_override, list_execution_traces,
                     revoke_infractions_by_type, list_my_infractions, create_report, create_appeal,
                     resolve_review_item, get_moderation_statistics} : HandlerOK(h)
<1> DEFINE g == Gate(<<Check>>)
           s == Gate(<<Service>>)
           u == Gate(<<User>>)
<1>1. g \in Gates /\ s \in Gates /\ u \in Gates /\ AuthorizeScope = <<Check>>
  BY UsualGates DEF AuthorizeScope
<1>2. Gate(AuthorizeScope) = g /\ Gate(<<Check>>) = g /\ Gate(<<Service>>) = s /\ Gate(<<User>>) = u
  BY <1>1
<1> HIDE DEF g, s, u
<1>3. /\ HandlerOK(Read(g)) /\ HandlerOK(List(g)) /\ HandlerOK(Late(g))
      /\ HandlerOK(Mutate(FALSE, g, "create")) /\ HandlerOK(Mutate(FALSE, g, "update"))
      /\ HandlerOK(Mutate(FALSE, g, "remove")) /\ HandlerOK(Mutate(TRUE, g, "update"))
      /\ HandlerOK([Mutate(FALSE, g, "update") EXCEPT !.store = "broken"])
  BY <1>1, Shapes
<1>4. /\ HandlerOK(List(s)) /\ HandlerOK([Mutate(FALSE, s, "update") EXCEPT !.store = "versioned"])
  BY <1>1, Shapes
<1>5. /\ HandlerOK(List(u)) /\ HandlerOK(Mutate(FALSE, u, "create"))
      /\ HandlerOK([Mutate(FALSE, u, "create") EXCEPT !.follows = TRUE])
  BY <1>1, Shapes
<1> QED BY <1>2, <1>3, <1>4, <1>5
        DEF evaluate_action, claim_command, complete_command, get_execution_trace,
            get_provider_health, create_nsfw_override, get_nsfw_override, list_nsfw_overrides,
            update_nsfw_override, delete_nsfw_override, list_execution_traces,
            revoke_infractions_by_type, list_my_infractions, create_report, create_appeal,
            resolve_review_item, get_moderation_statistics

\* A user's case, and what is asked of the staff about it.
LEMMA CaseGates ==
    ASSUME Usual, NEW more \in BOOLEAN
    PROVE  /\ Gate(<<User>> \o AuthorizeStaff(Staff)) \in Gates
           /\ Gate(<<User>> \o (AuthorizeStaff(Staff) \o AuthorizeStaff(Staff))) \in Gates
           /\ Gate(<<User>> \o (AuthorizeStaff(Staff) \o IF more THEN AuthorizeStaff(Bypass) ELSE <<>>)) \in Gates
<1>1. /\ <<>> \in Seq(Questions) /\ <<User>> \in Seq(Questions)
      /\ AuthorizeStaff(Staff) \in Seq(Questions) /\ AuthorizeStaff(Bypass) \in Seq(Questions)
  BY UsualCalls
<1>2. (IF more THEN AuthorizeStaff(Bypass) ELSE <<>>) \in Seq(Questions)
  BY <1>1
<1>3. /\ AuthorizeStaff(Staff) \o AuthorizeStaff(Staff) \in Seq(Questions)
      /\ AuthorizeStaff(Staff) \o (IF more THEN AuthorizeStaff(Bypass) ELSE <<>>) \in Seq(Questions)
  BY <1>1, <1>2, MoreQuestions
<1>4. /\ <<User>> \o AuthorizeStaff(Staff) \in Seq(Questions)
      /\ <<User>> \o (AuthorizeStaff(Staff) \o AuthorizeStaff(Staff)) \in Seq(Questions)
      /\ <<User>> \o (AuthorizeStaff(Staff) \o IF more THEN AuthorizeStaff(Bypass) ELSE <<>>) \in Seq(Questions)
  BY <1>1, <1>3, MoreQuestions
<1> QED BY <1>4, GateIsGate

\* So are those of cases that the staff works on.
LEMMA CaseHandlers ==
    ASSUME Usual, request.bypass \in BOOLEAN
    PROVE  /\ \A h \in {get_staff_action_request, list_staff_action_requests, renew_report_claim,
                        unclaim_report, assign_report, resolve_staff_action_request,
                        claim_report(request), transfer_report(request),
                        link_moderation_record_report} : HandlerOK(h)
<1> DEFINE a == Gate(<<User>> \o AuthorizeStaff(Staff))
           b == Gate(<<User>> \o (AuthorizeStaff(Staff) \o AuthorizeStaff(Staff)))
           c == Gate(<<User>> \o (AuthorizeStaff(Staff)
                                    \o IF request.bypass THEN AuthorizeStaff(Bypass) ELSE <<>>))
           d == Gate(AuthorizeStaff(Staff))
<1>1. a \in Gates /\ b \in Gates /\ c \in Gates /\ d \in Gates
  BY CaseGates, UsualGates
<1>2. /\ get_staff_action_request = Late(a) /\ list_staff_action_requests = List(a)
      /\ renew_report_claim = [Mutate(FALSE, b, "update") EXCEPT !.store = "versioned"]
      /\ unclaim_report = [Mutate(FALSE, a, "update") EXCEPT !.store = "versioned"]
      /\ assign_report = [Mutate(FALSE, a, "update") EXCEPT !.store = "versioned"]
      /\ resolve_staff_action_request =
           [[Mutate(FALSE, b, "update") EXCEPT !.store = "versioned"] EXCEPT !.reads = TRUE]
      /\ claim_report(request) = [Mutate(FALSE, c, "update") EXCEPT !.store = "versioned"]
      /\ transfer_report(request) = [Mutate(FALSE, c, "update") EXCEPT !.store = "versioned"]
      /\ link_moderation_record_report = Mutate(TRUE, d, "update")
  BY DEF get_staff_action_request, list_staff_action_requests, renew_report_claim, unclaim_report,
     assign_report, resolve_staff_action_request, claim_report, transfer_report,
     link_moderation_record_report, Case
<1> HIDE DEF a, b, c, d
<1>3. HandlerOK([[Mutate(FALSE, b, "update") EXCEPT !.store = "versioned"] EXCEPT !.reads = TRUE])
  BY <1>1 DEF Usual, HandlerOK, Mutate
<1>4. /\ HandlerOK(Late(a)) /\ HandlerOK(List(a)) /\ HandlerOK(Mutate(TRUE, d, "update"))
      /\ HandlerOK([Mutate(FALSE, a, "update") EXCEPT !.store = "versioned"])
      /\ HandlerOK([Mutate(FALSE, b, "update") EXCEPT !.store = "versioned"])
      /\ HandlerOK([Mutate(FALSE, c, "update") EXCEPT !.store = "versioned"])
  BY <1>1, Shapes
<1> QED BY <1>2, <1>3, <1>4

\* So are those that read a record, whatever the scope of the record.
LEMMA RecordHandlers ==
    ASSUME Usual, request \in Asked, NEW q, q = request
    PROVE  /\ \A h \in {get_restriction(q), list_restrictions(q), get_infraction(q), list_infractions(q),
                        list_moderation_records(q), get_report(q), list_reports(q),
                        list_report_transcript(q), get_appeal(q), list_appeals(q), list_review_items(q),
                        get_safety_assessment(q), get_content_policy(q)} : HandlerOK(h)
<1>1. /\ ReadRecord(q) \in Gates /\ HubOrNonHub(q) \in Gates /\ AuthorizeHubOrStaff(q) \in Gates
      /\ Nothing \in Gates /\ Gate(<<Service>>) \in Gates /\ Gate(AuthorizeStaff(Staff)) \in Gates
      /\ Gate(AuthorizeContentPolicyScope(q)) \in Gates
  BY UsualGates, GateIsGate
<1>2. /\ list_restrictions(q) \in {List(g) : g \in Gates}
      /\ list_moderation_records(q) \in {List(g) : g \in Gates}
      /\ list_report_transcript(q) \in {Read(g) : g \in Gates}
  BY <1>1 DEF list_restrictions, list_moderation_records, list_report_transcript
<1>3. \A g \in Gates : HandlerOK(Read(g)) /\ HandlerOK(List(g))
  BY Shapes
<1> QED BY <1>1, <1>2, <1>3
        DEF get_restriction, get_infraction, list_infractions, get_report, list_reports, get_appeal,
            list_appeals, list_review_items, get_safety_assessment, get_content_policy

\* The gates of restrictions, which depend on who is restricted where.
LEMMA RestrictionGates ==
    ASSUME Usual, request \in Asked, NEW q, q = request
    PROVE  /\ create_restriction(q) \in {Mutate(FALSE, g, "create") : g \in Gates}
           /\ update_restriction(q) \in {Mutate(TRUE, g, "update") : g \in Gates}
           /\ RevokeGate(q) \in Gates
<1>1. /\ <<>> \in Seq(Questions) /\ AuthorizeScope \in Seq(Questions) /\ LegacyScope \in Seq(Questions)
      /\ AuthorizeStaff(Punish) \in Seq(Questions) /\ AuthorizeStaff(Staff) \in Seq(Questions)
      /\ AuthorizeHubOrStaff(q) \in Gates
  BY UsualCalls, UsualGates
<1>2. /\ LegacyScope \o AuthorizeStaff(Punish) \in Seq(Questions)
      /\ AuthorizeScope \o <<>> \in Seq(Questions)
      /\ LegacyScope \o AuthorizeStaff(Staff) \in Seq(Questions)
      /\ LegacyScope \o <<>> \in Seq(Questions)
  BY <1>1, MoreQuestions
<1>3. ASSUME NEW special \in BOOLEAN
      PROVE Gate((IF special THEN LegacyScope ELSE AuthorizeScope)
                   \o IF special THEN AuthorizeStaff(Punish) ELSE <<>>) \in Gates
  <2>1. CASE special
    BY <1>2, <2>1, GateIsGate
  <2>2. CASE ~special
    BY <1>2, <2>2, GateIsGate
  <2> QED BY <2>1, <2>2
<1>4. create_restriction(q) \in {Mutate(FALSE, g, "create") : g \in Gates}
  <2>1. PICK special \in BOOLEAN : special = (q.staff /\ Punishable(q))
    BY DEF Asked, Punishable
  <2> QED BY <1>3, <2>1 DEF create_restriction
<1>5. ASSUME NEW p \in BOOLEAN, NEW e \in BOOLEAN
      PROVE Gate(LegacyScope \o (IF p THEN AuthorizeStaff(Staff) ELSE <<>>)
                   \o IF p /\ e THEN AuthorizeStaff(Punish) ELSE <<>>) \in Gates
  <2>1. LegacyScope \o (IF p THEN AuthorizeStaff(Staff) ELSE <<>>) \in Seq(Questions)
    BY <1>2
  <2>2. (IF p /\ e THEN AuthorizeStaff(Punish) ELSE <<>>) \in Seq(Questions)
    BY <1>1
  <2> QED BY <2>1, <2>2, MoreQuestions, GateIsGate
<1>6. update_restriction(q) \in {Mutate(TRUE, g, "update") : g \in Gates}
  <2>3. Punishable(q) \in BOOLEAN
    BY DEF Punishable
  <2>1. PICK p \in BOOLEAN : p = Punishable(q)
    BY <2>3
  <2>2. q.expiry \in BOOLEAN
    BY DEF Asked
  <2> QED BY <1>1, <1>5, <2>1, <2>2 DEF update_restriction
<1>7. RevokeGate(q) \in Gates
  <2>1. Gate(LegacyScope \o IF Punishable(q) THEN AuthorizeStaff(Staff) ELSE <<>>) \in Gates
    BY <1>2, GateIsGate
  <2> QED BY <1>1, <2>1 DEF RevokeGate
<1> QED BY <1>4, <1>6, <1>7

\* So are those that sanction and decide.
LEMMA SanctionHandlers ==
    ASSUME Usual, request \in Asked, NEW q, q = request
    PROVE  /\ \A h \in {create_restriction(q), update_restriction(q), revoke_restriction(q),
                        create_infraction(q), revoke_infraction(q), resolve_report(q), resolve_appeal(q),
                        adjudicate_held_action(q), record_safety_observation(q),
                        recalculate_safety_assessment(q), replace_content_policy(q)} : HandlerOK(h)
<1>1. /\ RevokeGate(q) \in Gates /\ HubOrNonHub(q) \in Gates /\ AuthorizeHubOrStaff(q) \in Gates
      /\ create_restriction(q) \in {Mutate(FALSE, g, "create") : g \in Gates}
      /\ update_restriction(q) \in {Mutate(TRUE, g, "update") : g \in Gates}
  BY UsualGates, RestrictionGates
<1>2. /\ <<>> \in Seq(Questions) /\ AuthorizeStaff(Punish) \in Seq(Questions) /\ AuthorizeStaff(Staff) \in Seq(Questions)
      /\ AuthorizeScopeOrService(q) \in Seq(Questions) /\ LegacyScope \in Seq(Questions)
      /\ AuthorizeContentPolicyScope(q) \in Seq(Questions)
  BY UsualCalls, UsualGates
<1>3. /\ Gate(AuthorizeScopeOrService(q)) \in Gates /\ Gate(AuthorizeContentPolicyScope(q)) \in Gates
      /\ Gate(LegacyScope \o AuthorizeStaff(Staff)) \in Gates
  BY <1>2, MoreQuestions, GateIsGate
<1>4. PICK g \in Gates : create_infraction(q) = [Mutate(FALSE, g, "create") EXCEPT !.follows = TRUE]
  <2>1. (IF q.staff /\ mode = "Enforce" THEN <<>> ELSE AuthorizeScopeOrService(q)) \in Seq(Questions)
    BY <1>2
  <2>2. (IF q.staff THEN AuthorizeStaff(Punish) ELSE <<>>) \in Seq(Questions)
    BY <1>2
  <2>3. Gate((IF q.staff /\ mode = "Enforce" THEN <<>> ELSE AuthorizeScopeOrService(q))
               \o IF q.staff THEN AuthorizeStaff(Punish) ELSE <<>>) \in Gates
    BY <2>1, <2>2, MoreQuestions, GateIsGate
  <2> QED BY <1>1, <2>3 DEF create_infraction
<1>5. PICK r \in Gates : resolve_report(q) = [Mutate(TRUE, r, "update") EXCEPT !.follows = TRUE]
  BY <1>1, <1>3 DEF resolve_report
<1>6. \A g1 \in Gates : /\ HandlerOK(Mutate(FALSE, g1, "create")) /\ HandlerOK(Mutate(TRUE, g1, "update"))
                        /\ HandlerOK(Mutate(FALSE, g1, "update"))
                        /\ HandlerOK([Mutate(FALSE, g1, "create") EXCEPT !.follows = TRUE])
                        /\ HandlerOK([Mutate(TRUE, g1, "update") EXCEPT !.follows = TRUE])
  BY Shapes
<1>7. ASSUME NEW g1 \in Gates
      PROVE HandlerOK([Mutate(TRUE, g1, "update") EXCEPT !.follows = q.accepted])
  <2>1. q.accepted \in BOOLEAN
    BY DEF Asked
  <2> QED BY <2>1 DEF Usual, HandlerOK, Mutate
<1>8. /\ HandlerOK(create_restriction(q)) /\ HandlerOK(update_restriction(q))
      /\ HandlerOK(create_infraction(q)) /\ HandlerOK(resolve_report(q))
  BY <1>1, <1>4, <1>5, <1>6
<1>9. /\ HandlerOK(revoke_restriction(q)) /\ HandlerOK(revoke_infraction(q))
      /\ HandlerOK(adjudicate_held_action(q)) /\ HandlerOK(record_safety_observation(q))
      /\ HandlerOK(recalculate_safety_assessment(q)) /\ HandlerOK(replace_content_policy(q))
  BY <1>1, <1>3, <1>6 DEF revoke_restriction, revoke_infraction, adjudicate_held_action,
     record_safety_observation, recalculate_safety_assessment, replace_content_policy
<1>10. HandlerOK(resolve_appeal(q))
  BY <1>1, <1>7 DEF resolve_appeal
<1> QED BY <1>8, <1>9, <1>10

\* The filing of a staff request never ends well where the staff's decision is
\* not asked for.
LEMMA FilingHandler ==
    ASSUME request.method = Filed, mode \in {"Legacy", "Shadow", "Enforce"}
    PROVE  HandlerOK(create_staff_action_request)
<1> DEFINE asked == <<User>> \o AuthorizeStaff(NeedsApproval)
           calls == asked \o IF mode = "Enforce" THEN <<>> ELSE <<Never>>
<1>1. /\ User \in Questions /\ Check \in Questions /\ Logged \in Questions
      /\ mode # "Shadow" => NeedsApproval \in Questions
      /\ mode # "Enforce" => Never \in Questions
  BY DEF Questions, User, Check, Logged, NeedsApproval, Never, Filed
<1>2. AuthorizeStaff(NeedsApproval) \in Seq(Questions)
  <2>1. CASE mode = "Legacy"
    BY <1>1, <2>1, OneQuestion DEF AuthorizeStaff
  <2>2. CASE mode = "Shadow"
    BY <1>1, <2>2, OneQuestion DEF AuthorizeStaff
  <2>3. CASE mode = "Enforce"
    BY <1>1, <2>3, OneQuestion DEF AuthorizeStaff
  <2> QED BY <2>1, <2>2, <2>3
<1>3. <<User>> \in Seq(Questions)
  BY <1>1, OneQuestion
<1>4. asked \in Seq(Questions)
  BY <1>2, <1>3, MoreQuestions
<1> HIDE DEF asked
<1>5. CASE mode = "Enforce"
  <2>1. calls \in Seq(Questions)
    BY <1>3, <1>4, <1>5, MoreQuestions
  <2>2. create_staff_action_request = Mutate(FALSE, Gate(calls), "create")
    BY DEF create_staff_action_request, asked
  <2> HIDE DEF calls
  <2>3. Gate(calls) \in Gates
    BY <2>1, GateIsGate
  <2> QED BY <1>5, <2>2, <2>3 DEF HandlerOK, Mutate, Filed
<1>6. CASE mode # "Enforce"
  <2>1. calls = asked \o <<Never>> /\ <<Never>> \in Seq(Questions)
    BY <1>1, <1>6, OneQuestion
  <2>2. create_staff_action_request = Mutate(FALSE, Gate(calls), "create")
    BY DEF create_staff_action_request, asked
  <2> HIDE DEF calls
  <2>3. calls \in Seq(Questions)
    BY <1>4, <2>1, MoreQuestions
  <2>4. Len(calls) = Len(asked) + 1 /\ calls[Len(asked) + 1] = Never
    <3>1. Len(<<Never>>) = 1 /\ <<Never>>[1] = Never /\ Len(asked) \in Nat
      BY <1>4, LenProperties
    <3>2. Len(asked \o <<Never>>) = Len(asked) + Len(<<Never>>)
      BY <1>4, <2>1, ConcatProperties
    <3>3. \A i \in 1..(Len(asked) + Len(<<Never>>)) :
             (asked \o <<Never>>)[i] = IF i <= Len(asked) THEN asked[i] ELSE <<Never>>[i - Len(asked)]
      BY <1>4, <2>1, ConcatProperties
    <3> QED BY <2>1, <3>1, <3>2, <3>3
  <2>5. calls # <<>> /\ calls[Len(calls)] = Never
    <3>1. Len(asked) \in Nat /\ Len(<<>>) = 0
      BY <1>4, LenProperties
    <3>2. Len(calls) # 0
      BY <2>4, <3>1
    <3> QED BY <2>4, <3>1, <3>2
  <2>6. Gate(calls) \in Gates
    BY <2>3, GateIsGate
  <2> QED BY <2>2, <2>5, <2>6 DEF HandlerOK, Mutate, Unfiled, Gate, Filed
<1> QED BY <1>5, <1>6

\* Every handler of the service is well formed.
LEMMA EveryHandler ==
    ASSUME request \in Asked, mode \in {"Legacy", "Shadow", "Enforce"} PROVE HandlerOK(H)
<1>1. request.method \in PlainMethods \cup ScopedMethods /\ request.bypass \in BOOLEAN
  BY DEF Asked
<1>2. CASE request.method = Filed
  <2>1. H = create_staff_action_request
    BY <1>2 DEF H, Handler, Filed
  <2> QED BY <1>2, <2>1, FilingHandler
<1>3. CASE request.method # Filed
  <2>1. Usual
    BY <1>1, <1>3 DEF Usual
  <2>2. CASE request.method \in ScopedMethods \cup {"renew_report_claim", "unclaim_report", "assign_report",
               "get_staff_action_request", "list_staff_action_requests", "resolve_staff_action_request",
               "link_moderation_record_report"}
    BY <1>1, <2>1, <2>2, RecordHandlers, SanctionHandlers, CaseHandlers DEF H, Handler, ScopedMethods
  <2>3. CASE request.method \in PlainMethods \ {"renew_report_claim", "unclaim_report", "assign_report",
               "get_staff_action_request", "list_staff_action_requests", "resolve_staff_action_request",
               "link_moderation_record_report"}
    BY <1>3, <2>1, <2>3, PolicyHandlers, OtherHandlers DEF H, Handler, PlainMethods, Filed
  <2> QED BY <1>1, <2>2, <2>3
<1> QED BY <1>2, <1>3

\* A handler depends on nothing but the request and the service's mode.
LEMMA HandlerStays ==
    ASSUME request' = request, mode' = mode PROVE H' = H
<1>1. /\ AuthorizeStaff(Staff)' = AuthorizeStaff(Staff) /\ AuthorizeStaff(Punish)' = AuthorizeStaff(Punish)
      /\ AuthorizeStaff(Bypass)' = AuthorizeStaff(Bypass)
      /\ AuthorizeStaff(NeedsApproval)' = AuthorizeStaff(NeedsApproval)
      /\ LegacyScope' = LegacyScope
  BY DEF AuthorizeStaff, LegacyScope
<1>2. /\ AuthorizeNonHubStaffScope' = AuthorizeNonHubStaffScope
      /\ AuthorizeHubOrStaff(request)' = AuthorizeHubOrStaff(request)
  BY <1>1 DEF AuthorizeNonHubStaffScope, AuthorizeHubOrStaff
<1>3. /\ HubOrNonHub(request)' = HubOrNonHub(request) /\ ReadRecord(request)' = ReadRecord(request)
      /\ RevokeGate(request)' = RevokeGate(request)
  BY <1>1, <1>2 DEF HubOrNonHub, ReadRecord, RevokeGate
<1>4. /\ create_restriction(request)' = create_restriction(request)
      /\ get_restriction(request)' = get_restriction(request)
      /\ update_restriction(request)' = update_restriction(request)
      /\ revoke_restriction(request)' = revoke_restriction(request)
      /\ list_restrictions(request)' = list_restrictions(request)
  BY <1>1, <1>2, <1>3 DEF create_restriction, get_restriction, update_restriction, revoke_restriction,
     list_restrictions
<1>5. /\ create_infraction(request)' = create_infraction(request)
      /\ get_infraction(request)' = get_infraction(request)
      /\ revoke_infraction(request)' = revoke_infraction(request)
      /\ list_infractions(request)' = list_infractions(request)
      /\ list_moderation_records(request)' = list_moderation_records(request)
      /\ link_moderation_record_report' = link_moderation_record_report
  BY <1>1, <1>2, <1>3 DEF create_infraction, get_infraction, revoke_infraction, list_infractions,
     list_moderation_records, link_moderation_record_report
<1>6. /\ get_report(request)' = get_report(request) /\ list_reports(request)' = list_reports(request)
      /\ list_report_transcript(request)' = list_report_transcript(request)
      /\ resolve_report(request)' = resolve_report(request)
      /\ get_appeal(request)' = get_appeal(request) /\ list_appeals(request)' = list_appeals(request)
      /\ resolve_appeal(request)' = resolve_appeal(request)
      /\ list_review_items(request)' = list_review_items(request)
      /\ adjudicate_held_action(request)' = adjudicate_held_action(request)
      /\ get_safety_assessment(request)' = get_safety_assessment(request)
  BY <1>1, <1>2, <1>3 DEF get_report, list_reports, list_report_transcript, resolve_report, get_appeal,
     list_appeals, resolve_appeal, list_review_items, adjudicate_held_action, get_safety_assessment
<1>7. /\ get_staff_action_request' = get_staff_action_request
      /\ list_staff_action_requests' = list_staff_action_requests
      /\ claim_report(request)' = claim_report(request)
      /\ transfer_report(request)' = transfer_report(request)
      /\ renew_report_claim' = renew_report_claim /\ unclaim_report' = unclaim_report
      /\ assign_report' = assign_report
      /\ create_staff_action_request' = create_staff_action_request
      /\ resolve_staff_action_request' = resolve_staff_action_request
  BY <1>1 DEF get_staff_action_request, list_staff_action_requests, claim_report, transfer_report,
     renew_report_claim, unclaim_report, assign_report, create_staff_action_request,
     resolve_staff_action_request
<1> QED BY <1>4, <1>5, <1>6, <1>7 DEF H, Handler

RequestTypeOK ==
    /\ mode \in {"Legacy", "Shadow", "Enforce"} /\ request \in Asked
    /\ row \in [there : BOOLEAN, version : Nat \ {0}, draft : BOOLEAN]
    /\ key \in BOOLEAN /\ done \in {0, 1}
    /\ attempt \in [step : {"idle", "read", "hub", "calls", "before", "store", "follow"},
                    calls : Seq(Questions)]

\* What was applied left its key, or another version.
AppliedShows ==
    done = 1 => \/ H.store = "claimed" /\ key
                \/ H.store = "versioned" /\ row.version # 1

NotYetStored == attempt.step \in {"read", "hub", "calls", "before", "store"} => done = doneBefore

\* Unless others wrote it, the row is gone only because the request removed it.
RowStays == ~meddled /\ ~row.there => H.writes = "remove"

NeverFiled ==
    request.method = Filed /\ mode # "Enforce" =>
        /\ done = 0 /\ attempt.step \in {"idle", "read", "calls"}
        /\ attempt.step = "calls" => attempt.calls # <<>> /\ attempt.calls[Len(attempt.calls)] = Never

\* What a refusal says of an attempt.
RefusalIsFair ==
    attempt.step = "idle" /\ reply \in Refusals =>
        /\ done = doneBefore
        /\ \/ done = 0 \/ meddled \/ reply = "unhealthy" \/ RefusedNow
           \/ H.store # "claimed" \/ request.method \in {"validate_policy", "delete_policy_fixture"}

ShadowDecidesNothing ==
    mode = "Shadow" =>
        /\ \A x \in answers : x.ask # "staff"
        /\ attempt.step = "idle" /\ reply = "denied" => \E x \in answers : x.ask # "logged" /\ x.answer = "deny"
        /\ attempt.step = "idle" /\ reply = "precondition" => request.method \in {"validate_policy", Filed}

RequestIInv ==
    /\ RequestTypeOK /\ AppliedShows /\ NotYetStored /\ RowStays /\ NeverFiled /\ RefusalIsFair
    /\ ShadowDecidesNothing

\* The handler of the request is.
LEMMA HandlerIsOK ==
    ASSUME RequestTypeOK PROVE HandlerOK(H)
BY EveryHandler DEF RequestTypeOK

\* What a question refuses, it was not answered as wanted.
LEMMA Verdicts ==
    ASSUME RequestTypeOK, NEW c \in Questions, NEW a \in Possible(c.ask)
    PROVE  /\ Verdict(c, a) \in {"go", "unavailable", "denied", "precondition"}
           /\ Verdict(c, a) \in {"denied", "precondition"} =>
                /\ c.ask # "logged"
                /\ \/ c.ask = "nobody"
                   \/ a # IF c.ask = "staff" /\ request.method = Filed THEN "approval" ELSE "allow"
           /\ c.ask = "nobody" => Verdict(c, a) = "precondition" /\ request.method = Filed /\ mode # "Enforce"
           /\ mode = "Shadow" => /\ c.ask # "staff"
                                 /\ Verdict(c, a) = "denied" => a = "deny"
                                 /\ Verdict(c, a) = "precondition" => request.method = Filed
<1>1. /\ c.ask \in {"service", "user", "check", "staff", "logged", "nobody"}
      /\ c.wants \in {"allow", "any", "approval"} /\ c.otherwise \in {"denied", "precondition"}
      /\ c.ask = "nobody" => c.wants = "approval" /\ c.otherwise = "precondition" /\ mode # "Enforce"
      /\ c.ask = "logged" => c.wants = "any"
      /\ c.wants = "approval" => request.method = Filed /\ c.ask \in {"staff", "nobody"}
      /\ c.ask = "staff" /\ c.wants = "allow" => request.method # Filed
      /\ mode = "Shadow" => c.ask # "staff" /\ (c.otherwise = "precondition" => c.ask = "nobody")
  BY DEF Questions, Never
<1>2. /\ a \in {"allow", "deny", "approval", "unavailable"}
      /\ c.ask = "nobody" => a = "allow"
      /\ c.ask \in {"service", "user"} => a \in {"allow", "deny"}
      /\ c.ask = "check" => a \in {"allow", "deny", "unavailable"}
  BY DEF Possible
<1> QED BY <1>1, <1>2 DEF Verdict

\* A question less.
LEMMA CallsLeft ==
    ASSUME NEW r, NEW p, NEW x, r = [step |-> "calls", calls |-> p]
    PROVE  [r EXCEPT !.calls = x] = [step |-> "calls", calls |-> x]
OBVIOUS

\* A request that is sent, or sent again, starts from what is stored.
LEMMA SendKeeps ==
    ASSUME RequestIInv, Send PROVE RequestIInv'
<1>1. /\ request' = request /\ mode' = mode /\ row' = row /\ key' = key /\ done' = done /\ meddled' = meddled
      /\ attempt' = [step |-> "read", calls |-> <<>>] /\ answers' = {} /\ doneBefore' = done
  BY DEF Send
<1>2. Questions' = Questions /\ H' = H
  BY <1>1, HandlerStays DEF Questions
<1>3. RequestTypeOK'
  BY <1>1, <1>2 DEF RequestIInv, RequestTypeOK
<1> QED BY <1>1, <1>2, <1>3 DEF RequestIInv, AppliedShows, NotYetStored, RowStays, NeverFiled,
        RefusalIsFair, ShadowDecidesNothing

\* An attempt ends without a change to what is stored.
LEMMA EndsWith ==
    ASSUME RequestIInv, NEW r, Answered(r),
           UNCHANGED <<request, mode, row, key, done, doneBefore, meddled>>,
           r \in Refusals => done = doneBefore,
           r \in Refusals => \/ done = 0 \/ meddled \/ r = "unhealthy" \/ RefusedNow'
                             \/ H.store # "claimed"
                             \/ request.method \in {"validate_policy", "delete_policy_fixture"},
           mode = "Shadow" =>
              /\ \A x \in answers' : x.ask # "staff"
              /\ r = "denied" => \E x \in answers' : x.ask # "logged" /\ x.answer = "deny"
              /\ r = "precondition" => request.method \in {"validate_policy", Filed}
    PROVE  RequestIInv'
<1>1. Questions' = Questions /\ H' = H
  BY HandlerStays DEF Questions
<1>2. attempt' = [step |-> "idle", calls |-> <<>>] /\ reply' = r
  BY DEF Answered, Idle
<1>3. RequestTypeOK'
  BY <1>1, <1>2 DEF RequestIInv, RequestTypeOK
<1>4. RefusalIsFair' /\ ShadowDecidesNothing'
  BY <1>1, <1>2 DEF RefusalIsFair, ShadowDecidesNothing
<1> QED BY <1>1, <1>2, <1>3, <1>4 DEF RequestIInv, AppliedShows, NotYetStored, RowStays, NeverFiled

\* The request goes on to its next step, with nothing stored.
LEMMA GoesOn ==
    ASSUME RequestIInv, NEW s \in {"hub", "calls", "before", "store"}, NEW p \in Seq(Questions),
           attempt' = [step |-> s, calls |-> p], attempt.step \in {"read", "hub", "calls", "before"},
           UNCHANGED <<request, mode, row, key, reply, done, doneBefore, meddled>>,
           request.method = Filed /\ mode # "Enforce" => s = "calls" /\ p # <<>> /\ p[Len(p)] = Never,
           mode = "Shadow" => \A x \in answers' : x.ask # "staff"
    PROVE  RequestIInv'
<1>1. Questions' = Questions /\ H' = H
  BY HandlerStays DEF Questions
<1>2. RequestTypeOK'
  BY <1>1 DEF RequestIInv, RequestTypeOK
<1> QED BY <1>1, <1>2 DEF RequestIInv, AppliedShows, NotYetStored, RowStays, NeverFiled,
        RefusalIsFair, ShadowDecidesNothing

\* Reading the row that a request names keeps the invariant.
LEMMA ReadRowKeeps ==
    ASSUME RequestIInv, ReadRow PROVE RequestIInv'
<1>1. HandlerOK(H)
  BY HandlerIsOK DEF RequestIInv
<1>2. /\ attempt.step = "read" /\ done = doneBefore
      /\ UNCHANGED <<request, mode, row, key, done, doneBefore, meddled>> /\ answers' = answers
  BY DEF ReadRow, RequestIInv, NotYetStored
<1>3. mode = "Shadow" => \A x \in answers' : x.ask # "staff"
  BY <1>2 DEF RequestIInv, ShadowDecidesNothing
<1>4. CASE H.reads /\ ~row.there /\ Answered("not_found")
  <2>1. meddled \/ request.method = "delete_policy_fixture"
    BY <1>1, <1>4 DEF RequestIInv, RowStays, HandlerOK
  <2> QED BY <1>2, <1>3, <1>4, <2>1, EndsWith
<1>5. CASE H.reads /\ Answered("internal")
  BY <1>2, <1>3, <1>5, EndsWith DEF Refusals
<1>6. CASE /\ attempt' = [step |-> IF H.gate.hub THEN "hub" ELSE "calls", calls |-> H.gate.calls]
           /\ reply' = reply
  <2>1. H.gate \in Gates /\ H.gate.calls \in Seq(Questions)
    BY <1>1 DEF HandlerOK, Gates
  <2>2. request.method = Filed /\ mode # "Enforce" => Unfiled(H.gate)
    BY <1>1 DEF HandlerOK
  <2>3. PICK s \in {"hub", "calls"} : s = IF H.gate.hub THEN "hub" ELSE "calls"
    OBVIOUS
  <2>4. request.method = Filed /\ mode # "Enforce" =>
          s = "calls" /\ H.gate.calls # <<>> /\ H.gate.calls[Len(H.gate.calls)] = Never
    BY <2>2, <2>3 DEF Unfiled
  <2> QED BY <1>2, <1>3, <1>6, <2>1, <2>3, <2>4, GoesOn
<1> QED BY <1>4, <1>5, <1>6 DEF ReadRow

\* So does asking whether the hub's moderator may.
LEMMA AskHubKeeps ==
    ASSUME RequestIInv, AskHub PROVE RequestIInv'
<1>1. /\ attempt.step = "hub"
      /\ UNCHANGED <<request, mode, row, key, done, doneBefore, meddled>>
  BY DEF AskHub
<1>2. PICK a \in {"allow", "deny", "unavailable"} :
         /\ answers' = answers \cup {[ask |-> "hub", answer |-> a]}
         /\ IF a = "unavailable" THEN Answered(a)
            ELSE /\ attempt' = [attempt EXCEPT !.step = IF a = "allow" THEN "before" ELSE "calls"]
                 /\ UNCHANGED reply
  BY DEF AskHub
<1>3. mode = "Shadow" => \A x \in answers' : x.ask # "staff"
  BY <1>2 DEF RequestIInv, ShadowDecidesNothing
<1>4. CASE a = "unavailable"
  BY <1>1, <1>2, <1>3, <1>4, EndsWith DEF Refusals
<1>5. CASE a # "unavailable"
  <2>1. PICK s \in {"before", "calls"} : s = IF a = "allow" THEN "before" ELSE "calls"
    OBVIOUS
  <2>2. attempt.calls \in Seq(Questions) /\ attempt = [step |-> "hub", calls |-> attempt.calls]
    BY <1>1 DEF RequestIInv, RequestTypeOK
  <2>3. attempt' = [step |-> s, calls |-> attempt.calls] /\ reply' = reply
    BY <1>2, <1>5, <2>1, <2>2
  <2>4. ~(request.method = Filed /\ mode # "Enforce")
    BY <1>1 DEF RequestIInv, NeverFiled
  <2> QED BY <1>1, <1>3, <2>2, <2>3, <2>4, GoesOn
<1> QED BY <1>4, <1>5

\* So does every question to the authorization service.
LEMMA AskKeeps ==
    ASSUME RequestIInv, Ask PROVE RequestIInv'
<1>1. /\ attempt.step = "calls"
      /\ UNCHANGED <<request, mode, row, key, done, doneBefore, meddled>>
  BY DEF Ask
<1>2. /\ attempt.calls \in Seq(Questions) /\ attempt = [step |-> "calls", calls |-> attempt.calls]
      /\ RequestTypeOK /\ done = doneBefore
  BY <1>1 DEF RequestIInv, RequestTypeOK, NotYetStored
<1> DEFINE filing == request.method = Filed /\ mode # "Enforce"
<1>3. filing => /\ done = 0 /\ attempt.calls # <<>>
                /\ attempt.calls[Len(attempt.calls)] = Never
  BY <1>1 DEF RequestIInv, NeverFiled
<1>4. CASE attempt.calls = <<>>
  <2>1. /\ attempt' = [step |-> "before", calls |-> attempt.calls] /\ answers' = answers /\ reply' = reply
    BY <1>1, <1>4 DEF Ask
  <2>2. mode = "Shadow" => \A x \in answers' : x.ask # "staff"
    BY <2>1 DEF RequestIInv, ShadowDecidesNothing
  <2> QED BY <1>1, <1>2, <1>3, <1>4, <2>1, <2>2, GoesOn
<1>5. CASE attempt.calls # <<>>
  <2>1. PICK c \in Questions : c = Head(attempt.calls)
    BY <1>2, <1>5, HeadTailProperties
  <2>2. PICK a \in Possible(c.ask) :
           /\ answers' = answers \cup {[ask |-> c.ask, answer |-> a]}
           /\ IF Verdict(c, a) = "go"
              THEN attempt' = [attempt EXCEPT !.calls = Tail(@)] /\ UNCHANGED reply
              ELSE Answered(Verdict(c, a))
    BY <1>5, <2>1 DEF Ask
  <2>3. PICK v : v = Verdict(c, a)
    OBVIOUS
  <2>4. /\ v \in {"go", "unavailable", "denied", "precondition"}
        /\ v \in {"denied", "precondition"} =>
             /\ c.ask # "logged"
             /\ \/ c.ask = "nobody"
                \/ a # IF c.ask = "staff" /\ request.method = Filed THEN "approval" ELSE "allow"
        /\ c.ask = "nobody" => v = "precondition" /\ filing
        /\ mode = "Shadow" => /\ c.ask # "staff"
                              /\ v = "denied" => a = "deny"
                              /\ v = "precondition" => request.method = Filed
    BY <1>2, <2>3, Verdicts
  <2>5. mode = "Shadow" => \A x \in answers' : x.ask # "staff"
    BY <2>2, <2>4 DEF RequestIInv, ShadowDecidesNothing
  <2>6. CASE v = "go"
    <3>1. /\ Tail(attempt.calls) \in Seq(Questions)
          /\ attempt' = [step |-> "calls", calls |-> Tail(attempt.calls)] /\ reply' = reply
      <4>1. attempt' = [attempt EXCEPT !.calls = Tail(@)] /\ reply' = reply
        BY <2>2, <2>3, <2>6
      <4>2. Tail(attempt.calls) \in Seq(Questions)
        BY <1>2, <1>5, HeadTailProperties
      <4>3. attempt' = [step |-> "calls", calls |-> Tail(attempt.calls)]
        <5>1. PICK p \in Seq(Questions) : p = attempt.calls
          BY <1>2
        <5>2. attempt = [step |-> "calls", calls |-> p]
          BY <1>2, <5>1
        <5>3. [attempt EXCEPT !.calls = Tail(@)] = [step |-> "calls", calls |-> Tail(p)]
          BY <5>2, CallsLeft, Zenon
        <5> QED BY <4>1, <5>1, <5>3
      <4> QED BY <4>1, <4>2, <4>3
    <3>2. filing => Tail(attempt.calls) # <<>> /\ Tail(attempt.calls)[Len(Tail(attempt.calls))] = Never
      <4> SUFFICES ASSUME filing
                   PROVE Tail(attempt.calls) # <<>> /\ Tail(attempt.calls)[Len(Tail(attempt.calls))] = Never
        OBVIOUS
      <4>1. PICK calls \in Seq(Questions) : calls = attempt.calls
        BY <1>2
      <4>2. PICK n \in Nat \ {0} : n = Len(calls)
        BY <1>5, <4>1, EmptySeq, LenProperties
      <4>3. calls # <<>> /\ calls[n] = Never /\ c = calls[1] /\ c.ask # "nobody"
        BY <1>3, <1>5, <2>1, <2>4, <2>6, <4>1, <4>2
      <4>4. n # 1
        BY <4>3 DEF Never
      <4>5. /\ Tail(calls) \in Seq(Questions) /\ Len(Tail(calls)) = n - 1
            /\ \A i \in 1..Len(Tail(calls)) : Tail(calls)[i] = calls[i + 1]
        BY <4>1, <4>2, <4>3, HeadTailProperties
      <4>6. Tail(calls)[n - 1] = calls[n]
        BY <4>2, <4>4, <4>5
      <4>7. Tail(calls) # <<>>
        BY <4>2, <4>4, <4>5, EmptySeq
      <4> QED BY <4>1, <4>3, <4>5, <4>6, <4>7
    <3> QED BY <1>1, <2>5, <3>1, <3>2, GoesOn
  <2>7. CASE v # "go"
    <3>1. Answered(v)
      BY <2>2, <2>3, <2>7
    <3>2. v \in Refusals => done = 0 \/ RefusedNow'
      <4>1. CASE filing
        BY <1>3, <4>1
      <4>2. CASE ~filing /\ v \in Refusals
        <5>1. c.ask # "logged" /\ a # IF c.ask = "staff" /\ request.method = Filed THEN "approval" ELSE "allow"
          BY <2>4, <4>2 DEF Refusals
        <5>2. [ask |-> c.ask, answer |-> a] \in answers'
          BY <2>2
        <5> QED BY <1>1, <5>1, <5>2 DEF RefusedNow, Filed
      <4> QED BY <4>1, <4>2
    <3>3. mode = "Shadow" =>
             /\ v = "denied" => \E x \in answers' : x.ask # "logged" /\ x.answer = "deny"
             /\ v = "precondition" => request.method \in {"validate_policy", Filed}
      <4>1. [ask |-> c.ask, answer |-> a] \in answers'
        BY <2>2
      <4> QED BY <2>4, <4>1
    <3> HIDE DEF filing
    <3> QED BY <1>1, <1>2, <2>5, <3>1, <3>2, <3>3, EndsWith
  <2> QED BY <2>6, <2>7
<1> QED BY <1>4, <1>5

\* So does what is checked between the questions and the write.
LEMMA BeforeKeeps ==
    ASSUME RequestIInv, Before PROVE RequestIInv'
<1>1. HandlerOK(H)
  BY HandlerIsOK DEF RequestIInv
<1>2. /\ attempt.step = "before" /\ done = doneBefore
      /\ UNCHANGED <<request, mode, row, key, done, doneBefore, meddled>> /\ answers' = answers
  BY DEF Before, RequestIInv, NotYetStored
<1>3. mode = "Shadow" => \A x \in answers' : x.ask # "staff"
  BY <1>2 DEF RequestIInv, ShadowDecidesNothing
<1>4. CASE attempt' = [step |-> "store", calls |-> <<>>] /\ reply' = reply
  <2>1. ~(request.method = Filed /\ mode # "Enforce")
    BY <1>2 DEF RequestIInv, NeverFiled
  <2>2. <<>> \in Seq(Questions)
    OBVIOUS
  <2> QED BY <1>2, <1>3, <1>4, <2>1, <2>2, GoesOn
<1>5. CASE H.before = "draft" /\ ~row.draft /\ Answered("precondition")
  <2>1. request.method = "validate_policy"
    BY <1>1, <1>5 DEF HandlerOK
  <2> QED BY <1>2, <1>3, <1>5, <2>1, EndsWith
<1>6. CASE Answered("ok")
  BY <1>2, <1>3, <1>6, EndsWith DEF Refusals
<1>7. CASE Answered("unhealthy")
  BY <1>2, <1>3, <1>7, EndsWith
<1> QED BY <1>4, <1>5, <1>6, <1>7 DEF Before

\* What follows the transaction, whatever it did.
LEMMA AfterwardsKeeps ==
    ASSUME RequestIInv, attempt.step = "store", Afterwards,
           UNCHANGED <<request, mode, answers, doneBefore, meddled>>,
           row' \in [there : BOOLEAN, version : Nat \ {0}, draft : BOOLEAN], key' \in BOOLEAN,
           done' \in {0, 1}, AppliedShows', RowStays',
           done' = done \/ ~(request.method = Filed /\ mode # "Enforce")
    PROVE  RequestIInv'
<1>1. Questions' = Questions /\ H' = H /\ HandlerOK(H)
  BY HandlerIsOK, HandlerStays DEF Questions, RequestIInv
<1>2. \/ attempt' = [step |-> "follow", calls |-> <<>>] /\ reply' = reply
      \/ attempt' = [step |-> "idle", calls |-> <<>>] /\ reply' = "ok"
  BY DEF Afterwards, Answered, Idle
<1>3. RequestTypeOK'
  <2>1. <<>> \in Seq(Questions)
    OBVIOUS
  <2>2. PICK s \in {"idle", "follow"} : attempt' = [step |-> s, calls |-> <<>>]
    BY <1>2
  <2>3. attempt' \in [step : {"idle", "read", "hub", "calls", "before", "store", "follow"}, calls : Seq(Questions)]
    BY <2>1, <2>2
  <2> QED BY <1>1, <2>3 DEF RequestIInv, RequestTypeOK
<1>4. ~(request.method = Filed /\ mode # "Enforce")
  BY DEF RequestIInv, NeverFiled
<1>5. NotYetStored' /\ NeverFiled'
  BY <1>2, <1>4 DEF NotYetStored, NeverFiled
<1>6. RefusalIsFair' /\ ShadowDecidesNothing'
  BY <1>2 DEF RefusalIsFair, ShadowDecidesNothing, RequestIInv, Refusals
<1> QED BY <1>3, <1>5, <1>6 DEF RequestIInv

\* So does the write under the request's key, the version and the row.
LEMMA StoreKeeps ==
    ASSUME RequestIInv, Store PROVE RequestIInv'
<1>1. H' = H /\ HandlerOK(H)
  BY HandlerIsOK, HandlerStays DEF RequestIInv, Store
<1>2. /\ attempt.step = "store" /\ done = doneBefore
      /\ UNCHANGED <<request, mode, doneBefore, meddled>> /\ answers' = answers
  BY DEF Store, RequestIInv, NotYetStored
<1>3. mode = "Shadow" => \A x \in answers' : x.ask # "staff"
  BY <1>2 DEF RequestIInv, ShadowDecidesNothing
<1>4. /\ row \in [there : BOOLEAN, version : Nat \ {0}, draft : BOOLEAN]
      /\ key \in BOOLEAN /\ done \in {0, 1} /\ AppliedShows /\ RowStays
  BY DEF RequestIInv, RequestTypeOK
<1>5. CASE Replay
  <2>1. row' = row /\ key' = key /\ done' = done /\ Afterwards
    BY <1>5 DEF Replay
  <2>2. AppliedShows' /\ RowStays'
    BY <1>1, <1>2, <1>4, <2>1 DEF AppliedShows, RowStays
  <2> QED BY <1>2, <1>4, <2>1, <2>2, AfterwardsKeeps
<1>6. CASE Conflict
  <2>1. row' = row /\ key' = key /\ done' = done
    BY <1>6 DEF Conflict
  <2>2. PICK r \in {"aborted", "not_found"} : Answered(r)
    BY <1>6 DEF Conflict
  <2>3. done = 0 \/ H.store # "claimed"
    BY <1>4, <1>6 DEF Conflict, AppliedShows
  <2> QED BY <1>2, <1>3, <2>1, <2>2, <2>3, EndsWith
<1>7. CASE Apply
  <2>1. /\ H.store \in {"claimed", "versioned"} /\ ~(H.store = "claimed" /\ key)
        /\ H.writes # "create" => row.there /\ row.version = 1
        /\ key' = (H.store = "claimed") /\ done' = done + 1 /\ Afterwards
        /\ row' = IF H.writes = "create" THEN row
                  ELSE [there   |-> H.writes # "remove",
                        version |-> IF H.writes = "update" THEN row.version + 1 ELSE row.version,
                        draft   |-> row.draft /\ H.writes # "validate"]
    BY <1>7 DEF Apply
  <2>2. H.store = "versioned" => H.writes = "update"
    BY <1>1 DEF HandlerOK
  <2>3. done = 0
    BY <1>4, <2>1, <2>2 DEF AppliedShows
  <2>4. done' \in {0, 1} /\ key' \in BOOLEAN
    BY <2>1, <2>3
  <2>5. row' \in [there : BOOLEAN, version : Nat \ {0}, draft : BOOLEAN]
    <3>1. /\ row.version \in Nat \ {0} /\ row.version + 1 \in Nat \ {0}
          /\ (row.draft /\ H.writes # "validate") \in BOOLEAN
      BY <1>4
    <3>2. (IF H.writes = "update" THEN row.version + 1 ELSE row.version) \in Nat \ {0}
      BY <3>1
    <3> QED BY <1>4, <2>1, <3>1, <3>2
  <2>6. AppliedShows'
    <3>1. H.store = "versioned" => row'.version = 2
      BY <1>4, <2>1, <2>2
    <3>2. H.store = "claimed" => key'
      BY <2>1
    <3> QED BY <1>1, <2>1, <3>1, <3>2 DEF AppliedShows
  <2>7. RowStays'
    <3>1. ~row'.there => ~row.there \/ H.writes = "remove"
      BY <1>4, <2>1
    <3> QED BY <1>1, <1>2, <1>4, <3>1 DEF RowStays
  <2>8. ~(request.method = Filed /\ mode # "Enforce")
    BY <1>2 DEF RequestIInv, NeverFiled
  <2> QED BY <1>2, <2>1, <2>4, <2>5, <2>6, <2>7, <2>8, AfterwardsKeeps
<1>8. CASE /\ H.store = "nothing" \/ (H.store = "read" /\ row.there)
           /\ Answered("ok") /\ UNCHANGED <<row, key, done>>
  BY <1>2, <1>3, <1>8, EndsWith DEF Refusals
<1>9. CASE H.store = "read" /\ ~row.there /\ Answered("not_found") /\ UNCHANGED <<row, key, done>>
  BY <1>2, <1>3, <1>9, EndsWith
<1>10. CASE Answered("internal") /\ UNCHANGED <<row, key, done>>
  BY <1>2, <1>3, <1>10, EndsWith DEF Refusals
<1> QED BY <1>5, <1>6, <1>7, <1>8, <1>9, <1>10 DEF Store

\* So does what follows the write, and the loss of the reply.
LEMMA FollowUpKeeps ==
    ASSUME RequestIInv, FollowUp \/ LoseReply PROVE RequestIInv'
<1>1. UNCHANGED <<request, mode, row, key, done, doneBefore, meddled>> /\ answers' = answers
  BY DEF FollowUp, LoseReply
<1>2. PICK r \in {"ok", "internal", "lost"} : Answered(r)
  BY DEF FollowUp, LoseReply
<1>3. mode = "Shadow" => \A x \in answers' : x.ask # "staff"
  BY <1>1 DEF RequestIInv, ShadowDecidesNothing
<1> QED BY <1>1, <1>2, <1>3, EndsWith DEF Refusals

\* So does a write of another request.
LEMMA MeddleKeeps ==
    ASSUME RequestIInv, Meddle PROVE RequestIInv'
<1>1. /\ request' = request /\ mode' = mode /\ key' = key /\ attempt' = attempt /\ answers' = answers
      /\ reply' = reply /\ done' = done /\ doneBefore' = doneBefore /\ meddled' = TRUE
  BY DEF Meddle
<1>2. Questions' = Questions /\ H' = H /\ (RefusedNow' <=> RefusedNow)
  BY <1>1, HandlerStays DEF Questions, RefusedNow
<1>3. row \in [there : BOOLEAN, version : Nat \ {0}, draft : BOOLEAN]
  BY DEF RequestIInv, RequestTypeOK
<1>4. /\ row' \in [there : BOOLEAN, version : Nat \ {0}, draft : BOOLEAN]
      /\ row'.version \in {row.version, row.version + 1}
  <2>1. row' \in {[there |-> TRUE, version |-> row.version + 1, draft |-> row.draft],
                   [there |-> TRUE, version |-> row.version, draft |-> FALSE],
                   [there |-> FALSE, version |-> row.version, draft |-> row.draft]}
    BY DEF Meddle
  <2>2. PICK v \in Nat \ {0}, d \in BOOLEAN : v = row.version /\ d = row.draft
    BY <1>3
  <2>4. PICK w \in Nat \ {0} : w = v + 1
    OBVIOUS
  <2>3. \/ row' = [there |-> TRUE, version |-> w, draft |-> d]
        \/ row' = [there |-> TRUE, version |-> v, draft |-> FALSE]
        \/ row' = [there |-> FALSE, version |-> v, draft |-> d]
    BY <2>1, <2>2, <2>4
  <2>5. row' \in [there : BOOLEAN, version : Nat \ {0}, draft : BOOLEAN]
    <3>1. PICK x \in Nat \ {0}, y \in BOOLEAN, z \in BOOLEAN : row' = [there |-> y, version |-> x, draft |-> z]
      BY <2>3, Zenon
    <3> QED BY <3>1
  <2>6. row'.version \in {v, v + 1}
    BY <2>3, <2>4
  <2> QED BY <2>2, <2>5, <2>6
<1>5. row.version # 1 => row'.version # 1
  BY <1>3, <1>4
<1>6. RequestTypeOK'
  BY <1>1, <1>2, <1>4 DEF RequestIInv, RequestTypeOK
<1>7. AppliedShows' /\ RowStays'
  BY <1>1, <1>2, <1>5 DEF RequestIInv, AppliedShows, RowStays
<1>8. NotYetStored' /\ NeverFiled' /\ ShadowDecidesNothing'
  BY <1>1 DEF RequestIInv, NotYetStored, NeverFiled, ShadowDecidesNothing
<1>9. RefusalIsFair'
  BY <1>1, <1>2 DEF RequestIInv, RefusalIsFair
<1> QED BY <1>6, <1>7, <1>8, <1>9 DEF RequestIInv

\* So every step keeps the invariant of a request.
LEMMA RequestSteps ==
    ASSUME RequestIInv, [RequestNext]_requestVars PROVE RequestIInv'
<1>1. CASE UNCHANGED requestVars
  <2>1. /\ request' = request /\ mode' = mode /\ row' = row /\ key' = key /\ attempt' = attempt
        /\ answers' = answers /\ reply' = reply /\ done' = done /\ doneBefore' = doneBefore
        /\ meddled' = meddled
    BY <1>1 DEF requestVars
  <2>2. Questions' = Questions /\ H' = H /\ (RefusedNow' <=> RefusedNow)
    BY <2>1, HandlerStays DEF Questions, RefusedNow
  <2>3. RequestTypeOK'
    BY <2>1, <2>2 DEF RequestIInv, RequestTypeOK
  <2> QED BY <2>1, <2>2, <2>3 DEF RequestIInv, AppliedShows, NotYetStored, RowStays, NeverFiled,
        RefusalIsFair, ShadowDecidesNothing
<1> QED BY <1>1, SendKeeps, ReadRowKeeps, AskHubKeeps, AskKeeps, BeforeKeeps, StoreKeeps, FollowUpKeeps,
        MeddleKeeps DEF RequestNext

\* And it holds before the request is first sent.
LEMMA RequestStarts ==
    ASSUME NEW requests, requests \subseteq Asked, RequestInitWith(requests) PROVE RequestIInv
<1>1. RequestTypeOK
  <2>1. mode \in {"Legacy", "Shadow", "Enforce"} /\ request \in Asked
    BY RequestConstants DEF RequestInitWith
  <2>2. <<>> \in Seq(Questions)
    OBVIOUS
  <2>3. row = [there |-> TRUE, version |-> 1, draft |-> TRUE] /\ key = FALSE /\ done = 0
    BY DEF RequestInitWith
  <2>4. attempt = [step |-> "idle", calls |-> <<>>]
    BY DEF RequestInitWith, Idle
  <2>5. attempt \in [step : {"idle", "read", "hub", "calls", "before", "store", "follow"}, calls : Seq(Questions)]
    BY <2>2, <2>4
  <2>6. row \in [there : BOOLEAN, version : Nat \ {0}, draft : BOOLEAN]
    BY <2>3
  <2> QED BY <2>1, <2>3, <2>5, <2>6 DEF RequestTypeOK
<1> QED BY <1>1 DEF RequestIInv, RequestInitWith, AppliedShows, NotYetStored, RowStays, NeverFiled,
        RefusalIsFair, ShadowDecidesNothing, Refusals, Idle

\* The inductive invariant of a request holds in every reachable state.
LEMMA RequestInvariant ==
    ASSUME NEW requests, requests \subseteq Asked
    PROVE  RequestSpec(requests) => []RequestIInv
<1>1. RequestInitWith(requests) => RequestIInv
  BY RequestStarts
<1>2. RequestIInv /\ [RequestNext]_requestVars => RequestIInv'
  BY RequestSteps
<1> QED BY <1>1, <1>2, PTL DEF RequestSpec

\* A request is applied once however often it is sent under its idempotency key,
\* an attempt that is refused applied nothing, and a repeat of what was applied is
\* refused only for what changed since: an answer of Iris, a row that another
\* request wrote; or where the handler looks at the row before the key.
THEOREM RepeatsAnswerAsTheOriginal ==
    ASSUME NEW requests, requests \subseteq Asked
    PROVE  RequestSpec(requests) => []RepeatsAreTheOriginal
<1>1. RequestIInv => RepeatsAreTheOriginal
  BY DEF RequestIInv, RequestTypeOK, RefusalIsFair, RepeatsAreTheOriginal
<1> QED BY <1>1, RequestInvariant, PTL

\* The shadow mode of authorization logs what the service would have decided and
\* lets none of it decide: a request is denied only by what the legacy mode asks.
THEOREM ShadowModeIsLegacyMode ==
    ASSUME NEW requests, requests \subseteq Asked
    PROVE  RequestSpec(requests) => []ShadowIsLegacy
<1>1. RequestIInv => ShadowIsLegacy
  BY DEF RequestIInv, ShadowDecidesNothing, ShadowIsLegacy, Filed
<1> QED BY <1>1, RequestInvariant, PTL

(* ------------------------------- Workers -------------------------------- *)

Exchanges(e) == evaluation[e].step \in {"writing", "reading"}

Given(s) == \E d \in Evaluations : evaluation[d].step = "abandoned" /\ evaluation[d].slot = s

\* An evaluation that exchanges lines holds the lock of its slot.
LockIsHeld == \A e \in Evaluations : Exchanges(e) => lock[evaluation[e].slot] = e

\* A worker holds nothing but the line of the evaluation that reads from it, or
\* the answer to it.
InStep(s) ==
    /\ Len(worker[s].stdin) + Len(worker[s].stdout) <= 1
    /\ worker[s].stdin # <<>> =>
         LET e == worker[s].stdin[1].of IN evaluation[e].step = "reading" /\ evaluation[e].slot = s
    /\ worker[s].stdout # <<>> =>
         LET e == worker[s].stdout[1].of IN evaluation[e].step = "reading" /\ evaluation[e].slot = s

NothingIsLeftOver == \A s \in Slots : Given(s) \/ InStep(s)

OwnAnswer(e) == evaluation[e].of \in {e, Nobody} \/ Given(evaluation[e].slot)

WorkersInv == WorkersTypeOK /\ LockIsHeld /\ NothingIsLeftOver /\ \A e \in Evaluations : OwnAnswer(e)

USE WorkerConstants DEF Slots

\* What a worker has to read, and has written, is of evaluations.
LEMMA LinesAreOwned ==
    ASSUME WorkersTypeOK, NEW s \in Slots
    PROVE  /\ worker[s].stdin # <<>> => worker[s].stdin[1].of \in Evaluations
           /\ worker[s].stdout # <<>> => worker[s].stdout[1].of \in Evaluations
<1>1. worker[s].stdin \in Seq(Lines) /\ worker[s].stdout \in Seq(Responses)
  BY DEF WorkersTypeOK, WorkerStates
<1>2. /\ worker[s].stdin # <<>> => worker[s].stdin[1] \in Lines
      /\ worker[s].stdout # <<>> => worker[s].stdout[1] \in Responses
  BY <1>1
<1> QED BY <1>2 DEF Lines, Responses

\* Of two sequences with one line between them, one being that line.
LEMMA OneLine ==
    ASSUME NEW S, NEW T, NEW p \in Seq(S), NEW q \in Seq(T), Len(p) + Len(q) <= 1, p # <<>>
    PROVE  q = <<>> /\ Tail(p) = <<>>
<1>1. Len(p) \in Nat \ {0} /\ Len(q) \in Nat /\ (q # <<>> => Len(q) \in Nat \ {0})
  BY EmptySeq, LenProperties
<1>2. Len(p) = 1 /\ Len(q) = 0
  <2> DEFINE a == Len(p)
             b == Len(q)
  <2>1. a \in Nat \ {0} /\ b \in Nat /\ a + b <= 1
    BY <1>1
  <2> HIDE DEF a, b
  <2>2. a = 1 /\ b = 0
    BY <2>1
  <2> QED BY <2>2 DEF a, b
<1>3. Tail(p) \in Seq(S) /\ Len(Tail(p)) = 0
  BY <1>2, HeadTailProperties
<1>4. Tail(p) # <<>> => Len(Tail(p)) \in Nat \ {0}
  BY <1>3, EmptySeq
<1> QED BY <1>1, <1>2, <1>3, <1>4

\* A step of evaluation e at slot s, which it does not leave while it exchanges
\* lines, keeps the invariant when it keeps it there.
LEMMA StepKeepsInv ==
    ASSUME WorkersInv, WorkersTypeOK', NEW e \in Evaluations, NEW s \in Slots,
           evaluation[e].step # "abandoned",
           evaluation[e].step = "reading" => evaluation[e].slot = s,
           evaluation'[e].slot = s,
           \A d \in Evaluations \ {e} : evaluation'[d] = evaluation[d],
           \A r \in Slots \ {s} : worker'[r] = worker[r] /\ lock'[r] = lock[r],
           Exchanges(e)' => lock'[s] = e,
           \A d \in Evaluations \ {e} : Exchanges(d) /\ evaluation[d].slot = s => lock'[s] = d,
           Given(s)' \/ InStep(s)',
           OwnAnswer(e)'
    PROVE  WorkersInv'
<1>1. \A r \in Slots : Given(r) => Given(r)'
  BY DEF Given
<1>2. LockIsHeld'
  <2> SUFFICES ASSUME NEW d \in Evaluations, Exchanges(d)' PROVE lock'[evaluation'[d].slot] = d
    BY DEF LockIsHeld
  <2>1. CASE d = e
    BY <2>1
  <2>2. CASE d # e
    <3>1. evaluation'[d] = evaluation[d] /\ Exchanges(d) /\ evaluation[d].slot \in Slots
      BY <2>2 DEF Exchanges, WorkersInv, WorkersTypeOK
    <3> QED BY <3>1, <2>2 DEF WorkersInv, LockIsHeld
  <2> QED BY <2>1, <2>2
<1>3. NothingIsLeftOver'
  <2> SUFFICES ASSUME NEW r \in Slots, r # s, ~Given(r)' PROVE InStep(r)'
    BY DEF NothingIsLeftOver
  <2>1. InStep(r) /\ worker'[r] = worker[r]
    BY <1>1 DEF WorkersInv, NothingIsLeftOver
  <2>2. \A d \in Evaluations : evaluation[d].step = "reading" /\ evaluation[d].slot = r => evaluation'[d] = evaluation[d]
    OBVIOUS
  <2>3. /\ worker[r].stdin # <<>> => worker[r].stdin[1].of \in Evaluations
        /\ worker[r].stdout # <<>> => worker[r].stdout[1].of \in Evaluations
    BY LinesAreOwned DEF WorkersInv
  <2> QED BY <2>1, <2>2, <2>3 DEF InStep
<1>4. ASSUME NEW d \in Evaluations PROVE OwnAnswer(d)'
  <2>1. CASE d = e
    BY <2>1
  <2>2. CASE d # e
    <3>1. evaluation'[d] = evaluation[d] /\ evaluation[d].slot \in Slots /\ OwnAnswer(d)
      BY <2>2 DEF WorkersInv, WorkersTypeOK
    <3> QED BY <3>1, <1>1 DEF OwnAnswer
  <2> QED BY <2>1, <2>2
<1> QED BY <1>2, <1>3, <1>4 DEF WorkersInv

\* The workers start empty.
LEMMA InitKeepsInv == WorkersInit => WorkersInv
<1> SUFFICES ASSUME WorkersInit PROVE WorkersInv
  OBVIOUS
<1>1. NoWorker \in WorkerStates
  BY DEF NoWorker, WorkerStates
<1>2. WorkersTypeOK
  BY <1>1 DEF WorkersInit, WorkersTypeOK
<1>3. NothingIsLeftOver
  BY DEF NothingIsLeftOver, InStep, WorkersInit, NoWorker
<1> QED BY <1>2, <1>3 DEF WorkersInv, LockIsHeld, Exchanges, OwnAnswer, WorkersInit

\* A request for an evaluation keeps the invariant of the workers.
LEMMA RequestKeepsInv ==
    ASSUME WorkersInv, NEW e \in Evaluations, Request(e)
    PROVE  WorkersInv'
<1>1. PICK s \in Slots : s = nextSlot
  BY DEF WorkersInv, WorkersTypeOK
<1>2. WorkersTypeOK'
  <2>1. nextSlot \in Slots
    BY <1>1
  <2>2. (nextSlot + 1) % SlotCount \in Slots
    BY <2>1, SMT
  <2> QED BY <2>1, <2>2 DEF WorkersInv, WorkersTypeOK, Request
<1>3. /\ evaluation'[e] = [step |-> "locking", slot |-> s, result |-> "none", of |-> Nobody]
      /\ \A d \in Evaluations \ {e} : evaluation'[d] = evaluation[d]
      /\ lock' = lock /\ worker' = worker /\ evaluation[e].step = "idle"
  BY <1>1 DEF Request, WorkersInv, WorkersTypeOK
<1>4. Given(s)' \/ InStep(s)'
  <2>1. Given(s) => Given(s)'
    BY <1>3 DEF Given
  <2>2. /\ worker[s].stdin # <<>> => worker[s].stdin[1].of \in Evaluations
        /\ worker[s].stdout # <<>> => worker[s].stdout[1].of \in Evaluations
    BY LinesAreOwned DEF WorkersInv
  <2>3. InStep(s) => InStep(s)'
    BY <1>3, <2>2 DEF InStep
  <2> QED BY <2>1, <2>3 DEF WorkersInv, NothingIsLeftOver
<1>5. ASSUME NEW d \in Evaluations, Exchanges(d), evaluation[d].slot = s PROVE lock'[s] = d
  BY <1>3, <1>5 DEF WorkersInv, LockIsHeld
<1>6. evaluation'[e].step = "locking" /\ evaluation'[e].of = Nobody
  BY <1>3
<1>7. ~Exchanges(e)' /\ OwnAnswer(e)'
  BY <1>6 DEF Exchanges, OwnAnswer
<1> QED BY <1>2, <1>3, <1>4, <1>5, <1>7, StepKeepsInv

\* Once e has left its exchange, and taken the lock with it.
LEMMA EndKeepsInv ==
    ASSUME WorkersInv, WorkersTypeOK', NEW e \in Evaluations, NEW s \in Slots, s = evaluation[e].slot,
           Exchanges(e), ~Exchanges(e)', evaluation'[e].slot = s,
           \A d \in Evaluations \ {e} : evaluation'[d] = evaluation[d],
           \A r \in Slots \ {s} : worker'[r] = worker[r] /\ lock'[r] = lock[r],
           Given(s)' \/ InStep(s)',
           OwnAnswer(e)'
    PROVE  WorkersInv'
<1>1. evaluation[e].step # "abandoned"
  BY DEF Exchanges
<1>2. ASSUME NEW d \in Evaluations \ {e}, Exchanges(d), evaluation[d].slot = s PROVE lock'[s] = d
  <2>1. lock[s] = e /\ lock[s] = d
    BY <1>2 DEF WorkersInv, LockIsHeld
  <2> QED BY <2>1
<1> QED BY <1>1, <1>2, StepKeepsInv

\* A worker that has just been started, or none, holds no line.
LEMMA EmptyIsInStep ==
    ASSUME NEW s \in Slots, worker[s].stdin = <<>>, worker[s].stdout = <<>>
    PROVE  InStep(s)
  BY DEF InStep

\* The slot that e exchanged with is without a worker, and e without an answer.
LEMMA TerminateKeepsInv ==
    ASSUME WorkersInv, NEW e \in Evaluations, NEW s \in Slots, s = evaluation[e].slot, Exchanges(e),
           NEW result \in {"Timeout", "Worker"},
           Terminate(s), Answers(e, result, Nobody), Release(s), UNCHANGED <<nextSlot, exits>>
    PROVE  WorkersInv'
<1>1. NoWorker \in WorkerStates
  BY DEF NoWorker, WorkerStates
<1>2. WorkersTypeOK'
  BY <1>1 DEF WorkersInv, WorkersTypeOK, Terminate, Answers, Release
<1>3. /\ evaluation'[e] = [step |-> "answered", slot |-> s, result |-> result, of |-> Nobody]
      /\ \A d \in Evaluations \ {e} : evaluation'[d] = evaluation[d]
      /\ \A r \in Slots \ {s} : worker'[r] = worker[r] /\ lock'[r] = lock[r]
      /\ worker'[s] = NoWorker
  BY DEF WorkersInv, WorkersTypeOK, Terminate, Answers, Release
<1>4. InStep(s)'
  BY <1>3, EmptyIsInStep DEF NoWorker, InStep
<1>5. evaluation'[e].step = "answered" /\ evaluation'[e].of = Nobody /\ evaluation'[e].slot = s
  BY <1>3
<1>6. ~Exchanges(e)' /\ OwnAnswer(e)'
  BY <1>5 DEF Exchanges, OwnAnswer
<1> QED BY <1>2, <1>3, <1>4, <1>5, <1>6, EndKeepsInv

\* So does taking the lock of a slot.
LEMMA LockKeepsInv ==
    ASSUME WorkersInv, NEW e \in Evaluations, Lock(e)
    PROVE  WorkersInv'
<1>1. PICK s \in Slots : s = evaluation[e].slot
  BY DEF WorkersInv, WorkersTypeOK
<1>2. evaluation[e].step = "locking" /\ lock[s] = Nobody
  BY <1>1 DEF Lock
<1>3. \A d \in Evaluations : ~(Exchanges(d) /\ evaluation[d].slot = s)
  BY <1>2 DEF WorkersInv, LockIsHeld
<1>4. Given(s) \/ InStep(s)
  BY DEF WorkersInv, NothingIsLeftOver
<1>5. NewWorker \in WorkerStates
  BY DEF NewWorker, WorkerStates
<1>6. CASE /\ worker' = IF worker[s].present THEN worker ELSE [worker EXCEPT ![s] = NewWorker]
           /\ lock' = [lock EXCEPT ![s] = e]
           /\ Goes(e, "writing") /\ UNCHANGED <<exits, nextSlot>>
  <2>1. WorkersTypeOK'
    BY <1>5, <1>6 DEF WorkersInv, WorkersTypeOK, Goes
  <2>2. /\ evaluation'[e].step = "writing" /\ evaluation'[e].slot = s /\ evaluation'[e].of = evaluation[e].of
        /\ \A d \in Evaluations \ {e} : evaluation'[d] = evaluation[d]
        /\ \A r \in Slots \ {s} : worker'[r] = worker[r] /\ lock'[r] = lock[r]
        /\ lock'[s] = e
        /\ worker'[s] \in {worker[s], NewWorker}
    BY <1>1, <1>6 DEF WorkersInv, WorkersTypeOK, Goes
  <2>3. Given(s) => Given(s)'
    BY <1>2, <2>2 DEF Given
  <2>4. InStep(s) => InStep(s)'
    <3>1. CASE worker'[s] = worker[s]
      <4>1. /\ worker[s].stdin # <<>> => worker[s].stdin[1].of \in Evaluations
            /\ worker[s].stdout # <<>> => worker[s].stdout[1].of \in Evaluations
        BY LinesAreOwned DEF WorkersInv
      <4>2. \A d \in Evaluations : evaluation[d].step = "reading" => evaluation'[d] = evaluation[d]
        BY <1>2, <2>2
      <4> QED BY <3>1, <4>1, <4>2 DEF InStep
    <3>2. CASE worker'[s] = NewWorker
      BY <3>2 DEF InStep, NewWorker
    <3> QED BY <2>2, <3>1, <3>2
  <2>5. OwnAnswer(e)'
    BY <1>1, <2>2, <2>3 DEF WorkersInv, OwnAnswer
  <2>6. \A d \in Evaluations \ {e} : Exchanges(d) /\ evaluation[d].slot = s => lock'[s] = d
    BY <1>3
  <2>7. Exchanges(e)' => lock'[s] = e
    BY <2>2
  <2> QED BY <1>2, <1>4, <2>1, <2>2, <2>3, <2>4, <2>5, <2>6, <2>7, StepKeepsInv
<1>7. CASE Answers(e, "Worker", Nobody) /\ exits < MaxExits /\ exits' = exits + 1 /\ UNCHANGED <<lock, worker, nextSlot>>
  <2>1. WorkersTypeOK'
    <3>1. exits \in 0..MaxExits
      BY DEF WorkersInv, WorkersTypeOK
    <3>2. exits' \in 0..MaxExits
      BY <1>7, <3>1
    <3> QED BY <1>7, <3>2 DEF WorkersInv, WorkersTypeOK, Answers
  <2>2. /\ evaluation'[e].step = "answered" /\ evaluation'[e].slot = s /\ evaluation'[e].of = Nobody
        /\ \A d \in Evaluations \ {e} : evaluation'[d] = evaluation[d]
    BY <1>1, <1>7 DEF WorkersInv, WorkersTypeOK, Answers
  <2>3. Given(s) => Given(s)'
    BY <1>2, <2>2 DEF Given
  <2>4. InStep(s) => InStep(s)'
    <3>1. /\ worker[s].stdin # <<>> => worker[s].stdin[1].of \in Evaluations
          /\ worker[s].stdout # <<>> => worker[s].stdout[1].of \in Evaluations
      BY LinesAreOwned DEF WorkersInv
    <3> QED BY <1>2, <1>7, <2>2, <3>1 DEF InStep
  <2>5. OwnAnswer(e)' /\ ~Exchanges(e)'
    BY <2>2 DEF OwnAnswer, Exchanges
  <2>6. \A d \in Evaluations \ {e} : Exchanges(d) /\ evaluation[d].slot = s => lock'[s] = d
    BY <1>3
  <2> QED BY <1>2, <1>4, <1>7, <2>1, <2>2, <2>3, <2>4, <2>5, <2>6, StepKeepsInv
<1> QED BY <1>1, <1>6, <1>7 DEF Lock

\* So does writing the line, to a worker that may be gone.
LEMMA WriteLineKeepsInv ==
    ASSUME WorkersInv, NEW e \in Evaluations, WriteLine(e)
    PROVE  WorkersInv'
<1>1. PICK s \in Slots : s = evaluation[e].slot
  BY DEF WorkersInv, WorkersTypeOK
<1>2. evaluation[e].step = "writing"
  BY DEF WriteLine
<1>3. lock[s] = e
  BY <1>1, <1>2 DEF WorkersInv, LockIsHeld, Exchanges
<1>4. CASE ~worker[s].runs
  BY <1>1, <1>2, <1>4, TerminateKeepsInv DEF WriteLine, Exchanges
<1>5. CASE worker[s].runs
  <2> worker[s] \in WorkerStates
    BY DEF WorkersInv, WorkersTypeOK
  <2>1. PICK line : line = [of |-> e, valid |-> ~worker[s].torn]
    OBVIOUS
  <2> line \in Lines
    BY <2>1 DEF Lines, WorkerStates
  <2>2. PICK w \in WorkerStates : w = [present |-> TRUE, runs |-> TRUE, torn |-> FALSE, stdout |-> worker[s].stdout,
                                       stdin |-> Append(worker[s].stdin, line)]
    <3>1. worker[s].stdin \in Seq(Lines) /\ worker[s].stdout \in Seq(Responses)
      BY DEF WorkerStates
    <3>2. Append(worker[s].stdin, line) \in Seq(Lines)
      BY <3>1
    <3> QED BY <3>1, <3>2 DEF WorkerStates
  <2>3. worker' = [worker EXCEPT ![s] = w] /\ Goes(e, "reading") /\ UNCHANGED <<lock, nextSlot, exits>>
    BY <1>1, <1>5, <2>1, <2>2 DEF WriteLine
  <2>4. WorkersTypeOK'
    BY <2>3 DEF WorkersInv, WorkersTypeOK, Goes
  <2>5. /\ evaluation'[e].step = "reading" /\ evaluation'[e].slot = s /\ evaluation'[e].of = evaluation[e].of
        /\ \A d \in Evaluations \ {e} : evaluation'[d] = evaluation[d]
        /\ \A r \in Slots \ {s} : worker'[r] = worker[r] /\ lock'[r] = lock[r]
        /\ worker'[s] = w /\ lock' = lock
    BY <1>1, <2>3 DEF WorkersInv, WorkersTypeOK, Goes
  <2>6. Given(s) => Given(s)'
    BY <1>2, <2>5 DEF Given
  <2>7. InStep(s) => InStep(s)'
    <3> SUFFICES ASSUME InStep(s) PROVE InStep(s)'
      OBVIOUS
    <3>1. \A d \in Evaluations : ~(evaluation[d].step = "reading" /\ evaluation[d].slot = s)
      BY <1>2, <1>3 DEF WorkersInv, LockIsHeld, Exchanges
    <3>2. worker[s].stdin = <<>> /\ worker[s].stdout = <<>>
      BY <3>1, LinesAreOwned DEF WorkersInv, InStep
    <3>3. w.stdin = <<line>> /\ w.stdout = <<>>
      BY <2>2, <3>2
    <3>4. Len(w.stdin) = 1 /\ Len(w.stdout) = 0 /\ w.stdin[1].of = e
      BY <2>1, <3>3
    <3> QED BY <2>5, <3>3, <3>4 DEF InStep
  <2>8. OwnAnswer(e)'
    BY <1>1, <2>5, <2>6 DEF WorkersInv, OwnAnswer
  <2>9. \A d \in Evaluations \ {e} : Exchanges(d) /\ evaluation[d].slot = s => lock'[s] = d
    BY <2>5 DEF WorkersInv, LockIsHeld
  <2> QED BY <1>1, <1>2, <1>3, <2>4, <2>5, <2>6, <2>7, <2>8, <2>9, StepKeepsInv DEF WorkersInv, NothingIsLeftOver
<1> QED BY <1>4, <1>5

\* So does reading the answer, whosever it is.
LEMMA ReadLineKeepsInv ==
    ASSUME WorkersInv, NEW e \in Evaluations, ReadLine(e)
    PROVE  WorkersInv'
<1>1. PICK s \in Slots : s = evaluation[e].slot
  BY DEF WorkersInv, WorkersTypeOK
<1>2. evaluation[e].step = "reading" /\ worker[s].stdout # <<>> /\ worker[s].stdout \in Seq(Responses)
  BY <1>1 DEF ReadLine, WorkersInv, WorkersTypeOK, WorkerStates
<1>3. PICK response \in Responses : response = worker[s].stdout[1]
  BY <1>2
<1>4. Head(worker[s].stdout) = response
  BY <1>2, <1>3
<1>5. Exchanges(e)
  BY <1>2 DEF Exchanges
<1>6. CASE response.code = "FULL_EFFECTS"
  <2>1. Terminate(s) /\ Answers(e, "Worker", Nobody) /\ Release(s) /\ UNCHANGED <<nextSlot, exits>>
    BY <1>1, <1>4, <1>6 DEF ReadLine
  <2> QED BY <1>1, <1>5, <2>1, TerminateKeepsInv
<1>7. CASE response.code # "FULL_EFFECTS"
  <2>1. /\ worker' = [worker EXCEPT ![s].stdout = Tail(worker[s].stdout)]
        /\ Answers(e, ResultOf(response.code), response.of) /\ Release(s) /\ UNCHANGED <<nextSlot, exits>>
    BY <1>1, <1>4, <1>7 DEF ReadLine
  <2>2. ResultOf(response.code) \in {"Effects", "Timeout", "MemoryLimit", "MalformedEffects", "Worker"}
    BY DEF ResultOf
  <2>3. Tail(worker[s].stdout) \in Seq(Responses)
    BY <1>2
  <2>4. worker' \in [Slots -> WorkerStates]
    BY <2>1, <2>3 DEF WorkersInv, WorkersTypeOK, WorkerStates
  <2>5. response.of \in Evaluations
    BY DEF Responses
  <2>6. WorkersTypeOK'
    BY <2>1, <2>2, <2>4, <2>5 DEF WorkersInv, WorkersTypeOK, Answers, Release
  <2>7. /\ evaluation'[e].step = "answered" /\ evaluation'[e].slot = s /\ evaluation'[e].of = response.of
        /\ \A d \in Evaluations \ {e} : evaluation'[d] = evaluation[d]
        /\ \A r \in Slots \ {s} : worker'[r] = worker[r] /\ lock'[r] = lock[r]
    BY <1>1, <2>1 DEF WorkersInv, WorkersTypeOK, Answers, Release
  <2>8. worker'[s].stdin = worker[s].stdin /\ worker'[s].stdout = Tail(worker[s].stdout)
    BY <2>1 DEF WorkersInv, WorkersTypeOK, WorkerStates
  <2>9. Given(s) => Given(s)'
    BY <1>2, <2>7 DEF Given
  <2>10. ASSUME InStep(s) PROVE response.of = e /\ InStep(s)'
    <3>1. evaluation[response.of].step = "reading" /\ evaluation[response.of].slot = s
      BY <1>2, <1>3, <2>10 DEF InStep
    <3>2. lock[s] = response.of /\ lock[s] = e
      BY <1>1, <1>5, <2>5, <3>1 DEF WorkersInv, LockIsHeld, Exchanges
    <3>3. worker[s].stdin \in Seq(Lines)
      BY DEF WorkersInv, WorkersTypeOK, WorkerStates
    <3>4. Len(worker[s].stdin) + Len(worker[s].stdout) <= 1
      BY <2>10 DEF InStep
    <3> DEFINE a == Len(worker[s].stdin)
               b == Len(worker[s].stdout)
    <3>5. a \in Nat /\ b \in Nat /\ a + b <= 1
      BY <1>2, <3>3, <3>4, LenProperties
    <3> HIDE DEF a, b
    <3>6. b + a <= 1
      BY <3>5
    <3>7. Len(worker[s].stdout) + Len(worker[s].stdin) <= 1
      BY <3>6 DEF a, b
    <3>8. worker[s].stdin = <<>> /\ Tail(worker[s].stdout) = <<>>
      BY <1>2, <3>3, <3>7, OneLine
    <3>9. worker'[s].stdin = <<>> /\ worker'[s].stdout = <<>>
      BY <2>8, <3>8
    <3> QED BY <3>2, <3>9, EmptyIsInStep DEF InStep
  <2>11. Given(s) \/ InStep(s)
    BY DEF WorkersInv, NothingIsLeftOver
  <2>12. OwnAnswer(e)'
    BY <2>7, <2>9, <2>10, <2>11 DEF OwnAnswer
  <2>13. ~Exchanges(e)'
    BY <2>7 DEF Exchanges
  <2> QED BY <1>1, <1>5, <2>6, <2>7, <2>9, <2>10, <2>11, <2>12, <2>13, EndKeepsInv
<1> QED BY <1>6, <1>7

\* So does giving an evaluation up at its deadline, at whatever step it is.
LEMMA GiveUpKeepsInv ==
    ASSUME WorkersInv, NEW e \in Evaluations, GiveUp(e)
    PROVE  WorkersInv'
<1>1. PICK s \in Slots : s = evaluation[e].slot
  BY DEF WorkersInv, WorkersTypeOK
<1>2. Given(s) \/ InStep(s)
  BY DEF WorkersInv, NothingIsLeftOver
<1>3. CASE evaluation[e].step = "locking" /\ Goes(e, "given up") /\ UNCHANGED <<lock, worker, nextSlot, exits>>
  <2>1. WorkersTypeOK'
    BY <1>3 DEF WorkersInv, WorkersTypeOK, Goes
  <2>2. /\ evaluation'[e].step = "given up" /\ evaluation'[e].slot = s /\ evaluation'[e].of = evaluation[e].of
        /\ \A d \in Evaluations \ {e} : evaluation'[d] = evaluation[d]
    BY <1>1, <1>3 DEF WorkersInv, WorkersTypeOK, Goes
  <2>3. Given(s) => Given(s)'
    BY <1>3, <2>2 DEF Given
  <2>4. InStep(s) => InStep(s)'
    <3>1. /\ worker[s].stdin # <<>> => worker[s].stdin[1].of \in Evaluations
          /\ worker[s].stdout # <<>> => worker[s].stdout[1].of \in Evaluations
      BY LinesAreOwned DEF WorkersInv
    <3> QED BY <1>3, <2>2, <3>1 DEF InStep
  <2>5. OwnAnswer(e)' /\ ~Exchanges(e)'
    BY <1>1, <2>2, <2>3 DEF WorkersInv, OwnAnswer, Exchanges
  <2>6. \A d \in Evaluations \ {e} : Exchanges(d) /\ evaluation[d].slot = s => lock'[s] = d
    BY <1>3 DEF WorkersInv, LockIsHeld
  <2> QED BY <1>2, <1>3, <2>1, <2>2, <2>3, <2>4, <2>5, <2>6, StepKeepsInv
<1>4. CASE /\ Exchanges(e) /\ Goes(e, "abandoned") /\ Release(s) /\ UNCHANGED <<nextSlot, exits>>
           /\ worker' = worker \/ worker' = [worker EXCEPT ![s].torn = TRUE]
  <2> worker \in [Slots -> WorkerStates]
    BY DEF WorkersInv, WorkersTypeOK
  <2>1. worker' \in [Slots -> WorkerStates] /\ \A r \in Slots \ {s} : worker'[r] = worker[r]
    <3>1. CASE worker' = worker
      BY <3>1
    <3>2. CASE worker' = [worker EXCEPT ![s].torn = TRUE]
      BY <3>2 DEF WorkerStates
    <3> QED BY <1>4, <3>1, <3>2
  <2>2. Goes(e, "abandoned") /\ Release(s) /\ UNCHANGED <<nextSlot, exits>>
    BY <1>4
  <2>3. WorkersTypeOK'
    BY <2>2, <2>1 DEF WorkersInv, WorkersTypeOK, Goes, Release
  <2>4. /\ evaluation'[e].step = "abandoned" /\ evaluation'[e].slot = s
        /\ \A d \in Evaluations \ {e} : evaluation'[d] = evaluation[d]
        /\ \A r \in Slots \ {s} : worker'[r] = worker[r] /\ lock'[r] = lock[r]
    BY <1>1, <2>2, <2>1 DEF WorkersInv, WorkersTypeOK, Goes, Release
  <2>5. Given(s)' /\ OwnAnswer(e)' /\ ~Exchanges(e)'
    BY <2>4 DEF Given, OwnAnswer, Exchanges
  <2> QED BY <1>1, <1>4, <2>3, <2>4, <2>5, EndKeepsInv
<1> QED BY <1>1, <1>3, <1>4 DEF GiveUp, Exchanges

\* What a worker does by itself touches no evaluation.
LEMMA WorkerKeepsInv ==
    ASSUME WorkersInv, NEW s \in Slots, NEW w \in WorkerStates,
           worker' = [worker EXCEPT ![s] = w], exits' \in 0..MaxExits, UNCHANGED <<nextSlot, lock, evaluation>>,
           InStep(s) => InStep(s)'
    PROVE  WorkersInv'
<1>1. WorkersTypeOK'
  BY DEF WorkersInv, WorkersTypeOK
<1>2. \A r \in Slots : Given(r)' <=> Given(r)
  BY DEF Given
<1>3. \A r \in Slots \ {s} : InStep(r)' <=> InStep(r)
  BY DEF InStep, WorkersInv, WorkersTypeOK
<1>4. NothingIsLeftOver'
  BY <1>2, <1>3 DEF WorkersInv, NothingIsLeftOver
<1>5. \A e \in Evaluations : evaluation[e].slot \in Slots
  BY DEF WorkersInv, WorkersTypeOK
<1>6. \A e \in Evaluations : OwnAnswer(e)'
  BY <1>2, <1>5 DEF WorkersInv, OwnAnswer
<1> QED BY <1>1, <1>4, <1>6 DEF WorkersInv, LockIsHeld, Exchanges

\* So does a worker that answers the line it was given.
LEMMA ServeKeepsInv ==
    ASSUME WorkersInv, NEW s \in Slots, Serve(s)
    PROVE  WorkersInv'
<1>1. /\ worker[s].stdin \in Seq(Lines) /\ worker[s].stdin # <<>> /\ worker[s].stdout \in Seq(Responses)
      /\ worker[s].torn \in BOOLEAN
  BY DEF Serve, WorkersInv, WorkersTypeOK, WorkerStates
<1>2. PICK line \in Lines : line = Head(worker[s].stdin)
  BY <1>1
<1>3. PICK code \in RunCodes \cup {"INVALID_PROTOCOL"} :
         worker' = [worker EXCEPT ![s] =
            [present |-> TRUE, runs |-> TRUE, torn |-> worker[s].torn, stdin |-> Tail(worker[s].stdin),
             stdout |-> Append(worker[s].stdout, [of |-> line.of, code |-> code])]]
  BY <1>2 DEF Serve
<1>4. PICK response : response = [of |-> line.of, code |-> code]
  OBVIOUS
<1>5. response \in Responses
  BY <1>4 DEF Responses, Lines
<1>6. Tail(worker[s].stdin) \in Seq(Lines) /\ Append(worker[s].stdout, response) \in Seq(Responses)
  BY <1>1, <1>5
<1>7. PICK w \in WorkerStates :
         w = [present |-> TRUE, runs |-> TRUE, torn |-> worker[s].torn, stdin |-> Tail(worker[s].stdin),
              stdout |-> Append(worker[s].stdout, response)]
  BY <1>1, <1>6 DEF WorkerStates
<1>8. worker' = [worker EXCEPT ![s] = w] /\ worker'[s] = w
  BY <1>3, <1>4, <1>7 DEF WorkersInv, WorkersTypeOK
<1>9. ASSUME InStep(s) PROVE InStep(s)'
  <2>1. Len(worker[s].stdin) + Len(worker[s].stdout) <= 1
    BY <1>9 DEF InStep
  <2>2. worker[s].stdout = <<>> /\ Tail(worker[s].stdin) = <<>>
    BY <1>1, <2>1, OneLine
  <2>3. w.stdin = <<>> /\ w.stdout = <<response>>
    BY <1>7, <2>2
  <2>4. line = worker[s].stdin[1] /\ response.of = line.of
    BY <1>1, <1>2, <1>4
  <2>5. evaluation[response.of].step = "reading" /\ evaluation[response.of].slot = s
    BY <1>1, <1>9, <2>4 DEF InStep
  <2>6. evaluation' = evaluation
    BY DEF Serve
  <2>7. Len(w.stdin) = 0 /\ Len(w.stdout) = 1 /\ w.stdout[1] = response
    BY <2>3
  <2>8. worker'[s].stdin = <<>> /\ worker'[s].stdout = <<response>>
    BY <1>8, <2>3
  <2>9. Len(worker'[s].stdin) + Len(worker'[s].stdout) <= 1
    <3>1. Len(worker'[s].stdin) = 0 /\ Len(worker'[s].stdout) = 1
      BY <2>7, <1>8
    <3> QED BY <3>1
  <2>10. worker'[s].stdout[1].of = response.of
    BY <2>8
  <2> QED BY <2>5, <2>6, <2>8, <2>9, <2>10 DEF InStep
<1>10. exits' \in 0..MaxExits /\ UNCHANGED <<nextSlot, lock, evaluation>>
  BY DEF Serve, WorkersInv, WorkersTypeOK
<1> QED BY <1>8, <1>9, <1>10, WorkerKeepsInv

\* So does a worker that exits.
LEMMA ExitKeepsInv ==
    ASSUME WorkersInv, NEW s \in Slots, Exit(s)
    PROVE  WorkersInv'
<1>1. worker[s] \in WorkerStates
  BY DEF WorkersInv, WorkersTypeOK
<1>2. PICK w \in WorkerStates : w = [worker[s] EXCEPT !.runs = FALSE]
  BY <1>1 DEF WorkerStates
<1>3. worker' = [worker EXCEPT ![s] = w] /\ worker'[s] = w
  BY <1>2 DEF Exit, WorkersInv, WorkersTypeOK
<1>4. w.stdin = worker[s].stdin /\ w.stdout = worker[s].stdout
  BY <1>1, <1>2 DEF WorkerStates
<1>5. exits \in 0..MaxExits /\ exits < MaxExits /\ exits' = exits + 1 /\ UNCHANGED <<nextSlot, lock, evaluation>>
  BY DEF Exit, WorkersInv, WorkersTypeOK
<1>6. exits' \in 0..MaxExits
  BY <1>5
<1>7. InStep(s) => InStep(s)'
  BY <1>3, <1>4, <1>5 DEF InStep
<1> QED BY <1>3, <1>5, <1>6, <1>7, WorkerKeepsInv

\* So every step keeps the invariant of the workers.
LEMMA NextKeepsInv == WorkersInv /\ [WorkersNext]_workerVars => WorkersInv'
<1> SUFFICES ASSUME WorkersInv, [WorkersNext]_workerVars PROVE WorkersInv'
  OBVIOUS
<1>1. CASE UNCHANGED workerVars
  <2> USE <1>1 DEF workerVars
  <2>1. WorkersTypeOK'
    BY DEF WorkersInv, WorkersTypeOK
  <2>2. LockIsHeld' /\ \A r \in Slots : Given(r)' <=> Given(r)
    BY DEF WorkersInv, LockIsHeld, Exchanges, Given
  <2>3. \A r \in Slots : InStep(r)' <=> InStep(r)
    BY DEF InStep
  <2>4. \A e \in Evaluations : evaluation[e].slot \in Slots
    BY DEF WorkersInv, WorkersTypeOK
  <2> QED BY <2>1, <2>2, <2>3, <2>4 DEF WorkersInv, NothingIsLeftOver, OwnAnswer
<1>2. ASSUME NEW e \in Evaluations, ReadEnd(e) PROVE WorkersInv'
  <2>1. Exchanges(e) /\ evaluation[e].slot \in Slots
    BY <1>2 DEF ReadEnd, Exchanges, WorkersInv, WorkersTypeOK
  <2> QED BY <1>2, <2>1, TerminateKeepsInv DEF ReadEnd
<1>3. ASSUME NEW e \in Evaluations, WallTimeout(e) PROVE WorkersInv'
  <2>1. Exchanges(e) /\ evaluation[e].slot \in Slots
    BY <1>3 DEF WallTimeout, Exchanges, WorkersInv, WorkersTypeOK
  <2> QED BY <1>3, <2>1, TerminateKeepsInv DEF WallTimeout
<1> QED
  BY <1>1, <1>2, <1>3, RequestKeepsInv, LockKeepsInv, WriteLineKeepsInv, ReadLineKeepsInv, GiveUpKeepsInv,
     ServeKeepsInv, ExitKeepsInv DEF WorkersNext

\* The invariant of the workers' lines and locks holds throughout
\* (LuauRuntime::request takes a slot's lock for the whole exchange).
THEOREM WorkersInvariant == WorkersSpec => []WorkersInv
BY InitKeepsInv, NextKeepsInv, PTL DEF WorkersSpec

\* An evaluation is answered with what a worker made of another one's request
\* only on a slot where a caller gave up in the middle of an exchange
\* (LuauRuntime::request, exchange and terminate).
THEOREM OnlyAbandonedExchangesMislead == WorkersSpec => []OnlyTheGivenUpMislead
<1>1. WorkersInv => OnlyTheGivenUpMislead
  BY DEF WorkersInv, OwnAnswer, Given, OnlyTheGivenUpMislead
<1> QED BY <1>1, WorkersInvariant, PTL

(* ------------------------------- Listings ------------------------------- *)

\* The orders that the listings walk in.
Orders == {"id_desc", "id_asc", "created_at_desc", "created_at_asc", "expires_at_asc"}

\* Finitely many rows, of different ids.
Tabular(R) == R \in SUBSET Row /\ IsFiniteSet(R) /\ \A r \in R, o \in R : r.id = o.id => r = o

\* An order of a listing puts any two rows of different ids one after the other.
LEMMA OrderIsTotal ==
    ASSUME NEW order \in Orders, NEW r \in Row, NEW o \in Row
    PROVE  /\ Precedes(order, r, o) \in BOOLEAN
           /\ ~Precedes(order, r, r)
           /\ Precedes(order, r, o) => ~Precedes(order, o, r)
           /\ r.id # o.id => Precedes(order, r, o) \/ Precedes(order, o, r)
           /\ \A q \in Row : Precedes(order, r, o) /\ Precedes(order, o, q) => Precedes(order, r, q)
<1> USE ListingConstants
<1>1. \A q \in Row : q.id \in Nat /\ q.created \in Nat /\ q.expires \in Nat
  <2>1. \A q \in Row : q.id \in Ids /\ q.created \in Dates /\ q.expires \in Dates \cup {0}
    BY DEF Row
  <2>2. Ids \subseteq Nat /\ Dates \cup {0} \subseteq Nat
    OBVIOUS
  <2> QED BY <2>1, <2>2
<1>2. CASE order = "id_desc"
  BY <1>1, <1>2 DEF Precedes
<1>3. CASE order = "id_asc"
  BY <1>1, <1>3 DEF Precedes
<1>4. CASE order = "created_at_desc"
  BY <1>1, <1>4 DEF Precedes
<1>5. CASE order = "created_at_asc"
  BY <1>1, <1>5 DEF Precedes
<1>6. CASE order = "expires_at_asc"
  BY <1>1, <1>6 DEF Precedes
<1> QED BY <1>2, <1>3, <1>4, <1>5, <1>6 DEF Orders

\* Of a set of rows, one is the first.
LEMMA FirstRow ==
    ASSUME NEW order \in Orders, NEW R, Tabular(R), R # {}
    PROVE  \E m \in R : \A o \in R \ {m} : Precedes(order, m, o)
<1> DEFINE Pre(r) == {o \in R : Precedes(order, o, r)}
           N == {Cardinality(Pre(r)) : r \in R}
<1>1. \A r \in R : IsFiniteSet(Pre(r)) /\ Cardinality(Pre(r)) \in Nat
  BY FS_Subset, FS_CardinalityType DEF Tabular
<1>2. N \in SUBSET Nat /\ N # {}
  BY <1>1
<1>3. PICK n \in N : \A k \in N : n <= k
  <2> HIDE DEF N
  <2> QED BY <1>2, LeastNumber
<1>4. PICK m \in R : n = Cardinality(Pre(m))
  OBVIOUS
<1>5. ASSUME NEW o \in R \ {m}, ~Precedes(order, m, o) PROVE FALSE
  <2>1. Precedes(order, o, m)
    BY <1>5, OrderIsTotal DEF Tabular
  <2>2. Pre(o) \subseteq Pre(m) /\ o \in Pre(m) /\ o \notin Pre(o)
    BY <2>1, OrderIsTotal DEF Tabular
  <2>3. Cardinality(Pre(o)) <= Cardinality(Pre(m)) /\ Cardinality(Pre(o)) # Cardinality(Pre(m))
    <3> HIDE DEF Pre
    <3> QED BY <1>1, <2>2, FS_Subset
  <2>4. n <= Cardinality(Pre(o))
    BY <1>3
  <2> HIDE DEF Pre, N
  <2> QED BY <1>1, <1>4, <2>3, <2>4
<1> QED BY <1>5

\* And one is the last.
LEMMA LastRow ==
    ASSUME NEW order \in Orders, NEW R, Tabular(R), R # {}
    PROVE  \E m \in R : \A o \in R \ {m} : Precedes(order, o, m)
<1> DEFINE Suc(r) == {o \in R : Precedes(order, r, o)}
           N == {Cardinality(Suc(r)) : r \in R}
<1>1. \A r \in R : IsFiniteSet(Suc(r)) /\ Cardinality(Suc(r)) \in Nat
  BY FS_Subset, FS_CardinalityType DEF Tabular
<1>2. N \in SUBSET Nat /\ N # {}
  BY <1>1
<1>3. PICK n \in N : \A k \in N : n <= k
  <2> HIDE DEF N
  <2> QED BY <1>2, LeastNumber
<1>4. PICK m \in R : n = Cardinality(Suc(m))
  OBVIOUS
<1>5. ASSUME NEW o \in R \ {m}, ~Precedes(order, o, m) PROVE FALSE
  <2>1. Precedes(order, m, o)
    BY <1>5, OrderIsTotal DEF Tabular
  <2>2. Suc(o) \subseteq Suc(m) /\ o \in Suc(m) /\ o \notin Suc(o)
    BY <2>1, OrderIsTotal DEF Tabular
  <2>3. Cardinality(Suc(o)) <= Cardinality(Suc(m)) /\ Cardinality(Suc(o)) # Cardinality(Suc(m))
    <3> HIDE DEF Suc
    <3> QED BY <1>1, <2>2, FS_Subset
  <2>4. n <= Cardinality(Suc(o))
    BY <1>3
  <2> HIDE DEF Suc, N
  <2> QED BY <1>1, <1>4, <2>3, <2>4
<1> QED BY <1>5

\* The last row of a page, which its cursor names, is its last in the order.
LEMMA FinalIsLast ==
    ASSUME NEW order \in Orders, NEW R, Tabular(R), R # {}
    PROVE  Final(R, order) \in R /\ \A o \in R \ {Final(R, order)} : Precedes(order, o, Final(R, order))
BY LastRow DEF Final

\* A page has the first n rows: all there are, or n of them.
LEMMA TopIsFirst ==
    ASSUME NEW order \in Orders, NEW R, Tabular(R), NEW n \in Nat
    PROVE  /\ Tabular(Top(R, order, n)) /\ Top(R, order, n) \subseteq R
           /\ Cardinality(Top(R, order, n)) \in Nat /\ Cardinality(Top(R, order, n)) <= n
           /\ Cardinality(Top(R, order, n)) < n => Top(R, order, n) = R
           /\ \A r \in Top(R, order, n), o \in R \ Top(R, order, n) : Precedes(order, r, o)
<1> DEFINE T == Top(R, order, n)
           Pre(r) == {o \in R : Precedes(order, o, r)}
<1>1. T \subseteq R /\ \A r \in R : r \in T <=> Cardinality(Pre(r)) < n
  BY DEF Top
<1>2. \A r \in R : IsFiniteSet(Pre(r)) /\ Cardinality(Pre(r)) \in Nat
  BY FS_Subset, FS_CardinalityType DEF Tabular
<1>3. Tabular(T) /\ IsFiniteSet(T) /\ Cardinality(T) \in Nat
  <2> HIDE DEF T
  <2> QED BY <1>1, FS_Subset, FS_CardinalityType DEF Tabular
<1>4. \A r \in R, o \in R : Precedes(order, o, r) => Pre(o) \subseteq Pre(r)
  BY OrderIsTotal DEF Tabular
<1>5. ASSUME NEW r \in T, NEW o \in R, Precedes(order, o, r) PROVE o \in T
  <2>1. Cardinality(Pre(o)) <= Cardinality(Pre(r)) /\ Cardinality(Pre(r)) < n /\ r \in R
    <3>1. r \in R /\ Pre(o) \subseteq Pre(r)
      BY <1>1, <1>4, <1>5
    <3>2. Cardinality(Pre(r)) < n
      BY <1>1, <3>1
    <3> HIDE DEF Pre
    <3> QED BY <1>2, <3>1, <3>2, FS_Subset
  <2> HIDE DEF T, Pre
  <2> QED BY <1>1, <1>2, <2>1
<1>6. \A r \in T, o \in R \ T : Precedes(order, r, o)
  <2> SUFFICES ASSUME NEW r \in T, NEW o \in R \ T PROVE Precedes(order, r, o)
    OBVIOUS
  <2>1. ~Precedes(order, o, r) /\ r \in R /\ r # o
    BY <1>1, <1>5
  <2>2. r \in Row /\ o \in Row /\ r.id # o.id
    BY <2>1 DEF Tabular
  <2> QED BY <2>1, <2>2, OrderIsTotal
<1>7. ASSUME T # R PROVE n <= Cardinality(T)
  <2>1. Tabular(R \ T) /\ R \ T # {}
    <3>1. IsFiniteSet(R \ T)
      BY FS_Subset DEF Tabular
    <3> HIDE DEF T
    <3> QED BY <1>1, <1>7, <3>1 DEF Tabular
  <2>2. PICK m \in R \ T : \A o \in (R \ T) \ {m} : Precedes(order, m, o)
    <3> HIDE DEF T
    <3> QED BY <2>1, FirstRow
  <2>3. Pre(m) \subseteq T
    BY <2>2, OrderIsTotal DEF Tabular
  <2>4. Cardinality(Pre(m)) <= Cardinality(T)
    <3> HIDE DEF T, Pre
    <3> QED BY <1>3, <2>3, FS_Subset
  <2>5. ~(Cardinality(Pre(m)) < n)
    BY <1>1
  <2> HIDE DEF T, Pre
  <2> QED BY <1>2, <1>3, <2>4, <2>5
<1>8. Cardinality(T) <= n
  <2>1. CASE T = {}
    <3> HIDE DEF T
    <3> QED BY <2>1, FS_EmptySet
  <2>2. CASE T # {}
    <3>1. PICK m \in T : \A o \in T \ {m} : Precedes(order, o, m)
      <4> HIDE DEF T
      <4> QED BY <1>3, <2>2, LastRow
    <3>2. T \ {m} \subseteq Pre(m) /\ Cardinality(Pre(m)) < n /\ m \in R
      BY <1>1, <3>1
    <3>3. Cardinality(T \ {m}) = Cardinality(T) - 1
      <4> HIDE DEF T
      <4> QED BY <1>3, FS_RemoveElement
    <3>4. Cardinality(T \ {m}) <= Cardinality(Pre(m))
      <4> HIDE DEF T, Pre
      <4> QED BY <1>2, <3>2, FS_Subset
    <3> HIDE DEF T, Pre
    <3> QED BY <1>2, <1>3, <3>2, <3>3, <3>4
  <2> QED BY <2>1, <2>2
<1>9. Cardinality(T) < n => T = R
  <2> HIDE DEF T
  <2> QED BY <1>3, <1>7
<1> HIDE DEF T
<1>10. /\ Tabular(T) /\ T \subseteq R /\ Cardinality(T) \in Nat /\ Cardinality(T) <= n
       /\ Cardinality(T) < n => T = R
       /\ \A r \in T, o \in R \ T : Precedes(order, r, o)
  BY <1>1, <1>3, <1>6, <1>8, <1>9
<1> QED BY <1>10 DEF T

\* What a page leaves is past its cursor.
Leaves(order, R, got) ==
    /\ got.rows \subseteq R /\ got.next \in R \cup {Absent}
    /\ \A r \in R : r \in got.rows \/ (got.next # Absent /\ Precedes(order, got.next, r))

\* A page that was full has a cursor, and what it did not list is past it.
LEMMA FullLeaves ==
    ASSUME NEW order \in Orders, NEW R, Tabular(R), Absent \notin R, NEW n \in Nat \ {0}
    PROVE  Leaves(order, R, Full(R, order, n, n))
<1> DEFINE top == Top(R, order, n)
<1>1. /\ Tabular(top) /\ top \subseteq R /\ Cardinality(top) \in Nat /\ Cardinality(top) <= n
      /\ Cardinality(top) < n => top = R
      /\ \A r \in top, o \in R \ top : Precedes(order, r, o)
  BY TopIsFirst
<1>2. Full(R, order, n, n) = [rows |-> top, next |-> IF Cardinality(top) = n THEN Final(top, order) ELSE Absent]
  BY DEF Full
<1> HIDE DEF top
<1>3. CASE Cardinality(top) = n
  <2>1. top # {}
    BY <1>3, FS_EmptySet
  <2>2. Final(top, order) \in top
    BY <1>1, <2>1, FinalIsLast
  <2> QED BY <1>1, <1>2, <1>3, <2>2 DEF Leaves
<1>4. CASE Cardinality(top) # n
  BY <1>1, <1>2, <1>4 DEF Leaves
<1> QED BY <1>3, <1>4

\* A page read with one row more has a cursor if there was one more, and what it
\* did not list is past it.
LEMMA PeekLeaves ==
    ASSUME NEW order \in Orders, NEW R, Tabular(R), Absent \notin R, NEW n \in Nat \ {0}
    PROVE  Leaves(order, R, Peek(R, order, n, n + 1))
<1> DEFINE read == Top(R, order, n + 1)
           top == Top(read, order, n)
<1>1. /\ Tabular(read) /\ read \subseteq R /\ Cardinality(read) \in Nat
      /\ Cardinality(read) < n + 1 => read = R
      /\ \A r \in read, o \in R \ read : Precedes(order, r, o)
  BY TopIsFirst
<1>2. /\ Tabular(top) /\ top \subseteq read /\ Cardinality(top) \in Nat /\ Cardinality(top) <= n
      /\ Cardinality(top) < n => top = read
      /\ \A r \in top, o \in read \ top : Precedes(order, r, o)
  <2> HIDE DEF read
  <2> QED BY <1>1, TopIsFirst
<1>3. Peek(R, order, n, n + 1) = [rows |-> top, next |-> IF Cardinality(read) > n THEN Final(top, order) ELSE Absent]
  BY DEF Peek
<1> HIDE DEF top, read
<1>4. CASE Cardinality(read) > n
  <2>1. top # {}
    BY <1>2, <1>4, FS_EmptySet
  <2>2. Final(top, order) \in top
    BY <1>2, <2>1, FinalIsLast
  <2> QED BY <1>1, <1>2, <1>3, <1>4, <2>2 DEF Leaves
<1>5. CASE ~(Cardinality(read) > n)
  <2>1. read = R
    BY <1>1, <1>5
  <2>2. top = read
    <3>1. ASSUME top # read PROVE FALSE
      <4>1. Cardinality(top) = n /\ Cardinality(top) <= Cardinality(read) /\ Cardinality(top) # Cardinality(read)
        BY <1>1, <1>2, <3>1, FS_Subset DEF Tabular
      <4> QED BY <1>1, <1>5, <4>1
    <3> QED BY <3>1
  <2> QED BY <1>3, <1>5, <2>1, <2>2 DEF Leaves
<1> QED BY <1>4, <1>5

\* The order in which a listing is walked through.
OrderOf(k) == IF k.list \in {"fixtures", "evidence"} THEN "id_asc" ELSE k.sort

\* A report lists the events of its snapshot, any other listing every row.
WalksOver(k, r) == k.list = "evidence" => r.id \in FirstOf..LastOf

\* The rows past a cursor in an order.
Later(order, R, c) == {r \in R : c = Absent \/ Precedes(order, c, r)}

\* The conditions that continue a listing are its orders.
LEMMA PastIsLater ==
    ASSUME NEW c \in Row \cup {Absent}, NEW R \in SUBSET Row
    PROVE  /\ \A order \in Orders \ {"id_asc"} : {r \in R : Past(order, c, r)} = Later(order, R, c)
           /\ BeforeId(R, c) = Later("id_desc", R, c) /\ AfterId(R, c) = Later("id_asc", R, c)
<1> USE ListingConstants
<1>1. \A q \in Row : q.id \in Nat /\ q.created \in Nat /\ q.expires \in Nat
  <2>1. \A q \in Row : q.id \in Ids /\ q.created \in Dates /\ q.expires \in Dates \cup {0}
    BY DEF Row
  <2>2. Ids \subseteq Nat /\ Dates \cup {0} \subseteq Nat
    OBVIOUS
  <2> QED BY <2>1, <2>2
<1>2. BeforeId(R, c) = Later("id_desc", R, c) /\ AfterId(R, c) = Later("id_asc", R, c)
  BY <1>1 DEF BeforeId, AfterId, Later, Precedes
<1>3. ASSUME NEW order \in Orders \ {"id_asc"}, NEW r \in R, c # Absent
      PROVE Past(order, c, r) <=> Precedes(order, c, r)
  <2>1. c.id \in Nat /\ c.created \in Nat /\ c.expires \in Nat /\ r.id \in Nat /\ r.created \in Nat /\ r.expires \in Nat
    BY <1>1, <1>3
  <2>2. CASE order = "id_desc"
    BY <1>3, <2>1, <2>2 DEF Past, Precedes
  <2>3. CASE order = "created_at_desc"
    BY <1>3, <2>1, <2>3 DEF Past, Precedes, PastNewest
  <2>4. CASE order = "created_at_asc"
    BY <1>3, <2>1, <2>4 DEF Past, Precedes, PastOldest
  <2>5. CASE order = "expires_at_asc"
    BY <1>3, <2>1, <2>5 DEF Past, Precedes, PastExpiry
  <2> QED BY <2>2, <2>3, <2>4, <2>5 DEF Orders
<1>4. ASSUME NEW order \in Orders \ {"id_asc"}
      PROVE {r \in R : Past(order, c, r)} = Later(order, R, c)
  <2>1. CASE c = Absent
    BY <2>1 DEF Past, Later
  <2>2. CASE c # Absent
    BY <1>3, <2>2 DEF Later
  <2> QED BY <2>1, <2>2
<1> QED BY <1>2, <1>4

\* A page has at least one row, and as many as it was asked for up to the most.
LEMMA Clamped ==
    ASSUME NEW n \in Nat
    PROVE  /\ Clamp(n) \in Nat \ {0}
           /\ n <= MaxPage => Clamp(n) = IF n < 1 THEN 1 ELSE n
BY ListingConstants DEF Clamp

\* A walk whose listing is sound: every row that is wanted and past the cursor
\* is on the page, or past its cursor.
LEMMA AnswerLeaves ==
    ASSUME NEW k \in Kinds, NEW n \in Nat, Sound(k, n), NEW R, Tabular(R), Absent \notin R,
           NEW c \in Row \cup {Absent}
    PROVE  LET got == Answer(k, R, c, n)
           IN  /\ got.rows \subseteq R /\ got.next \in R \cup {Absent}
               /\ \A r \in Later(OrderOf(k), R, c) :
                     WalksOver(k, r) => r \in got.rows \/ (got.next # Absent /\ Precedes(OrderOf(k), got.next, r))
<1> DEFINE order == OrderOf(k)
           rest == Later(order, R, c)
           got == Answer(k, R, c, n)
           m == Clamp(n)
           Good == /\ got.rows \subseteq R /\ got.next \in R \cup {Absent}
                   /\ \A r \in rest :
                         WalksOver(k, r) => r \in got.rows \/ (got.next # Absent /\ Precedes(order, got.next, r))
<1> SUFFICES Good
  OBVIOUS
<1>1. /\ k.list \in Simple => k.sort = "id_desc"
      /\ k.list \in Simple \cup {"restrictions", "records"} /\ k.sort \in Sorts \cup {"id_desc"}
      /\ k.list = "records" => k.sort \in Sorts
  <2>1. ASSUME NEW l \in Simple \cup {"restrictions"}, k = [list |-> l, sort |-> "id_desc"]
        PROVE k.list = l /\ k.sort = "id_desc"
    BY <2>1
  <2>2. ASSUME NEW l \in {"restrictions", "records"}, NEW s \in Sorts, k = [list |-> l, sort |-> s]
        PROVE k.list = l /\ k.sort = s
    BY <2>2
  <2>3. "records" \notin Simple /\ "restrictions" \notin Simple
    BY DEF Simple
  <2>4. \/ \E l \in Simple \cup {"restrictions"} : k.list = l /\ k.sort = "id_desc"
        \/ \E l \in {"restrictions", "records"}, s \in Sorts : k.list = l /\ k.sort = s
    BY <2>1, <2>2 DEF Kinds
  <2> QED BY <2>3, <2>4
<1>2. order \in Orders
  BY <1>1 DEF OrderOf, Orders, Sorts
<1>3. \A S \in SUBSET R : Tabular(S) /\ Absent \notin S
  BY FS_Subset DEF Tabular
<1>4. rest \in SUBSET R /\ R \in SUBSET Row
  BY DEF Later, Tabular
<1>5. m \in Nat \ {0}
  BY Clamped
<1>6. k.list \notin {"review items", "staff requests"}
  BY DEF Sound
<1>7. BeforeId(R, c) = Later("id_desc", R, c) /\ AfterId(R, c) = Later("id_asc", R, c)
  BY <1>4, PastIsLater
<1>8. ASSUME Leaves(order, rest, got) PROVE Good
  BY <1>4, <1>8 DEF Leaves
<1>9. Leaves(order, rest, Full(rest, order, m, m)) /\ Leaves(order, rest, Peek(rest, order, m, m + 1))
  <2> HIDE DEF order, rest, m
  <2> QED BY <1>2, <1>3, <1>4, <1>5, FullLeaves, PeekLeaves
<1>10. CASE k.list \in Simple \ {"fixtures", "evidence", "versions", "review items", "staff requests"}
  <2>1. order = "id_desc" /\ got = ById(R, c, n)
    BY <1>1, <1>10 DEF OrderOf, Answer, Simple, ListInfractions, ListUserInfractions, ListExecutionTraces,
       ListReports, ListAppeals, ListNsfwOverrides, ListPolicyBundles
  <2>2. got = Full(rest, order, m, m)
    BY <1>7, <2>1 DEF ById
  <2> QED BY <1>8, <1>9, <2>2
<1>11. CASE k.list = "versions"
  <2>1. order = "id_desc" /\ n <= MaxPage /\ got = ListPolicyVersions(R, c, n)
    BY <1>1, <1>11 DEF OrderOf, Answer, Sound, Simple
  <2>2. got = Full(rest, order, m, m)
    BY <1>7, <2>1, Clamped DEF ListPolicyVersions
  <2> QED BY <1>8, <1>9, <2>2
<1>12. CASE k.list = "fixtures"
  <2>1. order = "id_asc" /\ got = ListPolicyFixtures(R, c, n)
    BY <1>12 DEF OrderOf, Answer
  <2>2. got = Full(rest, order, m, m)
    BY <1>7, <2>1 DEF ListPolicyFixtures
  <2> QED BY <1>8, <1>9, <2>2
<1>13. CASE k.list = "restrictions"
  <2>1. /\ order = k.sort /\ order # "id_asc" /\ m < MaxPage
        /\ got = ListRestrictions(R, k.sort, c, n)
    BY <1>1, <1>13 DEF OrderOf, Answer, Sound, Sorts
  <2>2. {r \in R : Past(order, c, r)} = rest
    BY <1>2, <1>4, <2>1, PastIsLater
  <2>3. (IF m + 1 > MaxPage THEN MaxPage ELSE m + 1) = m + 1
    <3> HIDE DEF m
    <3> QED BY <1>5, <2>1, ListingConstants
  <2>4. got = Peek(rest, order, m, m + 1)
    BY <2>1, <2>2, <2>3 DEF ListRestrictions
  <2> QED BY <1>8, <1>9, <2>4
<1>14. CASE k.list = "records"
  <2>1. order = k.sort /\ order # "id_asc" /\ got = ListModerationRecords(R, k.sort, c, n)
    BY <1>1, <1>14 DEF OrderOf, Answer, Sorts
  <2>2. {r \in R : Past(order, c, r)} = rest
    BY <1>2, <1>4, <2>1, PastIsLater
  <2>3. got = Peek(rest, order, m, m + 1)
    BY <2>1, <2>2 DEF ListModerationRecords
  <2> QED BY <1>8, <1>9, <2>3
<1>15. CASE k.list = "evidence"
  <2> DEFINE events == {r \in rest : r.id \in FirstOf..LastOf}
             all == Full(events, "id_asc", m, m)
  <2>1. order = "id_asc" /\ got = ListReportEvidence(R, c, n)
    BY <1>15 DEF OrderOf, Answer
  <2>2. got = IF all.next # Absent /\ all.next.id >= LastOf THEN [rows |-> all.rows, next |-> Absent] ELSE all
    BY <1>7, <2>1 DEF ListReportEvidence
  <2>3. events \in SUBSET R
    BY <1>4
  <2>4. Leaves(order, events, all)
    <3> HIDE DEF order, events, m
    <3> QED BY <1>2, <1>3, <1>5, <2>1, <2>3, FullLeaves
  <2>5. \A r \in rest : WalksOver(k, r) => r \in events
    BY <1>15 DEF WalksOver
  <2> HIDE DEF all, events, got, rest
  <2>6. CASE all.next # Absent /\ all.next.id >= LastOf
    <3>1. got.rows = all.rows /\ got.next = Absent /\ all.next \in events
      BY <2>2, <2>4, <2>6 DEF Leaves
    <3>2. ASSUME NEW r \in events PROVE r \in all.rows
      <4>1. ASSUME Precedes("id_asc", all.next, r) PROVE FALSE
        <5>1. r.id <= LastOf /\ r.id \in Nat /\ all.next.id \in Nat /\ all.next.id < r.id
          BY <1>4, <2>3, <3>1, <3>2, <4>1, ListingConstants DEF Row, Precedes, events
        <5> QED BY <2>6, <5>1, ListingConstants
      <4> QED BY <2>1, <2>4, <3>2, <4>1 DEF Leaves
    <3> QED BY <2>3, <2>4, <2>5, <3>1, <3>2 DEF Leaves
  <2>7. CASE ~(all.next # Absent /\ all.next.id >= LastOf)
    <3>1. got = all
      BY <2>2, <2>7
    <3> QED BY <2>3, <2>4, <2>5, <3>1 DEF Leaves
  <2> QED BY <2>6, <2>7
<1> QED BY <1>1, <1>6, <1>10, <1>11, <1>12, <1>13, <1>14, <1>15 DEF Simple

\* Tables of rows under their ids.
Tables == {t \in [Ids -> Row \cup {Absent}] : \A i \in Ids : t[i] # Absent => t[i] \in Row /\ t[i].id = i}

\* What a walk knows: the listing, its size, and the row its cursor names.
ListingTypeOK ==
    /\ table \in Tables
    /\ steady \subseteq Ids
    /\ walk = [kind |-> walk.kind, size |-> walk.size, cursor |-> walk.cursor, open |-> walk.open]
    /\ walk.kind # Absent => walk.kind \in Kinds /\ walk.size \in Nat
    /\ walk.kind # Absent /\ Sound(walk.kind, walk.size) => walk.cursor \in Row \cup {Absent}
    /\ walk.open <=> walk.cursor # Absent

\* A row that stays as it was is listed, or past the cursor of the walk.
NothingIsSkipped ==
    walk.kind # Absent /\ Sound(walk.kind, walk.size) =>
        \A i \in steady :
            /\ table[i] # Absent /\ table[i].matches
            /\ WalksOver(walk.kind, table[i]) =>
                 \/ \E r \in seen : r.id = i
                 \/ walk.open /\ Precedes(OrderOf(walk.kind), walk.cursor, table[i])

\* The inductive invariant of the walks.
ListingIInv == ListingTypeOK /\ NothingIsSkipped

\* The rows that match are finitely many, of different ids.
LEMMA MatchingRows ==
    ASSUME table \in Tables
    PROVE  /\ Tabular(Matching) /\ Absent \notin Matching
           /\ \A r : r \in Matching <=> \E i \in Ids : table[i] # Absent /\ table[i].matches /\ r = table[i]
<1> DEFINE held == {i \in Ids : table[i] # Absent /\ table[i].matches}
           f == [i \in held |-> table[i]]
<1>1. \A i \in Ids : table[i] # Absent => table[i] \in Row /\ table[i].id = i
  BY DEF Tables
<1>2. \A r : r \in Matching <=> \E i \in held : r = table[i]
  BY DEF Matching, Rows
<1>3. Matching \in SUBSET Row /\ Absent \notin Matching
      /\ \A r \in Matching, o \in Matching : r.id = o.id => r = o
  BY <1>1, <1>2
<1>4. IsFiniteSet(held)
  BY FS_Subset, ListingConstants
<1>5. f \in Surjection(held, Matching)
  BY <1>2 DEF Surjection
<1>6. IsFiniteSet(Matching)
  <2> HIDE DEF held, f
  <2> QED BY <1>4, <1>5, FS_Surjection
<1> QED BY <1>2, <1>3, <1>6 DEF Tabular

\* A page of the walk leaves nothing behind.
LEMMA TurnLeavesNothing ==
    ASSUME ListingTypeOK, NEW k \in Kinds, NEW n \in Nat, NEW c \in Row \cup {Absent}, Turn(k, n, c), table' = table
    PROVE  /\ walk' = [kind |-> k, size |-> n, cursor |-> walk'.cursor, open |-> walk'.open]
           /\ walk'.open <=> walk'.cursor # Absent
           /\ Sound(k, n) =>
                /\ walk'.cursor \in Row \cup {Absent}
                /\ \A i \in Ids :
                     /\ table[i] # Absent /\ table[i].matches /\ WalksOver(k, table[i])
                     /\ c = Absent \/ Precedes(OrderOf(k), c, table[i])
                     => \/ \E r \in page' : r.id = i
                        \/ walk'.open /\ Precedes(OrderOf(k), walk'.cursor, table[i])
<1> DEFINE got == Answer(k, Matching, c, n)
<1>1. page' = got.rows /\ walk' = [kind |-> k, size |-> n, cursor |-> got.next, open |-> got.next # Absent]
  BY DEF Turn
<1>2. /\ Tabular(Matching) /\ Absent \notin Matching
      /\ \A i \in Ids : table[i] # Absent /\ table[i].matches => table[i] \in Matching /\ table[i].id = i
  BY MatchingRows DEF ListingTypeOK, Tables
<1>3. ASSUME Sound(k, n)
      PROVE  /\ got.rows \subseteq Matching /\ got.next \in Matching \cup {Absent}
             /\ \A r \in Later(OrderOf(k), Matching, c) :
                   WalksOver(k, r) => r \in got.rows \/ (got.next # Absent /\ Precedes(OrderOf(k), got.next, r))
  BY <1>2, <1>3, AnswerLeaves
<1> HIDE DEF got
<1>4. walk'.cursor = got.next /\ (walk'.open <=> got.next # Absent)
  BY <1>1
<1>5. ASSUME Sound(k, n)
      PROVE  /\ walk'.cursor \in Row \cup {Absent}
             /\ \A i \in Ids :
                     /\ table[i] # Absent /\ table[i].matches /\ WalksOver(k, table[i])
                     /\ c = Absent \/ Precedes(OrderOf(k), c, table[i])
                     => \/ \E r \in page' : r.id = i
                        \/ walk'.open /\ Precedes(OrderOf(k), walk'.cursor, table[i])
  <2>1. walk'.cursor \in Row \cup {Absent}
    BY <1>2, <1>3, <1>4, <1>5 DEF Tabular
  <2>2. SUFFICES ASSUME NEW i \in Ids, table[i] # Absent, table[i].matches, WalksOver(k, table[i]),
                      c = Absent \/ Precedes(OrderOf(k), c, table[i])
               PROVE  \/ \E r \in page' : r.id = i
                      \/ walk'.open /\ Precedes(OrderOf(k), walk'.cursor, table[i])
    BY <2>1
  <2>3. table[i] \in Later(OrderOf(k), Matching, c) /\ table[i].id = i
    BY <1>2, <2>2 DEF Later
  <2>4. table[i] \in got.rows \/ (got.next # Absent /\ Precedes(OrderOf(k), got.next, table[i]))
    BY <1>3, <1>5, <2>2, <2>3
  <2> QED BY <1>1, <1>4, <2>3, <2>4
<1> QED BY <1>1, <1>4, <1>5

\* A walk starts: what matches is on the first page or past its cursor.
LEMMA StartWalkKeeps ==
    ASSUME ListingIInv, NEW k \in Kinds, NEW n \in Sizes, StartWalk(k, n) PROVE ListingIInv'
<1>1. /\ Turn(k, n, Absent) /\ seen' = page' /\ steady' = IdsOf(Matching) /\ table' = table
      /\ ListingTypeOK /\ n \in Nat
  BY ListingConstants DEF StartWalk, ListingIInv
<1>2. /\ walk' = [kind |-> k, size |-> n, cursor |-> walk'.cursor, open |-> walk'.open]
      /\ walk'.open <=> walk'.cursor # Absent
      /\ Sound(k, n) =>
           /\ walk'.cursor \in Row \cup {Absent}
           /\ \A i \in Ids :
                /\ table[i] # Absent /\ table[i].matches /\ WalksOver(k, table[i])
                => \/ \E r \in page' : r.id = i
                   \/ walk'.open /\ Precedes(OrderOf(k), walk'.cursor, table[i])
  BY <1>1, TurnLeavesNothing
<1>3. /\ steady' \subseteq Ids
      /\ \A i \in steady' : table[i] # Absent /\ table[i].matches
  BY <1>1, MatchingRows DEF ListingTypeOK, Tables, IdsOf
<1>4. walk'.kind = k /\ walk'.size = n
  BY <1>2
<1>5. ListingTypeOK'
  BY <1>1, <1>2, <1>3, <1>4 DEF ListingTypeOK
<1>6. NothingIsSkipped'
  BY <1>1, <1>2, <1>3, <1>4 DEF NothingIsSkipped
<1> QED BY <1>5, <1>6 DEF ListingIInv

\* The next page of a walk lists what its cursor had left, or leaves it again.
LEMMA NextPageKeeps ==
    ASSUME ListingIInv, NextPage PROVE ListingIInv'
<1>1. /\ Turn(walk.kind, walk.size, walk.cursor) /\ seen' = seen \cup page' /\ steady' = steady /\ table' = table
      /\ ListingTypeOK /\ NothingIsSkipped /\ walk.open
  BY DEF NextPage, ListingIInv
<1>2. PICK k, n, c : k = walk.kind /\ n = walk.size /\ c = walk.cursor
  OBVIOUS
<1>3. walk' = [kind |-> k, size |-> n, cursor |-> walk'.cursor, open |-> walk'.open]
      /\ (walk'.open <=> walk'.cursor # Absent)
  <2>1. walk' = [kind |-> k, size |-> n, cursor |-> Answer(k, Matching, c, n).next,
                 open |-> Answer(k, Matching, c, n).next # Absent]
    BY <1>1, <1>2 DEF Turn
  <2> QED BY <2>1
<1>4. walk'.kind = k /\ walk'.size = n
  BY <1>3
<1>5. ASSUME k # Absent, Sound(k, n)
      PROVE  /\ walk'.cursor \in Row \cup {Absent}
             /\ \A i \in Ids :
                     /\ table[i] # Absent /\ table[i].matches /\ WalksOver(k, table[i])
                     /\ c = Absent \/ Precedes(OrderOf(k), c, table[i])
                     => \/ \E r \in page' : r.id = i
                        \/ walk'.open /\ Precedes(OrderOf(k), walk'.cursor, table[i])
  <2>1. k \in Kinds /\ n \in Nat /\ c \in Row \cup {Absent}
    BY <1>1, <1>2, <1>5 DEF ListingTypeOK
  <2>2. Turn(k, n, c)
    BY <1>1, <1>2
  <2> QED BY <1>1, <1>5, <2>1, <2>2, TurnLeavesNothing
<1>6. ListingTypeOK'
  BY <1>1, <1>2, <1>3, <1>4, <1>5 DEF ListingTypeOK
<1>7. NothingIsSkipped'
  <2> SUFFICES ASSUME k # Absent, Sound(k, n), NEW i \in steady
               PROVE  /\ table[i] # Absent /\ table[i].matches
                      /\ WalksOver(k, table[i]) =>
                           \/ \E r \in seen' : r.id = i
                           \/ walk'.open /\ Precedes(OrderOf(k), walk'.cursor, table[i])
    BY <1>1, <1>4 DEF NothingIsSkipped
  <2>1. /\ table[i] # Absent /\ table[i].matches /\ i \in Ids
        /\ WalksOver(k, table[i]) => \/ \E r \in seen : r.id = i
                                  \/ Precedes(OrderOf(k), c, table[i])
    BY <1>1, <1>2 DEF NothingIsSkipped, ListingTypeOK
  <2> QED BY <1>1, <1>5, <2>1
<1> QED BY <1>6, <1>7 DEF ListingIInv

\* A write leaves the steady rows, all but the one it writes, where they are.
LEMMA WriteKeeps ==
    ASSUME ListingIInv, NEW i \in Ids, NEW new, new # Absent => new \in Row /\ new.id = i, Write(i, new)
    PROVE  ListingIInv'
<1>1. /\ table' = [table EXCEPT ![i] = new] /\ steady' = steady \ {i} /\ walk' = walk /\ seen' = seen
      /\ ListingTypeOK /\ NothingIsSkipped
  BY DEF Write, ListingIInv
<1>2. table' \in Tables /\ \A j \in Ids \ {i} : table'[j] = table[j]
  BY <1>1 DEF ListingTypeOK, Tables
<1>3. ListingTypeOK'
  BY <1>1, <1>2 DEF ListingTypeOK
<1>4. NothingIsSkipped'
  <2>1. \A j \in steady' : j \in steady /\ table'[j] = table[j]
    BY <1>1, <1>2 DEF ListingTypeOK
  <2> QED BY <1>1, <2>1 DEF NothingIsSkipped
<1> QED BY <1>3, <1>4 DEF ListingIInv

\* Every step of the client and of the writers keeps the invariant.
LEMMA ListingSteps ==
    ASSUME ListingIInv, [ListingNext]_listingVars PROVE ListingIInv'
<1>1. CASE UNCHANGED listingVars
  BY <1>1 DEF listingVars, ListingIInv, ListingTypeOK, NothingIsSkipped
<1>2. ASSUME NEW i \in Ids, AddRow(i) PROVE ListingIInv'
  <2>1. PICK new \in Row : new.id = i /\ Write(i, new)
    BY <1>2 DEF AddRow
  <2> QED BY <2>1, WriteKeeps
<1>3. ASSUME NEW i \in Ids, ChangeRow(i) PROVE ListingIInv'
  <2>1. PICK date \in Dates \cup {0}, m \in BOOLEAN :
             Write(i, [id |-> table[i].id, created |-> table[i].created, expires |-> date,
                       priority |-> table[i].priority, matches |-> m])
    BY <1>3 DEF ChangeRow
  <2>2. table[i] \in Row /\ table[i].id = i
    BY <1>3 DEF ChangeRow, ListingIInv, ListingTypeOK, Tables
  <2>3. PICK new : new = [id |-> table[i].id, created |-> table[i].created, expires |-> date,
                          priority |-> table[i].priority, matches |-> m]
    OBVIOUS
  <2>4. new \in Row /\ new.id = i
    BY <2>2, <2>3 DEF Row
  <2> QED BY <2>1, <2>3, <2>4, WriteKeeps
<1>4. ASSUME NEW i \in Ids, RemoveRow(i) PROVE ListingIInv'
  BY <1>4, WriteKeeps DEF RemoveRow
<1>5. ASSUME NEW k \in Kinds, NEW n \in Sizes, StartWalk(k, n) PROVE ListingIInv'
  BY <1>5, StartWalkKeeps
<1> QED BY <1>1, <1>2, <1>3, <1>4, <1>5, NextPageKeeps DEF ListingNext

\* Before a walk nothing is steady and nothing can have been left out.
LEMMA ListingStarts ==
    ASSUME NEW tables, tables \subseteq Tables, ListingInitWith(tables) PROVE ListingIInv
BY DEF ListingInitWith, NoWalk, ListingIInv, ListingTypeOK, NothingIsSkipped

\* A walk through a paged listing, taken to its end with the cursors it was given
\* (page_cursor, push_restriction_cursor, push_moderation_record_cursor), has
\* listed every row that matched all the time, whatever was added, changed or
\* removed between the pages, for every table of rows, page size and order whose
\* cursor follows the order.
THEOREM SteadyRowsAreNotSkipped ==
    ASSUME NEW tables, tables \subseteq Tables
    PROVE  ListingSpec(tables) => []SteadyRowsAreListed
<1>1. ListingInitWith(tables) => ListingIInv
  BY ListingStarts
<1>2. ListingIInv /\ [ListingNext]_listingVars => ListingIInv'
  BY ListingSteps
<1>3. ListingIInv => SteadyRowsAreListed
  <2> SUFFICES ASSUME ListingIInv, walk.kind # Absent, ~walk.open, Sound(walk.kind, walk.size),
                      NEW i \in steady, walk.kind.list = "evidence" => i \in FirstOf..LastOf
               PROVE  \E r \in seen : r.id = i
    BY DEF SteadyRowsAreListed
  <2>1. table[i] # Absent /\ table[i].id = i
    BY DEF ListingIInv, ListingTypeOK, NothingIsSkipped, Tables
  <2> QED BY <2>1 DEF ListingIInv, NothingIsSkipped, WalksOver
<1> QED BY <1>1, <1>2, <1>3, PTL DEF ListingSpec
===============================================================================
