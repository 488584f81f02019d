-------------------------- MODULE SafetyScoreProofs --------------------------
(***************************************************************************)
(* Proofs about SafetyScore for any subjects, callers, actions, keys and   *)
(* plans, and about CallEvidence for any actions, Lobbies, writers and     *)
(* reports.  The score is a sum over a finite set: facts about it are      *)
(* proved from a smallest set that would violate them.                     *)
(***************************************************************************)
EXTENDS SafetyScore, CallEvidence, FiniteSetTheorems, SequenceTheorems, WellFoundedInduction, TLAPS

-----------------------------------------------------------------------------
(* The score                                                               *)

\* A set of finite sets has a member no member is strictly part of.
LEMMA SmallestSet ==
    ASSUME NEW S, IsFiniteSet(S), NEW B \in SUBSET SUBSET S, B # {}
    PROVE  \E T \in B : \A U \in B : U \subseteq T => U = T
<1>1. IsWellFoundedOn(StrictSubsetOrdering(S), FiniteSubsetsOf(S))
  BY FS_StrictSubsetOrderingWellFounded
<1>2. FiniteSubsetsOf(S) = SUBSET S
  BY FS_FiniteSubsetsOfFinite
<1>3. IsWellFoundedOn(StrictSubsetOrdering(S), SUBSET S)
  BY <1>1, <1>2
<1>4. \E T \in B : \A U \in B : <<U, T>> \notin StrictSubsetOrdering(S)
  BY <1>3, WFMin
<1>5. QED
  BY <1>4 DEF StrictSubsetOrdering

\* The recursion by which a finite set of values is summed up.
Picked(s) == CHOOSE x \in s : TRUE
SumsUp(f, v, T) ==
    /\ DOMAIN f = SUBSET T
    /\ \A s \in SUBSET T : f[s] = IF s = {} THEN 0 ELSE v[Picked(s)] + f[s \ {Picked(s)}]

LEMMA PickedIsIn == \A s : s # {} => Picked(s) \in s
BY DEF Picked

LEMMA OneSum ==
    ASSUME NEW S, IsFiniteSet(S), NEW v, NEW T \in SUBSET S, NEW U \in SUBSET S,
           NEW f, SumsUp(f, v, T), NEW g, SumsUp(g, v, U), NEW s \in SUBSET (T \cap U)
    PROVE  f[s] = g[s]
<1> DEFINE B == {t \in SUBSET (T \cap U) : f[t] # g[t]}
<1> SUFFICES ASSUME B # {} PROVE FALSE
  OBVIOUS
<1>1. PICK t \in B : \A u \in B : u \subseteq t => u = t
  <2>1. B \in SUBSET SUBSET S
    OBVIOUS
  <2> HIDE DEF B
  <2>2. QED BY <2>1, SmallestSet
<1>2. t # {}
  BY <1>1 DEF SumsUp
<1>3. t \ {Picked(t)} \notin B
  BY <1>1, <1>2, PickedIsIn
<1>4. f[t \ {Picked(t)}] = g[t \ {Picked(t)}]
  BY <1>3
<1>5. QED
  BY <1>1, <1>2, <1>4 DEF SumsUp

LEMMA SumExists ==
    ASSUME NEW S, IsFiniteSet(S), NEW v \in [S -> Int]
    PROVE  \E f \in [SUBSET S -> Int] : SumsUp(f, v, S)
<1> DEFINE B == {T \in SUBSET S : ~ \E f \in [SUBSET T -> Int] : SumsUp(f, v, T)}
<1> SUFFICES ASSUME B # {} PROVE FALSE
  OBVIOUS
<1>1. PICK T \in B : \A U \in B : U \subseteq T => U = T
  <2>1. B \in SUBSET SUBSET S
    OBVIOUS
  <2> HIDE DEF B
  <2>2. QED BY <2>1, SmallestSet
<1>2. \A U \in SUBSET T : U # T => \E f \in [SUBSET U -> Int] : SumsUp(f, v, U)
  BY <1>1
<1> DEFINE Part(U) == CHOOSE f \in [SUBSET U -> Int] : SumsUp(f, v, U)
           g == [s \in SUBSET T |-> IF s = T THEN IF T = {} THEN 0
                                                  ELSE v[Picked(T)] + Part(T \ {Picked(T)})[T \ {Picked(T)}]
                                    ELSE Part(s)[s]]
<1>3. \A U \in SUBSET T : U # T => Part(U) \in [SUBSET U -> Int] /\ SumsUp(Part(U), v, U)
  BY <1>2
<1> HIDE DEF Part
<1>4. ASSUME NEW s \in SUBSET T
      PROVE  g[s] \in Int /\ g[s] = IF s = {} THEN 0 ELSE v[Picked(s)] + g[s \ {Picked(s)}]
  <2>1. CASE s = T
    <3>1. CASE T = {}
      BY <2>1, <3>1
    <3>2. CASE T # {}
      <4>1. Picked(T) \in T
        BY <3>2, PickedIsIn
      <4>2. T \ {Picked(T)} \in SUBSET T /\ T \ {Picked(T)} # T
        BY <4>1
      <4>3. Part(T \ {Picked(T)})[T \ {Picked(T)}] \in Int
        <5>1. ASSUME NEW u \in SUBSET T, u # T PROVE Part(u)[u] \in Int
          BY <1>3, <5>1
        <5> HIDE DEF g
        <5>2. QED BY <4>2, <5>1
      <4>4. v[Picked(T)] \in Int
        BY <4>1
      <4>5. g[T \ {Picked(T)}] = Part(T \ {Picked(T)})[T \ {Picked(T)}]
        BY <4>2
      <4>6. QED
        BY <2>1, <3>2, <4>3, <4>4, <4>5
    <3>3. QED BY <3>1, <3>2
  <2>2. CASE s # T
    <3>1. Part(s) \in [SUBSET s -> Int] /\ SumsUp(Part(s), v, s) /\ g[s] = Part(s)[s]
      BY <1>3, <2>2
    <3>2. CASE s = {}
      BY <3>1, <3>2 DEF SumsUp
    <3>3. CASE s # {}
      <4> DEFINE u == s \ {Picked(s)}
      <4>1. Picked(s) \in s
        BY <3>3, PickedIsIn
      <4>2. u \in SUBSET T /\ u # T /\ u \in SUBSET s
        BY <2>2, <4>1
      <4>3. Part(u) \in [SUBSET u -> Int] /\ SumsUp(Part(u), v, u) /\ g[u] = Part(u)[u]
        BY <1>3, <4>2
      <4>4. Part(s)[u] = Part(u)[u]
        <5> HIDE DEF u
        <5>1. s \in SUBSET S /\ u \in SUBSET S /\ u \in SUBSET (s \cap u)
          BY <4>2
        <5>2. SumsUp(Part(s), v, s) /\ SumsUp(Part(u), v, u)
          BY <3>1, <4>3
        <5>3. QED BY <5>1, <5>2, OneSum
      <4>5. g[s] = v[Picked(s)] + Part(s)[u] /\ g[s] \in Int
        BY <3>1, <3>3 DEF SumsUp
      <4>6. QED BY <3>3, <4>3, <4>4, <4>5
    <3>4. QED BY <3>2, <3>3
  <2>3. QED BY <2>1, <2>2
<1>5. g \in [SUBSET T -> Int] /\ SumsUp(g, v, T)
  <2> HIDE DEF g
  <2>1. DOMAIN g = SUBSET T /\ g = [s \in SUBSET T |-> g[s]]
    BY DEF g
  <2>2. QED BY <2>1, <1>4 DEF SumsUp
<1>6. QED
  BY <1>1, <1>5

\* The total of an assessment's observations, as an integer.
LEMMA ScoreTotal ==
    ASSUME NEW tally \in Tallies
    PROVE  \E f \in [SUBSET Sources -> Int] :
              /\ SumsUp(f, [r \in Sources |-> tally[r] * Points[r]], Sources)
              /\ MapThenSumSet(LAMBDA r : tally[r] * Points[r], Sources) = f[Sources]
<1> DEFINE v == [r \in Sources |-> tally[r] * Points[r]]
           iter == CHOOSE h : h = [s \in SUBSET Sources |->
                       IF s = {} THEN 0 ELSE tally[Picked(s)] * Points[Picked(s)] + h[s \ {Picked(s)}]]
<1>1. v \in [Sources -> Int]
  BY SafetyConstants DEF Tallies
<1>2. PICK f \in [SUBSET Sources -> Int] : SumsUp(f, v, Sources)
  BY <1>1, SumExists, SafetyConstants
<1>3. f = [s \in SUBSET Sources |->
              IF s = {} THEN 0 ELSE tally[Picked(s)] * Points[Picked(s)] + f[s \ {Picked(s)}]]
  <2>1. f = [s \in SUBSET Sources |-> f[s]]
    BY <1>2
  <2>2. \A s \in SUBSET Sources :
            f[s] = IF s = {} THEN 0 ELSE tally[Picked(s)] * Points[Picked(s)] + f[s \ {Picked(s)}]
    BY <1>2, PickedIsIn DEF SumsUp
  <2>3. QED BY <2>1, <2>2
<1>4. iter = [s \in SUBSET Sources |->
              IF s = {} THEN 0 ELSE tally[Picked(s)] * Points[Picked(s)] + iter[s \ {Picked(s)}]]
  BY <1>3
<1>5. SumsUp(iter, v, Sources)
  <2> HIDE DEF iter
  <2>1. DOMAIN iter = SUBSET Sources
    BY <1>4
  <2>2. \A s \in SUBSET Sources :
            iter[s] = IF s = {} THEN 0 ELSE tally[Picked(s)] * Points[Picked(s)] + iter[s \ {Picked(s)}]
    BY <1>4
  <2>3. \A s \in SUBSET Sources : s # {} => v[Picked(s)] = tally[Picked(s)] * Points[Picked(s)]
    BY PickedIsIn
  <2>4. QED BY <2>1, <2>2, <2>3 DEF SumsUp
<1>6. iter[Sources] = f[Sources]
  <2> HIDE DEF iter, v
  <2>1. Sources \in SUBSET Sources /\ Sources \in SUBSET (Sources \cap Sources)
    OBVIOUS
  <2>2. QED BY <1>2, <1>5, <2>1, OneSum, SafetyConstants
<1>7. MapThenSumSet(LAMBDA r : tally[r] * Points[r], Sources) = iter[Sources]
  BY DEF MapThenSumSet, MapThenFoldSet, Picked
<1>8. QED
  BY <1>2, <1>6, <1>7

\* calculate_safety_score clamps what it adds up.
LEMMA ScoreRange == ASSUME NEW tally \in Tallies PROVE Score(tally) \in 0..100
<1> DEFINE total == MapThenSumSet(LAMBDA r : tally[r] * Points[r], Sources)
<1>1. total \in Int
  BY ScoreTotal
<1>2. Score(tally) = IF total < 0 THEN 0 ELSE IF total > 100 THEN 100 ELSE total
  BY DEF Score
<1> HIDE DEF total
<1>3. QED
  BY <1>1, <1>2

LEMMA ScoreOfNothing == Nothing \in Tallies /\ Score(Nothing) = 0
<1>1. Nothing \in Tallies
  BY DEF Nothing, Tallies
<1>2. PICK f \in [SUBSET Sources -> Int] :
              /\ SumsUp(f, [r \in Sources |-> Nothing[r] * Points[r]], Sources)
              /\ MapThenSumSet(LAMBDA r : Nothing[r] * Points[r], Sources) = f[Sources]
  BY <1>1, ScoreTotal
<1> DEFINE B == {s \in SUBSET Sources : f[s] # 0}
<1>3. B = {}
  <2> SUFFICES ASSUME B # {} PROVE FALSE
    OBVIOUS
  <2>1. PICK s \in B : \A u \in B : u \subseteq s => u = s
    <3>1. B \in SUBSET SUBSET Sources /\ IsFiniteSet(Sources)
      BY SafetyConstants
    <3> HIDE DEF B
    <3>2. QED BY <3>1, SmallestSet
  <2>2. s # {} /\ Picked(s) \in s
    BY <1>2, <2>1, PickedIsIn DEF SumsUp
  <2>3. f[s \ {Picked(s)}] = 0
    BY <2>1, <2>2
  <2>4. Nothing[Picked(s)] * Points[Picked(s)] = 0
    BY <2>1, <2>2, SafetyConstants DEF Nothing
  <2>5. f[s] = Nothing[Picked(s)] * Points[Picked(s)] + f[s \ {Picked(s)}]
    BY <1>2, <2>1, <2>2 DEF SumsUp
  <2>6. QED BY <2>1, <2>3, <2>4, <2>5
<1>4. f[Sources] = 0
  BY <1>3
<1> DEFINE total == MapThenSumSet(LAMBDA r : Nothing[r] * Points[r], Sources)
<1>5. total = 0
  BY <1>2, <1>4
<1>6. Score(Nothing) = IF total < 0 THEN 0 ELSE IF total > 100 THEN 100 ELSE total
  BY DEF Score
<1> HIDE DEF total
<1>7. QED
  BY <1>1, <1>5, <1>6

-----------------------------------------------------------------------------
(* Scores are current                                                      *)

Phases == {"IDLE", "CLAIM", "MUTATE", "READ", "CONSIDER", "EVALUATE", "ANSWER", "APPLY", "REFUSED", "DONE"}

\* Locks and what is computed under them are of open transactions only.
OutsideIsFree ==
    \A p \in Procs : ~InTx(p) => todo[p] = <<>> /\ \A s \in Subjects : own[p][s] = 0

LocksExclude ==
    \A p \in Procs, q \in Procs, s \in Subjects : Locks(p, s) /\ Locks(q, s) => p = q

\* Under the lock of a subject, the sum is of what is committed and of the
\* transaction's own observations.
SumIsCurrent ==
    \A p \in Procs, s \in Subjects : Locks(p, s) =>
        \A r \in Sources \ lapsed :
            sum[p][s][r] = IF r = Source(p) THEN observed[s][r] + own[p][s] * Adds(p) ELSE observed[s][r]

ScoreIInv == TypeOK /\ OutsideIsFree /\ LocksExclude /\ SumIsCurrent /\ ScoreIsCurrent

LEMMA PhasesNamed == TypeOK => at \in [Procs -> Phases]
BY DEF TypeOK, Phases

LEMMA ScoreStarts == Init => ScoreIInv
<1> SUFFICES ASSUME Init PROVE ScoreIInv
  OBVIOUS
<1>1. Nothing \in Tallies /\ Score(Nothing) = 0
  BY ScoreOfNothing
<1>2. TypeOK
  BY <1>1, SafetyConstants DEF Init, InitWith, TypeOK
<1>3. \A p \in Procs : todo[p] = <<>> /\ \A s \in Subjects : own[p][s] = 0
  BY DEF Init, InitWith
<1>4. \A p \in Procs, s \in Subjects : ~Locks(p, s)
  BY <1>3 DEF Locks
<1>5. OutsideIsFree /\ LocksExclude /\ SumIsCurrent
  BY <1>3, <1>4 DEF OutsideIsFree, LocksExclude, SumIsCurrent
<1>6. ScoreIsCurrent
  BY <1>1 DEF Init, InitWith, ScoreIsCurrent, Nothing
<1>7. QED BY <1>2, <1>5, <1>6 DEF ScoreIInv

\* What a transaction has observed is a number.
LEMMA Gains ==
    ASSUME TypeOK, NEW p \in Procs, NEW s \in Subjects, NEW n \in Nat
    PROVE  Adds(p) \in {0, 1} /\ n * Adds(p) \in Nat /\ 0 * Adds(p) = 0
<1>1. Adds(p) \in {0, 1}
  BY DEF Adds
<1>2. CASE Adds(p) = 0
  BY <1>2
<1>3. CASE Adds(p) = 1
  BY <1>3
<1>4. QED BY <1>1, <1>2, <1>3

LEMMA BeginTyped ==
    ASSUME TypeOK, NEW p \in Procs, NEW phase \in Phases, NEW subjects \in Seq(Subjects),
           Begin(p, phase, subjects),
           claimed' \in [Keys -> Ops \cup {None}], UNCHANGED <<observed, assessment, evaluated, lapsed, counted>>,
           faults' \in Nat
    PROVE  TypeOK'
BY DEF TypeOK, Begin, Phases

LEMMA EndTyped ==
    ASSUME TypeOK, NEW p \in Procs, NEW phase \in Phases, End(p, phase)
    PROVE  /\ at' \in [Procs -> Phases]
           /\ todo' \in [Procs -> Seq(Subjects)]
           /\ waiting' \in SUBSET Procs
           /\ own' \in [Procs -> [Subjects -> Nat]]
           /\ sum' \in [Procs -> [Subjects -> Tallies]]
           /\ seen' \in [Procs -> Nat]
BY ScoreOfNothing DEF TypeOK, End, Phases

\* Only a transaction that has no subject begins.
LEMMA BeginKeeps ==
    ASSUME ScoreIInv, NEW p \in Procs, NEW phase \in Phases, NEW subjects \in Seq(Subjects),
           ~InTx(p), phase \in {"MUTATE", "EVALUATE", "APPLY"} \/ subjects = <<>>,
           Begin(p, phase, subjects), TypeOK',
           UNCHANGED <<observed, assessment, lapsed>>
    PROVE  ScoreIInv'
<1>0. TypeOK /\ OutsideIsFree /\ LocksExclude /\ SumIsCurrent /\ ScoreIsCurrent
  BY DEF ScoreIInv
<1>1. \A s \in Subjects : ~Locks(p, s)
  BY <1>0 DEF OutsideIsFree, Locks
<1>2. own' = own /\ sum' = sum /\ at' = [at EXCEPT ![p] = phase] /\ todo' = [todo EXCEPT ![p] = subjects]
  BY DEF Begin
<1>3. \A q \in Procs \ {p} : at'[q] = at[q] /\ todo'[q] = todo[q] /\ Source(q)' = Source(q) /\ Adds(q)' = Adds(q)
  BY <1>0, <1>2 DEF TypeOK, Source, Adds
<1>4. \A q \in Procs, s \in Subjects : Locks(q, s)' <=> Locks(q, s)
  BY <1>2 DEF Locks
<1>5. OutsideIsFree'
  BY <1>0, <1>2, <1>3 DEF OutsideIsFree, InTx, TypeOK
<1>6. LocksExclude'
  BY <1>0, <1>4 DEF LocksExclude
<1>7. SumIsCurrent'
  BY <1>0, <1>1, <1>2, <1>3, <1>4 DEF SumIsCurrent
<1>8. ScoreIsCurrent'
  BY <1>0 DEF ScoreIsCurrent
<1>9. QED BY <1>5, <1>6, <1>7, <1>8 DEF ScoreIInv

\* A transaction that ends without a commit leaves the rows alone.
LEMMA EndKeeps ==
    ASSUME ScoreIInv, NEW p \in Procs, NEW phase \in Phases \ {"MUTATE", "EVALUATE", "APPLY"},
           End(p, phase), TypeOK', UNCHANGED <<observed, assessment, lapsed>>
    PROVE  ScoreIInv'
<1>0. TypeOK /\ OutsideIsFree /\ LocksExclude /\ SumIsCurrent /\ ScoreIsCurrent
  BY DEF ScoreIInv
<1>1. /\ at' = [at EXCEPT ![p] = phase] /\ todo' = [todo EXCEPT ![p] = <<>>]
      /\ own' = [own EXCEPT ![p] = [s \in Subjects |-> 0]]
      /\ sum' = [sum EXCEPT ![p] = [s \in Subjects |-> Nothing]]
  BY DEF End
<1>2. \A s \in Subjects : ~Locks(p, s)'
  BY <1>0, <1>1 DEF Locks, TypeOK
<1>3. \A q \in Procs \ {p} : /\ at'[q] = at[q] /\ todo'[q] = todo[q] /\ own'[q] = own[q] /\ sum'[q] = sum[q]
                            /\ Source(q)' = Source(q) /\ Adds(q)' = Adds(q)
                            /\ \A s \in Subjects : Locks(q, s)' <=> Locks(q, s)
  BY <1>0, <1>1 DEF TypeOK, Source, Adds, Locks
<1>4. OutsideIsFree'
  BY <1>0, <1>1, <1>3 DEF OutsideIsFree, InTx, TypeOK
<1>5. LocksExclude'
  BY <1>0, <1>2, <1>3 DEF LocksExclude
<1>6. SumIsCurrent'
  BY <1>0, <1>2, <1>3 DEF SumIsCurrent
<1>7. ScoreIsCurrent'
  BY <1>0 DEF ScoreIsCurrent
<1>8. QED BY <1>4, <1>5, <1>6, <1>7 DEF ScoreIInv

\* A commit: the assessments it computed are of exactly what it commits.
LEMMA CommitKeeps ==
    ASSUME ScoreIInv, NEW p \in Procs, NEW phase \in Phases \ {"MUTATE", "EVALUATE", "APPLY"},
           Commit(p), End(p, phase), lapsed' = lapsed,
           claimed' \in [Keys -> Ops \cup {None}], evaluated' \in [Subjects -> SUBSET Nat],
           counted' \in [Keys -> Nat], faults' \in Nat
    PROVE  ScoreIInv'
<1>0. TypeOK /\ OutsideIsFree /\ LocksExclude /\ SumIsCurrent /\ ScoreIsCurrent
  BY DEF ScoreIInv
<1>1. /\ at' = [at EXCEPT ![p] = phase] /\ todo' = [todo EXCEPT ![p] = <<>>]
      /\ own' = [own EXCEPT ![p] = [s \in Subjects |-> 0]]
      /\ sum' = [sum EXCEPT ![p] = [s \in Subjects |-> Nothing]]
  BY DEF End
<1>2. \A s \in Subjects, r \in Sources :
          observed'[s][r] = IF r = Source(p) THEN observed[s][r] + own[p][s] * Adds(p) ELSE observed[s][r]
  BY DEF Commit
<1>3. \A s \in Subjects : assessment'[s] = IF Locks(p, s) THEN Assessed(p, s) ELSE assessment[s]
  BY DEF Commit
<1>4. ASSUME NEW s \in Subjects, ~Locks(p, s)
      PROVE  \A r \in Sources : observed'[s][r] = observed[s][r]
  <2>1. own[p][s] = 0
    BY <1>0, <1>4 DEF Locks, TypeOK
  <2>2. 0 * Adds(p) = 0
    BY <1>0, Gains
  <2>3. \A r \in Sources : observed[s][r] \in Nat
    BY <1>0 DEF TypeOK, Tallies
  <2>4. QED BY <1>2, <2>1, <2>2, <2>3
<1>5. ASSUME NEW s \in Subjects, Locks(p, s)
      PROVE  \A r \in Sources \ lapsed : observed'[s][r] = sum[p][s][r]
  BY <1>0, <1>2, <1>5 DEF SumIsCurrent
<1>6. TypeOK'
  <2>1. observed' \in [Subjects -> Tallies]
    <3>1. \A s \in Subjects : own[p][s] * Adds(p) \in Nat
      BY <1>0, Gains DEF TypeOK
    <3>2. \A s \in Subjects, r \in Sources : observed[s][r] \in Nat
      BY <1>0 DEF TypeOK, Tallies
    <3>3. \A s \in Subjects, r \in Sources :
             (IF r = Source(p) THEN observed[s][r] + own[p][s] * Adds(p) ELSE observed[s][r]) \in Nat
      BY <3>1, <3>2
    <3>4. QED BY <3>3 DEF Commit, Tallies
  <2>2. \A s \in Subjects : Assessed(p, s) \in [version : Nat, score : 0..100, of : Tallies]
    <3> TAKE s \in Subjects
    <3>1. sum[p][s] \in Tallies /\ assessment[s].version + 1 \in Nat
      BY <1>0 DEF TypeOK
    <3>2. Score(sum[p][s]) \in 0..100
      BY <3>1, ScoreRange
    <3>3. QED BY <3>1, <3>2 DEF Assessed
  <2>3. assessment' \in [Subjects -> [version : Nat, score : 0..100, of : Tallies]]
    BY <1>0, <2>2 DEF TypeOK, Commit
  <2>4. /\ at' \in [Procs -> Phases] /\ todo' \in [Procs -> Seq(Subjects)] /\ waiting' \in SUBSET Procs
        /\ own' \in [Procs -> [Subjects -> Nat]] /\ sum' \in [Procs -> [Subjects -> Tallies]]
        /\ seen' \in [Procs -> Nat]
    BY <1>0, phase \in Phases, EndTyped
  <2>5. QED
    BY <1>0, <2>1, <2>3, <2>4 DEF TypeOK, Phases
<1>7. \A s \in Subjects : ~Locks(p, s)'
  BY <1>0, <1>1 DEF Locks, TypeOK
<1>8. \A q \in Procs \ {p} : /\ at'[q] = at[q] /\ todo'[q] = todo[q] /\ own'[q] = own[q] /\ sum'[q] = sum[q]
                            /\ Source(q)' = Source(q) /\ Adds(q)' = Adds(q)
                            /\ \A s \in Subjects : Locks(q, s)' <=> Locks(q, s)
  BY <1>0, <1>1 DEF TypeOK, Source, Adds, Locks
<1>9. OutsideIsFree'
  BY <1>0, <1>1, <1>8 DEF OutsideIsFree, InTx, TypeOK
<1>10. LocksExclude'
  BY <1>0, <1>7, <1>8 DEF LocksExclude
<1>11. SumIsCurrent'
  <2> SUFFICES ASSUME NEW q \in Procs, NEW s \in Subjects, Locks(q, s)', NEW r \in Sources \ lapsed
               PROVE  sum'[q][s][r] = IF r = Source(q)' THEN observed'[s][r] + own'[q][s] * Adds(q)'
                                      ELSE observed'[s][r]
    BY DEF SumIsCurrent
  <2>1. q # p /\ Locks(q, s)
    BY <1>7, <1>8
  <2>2. ~Locks(p, s)
    BY <1>0, <2>1 DEF LocksExclude
  <2>3. observed'[s][r] = observed[s][r]
    BY <1>4, <2>2
  <2>4. QED BY <1>0, <1>8, <2>1, <2>3 DEF SumIsCurrent
<1>12. ScoreIsCurrent'
  <2> SUFFICES ASSUME NEW s \in Subjects
               PROVE  /\ assessment'[s].score = Score(assessment'[s].of)
                      /\ \A r \in Sources \ lapsed : assessment'[s].of[r] = observed'[s][r]
    BY DEF ScoreIsCurrent
  <2>1. CASE Locks(p, s)
    <3>1. assessment'[s] = [version |-> assessment[s].version + 1, score |-> Score(sum[p][s]), of |-> sum[p][s]]
      BY <1>3, <2>1 DEF Assessed
    <3>2. QED BY <1>5, <2>1, <3>1
  <2>2. CASE ~Locks(p, s)
    BY <1>0, <1>3, <1>4, <2>2 DEF ScoreIsCurrent
  <2>3. QED BY <2>1, <2>2
<1>13. QED BY <1>6, <1>9, <1>10, <1>11, <1>12 DEF ScoreIInv

LEMMA ObserveKeeps ==
    ASSUME ScoreIInv, NEW p \in Procs, Observe(p)
    PROVE  ScoreIInv'
<1>0. TypeOK /\ OutsideIsFree /\ LocksExclude /\ SumIsCurrent /\ ScoreIsCurrent
  BY DEF ScoreIInv
<1>1. PICK s \in Subjects : s = Head(todo[p])
  BY <1>0 DEF Observe, TypeOK
<1>2. PICK mine \in Nat : mine = own[p][s] + 1
  BY <1>0 DEF TypeOK
<1>3. /\ InTx(p) /\ todo[p] # <<>>
      /\ own' = [own EXCEPT ![p] = [own[p] EXCEPT ![s] = mine]]
      /\ sum' = [sum EXCEPT ![p] = [sum[p] EXCEPT ![s] = Visible(p, s, mine)]]
      /\ todo' = [todo EXCEPT ![p] = Tail(todo[p])] /\ waiting' = waiting \ {p}
      /\ UNCHANGED <<claimed, observed, assessment, evaluated, lapsed, at, seen, counted, faults>>
  BY <1>1, <1>2 DEF Observe
<1>4. \A q \in Procs \ {p} : ~Locks(q, s)
  BY <1>1 DEF Observe, Blocks
<1>5. Visible(p, s, mine) \in Tallies
  <2>1. mine * Adds(p) \in Nat
    BY <1>0, Gains
  <2>2. \A r \in Sources : observed[s][r] \in Nat
    BY <1>0 DEF TypeOK, Tallies
  <2>3. \A r \in Sources : (IF r \in lapsed THEN 0
                            ELSE IF r = Source(p) THEN observed[s][r] + mine * Adds(p) ELSE observed[s][r]) \in Nat
    BY <2>1, <2>2
  <2>4. QED BY <2>3 DEF Visible, Tallies
<1>6. TypeOK'
  <2>1. own[p] \in [Subjects -> Nat] /\ sum[p] \in [Subjects -> Tallies] /\ Tail(todo[p]) \in Seq(Subjects)
    BY <1>0, <1>3 DEF TypeOK
  <2>2. [own[p] EXCEPT ![s] = mine] \in [Subjects -> Nat]
    BY <2>1
  <2>3. [sum[p] EXCEPT ![s] = Visible(p, s, mine)] \in [Subjects -> Tallies]
    BY <2>1, <1>5
  <2>4. own' \in [Procs -> [Subjects -> Nat]] /\ sum' \in [Procs -> [Subjects -> Tallies]]
    BY <1>0, <1>3, <2>2, <2>3 DEF TypeOK
  <2>5. todo' \in [Procs -> Seq(Subjects)]
    BY <1>0, <1>3, <2>1 DEF TypeOK
  <2>6. QED BY <1>0, <1>3, <2>4, <2>5 DEF TypeOK
<1>7. /\ own'[p][s] = mine /\ sum'[p][s] = Visible(p, s, mine)
      /\ \A t \in Subjects \ {s} : own'[p][t] = own[p][t] /\ sum'[p][t] = sum[p][t]
      /\ \A q \in Procs \ {p} : own'[q] = own[q] /\ sum'[q] = sum[q] /\ todo'[q] = todo[q]
  BY <1>0, <1>3 DEF TypeOK
<1>8. \A q \in Procs : Source(q)' = Source(q) /\ Adds(q)' = Adds(q) /\ (InTx(q)' <=> InTx(q))
  BY <1>3 DEF Source, Adds, InTx
<1>9. OutsideIsFree'
  BY <1>0, <1>3, <1>7, <1>8 DEF OutsideIsFree
<1>10. \A q \in Procs, t \in Subjects : Locks(q, t)' <=> Locks(q, t) \/ (q = p /\ t = s)
  BY <1>0, <1>2, <1>7 DEF Locks, TypeOK
<1>11. LocksExclude'
  BY <1>0, <1>4, <1>10 DEF LocksExclude
<1>12. SumIsCurrent'
  <2> SUFFICES ASSUME NEW q \in Procs, NEW t \in Subjects, Locks(q, t)', NEW r \in Sources \ lapsed
               PROVE  sum'[q][t][r] = IF r = Source(q) THEN observed[t][r] + own'[q][t] * Adds(q)
                                      ELSE observed[t][r]
    BY <1>3, <1>8 DEF SumIsCurrent
  <2>1. CASE q = p /\ t = s
    BY <1>7, <2>1 DEF Visible
  <2>2. CASE ~(q = p /\ t = s)
    <3>1. Locks(q, t) /\ own'[q][t] = own[q][t] /\ sum'[q][t] = sum[q][t]
      BY <1>7, <1>10, <2>2
    <3>2. QED BY <1>0, <3>1 DEF SumIsCurrent
  <2>3. QED BY <2>1, <2>2
<1>13. ScoreIsCurrent'
  BY <1>0, <1>3 DEF ScoreIsCurrent
<1>14. QED BY <1>6, <1>9, <1>11, <1>12, <1>13 DEF ScoreIInv

\* A step from one phase outside a transaction to another.
LEMMA PhaseKeeps ==
    ASSUME ScoreIInv, NEW p \in Procs, ~InTx(p), NEW phase \in Phases \ {"MUTATE", "EVALUATE", "APPLY"},
           at' = [at EXCEPT ![p] = phase], UNCHANGED <<txVars, observed, assessment, lapsed>>, TypeOK'
    PROVE  ScoreIInv'
<1>0. TypeOK /\ OutsideIsFree /\ LocksExclude /\ SumIsCurrent /\ ScoreIsCurrent
  BY DEF ScoreIInv
<1>1. own' = own /\ sum' = sum /\ todo' = todo
  BY DEF txVars
<1>2. \A s \in Subjects : ~Locks(p, s)
  BY <1>0 DEF OutsideIsFree, Locks
<1>3. \A q \in Procs \ {p} : at'[q] = at[q] /\ Source(q)' = Source(q) /\ Adds(q)' = Adds(q)
  BY <1>0 DEF TypeOK, Source, Adds
<1>4. OutsideIsFree'
  BY <1>0, <1>1, <1>3 DEF OutsideIsFree, InTx, TypeOK
<1>5. LocksExclude'
  BY <1>0, <1>1 DEF LocksExclude, Locks
<1>6. SumIsCurrent'
  BY <1>0, <1>1, <1>2, <1>3 DEF SumIsCurrent, Locks
<1>7. ScoreIsCurrent'
  BY <1>0 DEF ScoreIsCurrent
<1>8. QED BY <1>4, <1>5, <1>6, <1>7 DEF ScoreIInv

LEMMA CallKeeps == ASSUME ScoreIInv, NEW c \in Callers, Call(c) PROVE ScoreIInv'
<1>1. TypeOK /\ c \in Procs /\ ~InTx(c)
  BY DEF ScoreIInv, Call, InTx, Procs
<1>2. TypeOK'
  BY <1>1 DEF TypeOK, Call, txVars
<1>3. QED
  <2>1. "CLAIM" \in Phases \ {"MUTATE", "EVALUATE", "APPLY"}
    BY DEF Phases
  <2>2. at' = [at EXCEPT ![c] = "CLAIM"] /\ UNCHANGED <<txVars, observed, assessment, lapsed>>
    BY DEF Call
  <2>3. QED BY <1>1, <1>2, <2>1, <2>2, PhaseKeeps

LEMMA ClaimKeeps == ASSUME ScoreIInv, NEW c \in Callers, Claim(c) PROVE ScoreIInv'
<1>1. TypeOK /\ c \in Procs /\ ~InTx(c)
  BY DEF ScoreIInv, Claim, InTx, Procs
<1>2. UNCHANGED <<claimed, observed, assessment, evaluated, lapsed, counted, faults>> /\ faults' \in Nat
      /\ claimed' \in [Keys -> Ops \cup {None}]
  BY <1>1 DEF Claim, TypeOK
<1>3. "MUTATE" \in Phases /\ "READ" \in Phases /\ "REFUSED" \in Phases /\ <<>> \in Seq(Subjects)
      /\ <<SubjectOf[KeyOf[c]]>> \in Seq(Subjects)
  BY SafetyConstants DEF Phases
<1>4. CASE Begin(c, "MUTATE", <<SubjectOf[KeyOf[c]]>>)
  <2>1. TypeOK'
    BY <1>1, <1>2, <1>3, <1>4, BeginTyped
  <2>2. QED BY <1>1, <1>2, <1>3, <1>4, <2>1, BeginKeeps
<1>5. CASE Begin(c, "READ", <<>>)
  <2>1. TypeOK'
    BY <1>1, <1>2, <1>3, <1>5, BeginTyped
  <2>2. QED BY <1>1, <1>2, <1>3, <1>5, <2>1, BeginKeeps
<1>6. CASE End(c, "REFUSED")
  <2>1. TypeOK'
    BY <1>1, <1>2, <1>3, <1>6, EndTyped DEF TypeOK, Phases
  <2>2. QED BY <1>2, <1>1, <1>3, <1>6, <2>1, EndKeeps
<1>7. QED BY <1>4, <1>5, <1>6 DEF Claim

LEMMA CommitMutationKeeps == ASSUME ScoreIInv, NEW c \in Callers, CommitMutation(c) PROVE ScoreIInv'
<1>1. TypeOK /\ c \in Procs
  BY DEF ScoreIInv, Procs
<1>2. PICK phase \in {"READ", "IDLE"} : End(c, phase)
  BY DEF CommitMutation
<1>3. phase \in Phases \ {"MUTATE", "EVALUATE", "APPLY"}
  BY DEF Phases
<1>4. /\ Commit(c) /\ lapsed' = lapsed /\ claimed' \in [Keys -> Ops \cup {None}]
      /\ evaluated' \in [Subjects -> SUBSET Nat]
  BY <1>1, SafetyConstants DEF CommitMutation, TypeOK
<1>5. faults' \in Nat
  BY <1>1 DEF CommitMutation, TypeOK
<1>6. counted' \in [Keys -> Nat]
  <2>1. assessment[SubjectOf[KeyOf[c]]].version \in Nat
    BY <1>1, SafetyConstants DEF TypeOK
  <2>2. counted' = [counted EXCEPT ![KeyOf[c]] = assessment[SubjectOf[KeyOf[c]]].version + 1]
    BY DEF CommitMutation
  <2>3. PICK n \in Nat : n = assessment[SubjectOf[KeyOf[c]]].version + 1
    BY <2>1
  <2>4. QED BY <1>1, <2>2, <2>3 DEF TypeOK
<1>7. QED BY <1>1, <1>2, <1>3, <1>4, <1>5, <1>6, CommitKeeps

LEMMA ReadKeeps == ASSUME ScoreIInv, NEW c \in Callers, Read(c) PROVE ScoreIInv'
<1>1. TypeOK /\ c \in Procs /\ ~InTx(c)
  BY DEF ScoreIInv, Read, InTx, Procs
<1>2. TypeOK'
  <2>1. assessment[SubjectOf[KeyOf[c]]].version \in Nat
    BY <1>1, SafetyConstants DEF TypeOK
  <2>2. QED BY <1>1, <2>1 DEF TypeOK, Read, txVars
<1>3. QED
  <2>1. "CONSIDER" \in Phases \ {"MUTATE", "EVALUATE", "APPLY"}
    BY DEF Phases
  <2>2. at' = [at EXCEPT ![c] = "CONSIDER"] /\ UNCHANGED <<txVars, observed, assessment, lapsed>>
    BY DEF Read
  <2>3. QED BY <1>1, <1>2, <2>1, <2>2, PhaseKeeps

LEMMA ConsiderKeeps == ASSUME ScoreIInv, NEW c \in Callers, Consider(c) PROVE ScoreIInv'
<1>1. TypeOK /\ c \in Procs /\ ~InTx(c)
  BY DEF ScoreIInv, Consider, InTx, Procs
<1>2. UNCHANGED <<claimed, observed, assessment, evaluated, lapsed, counted, faults>> /\ faults' \in Nat
      /\ claimed' \in [Keys -> Ops \cup {None}]
  BY <1>1 DEF Consider, TypeOK
<1>3. "EVALUATE" \in Phases /\ "ANSWER" \in Phases
  BY DEF Phases
<1>4. ASSUME NEW plan \in Plans, Begin(c, "EVALUATE", plan) PROVE ScoreIInv'
  <2>1. plan \in Seq(Subjects)
    BY SafetyConstants
  <2>2. TypeOK'
    BY <1>1, <1>2, <1>3, <1>4, <2>1, BeginTyped
  <2>3. QED BY <1>1, <1>2, <1>3, <1>4, <2>1, <2>2, BeginKeeps
<1>5. CASE End(c, "ANSWER")
  <2>1. TypeOK'
    BY <1>1, <1>2, <1>3, <1>5, EndTyped DEF TypeOK, Phases
  <2>2. QED BY <1>2, <1>1, <1>3, <1>5, <2>1, EndKeeps
<1>6. QED BY <1>4, <1>5 DEF Consider

LEMMA CommitEvaluationKeeps == ASSUME ScoreIInv, NEW c \in Callers, CommitEvaluation(c) PROVE ScoreIInv'
<1>1. TypeOK /\ c \in Procs
  BY DEF ScoreIInv, Procs
<1>2. PICK phase \in {"ANSWER", "IDLE"} : End(c, phase)
  BY DEF CommitEvaluation
<1>3. phase \in Phases \ {"MUTATE", "EVALUATE", "APPLY"}
  BY DEF Phases
<1>4. /\ Commit(c) /\ lapsed' = lapsed /\ claimed' \in [Keys -> Ops \cup {None}]
      /\ counted' \in [Keys -> Nat] /\ faults' \in Nat
  BY <1>1, SafetyConstants DEF CommitEvaluation, TypeOK
<1>5. evaluated' \in [Subjects -> SUBSET Nat]
  <2>1. evaluated' = [evaluated EXCEPT ![SubjectOf[KeyOf[c]]] = evaluated[SubjectOf[KeyOf[c]]] \cup {seen[c]}]
    BY DEF CommitEvaluation
  <2>2. evaluated \in [Subjects -> SUBSET Nat] /\ seen[c] \in Nat
    BY <1>1 DEF TypeOK
  <2>3. QED BY <2>1, <2>2
<1>6. QED BY <1>1, <1>2, <1>3, <1>4, <1>5, CommitKeeps

LEMMA AnswerKeeps == ASSUME ScoreIInv, NEW c \in Callers, Answer(c) PROVE ScoreIInv'
<1>1. TypeOK /\ c \in Procs /\ ~InTx(c)
  BY DEF ScoreIInv, Answer, InTx, Procs
<1>3. PICK phase \in {"DONE", "IDLE"} : at' = [at EXCEPT ![c] = phase]
  BY DEF Answer
<1>2. TypeOK'
  <2>1. faults' \in Nat
    BY <1>1 DEF TypeOK, Answer
  <2>2. UNCHANGED <<claimed, observed, assessment, evaluated, lapsed, txVars, seen, counted>>
    BY DEF Answer
  <2>3. QED BY <1>1, <1>3, <2>1, <2>2 DEF TypeOK, txVars
<1>4. phase \in Phases \ {"MUTATE", "EVALUATE", "APPLY"} /\ UNCHANGED <<txVars, observed, assessment, lapsed>>
  BY DEF Answer, Phases
<1>5. QED BY <1>1, <1>2, <1>3, <1>4, PhaseKeeps

LEMMA ApplyKeeps == ASSUME ScoreIInv, NEW w \in Workers, Apply(w) PROVE ScoreIInv'
<1>1. TypeOK /\ w \in Procs /\ ~InTx(w)
  BY DEF ScoreIInv, Apply, InTx, Procs
<1>2. UNCHANGED <<claimed, observed, assessment, evaluated, lapsed, counted, faults>> /\ faults' \in Nat
      /\ claimed' \in [Keys -> Ops \cup {None}]
  BY <1>1 DEF Apply, TypeOK
<1>3. PICK plan \in Plans : Begin(w, "APPLY", plan)
  BY DEF Apply
<1>4. "APPLY" \in Phases /\ plan \in Seq(Subjects)
  BY SafetyConstants DEF Phases
<1>5. TypeOK'
  BY <1>1, <1>2, <1>3, <1>4, BeginTyped
<1>6. QED BY <1>1, <1>2, <1>3, <1>4, <1>5, BeginKeeps

LEMMA CommitActionKeeps == ASSUME ScoreIInv, NEW w \in Workers, CommitAction(w) PROVE ScoreIInv'
<1>1. TypeOK /\ w \in Procs
  BY DEF ScoreIInv, Procs
<1>2. "DONE" \in Phases \ {"MUTATE", "EVALUATE", "APPLY"} /\ End(w, "DONE") /\ Commit(w) /\ lapsed' = lapsed
  BY DEF Phases, CommitAction
<1>3. /\ claimed' \in [Keys -> Ops \cup {None}] /\ evaluated' \in [Subjects -> SUBSET Nat]
      /\ counted' \in [Keys -> Nat] /\ faults' \in Nat
  BY <1>1 DEF CommitAction, TypeOK
<1>4. QED BY <1>1, <1>2, <1>3, CommitKeeps

LEMMA GivingUpKeeps == ASSUME ScoreIInv, NEW p \in Procs, Fail(p) \/ Abort(p) PROVE ScoreIInv'
<1>1. TypeOK
  BY DEF ScoreIInv
<1>2. /\ UNCHANGED <<claimed, observed, assessment, evaluated, lapsed, counted>> /\ faults' \in Nat
      /\ "IDLE" \in Phases \ {"MUTATE", "EVALUATE", "APPLY"} /\ End(p, "IDLE")
  BY <1>1 DEF Fail, Abort, Phases, TypeOK
<1>3. TypeOK'
  BY <1>1, <1>2, EndTyped DEF TypeOK, Phases
<1>4. QED BY <1>2, <1>3, EndKeeps

LEMMA RestKeeps ==
    ASSUME ScoreIInv, (\E p \in Procs : Wait(p)) \/ (\E r \in Expiring : Lapse(r)) \/ UNCHANGED vars
    PROVE  ScoreIInv'
<1>1. /\ UNCHANGED <<observed, assessment, at, todo, own, sum>>
      /\ lapsed \subseteq lapsed' /\ TypeOK'
  <2>1. CASE \E p \in Procs : Wait(p)
    BY <2>1 DEF ScoreIInv, TypeOK, Wait
  <2>2. CASE \E r \in Expiring : Lapse(r)
    BY <2>2 DEF ScoreIInv, TypeOK, Lapse, txVars
  <2>3. CASE UNCHANGED vars
    BY <2>3 DEF ScoreIInv, TypeOK, vars
  <2>4. QED BY <2>1, <2>2, <2>3
<1>2. \A p \in Procs : /\ Source(p)' = Source(p) /\ Adds(p)' = Adds(p) /\ (InTx(p)' <=> InTx(p))
                       /\ \A s \in Subjects : Locks(p, s)' <=> Locks(p, s)
  BY <1>1 DEF Source, Adds, InTx, Locks
<1>3. OutsideIsFree' /\ LocksExclude'
  BY <1>1, <1>2 DEF ScoreIInv, OutsideIsFree, LocksExclude
<1>4. SumIsCurrent'
  BY <1>1, <1>2 DEF ScoreIInv, SumIsCurrent
<1>5. ScoreIsCurrent'
  BY <1>1 DEF ScoreIInv, ScoreIsCurrent
<1>6. QED BY <1>1, <1>3, <1>4, <1>5 DEF ScoreIInv

LEMMA ScoreSteps == ScoreIInv /\ [Next]_vars => ScoreIInv'
BY CallKeeps, ClaimKeeps, CommitMutationKeeps, ReadKeeps, ConsiderKeeps, CommitEvaluationKeeps, AnswerKeeps,
   ApplyKeeps, CommitActionKeeps, ObserveKeeps, GivingUpKeeps, RestKeeps DEF Next, CallSteps

LEMMA ScoreInvariant == Spec => []ScoreIInv
BY ScoreStarts, ScoreSteps, PTL DEF Spec

\* Observations are counted, a score is one of 0 to 100 and versions only count:
\* whatever the points of the observations are.
THEOREM SafetyTypes == Spec => []TypeOK
BY ScoreInvariant, PTL DEF ScoreIInv

\* The score of a subject is always that of its committed observations, however
\* many transactions observe it at a time.
THEOREM ScoresAreCurrent == Spec => []ScoreIsCurrent
BY ScoreInvariant, PTL DEF ScoreIInv

-----------------------------------------------------------------------------
(* Answers are evaluated                                                   *)

\* The transaction of a first call has its subject to observe, or has observed it.
ObservesOnce(c) ==
    LET s == SubjectOf[KeyOf[c]] IN
    \/ todo[c] = <<s>> /\ \A t \in Subjects : own[c][t] = 0
    \/ todo[c] = <<>> /\ \A t \in Subjects : own[c][t] = IF t = s THEN 1 ELSE 0

Underway == {"READ", "CONSIDER", "EVALUATE", "ANSWER", "DONE"}

\* What holds of a call in each of its phases.
Proceeds(c) ==
    LET k == KeyOf[c] IN
    /\ at[c] # "APPLY"
    /\ at[c] = "MUTATE" => claimed[k] = None /\ ObservesOnce(c)
    /\ at[c] \in Underway => claimed[k] # None
    /\ at[c] \in {"CONSIDER", "EVALUATE"} => seen[c] >= counted[k]
    /\ at[c] \in {"ANSWER", "DONE"} =>
            counted[k] > 0 /\ \E v \in evaluated[SubjectOf[k]] : v >= counted[k]

KeyedOnce ==
    \A c \in Callers, d \in Callers :
        at[c] = "MUTATE" /\ at[d] = "MUTATE" /\ KeyOf[c] = KeyOf[d] => c = d

ObservedByKey ==
    \A k \in Keys, s \in Subjects :
        observed[s][k] = IF claimed[k] \in Ops \ Recalculating /\ s = SubjectOf[k] THEN 1 ELSE 0

\* The version an observation was first part of is one the assessment has had.
CountedOnce ==
    \A k \in Keys : claimed[k] # None => counted[k] > 0 /\ counted[k] <= assessment[SubjectOf[k]].version

EvaluatedIInv ==
    /\ \A c \in Callers : Proceeds(c)
    /\ \A w \in Workers : at[w] \in {"IDLE", "APPLY", "DONE"}
    /\ KeyedOnce /\ ObservedByKey /\ CountedOnce

LEMMA EvaluatedStarts == Init => EvaluatedIInv
BY SafetyConstants DEF Init, InitWith, EvaluatedIInv, Proceeds, KeyedOnce, ObservedByKey, CountedOnce,
   Nothing, Underway, Sources, Procs

\* Another's step does not disturb a call.
LEMMA OthersProceed ==
    ASSUME NEW d \in Callers, Proceeds(d), TypeOK,
           at'[d] = at[d], todo'[d] = todo[d], own'[d] = own[d], seen'[d] = seen[d],
           at[d] \in Underway \cup {"MUTATE"} =>
              claimed'[KeyOf[d]] = claimed[KeyOf[d]] /\ counted'[KeyOf[d]] = counted[KeyOf[d]],
           \A s \in Subjects : evaluated[s] \subseteq evaluated'[s]
    PROVE  Proceeds(d)'
<1>1. SubjectOf[KeyOf[d]] \in Subjects
  BY SafetyConstants
<1>2. ObservesOnce(d) => ObservesOnce(d)'
  BY DEF ObservesOnce
<1>3. QED
  BY <1>1, <1>2 DEF Proceeds, Underway

\* A step of one process that claims no key and commits no observation of one.
LEMMA EvaluatedFrame ==
    ASSUME TypeOK, EvaluatedIInv, NEW p \in Procs, NEW phase,
           at' = [at EXCEPT ![p] = phase], claimed' = claimed, counted' = counted,
           \A q \in Procs \ {p} : todo'[q] = todo[q] /\ own'[q] = own[q] /\ seen'[q] = seen[q],
           \A s \in Subjects, k \in Keys : observed'[s][k] = observed[s][k],
           \A s \in Subjects : assessment'[s].version >= assessment[s].version,
           \A s \in Subjects : evaluated[s] \subseteq evaluated'[s],
           \A s \in Subjects : assessment'[s].version \in Nat,
           p \in Callers => Proceeds(p)',
           p \in Workers => phase \in {"IDLE", "APPLY", "DONE"},
           phase = "MUTATE" /\ at[p] # "MUTATE" =>
              \A d \in Callers : KeyOf[d] = KeyOf[p] => at[d] # "MUTATE"
    PROVE  EvaluatedIInv'
<1>0. at \in [Procs -> Phases]
  BY PhasesNamed
<1>1. \A c \in Callers : Proceeds(c)'
  <2> TAKE c \in Callers
  <2>1. CASE c = p
    BY <2>1
  <2>2. CASE c # p
    <3>1. c \in Procs /\ Proceeds(c)
      BY DEF Procs, EvaluatedIInv
    <3>2. at'[c] = at[c] /\ todo'[c] = todo[c] /\ own'[c] = own[c] /\ seen'[c] = seen[c]
      BY <1>0, <2>2, <3>1
    <3>3. QED BY <3>1, <3>2, OthersProceed
  <2>3. QED BY <2>1, <2>2
<1>2. \A w \in Workers : at'[w] \in {"IDLE", "APPLY", "DONE"}
  BY <1>0 DEF EvaluatedIInv, Procs
<1>3. KeyedOnce'
  <2> SUFFICES ASSUME NEW c \in Callers, NEW d \in Callers, at'[c] = "MUTATE", at'[d] = "MUTATE",
                      KeyOf[c] = KeyOf[d], c # d
               PROVE  FALSE
    BY DEF KeyedOnce
  <2>1. c \in Procs /\ d \in Procs
    BY DEF Procs
  <2>2. ~(at[c] = "MUTATE" /\ at[d] = "MUTATE")
    BY DEF EvaluatedIInv, KeyedOnce
  <2>3. CASE at[c] # "MUTATE"
    BY <1>0, <2>1, <2>3
  <2>4. CASE at[d] # "MUTATE"
    BY <1>0, <2>1, <2>4
  <2>5. QED BY <2>2, <2>3, <2>4
<1>4. ObservedByKey'
  BY DEF EvaluatedIInv, ObservedByKey
<1>5. CountedOnce'
  <2> SUFFICES ASSUME NEW k \in Keys, claimed[k] # None
               PROVE  counted[k] > 0 /\ counted[k] <= assessment'[SubjectOf[k]].version
    BY DEF CountedOnce
  <2>1. counted[k] > 0 /\ counted[k] <= assessment[SubjectOf[k]].version /\ counted[k] \in Nat
    BY DEF EvaluatedIInv, CountedOnce, TypeOK
  <2>2. /\ SubjectOf[k] \in Subjects /\ assessment[SubjectOf[k]].version \in Nat
        /\ assessment'[SubjectOf[k]].version \in Nat
        /\ assessment'[SubjectOf[k]].version >= assessment[SubjectOf[k]].version
    BY SafetyConstants DEF TypeOK
  <2>3. QED BY <2>1, <2>2
<1>6. QED BY <1>1, <1>2, <1>3, <1>4, <1>5 DEF EvaluatedIInv

\* Commits number the assessments they compute.
LEMMA CommitNumbers ==
    ASSUME TypeOK, NEW p \in Procs, Commit(p)
    PROVE  \A s \in Subjects : /\ assessment[s].version \in Nat
                               /\ assessment'[s].version =
                                     IF own[p][s] > 0 THEN assessment[s].version + 1 ELSE assessment[s].version
                               /\ assessment'[s].version \in Nat
                               /\ assessment'[s].version >= assessment[s].version
<1> TAKE s \in Subjects
<1>1. assessment[s].version \in Nat /\ own[p][s] \in Nat
  BY DEF TypeOK
<1>2. assessment'[s] = IF own[p][s] > 0 THEN Assessed(p, s) ELSE assessment[s]
  BY DEF Commit, Locks
<1>3. Assessed(p, s).version = assessment[s].version + 1
  BY DEF Assessed
<1>4. QED BY <1>1, <1>2, <1>3

\* A call's step that commits nothing and leaves the other processes alone.
LEMMA CallFrame ==
    ASSUME TypeOK, EvaluatedIInv, NEW c \in Callers, NEW phase,
           at' = [at EXCEPT ![c] = phase],
           UNCHANGED <<claimed, observed, assessment, evaluated, counted>>,
           \A q \in Procs \ {c} : todo'[q] = todo[q] /\ own'[q] = own[q] /\ seen'[q] = seen[q],
           Proceeds(c)',
           phase = "MUTATE" /\ at[c] # "MUTATE" =>
              \A d \in Callers : KeyOf[d] = KeyOf[c] => at[d] # "MUTATE"
    PROVE  EvaluatedIInv'
<1>1. c \in Procs /\ c \notin Workers
  BY SafetyConstants DEF Procs
<1>2. \A s \in Subjects : assessment'[s].version \in Nat /\ assessment'[s].version >= assessment[s].version
  BY DEF TypeOK
<1>3. QED BY <1>1, <1>2, EvaluatedFrame

LEMMA CallEvaluated == ASSUME TypeOK, EvaluatedIInv, NEW c \in Callers, Call(c) PROVE EvaluatedIInv'
<1>1. at' = [at EXCEPT ![c] = "CLAIM"] /\ UNCHANGED <<claimed, observed, assessment, evaluated, counted>>
      /\ \A q \in Procs \ {c} : todo'[q] = todo[q] /\ own'[q] = own[q] /\ seen'[q] = seen[q]
  BY DEF Call, txVars
<1>2. at'[c] = "CLAIM"
  BY <1>1 DEF TypeOK, Procs
<1>3. Proceeds(c)'
  BY <1>2 DEF Proceeds, Underway
<1>4. QED BY <1>1, <1>3, CallFrame

LEMMA ClaimEvaluated ==
    ASSUME ScoreIInv, EvaluatedIInv, NEW c \in Callers, Claim(c) PROVE EvaluatedIInv'
<1> DEFINE k == KeyOf[c]
<1>1. /\ TypeOK /\ c \in Procs /\ at[c] = "CLAIM" /\ \A d \in Callers : KeyOf[d] = k => at[d] # "MUTATE"
      /\ UNCHANGED <<claimed, observed, assessment, evaluated, counted>>
  BY DEF Claim, Procs, ScoreIInv
<1>2. \A s \in Subjects : own[c][s] = 0
  BY <1>1 DEF ScoreIInv, OutsideIsFree, InTx
<1>3. CASE claimed[k] = None /\ Begin(c, "MUTATE", <<SubjectOf[k]>>)
  <2>1. /\ at' = [at EXCEPT ![c] = "MUTATE"] /\ todo' = [todo EXCEPT ![c] = <<SubjectOf[k]>>]
        /\ own' = own /\ seen' = seen
    BY <1>3 DEF Begin
  <2>2. at'[c] = "MUTATE" /\ todo'[c] = <<SubjectOf[k]>>
    BY <1>1, <2>1 DEF TypeOK
  <2>3. Proceeds(c)'
    BY <1>1, <1>2, <1>3, <2>1, <2>2 DEF Proceeds, Underway, ObservesOnce
  <2>4. \A q \in Procs \ {c} : todo'[q] = todo[q] /\ own'[q] = own[q] /\ seen'[q] = seen[q]
    BY <1>1, <2>1 DEF TypeOK
  <2>5. QED BY <1>1, <2>1, <2>3, <2>4, CallFrame
<1>4. CASE claimed[k] = OpOf[c] /\ Begin(c, "READ", <<>>)
  <2>1. /\ at' = [at EXCEPT ![c] = "READ"] /\ todo' = [todo EXCEPT ![c] = <<>>]
        /\ own' = own /\ seen' = seen
    BY <1>4 DEF Begin
  <2>2. at'[c] = "READ" /\ claimed'[k] # None
    BY <1>1, <1>4, <2>1, SafetyConstants DEF TypeOK
  <2>3. Proceeds(c)'
    BY <2>2 DEF Proceeds, Underway
  <2>4. \A q \in Procs \ {c} : todo'[q] = todo[q] /\ own'[q] = own[q] /\ seen'[q] = seen[q]
    BY <1>1, <2>1 DEF TypeOK
  <2>5. QED BY <1>1, <2>1, <2>3, <2>4, CallFrame
<1>5. CASE End(c, "REFUSED")
  <2>1. at' = [at EXCEPT ![c] = "REFUSED"]
        /\ \A q \in Procs \ {c} : todo'[q] = todo[q] /\ own'[q] = own[q] /\ seen'[q] = seen[q]
    BY <1>1, <1>5 DEF End, TypeOK
  <2>2. at'[c] = "REFUSED"
    BY <1>1, <2>1 DEF TypeOK
  <2>3. Proceeds(c)'
    BY <2>2 DEF Proceeds, Underway
  <2>4. QED BY <1>1, <2>1, <2>3, CallFrame
<1>6. QED BY <1>3, <1>4, <1>5 DEF Claim

LEMMA ReadEvaluated ==
    ASSUME TypeOK, EvaluatedIInv, NEW c \in Callers, Read(c) PROVE EvaluatedIInv'
<1> DEFINE k == KeyOf[c]
<1>1. /\ c \in Procs /\ at[c] = "READ" /\ at' = [at EXCEPT ![c] = "CONSIDER"]
      /\ seen' = [seen EXCEPT ![c] = assessment[SubjectOf[k]].version]
      /\ UNCHANGED <<claimed, observed, assessment, evaluated, counted, todo, own>>
  BY DEF Read, Procs, txVars
<1>2. at'[c] = "CONSIDER" /\ seen'[c] = assessment[SubjectOf[k]].version
      /\ \A q \in Procs \ {c} : todo'[q] = todo[q] /\ own'[q] = own[q] /\ seen'[q] = seen[q]
  BY <1>1 DEF TypeOK
<1>3. claimed[k] # None /\ k \in Keys
  BY <1>1, SafetyConstants DEF EvaluatedIInv, Proceeds, Underway
<1>4. counted[k] <= assessment[SubjectOf[k]].version /\ counted[k] \in Nat
      /\ assessment[SubjectOf[k]].version \in Nat
  BY <1>3, SafetyConstants DEF EvaluatedIInv, CountedOnce, TypeOK
<1>5. Proceeds(c)'
  BY <1>1, <1>2, <1>3, <1>4 DEF Proceeds, Underway
<1>6. QED BY <1>1, <1>2, <1>5, CallFrame

LEMMA ConsiderEvaluated ==
    ASSUME TypeOK, EvaluatedIInv, NEW c \in Callers, Consider(c) PROVE EvaluatedIInv'
<1> DEFINE k == KeyOf[c]
<1>1. /\ c \in Procs /\ at[c] = "CONSIDER"
      /\ UNCHANGED <<claimed, observed, assessment, evaluated, counted>>
  BY DEF Consider, Procs
<1>2. claimed[k] # None /\ k \in Keys /\ seen[c] >= counted[k]
  BY <1>1, SafetyConstants DEF EvaluatedIInv, Proceeds, Underway
<1>3. ASSUME NEW plan \in Plans, Begin(c, "EVALUATE", plan) PROVE EvaluatedIInv'
  <2>1. at' = [at EXCEPT ![c] = "EVALUATE"] /\ todo' = [todo EXCEPT ![c] = plan] /\ own' = own /\ seen' = seen
    BY <1>3 DEF Begin
  <2>2. at'[c] = "EVALUATE"
        /\ \A q \in Procs \ {c} : todo'[q] = todo[q] /\ own'[q] = own[q] /\ seen'[q] = seen[q]
    BY <1>1, <2>1 DEF TypeOK
  <2>3. Proceeds(c)'
    BY <1>1, <1>2, <2>1, <2>2 DEF Proceeds, Underway
  <2>4. QED BY <1>1, <2>1, <2>2, <2>3, CallFrame
<1>4. CASE seen[c] \in evaluated[SubjectOf[k]] /\ End(c, "ANSWER")
  <2>1. at' = [at EXCEPT ![c] = "ANSWER"]
        /\ \A q \in Procs \ {c} : todo'[q] = todo[q] /\ own'[q] = own[q] /\ seen'[q] = seen[q]
    BY <1>4 DEF End, TypeOK
  <2>2. at'[c] = "ANSWER"
    BY <1>1, <2>1 DEF TypeOK
  <2>3. counted[k] > 0
    BY <1>2 DEF EvaluatedIInv, CountedOnce
  <2>4. Proceeds(c)'
    BY <1>1, <1>2, <1>4, <2>2, <2>3 DEF Proceeds, Underway
  <2>5. QED BY <1>1, <2>1, <2>4, CallFrame
<1>5. QED BY <1>3, <1>4 DEF Consider

LEMMA AnswerEvaluated ==
    ASSUME TypeOK, EvaluatedIInv, NEW c \in Callers, Answer(c) PROVE EvaluatedIInv'
<1>1. PICK phase \in {"DONE", "IDLE"} : at' = [at EXCEPT ![c] = phase]
  BY DEF Answer
<1>2. /\ c \in Procs /\ at[c] = "ANSWER"
      /\ UNCHANGED <<claimed, observed, assessment, evaluated, counted, todo, own, seen>>
  BY DEF Answer, Procs, txVars
<1>3. at'[c] = phase
  BY <1>1, <1>2 DEF TypeOK
<1>4. Proceeds(c)'
  BY <1>2, <1>3 DEF Proceeds, Underway, EvaluatedIInv
<1>5. QED BY <1>1, <1>2, <1>4, CallFrame

\* Neither the policies' observations nor an action's are of a key.
LEMMA NoKeyCommitted ==
    ASSUME TypeOK, NEW p \in Procs, Commit(p), Source(p) \notin Keys
    PROVE  \A s \in Subjects, k \in Keys : observed'[s][k] = observed[s][k]
BY DEF Commit, Sources

LEMMA CommitEvaluationEvaluated ==
    ASSUME TypeOK, EvaluatedIInv, NEW c \in Callers, CommitEvaluation(c) PROVE EvaluatedIInv'
<1> DEFINE k == KeyOf[c]
<1>1. PICK phase \in {"ANSWER", "IDLE"} : End(c, phase)
  BY DEF CommitEvaluation
<1>2. /\ c \in Procs /\ at[c] = "EVALUATE" /\ Commit(c) /\ UNCHANGED <<claimed, counted>>
      /\ evaluated' = [evaluated EXCEPT ![SubjectOf[k]] = evaluated[SubjectOf[k]] \cup {seen[c]}]
  BY DEF CommitEvaluation, Procs
<1>3. at' = [at EXCEPT ![c] = phase]
      /\ \A q \in Procs \ {c} : todo'[q] = todo[q] /\ own'[q] = own[q] /\ seen'[q] = seen[q]
  BY <1>1 DEF End, TypeOK
<1>4. at'[c] = phase
  BY <1>2, <1>3 DEF TypeOK
<1>5. \A s \in Subjects, i \in Keys : observed'[s][i] = observed[s][i]
  <2>1. Source(c) \notin Keys
    BY <1>2, SafetyConstants DEF Source
  <2>2. QED BY <1>2, <2>1, NoKeyCommitted
<1>6. \A s \in Subjects : assessment'[s].version \in Nat /\ assessment'[s].version >= assessment[s].version
  BY <1>2, CommitNumbers
<1>7. /\ \A s \in Subjects : evaluated[s] \subseteq evaluated'[s]
      /\ seen[c] \in evaluated'[SubjectOf[k]]
  BY <1>2, SafetyConstants DEF TypeOK
<1>8. claimed[k] # None /\ k \in Keys /\ seen[c] >= counted[k]
  BY <1>2, SafetyConstants DEF EvaluatedIInv, Proceeds, Underway
<1>9. counted[k] > 0
  BY <1>8 DEF EvaluatedIInv, CountedOnce
<1>10. Proceeds(c)'
  BY <1>2, <1>4, <1>7, <1>8, <1>9 DEF Proceeds, Underway
<1>11. c \notin Workers /\ phase # "MUTATE"
  BY SafetyConstants
<1>12. QED BY <1>2, <1>3, <1>5, <1>6, <1>7, <1>10, <1>11, EvaluatedFrame

LEMMA ActionEvaluated ==
    ASSUME TypeOK, EvaluatedIInv, NEW w \in Workers, Apply(w) \/ CommitAction(w) PROVE EvaluatedIInv'
<1>1. w \in Procs /\ w \notin Callers /\ w \notin Keys
  BY SafetyConstants DEF Procs
<1>2. CASE Apply(w)
  <2>1. PICK plan \in Plans : Begin(w, "APPLY", plan)
    BY <1>2 DEF Apply
  <2>2. /\ at' = [at EXCEPT ![w] = "APPLY"] /\ UNCHANGED <<claimed, observed, assessment, evaluated, counted>>
        /\ \A q \in Procs \ {w} : todo'[q] = todo[q] /\ own'[q] = own[q] /\ seen'[q] = seen[q]
    BY <1>2, <2>1 DEF Apply, Begin, TypeOK
  <2>3. \A s \in Subjects : assessment'[s].version \in Nat /\ assessment'[s].version >= assessment[s].version
    BY <2>2 DEF TypeOK
  <2>4. QED BY <1>1, <2>2, <2>3, EvaluatedFrame
<1>3. CASE CommitAction(w)
  <2>1. /\ at[w] = "APPLY" /\ at' = [at EXCEPT ![w] = "DONE"] /\ Commit(w)
        /\ UNCHANGED <<claimed, evaluated, counted>>
        /\ \A q \in Procs \ {w} : todo'[q] = todo[q] /\ own'[q] = own[q] /\ seen'[q] = seen[q]
    BY <1>3 DEF CommitAction, End, TypeOK
  <2>2. Source(w) \notin Keys
    BY <1>1, <2>1 DEF Source
  <2>3. \A s \in Subjects, i \in Keys : observed'[s][i] = observed[s][i]
    BY <1>1, <2>1, <2>2, NoKeyCommitted
  <2>4. \A s \in Subjects : assessment'[s].version \in Nat /\ assessment'[s].version >= assessment[s].version
    BY <1>1, <2>1, CommitNumbers
  <2>5. QED BY <1>1, <2>1, <2>3, <2>4, EvaluatedFrame
<1>4. QED BY <1>2, <1>3

LEMMA GivingUpEvaluated ==
    ASSUME TypeOK, EvaluatedIInv, NEW p \in Procs, Fail(p) \/ Abort(p) PROVE EvaluatedIInv'
<1>1. at' = [at EXCEPT ![p] = "IDLE"] /\ UNCHANGED <<claimed, observed, assessment, evaluated, counted>>
      /\ \A q \in Procs \ {p} : todo'[q] = todo[q] /\ own'[q] = own[q] /\ seen'[q] = seen[q]
  BY DEF Fail, Abort, End, TypeOK
<1>2. at'[p] = "IDLE"
  BY <1>1 DEF TypeOK
<1>3. Proceeds(p)'
  BY <1>2 DEF Proceeds, Underway
<1>4. \A s \in Subjects : assessment'[s].version \in Nat /\ assessment'[s].version >= assessment[s].version
  BY <1>1 DEF TypeOK
<1>5. QED BY <1>1, <1>3, <1>4, EvaluatedFrame

LEMMA ObserveEvaluated ==
    ASSUME TypeOK, EvaluatedIInv, NEW p \in Procs, Observe(p) PROVE EvaluatedIInv'
<1>1. /\ todo[p] # <<>> /\ todo' = [todo EXCEPT ![p] = Tail(todo[p])]
      /\ own' = [own EXCEPT ![p] = [own[p] EXCEPT ![Head(todo[p])] = own[p][Head(todo[p])] + 1]]
      /\ UNCHANGED <<claimed, observed, assessment, evaluated, lapsed, at, seen, counted, faults>>
  BY DEF Observe
<1>2. \A q \in Procs \ {p} : todo'[q] = todo[q] /\ own'[q] = own[q] /\ seen'[q] = seen[q]
  BY <1>1 DEF TypeOK
<1>3. at' = [at EXCEPT ![p] = at[p]]
  BY <1>1 DEF TypeOK
<1>4. ASSUME p \in Callers PROVE Proceeds(p)'
  <2>1. Proceeds(p)
    BY <1>4 DEF EvaluatedIInv
  <2>2. ASSUME at[p] = "MUTATE" PROVE ObservesOnce(p)'
    <3> DEFINE s == SubjectOf[KeyOf[p]]
    <3>1. s \in Subjects
      BY <1>4, SafetyConstants
    <3>2. todo[p] = <<s>> /\ \A t \in Subjects : own[p][t] = 0
      BY <1>1, <2>1, <2>2 DEF Proceeds, ObservesOnce
    <3> HIDE DEF s
    <3>3. Head(todo[p]) = s /\ Tail(todo[p]) = <<>>
      BY <3>2
    <3>4. own[p] \in [Subjects -> Nat] /\ own[p][s] + 1 = 1
      BY <3>1, <3>2 DEF TypeOK
    <3>5. own'[p] = [own[p] EXCEPT ![s] = 1] /\ todo'[p] = <<>>
      BY <1>1, <3>3, <3>4 DEF TypeOK
    <3>6. \A t \in Subjects : own'[p][t] = IF t = s THEN 1 ELSE 0
      BY <3>2, <3>4, <3>5
    <3>7. QED BY <3>5, <3>6 DEF ObservesOnce, s
  <2>3. QED BY <1>1, <2>1, <2>2 DEF Proceeds
<1>5. \A s \in Subjects : assessment'[s].version \in Nat /\ assessment'[s].version >= assessment[s].version
  BY <1>1 DEF TypeOK
<1>6. p \in Workers => at[p] \in {"IDLE", "APPLY", "DONE"}
  BY DEF EvaluatedIInv
<1>7. QED BY <1>1, <1>2, <1>3, <1>4, <1>5, <1>6, EvaluatedFrame

\* The commit of a first call: the key's one observation, and the version it
\* is first part of.
LEMMA CommitMutationEvaluated ==
    ASSUME ScoreIInv, EvaluatedIInv, NEW c \in Callers, CommitMutation(c) PROVE EvaluatedIInv'
<1>1. PICK k \in Keys : k = KeyOf[c]
  BY SafetyConstants
<1>2. PICK s \in Subjects : s = SubjectOf[k]
  BY SafetyConstants
<1>3. PICK phase \in {"READ", "IDLE"} : End(c, phase)
  BY DEF CommitMutation
<1>4. /\ TypeOK /\ c \in Procs /\ c \notin Workers /\ at[c] = "MUTATE" /\ Commit(c) /\ evaluated' = evaluated
      /\ claimed' = [claimed EXCEPT ![k] = OpOf[c]]
      /\ counted' = [counted EXCEPT ![k] = assessment[s].version + 1]
  BY <1>1, <1>2, SafetyConstants DEF CommitMutation, Procs, ScoreIInv
<1>5. at' = [at EXCEPT ![c] = phase]
      /\ \A q \in Procs \ {c} : todo'[q] = todo[q] /\ own'[q] = own[q] /\ seen'[q] = seen[q]
  BY <1>3, <1>4 DEF End, TypeOK
<1>6. at'[c] = phase /\ \A q \in Procs \ {c} : at'[q] = at[q]
  BY <1>4, <1>5 DEF TypeOK
<1>7. claimed[k] = None /\ \A t \in Subjects : own[c][t] = IF t = s THEN 1 ELSE 0
  <2>1. Proceeds(c) /\ todo[c] = <<>>
    BY <1>4 DEF EvaluatedIInv, Commit
  <2>2. claimed[k] = None /\ ObservesOnce(c)
    BY <1>1, <1>4, <2>1 DEF Proceeds
  <2>3. todo[c] # <<s>>
    BY <2>1
  <2>4. QED BY <1>1, <1>2, <2>2, <2>3 DEF ObservesOnce
<1>8. claimed'[k] = OpOf[c] /\ OpOf[c] \in Ops /\ OpOf[c] # None
      /\ \A i \in Keys \ {k} : claimed'[i] = claimed[i] /\ counted'[i] = counted[i]
  BY <1>4, SafetyConstants DEF TypeOK
<1>9. /\ counted'[k] = assessment[s].version + 1 /\ assessment[s].version \in Nat
      /\ assessment'[s].version = assessment[s].version + 1
      /\ \A t \in Subjects : assessment[t].version \in Nat /\ assessment'[t].version \in Nat
                             /\ assessment'[t].version >= assessment[t].version
  <2>1. own[c][s] > 0
    BY <1>7
  <2>2. \A t \in Subjects : /\ assessment[t].version \in Nat
                            /\ assessment'[t].version =
                                  IF own[c][t] > 0 THEN assessment[t].version + 1 ELSE assessment[t].version
                            /\ assessment'[t].version \in Nat
                            /\ assessment'[t].version >= assessment[t].version
    BY <1>4, CommitNumbers
  <2>3. counted'[k] = assessment[s].version + 1
    BY <1>4 DEF TypeOK
  <2>4. QED BY <2>1, <2>2, <2>3
<1>10. \A d \in Callers : Proceeds(d)'
  <2> TAKE d \in Callers
  <2>1. CASE d = c
    BY <1>1, <1>6, <1>8, <2>1 DEF Proceeds, Underway
  <2>2. CASE d # c
    <3>1. d \in Procs /\ Proceeds(d)
      BY DEF Procs, EvaluatedIInv
    <3>2. at[d] \in Underway \cup {"MUTATE"} => KeyOf[d] # k
      BY <1>1, <1>4, <1>7, <2>2, <3>1 DEF Proceeds, EvaluatedIInv, KeyedOnce
    <3>3. KeyOf[d] \in Keys
      BY SafetyConstants
    <3>4. at[d] \in Underway \cup {"MUTATE"} =>
              claimed'[KeyOf[d]] = claimed[KeyOf[d]] /\ counted'[KeyOf[d]] = counted[KeyOf[d]]
      BY <1>8, <3>2, <3>3
    <3>5. \A t \in Subjects : evaluated[t] \subseteq evaluated'[t]
      BY <1>4
    <3>6. at'[d] = at[d] /\ todo'[d] = todo[d] /\ own'[d] = own[d] /\ seen'[d] = seen[d]
      BY <1>5, <1>6, <2>2, <3>1
    <3>7. QED BY <1>4, <3>1, <3>4, <3>5, <3>6, OthersProceed
  <2>3. QED BY <2>1, <2>2
<1>11. \A w \in Workers : at'[w] \in {"IDLE", "APPLY", "DONE"}
  BY <1>4, <1>6 DEF EvaluatedIInv, Procs
<1>12. KeyedOnce'
  BY <1>6 DEF EvaluatedIInv, KeyedOnce, Procs
<1>13. ObservedByKey'
  <2> SUFFICES ASSUME NEW i \in Keys, NEW t \in Subjects
               PROVE  observed'[t][i] = IF claimed'[i] \in Ops \ Recalculating /\ t = SubjectOf[i] THEN 1 ELSE 0
    BY DEF ObservedByKey
  <2>1. i \in Sources /\ observed[t][i] = IF claimed[i] \in Ops \ Recalculating /\ t = SubjectOf[i] THEN 1 ELSE 0
    BY DEF Sources, EvaluatedIInv, ObservedByKey
  <2>2. observed'[t][i] = IF i = k THEN observed[t][i] + own[c][t] * Adds(c) ELSE observed[t][i]
    BY <1>1, <1>4, <2>1 DEF Commit, Source
  <2>3. CASE i # k
    BY <1>8, <2>1, <2>2, <2>3
  <2>4. CASE i = k
    <3>1. observed[t][i] = 0
      BY <1>7, <2>1, <2>4, SafetyConstants
    <3>2. Adds(c) = IF OpOf[c] \in Recalculating THEN 0 ELSE 1
      BY <1>4 DEF Adds
    <3>3. own[c][t] = IF t = SubjectOf[i] THEN 1 ELSE 0
      BY <1>2, <1>7, <2>4
    <3>4. observed'[t][i] = own[c][t] * Adds(c)
      BY <2>2, <2>4, <3>1, <3>2, <3>3
    <3>5. CASE OpOf[c] \in Recalculating
      BY <1>8, <2>4, <3>2, <3>3, <3>4, <3>5
    <3>6. CASE OpOf[c] \notin Recalculating
      BY <1>8, <2>4, <3>2, <3>3, <3>4, <3>6
    <3>7. QED BY <3>5, <3>6
  <2>5. QED BY <2>3, <2>4
<1>14. CountedOnce'
  <2> SUFFICES ASSUME NEW i \in Keys, claimed'[i] # None
               PROVE  counted'[i] > 0 /\ counted'[i] <= assessment'[SubjectOf[i]].version
    BY DEF CountedOnce
  <2>1. CASE i = k
    BY <1>2, <1>9, <2>1
  <2>2. CASE i # k
    <3>1. claimed[i] # None /\ counted'[i] = counted[i] /\ counted[i] \in Nat
      BY <1>4, <1>8, <2>2 DEF TypeOK
    <3>2. counted[i] > 0 /\ counted[i] <= assessment[SubjectOf[i]].version /\ SubjectOf[i] \in Subjects
      BY <3>1, SafetyConstants DEF EvaluatedIInv, CountedOnce
    <3>3. /\ assessment[SubjectOf[i]].version \in Nat /\ assessment'[SubjectOf[i]].version \in Nat
          /\ assessment'[SubjectOf[i]].version >= assessment[SubjectOf[i]].version
      BY <1>9, <3>2
    <3>4. QED BY <3>1, <3>2, <3>3
  <2>3. QED BY <2>1, <2>2
<1>15. QED BY <1>10, <1>11, <1>12, <1>13, <1>14 DEF EvaluatedIInv

LEMMA RestEvaluated ==
    ASSUME TypeOK, EvaluatedIInv, (\E p \in Procs : Wait(p)) \/ (\E r \in Expiring : Lapse(r)) \/ UNCHANGED vars
    PROVE  EvaluatedIInv'
<1>1. UNCHANGED <<claimed, observed, assessment, evaluated, at, todo, own, seen, counted>>
  BY DEF Wait, Lapse, vars, txVars
<1>2. \A c \in Callers : Proceeds(c)'
  BY <1>1 DEF EvaluatedIInv, Proceeds, ObservesOnce
<1>3. QED
  BY <1>1, <1>2 DEF EvaluatedIInv, KeyedOnce, ObservedByKey, CountedOnce

LEMMA EvaluatedSteps == ScoreIInv /\ EvaluatedIInv /\ [Next]_vars => EvaluatedIInv'
<1>1. ScoreIInv => TypeOK
  BY DEF ScoreIInv
<1>2. QED
  BY <1>1, CallEvaluated, ClaimEvaluated, CommitMutationEvaluated, ReadEvaluated, ConsiderEvaluated,
     CommitEvaluationEvaluated, AnswerEvaluated, ActionEvaluated, ObserveEvaluated, GivingUpEvaluated,
     RestEvaluated DEF Next, CallSteps

LEMMA EvaluatedInvariant == Spec => []EvaluatedIInv
BY ScoreInvariant, EvaluatedStarts, EvaluatedSteps, PTL DEF Spec

\* However often a call is repeated and wherever it failed, its key leads to one
\* observation, and an answered call's observation was evaluated.
THEOREM AnswersAreEvaluated == Spec => []AnsweredIsEvaluated
<1>1. EvaluatedIInv => AnsweredIsEvaluated
  BY DEF EvaluatedIInv, AnsweredIsEvaluated, ObservedByKey, Proceeds
<1>2. QED BY <1>1, EvaluatedInvariant, PTL

-----------------------------------------------------------------------------
(* The evidence of a call                                                  *)

EvidenceTypeOK ==
    /\ lastSequence \in [Lobbies -> Nat]
    /\ persisted \in SUBSET Actions
    /\ sequence \in [Actions -> Nat]
    /\ writing \in [Writers -> [action : Actions \cup {NoAction}, number : Nat]]
    /\ snapshot \in [CallReports -> [terminal : Actions \cup {NoAction}, last : Nat]]
    /\ cursor \in [CallReports -> Nat \cup {-1}]
    /\ transcript \in [CallReports -> Seq(Actions)]
    /\ rollbacks \in Nat

\* The numbers of a Lobby's timeline are those from 1 to its archive's, each once.
Gapless ==
    /\ \A l \in Lobbies : \A n \in 1..lastSequence[l] : \E a \in Actions : LobbyOf[a] = l /\ sequence[a] = n
    /\ \A a \in Actions, b \in Actions :
          LobbyOf[a] = LobbyOf[b] /\ sequence[a] = sequence[b] /\ sequence[a] > 0 => a = b
    /\ \A a \in Actions : /\ sequence[a] <= lastSequence[LobbyOf[a]]
                          /\ sequence[a] > 0 => a \in persisted

\* An open transaction has an action of its own and its Lobby's next number.
WritesNext ==
    \A w \in Writers :
        /\ writing[w].action = NoAction => writing[w].number = 0
        /\ writing[w].action # NoAction =>
              /\ writing[w].action \notin persisted
              /\ writing[w].number = IF writing[w].action \in Timeless THEN 0
                                     ELSE lastSequence[LobbyOf[writing[w].action]] + 1
              /\ \A v \in Writers \ {w} : writing[v].action # writing[w].action
        /\ \A v \in Writers \ {w} : writing[w].number > 0 /\ writing[v].number > 0
              => LobbyOf[writing[w].action] # LobbyOf[writing[v].action]

\* What a reader has is the call's first events, as many as the cursor says.
ReadSoFar(r) ==
    LET end == snapshot[r].terminal IN
    /\ end = NoAction => snapshot[r].last = 0 /\ cursor[r] = 0 /\ transcript[r] = <<>>
    /\ end # NoAction =>
          /\ snapshot[r].last = sequence[end] /\ sequence[end] > 0
          /\ cursor[r] <= snapshot[r].last
          /\ Len(transcript[r]) = IF cursor[r] = -1 THEN snapshot[r].last ELSE cursor[r]
          /\ \A i \in 1..Len(transcript[r]) :
                sequence[transcript[r][i]] = i /\ LobbyOf[transcript[r][i]] = LobbyOf[end]

EvidenceIInv == EvidenceTypeOK /\ Gapless /\ WritesNext /\ \A r \in CallReports : ReadSoFar(r)

LEMMA EvidenceStarts == EvidenceInit => EvidenceIInv
<1> SUFFICES ASSUME EvidenceInit PROVE EvidenceIInv
  OBVIOUS
<1>1. EvidenceTypeOK
  BY EvidenceConstants DEF EvidenceInit, EvidenceInitWith, EvidenceTypeOK, NotWriting, NoSnapshot
<1>2. Gapless /\ WritesNext /\ \A r \in CallReports : ReadSoFar(r)
  BY EvidenceConstants DEF EvidenceInit, EvidenceInitWith, Gapless, WritesNext, ReadSoFar, NotWriting, NoSnapshot
<1>3. QED BY <1>1, <1>2 DEF EvidenceIInv

LEMMA RecordKeeps ==
    ASSUME EvidenceIInv, NEW w \in Writers, NEW a \in Actions, Record(w, a) PROVE EvidenceIInv'
<1> USE EvidenceConstants
<1>0. EvidenceTypeOK /\ Gapless /\ WritesNext /\ \A r \in CallReports : ReadSoFar(r)
  BY DEF EvidenceIInv
<1>1. PICK n \in Nat : n = IF a \in Timeless THEN 0 ELSE lastSequence[LobbyOf[a]] + 1
  BY <1>0 DEF EvidenceTypeOK
<1>2. /\ writing' = [writing EXCEPT ![w] = [action |-> a, number |-> n]]
      /\ a \notin persisted /\ \A v \in Writers : writing[v].action # a
      /\ n > 0 => \A v \in Writers : writing[v].number > 0 => LobbyOf[writing[v].action] # LobbyOf[a]
      /\ UNCHANGED <<lastSequence, persisted, sequence, snapshot, cursor, transcript, rollbacks>>
  BY <1>1 DEF Record, CounterFree
<1>3. EvidenceTypeOK'
  BY <1>0, <1>2 DEF EvidenceTypeOK
<1>4. Gapless' /\ \A r \in CallReports : ReadSoFar(r)'
  BY <1>0, <1>2 DEF Gapless, ReadSoFar
<1>5. /\ writing'[w] = [action |-> a, number |-> n]
      /\ \A v \in Writers \ {w} : writing'[v] = writing[v]
  BY <1>0, <1>2 DEF EvidenceTypeOK
<1>6. WritesNext'
  <2> SUFFICES ASSUME NEW v \in Writers
               PROVE  /\ writing'[v].action = NoAction => writing'[v].number = 0
                      /\ writing'[v].action # NoAction =>
                            /\ writing'[v].action \notin persisted
                            /\ writing'[v].number = IF writing'[v].action \in Timeless THEN 0
                                                   ELSE lastSequence[LobbyOf[writing'[v].action]] + 1
                            /\ \A u \in Writers \ {v} : writing'[u].action # writing'[v].action
                      /\ \A u \in Writers \ {v} : writing'[v].number > 0 /\ writing'[u].number > 0
                            => LobbyOf[writing'[v].action] # LobbyOf[writing'[u].action]
    BY <1>2 DEF WritesNext
  <2>1. CASE v = w
    BY <1>1, <1>2, <1>5, <2>1
  <2>2. CASE v # w
    BY <1>0, <1>2, <1>5, <2>2 DEF WritesNext
  <2>3. QED BY <2>1, <2>2
<1>7. QED BY <1>3, <1>4, <1>6 DEF EvidenceIInv

LEMMA RollBackKeeps ==
    ASSUME EvidenceIInv, NEW w \in Writers, RollBack(w) PROVE EvidenceIInv'
<1>0. EvidenceTypeOK /\ Gapless /\ WritesNext /\ \A r \in CallReports : ReadSoFar(r)
  BY DEF EvidenceIInv
<1>1. /\ writing' = [writing EXCEPT ![w] = NotWriting] /\ rollbacks' \in Nat
      /\ UNCHANGED <<lastSequence, persisted, sequence, snapshot, cursor, transcript>>
  BY <1>0 DEF RollBack, EvidenceTypeOK
<1>2. EvidenceTypeOK'
  BY <1>0, <1>1 DEF EvidenceTypeOK, NotWriting
<1>3. Gapless' /\ \A r \in CallReports : ReadSoFar(r)'
  BY <1>0, <1>1 DEF Gapless, ReadSoFar
<1>4. writing'[w] = [action |-> NoAction, number |-> 0] /\ \A v \in Writers \ {w} : writing'[v] = writing[v]
  BY <1>0, <1>1 DEF EvidenceTypeOK, NotWriting
<1>5. WritesNext'
  BY <1>0, <1>1, <1>4 DEF WritesNext
<1>6. QED BY <1>2, <1>3, <1>5 DEF EvidenceIInv

LEMMA CommitRecordKeeps ==
    ASSUME EvidenceIInv, NEW w \in Writers, CommitRecord(w) PROVE EvidenceIInv'
<1> USE EvidenceConstants
<1>0. EvidenceTypeOK /\ Gapless /\ WritesNext /\ \A r \in CallReports : ReadSoFar(r)
  BY DEF EvidenceIInv
<1>1. PICK a \in Actions, n \in Nat : writing[w].action = a /\ writing[w].number = n
  BY <1>0 DEF CommitRecord, EvidenceTypeOK
<1>2. /\ persisted' = persisted \cup {a}
      /\ sequence' = [sequence EXCEPT ![a] = n]
      /\ lastSequence' = IF n = 0 THEN lastSequence ELSE [lastSequence EXCEPT ![LobbyOf[a]] = n]
      /\ writing' = [writing EXCEPT ![w] = NotWriting]
      /\ UNCHANGED <<snapshot, cursor, transcript, rollbacks>>
  BY <1>1 DEF CommitRecord
<1>3. PICK l \in Lobbies : l = LobbyOf[a]
  OBVIOUS
<1>4. /\ a # NoAction /\ a \notin persisted /\ sequence[a] = 0
      /\ n # 0 => n = lastSequence[l] + 1
      /\ \A v \in Writers \ {w} : writing[v].action # a
      /\ n # 0 => \A v \in Writers \ {w} : writing[v].number > 0 => LobbyOf[writing[v].action] # l
  <2>1. a # NoAction
    OBVIOUS
  <2>2. /\ a \notin persisted
        /\ n = IF a \in Timeless THEN 0 ELSE lastSequence[LobbyOf[a]] + 1
        /\ \A v \in Writers \ {w} : writing[v].action # a
        /\ \A v \in Writers \ {w} : n > 0 /\ writing[v].number > 0 => LobbyOf[a] # LobbyOf[writing[v].action]
    BY <1>0, <1>1, <2>1 DEF WritesNext
  <2>3. sequence[a] = 0
    BY <1>0, <2>2 DEF Gapless, EvidenceTypeOK
  <2>4. QED BY <1>3, <2>1, <2>2, <2>3
<1>5. EvidenceTypeOK'
  BY <1>0, <1>2, <1>3 DEF EvidenceTypeOK, NotWriting
<1>6. /\ sequence'[a] = n /\ \A b \in Actions \ {a} : sequence'[b] = sequence[b]
      /\ \A m \in Lobbies : lastSequence'[m] = IF m = l /\ n # 0 THEN lastSequence[l] + 1 ELSE lastSequence[m]
      /\ \A m \in Lobbies : lastSequence[m] \in Nat /\ lastSequence'[m] \in Nat
      /\ \A b \in Actions : sequence[b] \in Nat /\ sequence'[b] \in Nat
  BY <1>0, <1>2, <1>3, <1>4, <1>5 DEF EvidenceTypeOK
<1>7. Gapless'
  <2>1. ASSUME NEW m \in Lobbies, NEW i \in 1..lastSequence'[m]
        PROVE  \E b \in Actions : LobbyOf[b] = m /\ sequence'[b] = i
    <3>1. CASE i \in 1..lastSequence[m]
      <4>1. PICK b \in Actions : LobbyOf[b] = m /\ sequence[b] = i
        BY <1>0, <3>1 DEF Gapless
      <4>2. b # a
        BY <1>4, <3>1, <4>1
      <4>3. QED BY <1>6, <4>1, <4>2
    <3>2. CASE i \notin 1..lastSequence[m]
      <4>1. m = l /\ n # 0 /\ i = n
        BY <1>4, <1>6, <2>1, <3>2
      <4>2. QED BY <1>3, <1>6, <4>1
    <3>3. QED BY <3>1, <3>2
  <2>2. ASSUME NEW b \in Actions, NEW c \in Actions, LobbyOf[b] = LobbyOf[c],
               sequence'[b] = sequence'[c], sequence'[b] > 0
        PROVE  b = c
    <3>1. ASSUME NEW d \in Actions \ {a}, LobbyOf[d] = l, n > 0 PROVE sequence'[d] # n
      <4>1. sequence[d] <= lastSequence[l] /\ n = lastSequence[l] + 1
        BY <1>0, <1>4, <3>1 DEF Gapless
      <4>2. QED BY <1>6, <4>1
    <3>2. CASE b = a
      BY <1>3, <1>6, <2>2, <3>1, <3>2
    <3>3. CASE c = a
      BY <1>3, <1>6, <2>2, <3>1, <3>3
    <3>4. CASE b # a /\ c # a
      BY <1>0, <1>6, <2>2, <3>4 DEF Gapless
    <3>5. QED BY <3>2, <3>3, <3>4
  <2>3. ASSUME NEW b \in Actions
        PROVE  sequence'[b] <= lastSequence'[LobbyOf[b]] /\ (sequence'[b] > 0 => b \in persisted')
    <3>1. LobbyOf[b] \in Lobbies /\ sequence[b] <= lastSequence[LobbyOf[b]]
          /\ (sequence[b] > 0 => b \in persisted)
      BY <1>0 DEF Gapless
    <3>2. CASE b = a
      BY <1>2, <1>3, <1>4, <1>6, <3>2
    <3>3. CASE b # a
      BY <1>2, <1>6, <3>1, <3>3
    <3>4. QED BY <3>2, <3>3
  <2>4. QED BY <2>1, <2>2, <2>3 DEF Gapless
<1>8. writing'[w] = [action |-> NoAction, number |-> 0] /\ \A v \in Writers \ {w} : writing'[v] = writing[v]
  BY <1>0, <1>2 DEF EvidenceTypeOK, NotWriting
<1>9. WritesNext'
  <2> SUFFICES ASSUME NEW v \in Writers
               PROVE  /\ writing'[v].action = NoAction => writing'[v].number = 0
                      /\ writing'[v].action # NoAction =>
                            /\ writing'[v].action \notin persisted'
                            /\ writing'[v].number = IF writing'[v].action \in Timeless THEN 0
                                                   ELSE lastSequence'[LobbyOf[writing'[v].action]] + 1
                            /\ \A u \in Writers \ {v} : writing'[u].action # writing'[v].action
                      /\ \A u \in Writers \ {v} : writing'[v].number > 0 /\ writing'[u].number > 0
                            => LobbyOf[writing'[v].action] # LobbyOf[writing'[u].action]
    BY DEF WritesNext
  <2>1. CASE v = w
    BY <1>8, <2>1
  <2>2. CASE v # w
    <3>1. writing'[v] = writing[v] /\ writing[v].action \in Actions \cup {NoAction} /\ writing[v].number \in Nat
      BY <1>0, <1>8, <2>2 DEF EvidenceTypeOK
    <3>2. CASE writing[v].action = NoAction
      BY <1>0, <1>8, <3>1, <3>2 DEF WritesNext
    <3>3. CASE writing[v].action # NoAction
      <4>1. /\ writing[v].action \notin persisted
            /\ writing[v].number = IF writing[v].action \in Timeless THEN 0
                                   ELSE lastSequence[LobbyOf[writing[v].action]] + 1
            /\ \A u \in Writers \ {v} : writing[u].action # writing[v].action
            /\ \A u \in Writers \ {v} : writing[v].number > 0 /\ writing[u].number > 0
                            => LobbyOf[writing[v].action] # LobbyOf[writing[u].action]
        BY <1>0, <3>3 DEF WritesNext
      <4>2. LobbyOf[writing[v].action] \in Lobbies
        BY <3>1, <3>3
      <4>3. writing[v].action \notin persisted'
        BY <1>2, <1>4, <2>2, <4>1
      <4>4. writing[v].number = IF writing[v].action \in Timeless THEN 0
                                ELSE lastSequence'[LobbyOf[writing[v].action]] + 1
        <5>1. CASE writing[v].action \in Timeless
          BY <4>1, <5>1
        <5>2. CASE writing[v].action \notin Timeless
          <6>1. writing[v].number > 0
            BY <1>6, <4>1, <4>2, <5>2
          <6>2. n # 0 => LobbyOf[writing[v].action] # l
            BY <1>4, <2>2, <6>1
          <6>3. QED BY <1>6, <4>1, <4>2, <6>2
        <5>3. QED BY <5>1, <5>2
      <4>5. QED BY <1>8, <3>1, <3>3, <4>1, <4>3, <4>4
    <3>4. QED BY <3>2, <3>3
  <2>3. QED BY <2>1, <2>2
<1>10. ASSUME NEW r \in CallReports PROVE ReadSoFar(r)'
  <2>1. ReadSoFar(r) /\ snapshot[r].terminal \in Actions \cup {NoAction} /\ transcript[r] \in Seq(Actions)
    BY <1>0 DEF EvidenceTypeOK
  <2>2. CASE snapshot[r].terminal = NoAction
    BY <1>2, <2>1, <2>2 DEF ReadSoFar
  <2>3. CASE snapshot[r].terminal # NoAction
    <3>1. sequence'[snapshot[r].terminal] = sequence[snapshot[r].terminal]
      BY <1>4, <1>6, <2>1, <2>3 DEF ReadSoFar
    <3>2. ASSUME NEW i \in 1..Len(transcript[r])
          PROVE  sequence'[transcript[r][i]] = i /\ LobbyOf[transcript[r][i]] = LobbyOf[snapshot[r].terminal]
      <4>1. transcript[r][i] \in Actions /\ sequence[transcript[r][i]] = i
        BY <2>1, <2>3 DEF ReadSoFar
      <4>2. transcript[r][i] # a
        BY <1>4, <4>1
      <4>3. QED BY <1>6, <2>1, <2>3, <4>1, <4>2 DEF ReadSoFar
    <3>3. QED BY <1>2, <2>1, <2>3, <3>1, <3>2 DEF ReadSoFar
  <2>4. QED BY <2>2, <2>3
<1>11. QED BY <1>5, <1>7, <1>9, <1>10 DEF EvidenceIInv

LEMMA CreateCallReportKeeps ==
    ASSUME EvidenceIInv, NEW r \in CallReports, NEW a \in Actions, CreateCallReport(r, a) PROVE EvidenceIInv'
<1> USE EvidenceConstants
<1>0. EvidenceTypeOK /\ Gapless /\ WritesNext /\ \A q \in CallReports : ReadSoFar(q)
  BY DEF EvidenceIInv
<1>1. /\ snapshot[r] = NoSnapshot /\ sequence[a] > 0
      /\ snapshot' = [snapshot EXCEPT ![r] = [terminal |-> a, last |-> sequence[a]]]
      /\ UNCHANGED <<lastSequence, persisted, sequence, writing, cursor, transcript, rollbacks>>
  BY DEF CreateCallReport
<1>2. EvidenceTypeOK'
  BY <1>0, <1>1 DEF EvidenceTypeOK
<1>3. Gapless' /\ WritesNext'
  BY <1>0, <1>1 DEF Gapless, WritesNext
<1>4. snapshot'[r] = [terminal |-> a, last |-> sequence[a]] /\ \A q \in CallReports \ {r} : snapshot'[q] = snapshot[q]
  BY <1>0, <1>1 DEF EvidenceTypeOK
<1>5. cursor[r] = 0 /\ transcript[r] = <<>>
  BY <1>0, <1>1 DEF ReadSoFar, NoSnapshot
<1>6. ReadSoFar(r)'
  BY <1>0, <1>1, <1>4, <1>5 DEF ReadSoFar, EvidenceTypeOK
<1>7. \A q \in CallReports \ {r} : ReadSoFar(q)'
  BY <1>0, <1>1, <1>4 DEF ReadSoFar
<1>8. QED BY <1>2, <1>3, <1>6, <1>7 DEF EvidenceIInv

\* The events numbered after one number and up to another are as many as the numbers.
Between(l, low, high) == {a \in Timeline(l) : sequence[a] <= high /\ sequence[a] > low}

LEMMA NumbersCount ==
    ASSUME EvidenceTypeOK, Gapless, NEW l \in Lobbies, NEW low \in Nat, NEW high \in Nat,
           low <= high, high <= lastSequence[l]
    PROVE  /\ IsFiniteSet(Between(l, low, high))
           /\ Cardinality(Between(l, low, high)) = high - low
           /\ \A n \in (low + 1)..high : \E a \in Between(l, low, high) : sequence[a] = n
<1> DEFINE S == Between(l, low, high)
           f == [n \in (low + 1)..high |-> CHOOSE a \in S : sequence[a] = n]
<1>1. ASSUME NEW n \in (low + 1)..high PROVE \E a \in S : sequence[a] = n
  <2>1. n \in 1..lastSequence[l]
    BY DEF EvidenceTypeOK
  <2>2. PICK a \in Actions : LobbyOf[a] = l /\ sequence[a] = n
    BY <2>1 DEF Gapless
  <2>3. QED BY <2>2 DEF Between, Timeline
<1>2. \A n \in (low + 1)..high : f[n] \in S /\ sequence[f[n]] = n
  BY <1>1
<1>3. \A a \in S : sequence[a] \in (low + 1)..high /\ a \in Actions /\ LobbyOf[a] = l /\ sequence[a] > 0
  BY DEF Between, Timeline, EvidenceTypeOK
<1>4. \A a \in S, b \in S : sequence[a] = sequence[b] => a = b
  BY <1>3 DEF Gapless
<1> HIDE DEF S
<1>5. f \in Bijection((low + 1)..high, S)
  <2>1. f \in [(low + 1)..high -> S]
    BY <1>2
  <2>2. \A m \in (low + 1)..high, n \in (low + 1)..high : f[m] = f[n] => m = n
    BY <1>2
  <2>3. \A a \in S : \E n \in (low + 1)..high : f[n] = a
    BY <1>2, <1>3, <1>4
  <2> HIDE DEF f
  <2>4. QED BY <2>1, <2>2, <2>3 DEF Bijection, Injection, IsInjective, Surjection
<1>6. IsFiniteSet((low + 1)..high) /\ Cardinality((low + 1)..high) = high - low
  <2>1. PICK first \in Int : first = low + 1
    OBVIOUS
  <2>2. IsFiniteSet(first..high) /\ Cardinality(first..high) = IF first > high THEN 0 ELSE high - first + 1
    BY FS_Interval
  <2>3. QED BY <2>1, <2>2
<1>7. IsFiniteSet(S) /\ Cardinality(S) = Cardinality((low + 1)..high)
  BY <1>5, <1>6, FS_Bijection DEF ExistsBijection
<1>8. QED BY <1>1, <1>6, <1>7 DEF S

\* The events of a page carry the numbers that follow the cursor, up to the
\* page's limit or the end of the call.
LEMMA PageIsNext ==
    ASSUME EvidenceTypeOK, Gapless, NEW r \in CallReports, NEW size \in PageSizes,
           snapshot[r].terminal \in Actions, snapshot[r].last = sequence[snapshot[r].terminal],
           cursor[r] \in Nat, cursor[r] <= snapshot[r].last
    PROVE  \E m \in Nat :
              /\ cursor[r] <= m /\ m <= snapshot[r].last
              /\ m = snapshot[r].last \/ m = cursor[r] + Limit(size)
              /\ m <= cursor[r] + Limit(size)
              /\ Page(r, size) \in Seq(Actions) /\ Len(Page(r, size)) = m - cursor[r]
              /\ \A i \in 1..(m - cursor[r]) :
                    /\ sequence[Page(r, size)[i]] = cursor[r] + i
                    /\ LobbyOf[Page(r, size)[i]] = LobbyOf[snapshot[r].terminal]
<1> USE EvidenceConstants
<1>1. PICK c \in Nat, last \in Nat, l \in Lobbies :
          c = cursor[r] /\ last = snapshot[r].last /\ l = LobbyOf[snapshot[r].terminal]
  BY DEF EvidenceTypeOK
<1>2. PICK limit \in Nat \ {0} : limit = Limit(size)
  BY DEF Limit
<1>3. c <= last /\ last <= lastSequence[l] /\ lastSequence[l] \in Nat
  BY <1>1 DEF Gapless, EvidenceTypeOK
<1>4. PICK m \in Nat : m = IF last <= c + limit THEN last ELSE c + limit
  OBVIOUS
<1>5. c <= m /\ m <= last /\ m <= lastSequence[l] /\ m <= c + limit /\ (m = last \/ m = c + limit)
  BY <1>3, <1>4
<1> DEFINE rest == Between(l, c, last)
           first == Between(l, c, m)
<1>6. ASSUME NEW a \in rest
      PROVE  /\ sequence[a] - 1 \in Nat /\ c <= sequence[a] - 1 /\ sequence[a] - 1 <= lastSequence[l]
             /\ {b \in rest : sequence[b] < sequence[a]} = Between(l, c, sequence[a] - 1)
             /\ Cardinality({b \in rest : sequence[b] < sequence[a]}) = sequence[a] - 1 - c
  <2>1. PICK n \in Nat : n = sequence[a] /\ n > c /\ n <= last
    BY <1>6 DEF Between, Timeline, EvidenceTypeOK
  <2>2. n - 1 \in Nat /\ c <= n - 1 /\ n - 1 <= lastSequence[l] /\ n - 1 <= last
    BY <1>3, <2>1
  <2>3. {b \in rest : sequence[b] < n} = Between(l, c, n - 1)
    BY <2>1, <2>2 DEF Between, Timeline, EvidenceTypeOK
  <2>4. Cardinality(Between(l, c, n - 1)) = n - 1 - c
    BY <2>2, NumbersCount
  <2>5. QED BY <2>1, <2>2, <2>3, <2>4
<1>7. {a \in rest : Cardinality({b \in rest : sequence[b] < sequence[a]}) < limit} = first
  <2>1. \A a \in rest : sequence[a] \in Nat /\ sequence[a] <= last
    BY DEF Between, Timeline, EvidenceTypeOK
  <2>2. first = {a \in rest : sequence[a] <= m}
    BY <1>5 DEF Between, Timeline, EvidenceTypeOK
  <2>3. ASSUME NEW a \in rest
        PROVE  Cardinality({b \in rest : sequence[b] < sequence[a]}) < limit <=> sequence[a] <= m
    <3>1. Cardinality({b \in rest : sequence[b] < sequence[a]}) = sequence[a] - 1 - c
      BY <1>6
    <3>2. sequence[a] \in Nat /\ sequence[a] <= last
      BY <2>1
    <3> HIDE DEF rest
    <3>3. QED BY <1>4, <3>1, <3>2
  <2> HIDE DEF rest, first
  <2>4. QED BY <2>2, <2>3
<1>8. Cardinality(first) = m - c /\ \A n \in (c + 1)..m : \E a \in first : sequence[a] = n
  BY <1>5, NumbersCount
<1>9. ASSUME NEW a \in first
      PROVE  Cardinality({b \in first : sequence[b] < sequence[a]}) = sequence[a] - 1 - c
  <2>1. a \in rest
    BY <1>5 DEF Between, Timeline, EvidenceTypeOK
  <2>2. {b \in first : sequence[b] < sequence[a]} = {b \in rest : sequence[b] < sequence[a]}
    BY <1>5 DEF Between, Timeline, EvidenceTypeOK
  <2>3. QED BY <1>6, <2>1, <2>2
<1> DEFINE event(i) == CHOOSE a \in first : Cardinality({b \in first : sequence[b] < sequence[a]}) = i - 1
           page == [i \in 1..(m - c) |-> event(i)]
<1>10. Page(r, size) = page
  <2>1. {a \in Timeline(LobbyOf[snapshot[r].terminal]) :
                    sequence[a] <= snapshot[r].last /\ sequence[a] > cursor[r]} = rest
    BY <1>1 DEF Between
  <2> DEFINE all == {a \in Timeline(LobbyOf[snapshot[r].terminal]) :
                    sequence[a] <= snapshot[r].last /\ sequence[a] > cursor[r]}
             some == {a \in all : Cardinality({b \in all : sequence[b] < sequence[a]}) < Limit(size)}
  <2>2. Page(r, size) = [i \in 1..Cardinality(some) |->
            CHOOSE a \in some : Cardinality({b \in some : sequence[b] < sequence[a]}) = i - 1]
    BY DEF Page
  <2>3. some = first
    <3>1. all = rest
      BY <2>1
    <3> HIDE DEF all, rest
    <3>2. some = {a \in rest : Cardinality({b \in rest : sequence[b] < sequence[a]}) < limit}
      BY <1>2, <3>1
    <3> HIDE DEF some, first
    <3>3. QED BY <1>7, <3>2
  <2> HIDE DEF some, first
  <2>4. QED BY <1>8, <2>2, <2>3
<1>11. ASSUME NEW i \in 1..(m - c)
       PROVE  page[i] \in Actions /\ sequence[page[i]] = c + i /\ LobbyOf[page[i]] = l
  <2>1. c + i \in (c + 1)..m
    BY <1>5
  <2>2. PICK a \in first : sequence[a] = c + i
    BY <1>8, <2>1
  <2>3. Cardinality({b \in first : sequence[b] < sequence[a]}) = i - 1
    BY <1>9, <2>2
  <2>4. page[i] \in first /\ Cardinality({b \in first : sequence[b] < sequence[page[i]]}) = i - 1
    <3> HIDE DEF first
    <3>1. \E x \in first : Cardinality({b \in first : sequence[b] < sequence[x]}) = i - 1
      BY <2>3
    <3>2. event(i) \in first /\ Cardinality({b \in first : sequence[b] < sequence[event(i)]}) = i - 1
      BY <3>1
    <3>3. page[i] = event(i)
      OBVIOUS
    <3> HIDE DEF page, event
    <3>4. QED BY <3>2, <3>3
  <2>5. page[i] \in Actions /\ LobbyOf[page[i]] = l
    <3> HIDE DEF page
    <3>1. QED BY <2>4 DEF Between, Timeline
  <2>6. sequence[page[i]] - 1 - c = i - 1 /\ sequence[page[i]] \in Nat
    <3> HIDE DEF page
    <3>1. QED BY <1>9, <2>4, <2>5 DEF EvidenceTypeOK
  <2> HIDE DEF page
  <2>7. QED BY <2>5, <2>6
<1>12. page \in Seq(Actions) /\ Len(page) = m - c
  <2>1. m - c \in Nat
    BY <1>5
  <2>2. page \in [1..(m - c) -> Actions]
    <3> HIDE DEF event
    <3>1. \A i \in 1..(m - c) : page[i] = event(i)
      OBVIOUS
    <3>2. \A i \in 1..(m - c) : event(i) \in Actions
      BY <1>11, <3>1
    <3>3. QED BY <3>2
  <2> HIDE DEF page
  <2>3. QED BY <2>1, <2>2
<1> HIDE DEF page
<1>13. QED
  BY <1>1, <1>2, <1>5, <1>10, <1>11, <1>12

LEMMA ReadingKeeps ==
    ASSUME EvidenceIInv, NEW r \in CallReports, NEW size \in PageSizes, ListReportTranscript(r, size)
    PROVE  EvidenceIInv'
<1> USE EvidenceConstants
<1>0. EvidenceTypeOK /\ Gapless /\ WritesNext /\ \A q \in CallReports : ReadSoFar(q)
  BY DEF EvidenceIInv
<1>1. /\ snapshot[r] # NoSnapshot /\ cursor[r] # -1
      /\ transcript' = [transcript EXCEPT ![r] = transcript[r] \o Page(r, size)]
      /\ cursor' = [cursor EXCEPT ![r] = NextCursor(r, size, Page(r, size))]
      /\ UNCHANGED <<lastSequence, persisted, sequence, writing, snapshot, rollbacks>>
  BY DEF ListReportTranscript
<1>2. snapshot[r].terminal \in Actions
  <2>1. snapshot[r] \in [terminal : Actions \cup {NoAction}, last : Nat] /\ ReadSoFar(r)
    BY <1>0 DEF EvidenceTypeOK
  <2>2. CASE snapshot[r].terminal = NoAction
    BY <1>1, <2>1, <2>2 DEF ReadSoFar, NoSnapshot
  <2>3. QED BY <2>1, <2>2
<1>3. PICK c \in Nat, last \in Nat : c = cursor[r] /\ last = snapshot[r].last
  BY <1>0, <1>1 DEF EvidenceTypeOK
<1>4. /\ last = sequence[snapshot[r].terminal] /\ c <= last /\ Len(transcript[r]) = c /\ last > 0
      /\ \A i \in 1..c : sequence[transcript[r][i]] = i /\ LobbyOf[transcript[r][i]] = LobbyOf[snapshot[r].terminal]
  BY <1>0, <1>1, <1>2, <1>3 DEF ReadSoFar
<1>5. PICK limit \in Nat \ {0} : limit = Limit(size)
  BY DEF Limit
<1>6. PICK page \in Seq(Actions) : page = Page(r, size)
  BY <1>0, <1>2, <1>3, <1>4, PageIsNext
<1>7. PICK m \in Nat :
              /\ c <= m /\ m <= last /\ m <= c + limit
              /\ m = last \/ m = c + limit
              /\ Len(page) = m - c
              /\ \A i \in 1..(m - c) :
                    sequence[page[i]] = c + i /\ LobbyOf[page[i]] = LobbyOf[snapshot[r].terminal]
  <2>1. cursor[r] \in Nat /\ cursor[r] <= snapshot[r].last /\ snapshot[r].last = sequence[snapshot[r].terminal]
    BY <1>3, <1>4
  <2>2. PICK m \in Nat :
              /\ cursor[r] <= m /\ m <= snapshot[r].last
              /\ m = snapshot[r].last \/ m = cursor[r] + Limit(size)
              /\ m <= cursor[r] + Limit(size)
              /\ Page(r, size) \in Seq(Actions) /\ Len(Page(r, size)) = m - cursor[r]
              /\ \A i \in 1..(m - cursor[r]) :
                    /\ sequence[Page(r, size)[i]] = cursor[r] + i
                    /\ LobbyOf[Page(r, size)[i]] = LobbyOf[snapshot[r].terminal]
    BY <1>0, <1>2, <2>1, PageIsNext
  <2>3. QED BY <1>3, <1>5, <1>6, <2>2
<1>8. PICK next \in Nat \cup {-1} :
          /\ next = NextCursor(r, size, page)
          /\ next = -1 \/ next = m
          /\ next = -1 => m = last
          /\ next <= last
  <2>1. m - c = limit => sequence[page[m - c]] = m
    <3>1. ASSUME m - c = limit PROVE m - c \in 1..(m - c) /\ c + (m - c) = m
      BY <1>7, <3>1
    <3>2. QED BY <1>7, <3>1
  <2>2. NextCursor(r, size, page) = IF m - c = limit /\ sequence[page[m - c]] < last
                                    THEN sequence[page[m - c]] ELSE -1
    BY <1>3, <1>5, <1>7 DEF NextCursor
  <2>3. CASE m - c = limit /\ sequence[page[m - c]] < last
    BY <1>7, <2>1, <2>2, <2>3
  <2>4. CASE ~(m - c = limit /\ sequence[page[m - c]] < last)
    BY <1>7, <2>1, <2>2, <2>4
  <2>5. QED BY <2>3, <2>4
<1>9. PICK read \in Seq(Actions) :
          /\ read = transcript[r] \o page
          /\ Len(read) = m
          /\ \A i \in 1..m : read[i] = IF i <= c THEN transcript[r][i] ELSE page[i - c]
  <2>1. transcript[r] \in Seq(Actions)
    BY <1>0 DEF EvidenceTypeOK
  <2>2. /\ transcript[r] \o page \in Seq(Actions)
        /\ Len(transcript[r] \o page) = Len(transcript[r]) + Len(page)
        /\ \A i \in 1..(Len(transcript[r]) + Len(page)) :
              (transcript[r] \o page)[i] = IF i <= Len(transcript[r]) THEN transcript[r][i]
                                           ELSE page[i - Len(transcript[r])]
    BY <2>1, ConcatProperties
  <2>3. Len(transcript[r]) + Len(page) = m
    BY <1>4, <1>7
  <2>4. QED BY <1>4, <2>2, <2>3
<1>10. /\ transcript' = [transcript EXCEPT ![r] = read] /\ cursor' = [cursor EXCEPT ![r] = next]
       /\ transcript'[r] = read /\ cursor'[r] = next
       /\ \A q \in CallReports \ {r} : transcript'[q] = transcript[q] /\ cursor'[q] = cursor[q]
  <2>1. transcript' = [transcript EXCEPT ![r] = read] /\ cursor' = [cursor EXCEPT ![r] = next]
    BY <1>1, <1>6, <1>8, <1>9
  <2>2. DOMAIN transcript = CallReports /\ DOMAIN cursor = CallReports
    BY <1>0 DEF EvidenceTypeOK
  <2>3. QED BY <2>1, <2>2
<1>11. EvidenceTypeOK'
  BY <1>0, <1>1, <1>10 DEF EvidenceTypeOK
<1>12. Gapless' /\ WritesNext'
  BY <1>0, <1>1 DEF Gapless, WritesNext
<1>13. ReadSoFar(r)'
  <2>1. ASSUME NEW i \in 1..m
        PROVE  sequence[read[i]] = i /\ LobbyOf[read[i]] = LobbyOf[snapshot[r].terminal]
    <3>1. CASE i <= c
      BY <1>4, <1>9, <3>1
    <3>2. CASE i > c
      <4>1. i - c \in 1..(m - c) /\ c + (i - c) = i /\ read[i] = page[i - c]
        BY <1>7, <1>9, <3>2
      <4>2. QED BY <1>7, <4>1
    <3>3. QED BY <3>1, <3>2
  <2>2. Len(read) = IF next = -1 THEN last ELSE next
    <3>1. CASE next = -1
      BY <1>8, <1>9, <3>1
    <3>2. CASE next # -1
      BY <1>8, <1>9, <3>2
    <3>3. QED BY <3>1, <3>2
  <2>3. snapshot[r].terminal # NoAction
    BY <1>2
  <2>4. /\ snapshot' = snapshot /\ sequence' = sequence /\ transcript'[r] = read /\ cursor'[r] = next
        /\ snapshot[r].last = sequence[snapshot[r].terminal] /\ sequence[snapshot[r].terminal] > 0
        /\ next <= snapshot[r].last /\ last = snapshot[r].last
    BY <1>1, <1>3, <1>4, <1>8, <1>10
  <2>5. QED BY <1>9, <2>1, <2>2, <2>3, <2>4 DEF ReadSoFar
<1>14. \A q \in CallReports \ {r} : ReadSoFar(q)'
  BY <1>0, <1>1, <1>10 DEF ReadSoFar
<1>15. QED BY <1>11, <1>12, <1>13, <1>14 DEF EvidenceIInv

LEMMA EvidenceSteps == EvidenceIInv /\ [EvidenceNext]_evidenceVars => EvidenceIInv'
<1>1. ASSUME EvidenceIInv, UNCHANGED evidenceVars PROVE EvidenceIInv'
  BY <1>1 DEF evidenceVars, EvidenceIInv, EvidenceTypeOK, Gapless, WritesNext, ReadSoFar
<1>2. QED
  BY <1>1, RecordKeeps, CommitRecordKeeps, RollBackKeeps, CreateCallReportKeeps, ReadingKeeps
     DEF EvidenceNext, Reading

LEMMA EvidenceInvariant == EvidenceSpec => []EvidenceIInv
BY EvidenceStarts, EvidenceSteps, PTL DEF EvidenceSpec

\* The archive of a Lobby numbers its events without a gap and each once, whatever
\* transactions were rolled back.
THEOREM TimelinesAreGapless == EvidenceSpec => []Gapless
BY EvidenceInvariant, PTL DEF EvidenceIInv

\* Who reads a pinned transcript to its end has read the call's events up to its
\* CALL_ENDED, each once and in order, whatever the pages and the late events.
THEOREM TranscriptsAreTheCalls == EvidenceSpec => []TranscriptIsTheCall
<1>1. EvidenceIInv => TranscriptIsTheCall
  BY DEF EvidenceIInv, TranscriptIsTheCall, ReadSoFar
<1>2. QED BY <1>1, EvidenceInvariant, PTL
=============================================================================
