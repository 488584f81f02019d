------------------------ MODULE CommandLedgerProofs ------------------------
(***************************************************************************)
(* Proofs about CommandLedger for any commands, bots, lease lengths, clock *)
(* skew and bounds.                                                        *)
(***************************************************************************)
EXTENDS CommandLedger, TLAPS

USE LedgerConstants

\* A lease is always of a command: what the lemmas below need to look its row up.
LEMMA LeasesTyped ==
    ASSUME TypeOK, BotShape
    PROVE  \A e \in Leases : e.command \in Commands
BY DEF Leases, RowLeases, BotLeases, TypeOK, ExecType, BotType, BotShape

\* Leases may disappear and attempts may grow: the two invariants about leases
\* survive as long as no lease is new.
LEMMA NoNewLease ==
    ASSUME LedgerInv, Leases' \subseteq Leases,
           \A d \in Commands : row'[d].attempts = row[d].attempts
    PROVE  LeasesAreOfAttempts' /\ OneLeaseUnlessRetrySafe'
BY LeasesTyped DEF LedgerInv, LeasesAreOfAttempts, OneLeaseUnlessRetrySafe

\* register_command keeps the ledger's invariant.
LEMMA RegisterKeeps ==
    ASSUME LedgerInv, NEW c \in Commands, Register(c)
    PROVE  LedgerInv'
<1> USE DEF LedgerInv, Register
<1>1. TypeOK'
  BY DEF TypeOK, RowType
<1>2. \A d \in Commands : row'[d] = IF d = c THEN [row[c] EXCEPT !.status = "PENDING"]
                                            ELSE row[d]
  BY DEF TypeOK, RowType
<1>3. row[c].attempts = 0 /\ row[c].token = None /\ row[c].claimant = None
      /\ row[c].left = None /\ row[c].outcome = None
  BY DEF RowShape
<1>4. /\ row'[c].status = "PENDING" /\ row'[c].attempts = 0 /\ row'[c].token = None
      /\ row'[c].claimant = None /\ row'[c].left = None /\ row'[c].outcome = None
  BY <1>2, <1>3 DEF TypeOK, RowType
<1>5. RowShape' /\ BotShape'
  BY <1>2, <1>4 DEF RowShape, BotShape
<1>6. RowLeases' = RowLeases /\ BotLeases' = BotLeases /\ Leases' = Leases
  BY <1>2, <1>4 DEF RowLeases, BotLeases, Leases
<1>7. \A d \in Commands : row'[d].attempts = row[d].attempts
  BY <1>2, <1>3, <1>4
<1>8. LeasesAreOfAttempts' /\ OneLeaseUnlessRetrySafe'
  BY <1>6, <1>7, NoNewLease
<1>9. SentWasExecuted' /\ LeaseExclusive'
  BY DEF SentWasExecuted, LeaseExclusive, Holds
<1>10. LiveLeaseIsCurrent'
  BY <1>2, <1>4 DEF LiveLeaseIsCurrent, Terminal, BotShape, TypeOK, BotType
<1>11. OneResultPerCompletion'
  BY <1>2, <1>4 DEF OneResultPerCompletion
<1> QED
  BY <1>1, <1>5, <1>8, <1>9, <1>10, <1>11

\* claim() granting a new lease keeps the invariant.  A command that is not
\* retry-safe is granted only while PENDING, when it has no lease anywhere; a
\* bot that still trusts its lease on the command would have made it live.
LEMMA AcquireKeeps ==
    ASSUME LedgerInv, NEW b \in Bots, NEW c \in Commands, bot[b].pc = "idle",
           NEW skew \in (-MaxSkew) .. MaxSkew, NEW lease \in MinLease .. MaxLease,
           ClaimAcquire(b, c, skew, lease)
    PROVE  LedgerInv'
<1> USE DEF LedgerInv, ClaimAcquire
<1> DEFINE new == [bot |-> b, command |-> c, token |-> nextToken]
<1>1. \/ row[c].status = "PENDING"
      \/ row[c].status = "CLAIMED" /\ c \in RetrySafe /\ ~(row[c].left > skew)
  BY DEF Decision, LeaseLive, TypeOK, RowType
<1>2. Acquired(c, b, lease) \in RowType
  BY DEF Acquired, TypeOK, RowType, Left
<1>3. /\ row' \in [Commands -> RowType]
      /\ row'[c] = Acquired(c, b, lease)
      /\ \A d \in Commands \ {c} : row'[d] = row[d]
  BY <1>2 DEF TypeOK
<1>4. /\ bot' \in [Bots -> BotType]
      /\ \A a \in Bots \ {b} : bot'[a] = bot[a]
      /\ bot'[b] = bot[b] \/ bot'[b] = Holding(c, row'[c])
  <2>1. Holding(c, row'[c]) \in BotType
    BY <1>3 DEF Holding, RowType, BotType
  <2> QED
    BY <2>1 DEF Reply, TypeOK
<1>5. TypeOK'
  BY <1>3, <1>4 DEF TypeOK
<1>6. RowShape'
  BY <1>1, <1>3 DEF RowShape, Acquired, TypeOK, RowType, Left
<1>7. BotShape'
  BY <1>3, <1>4 DEF BotShape, Holding, Acquired, TypeOK, RowType, Left
<1>8. \A e \in Leases' : e \in Leases \/ e = new
  <2>1. \A e \in RowLeases' : e \in RowLeases \/ e = new
    BY <1>3 DEF RowLeases, Acquired
  <2>2. \A e \in BotLeases' : e \in BotLeases \/ e = new
    BY <1>3, <1>4 DEF BotLeases, Holding, Acquired
  <2> QED
    BY <2>1, <2>2 DEF Leases
<1>9. /\ row'[c].attempts = row[c].attempts + 1
      /\ \A d \in Commands \ {c} : row'[d].attempts = row[d].attempts
  BY <1>3 DEF Acquired
<1>10. LeasesAreOfAttempts'
  BY <1>8, <1>9, LeasesTyped DEF LeasesAreOfAttempts, TypeOK, RowType
<1>11. OneLeaseUnlessRetrySafe'
  <2>1. c \notin RetrySafe => row[c].attempts = 0 /\ \A e \in Leases : e.command # c
    BY <1>1 DEF RowShape, LeasesAreOfAttempts
  <2>2. ASSUME NEW d \in Commands \ RetrySafe
        PROVE  /\ row'[d].attempts <= 1
               /\ \A e, f \in Leases' : e.command = d /\ f.command = d => e = f
    BY <1>8, <1>9, <2>1 DEF OneLeaseUnlessRetrySafe
  <2> QED
    BY <2>2 DEF OneLeaseUnlessRetrySafe
<1>12. \A a \in Bots \ {b} : Holds(a, c) => ~(bot[a].left > MaxSkew)
  <2>1. row[c].status = "CLAIMED" => row[c].left \in Int
    BY DEF RowShape, TypeOK, RowType, Left
  <2> QED
    BY <1>1, <2>1 DEF LiveLeaseIsCurrent, Holds, Terminal
<1>13. LiveLeaseIsCurrent'
  BY <1>3, <1>4, <1>12
     DEF LiveLeaseIsCurrent, Holds, Holding, Acquired, TypeOK, BotType, BotShape
<1>14. LeaseExclusive'
  BY <1>4, <1>12 DEF LeaseExclusive, Holds, Holding
<1>15. OneResultPerCompletion'
  BY <1>1, <1>3 DEF OneResultPerCompletion, Acquired
<1> QED
  BY <1>5, <1>6, <1>7, <1>10, <1>11, <1>13, <1>14, <1>15 DEF SentWasExecuted

\* claim() answering the claimant with the lease it already has.
LEMMA ExistingKeeps ==
    ASSUME LedgerInv, NEW b \in Bots, NEW c \in Commands, bot[b].pc = "idle",
           NEW skew \in (-MaxSkew) .. MaxSkew, ClaimExisting(b, c, skew)
    PROVE  LedgerInv'
<1> USE DEF LedgerInv, ClaimExisting
<1>1. row[c].status = "CLAIMED" /\ row[c].claimant = b
  BY DEF Decision, LeaseLive, TypeOK, RowType
<1>2. row[c].token \in Nat /\ row[c].left \in Left
  BY <1>1 DEF TypeOK, RowType, RowShape
<1>3. /\ bot' \in [Bots -> BotType]
      /\ \A a \in Bots \ {b} : bot'[a] = bot[a]
      /\ bot'[b] = bot[b] \/ bot'[b] = Holding(c, row[c])
  <2>1. Holding(c, row[c]) \in BotType
    BY DEF Holding, RowType, BotType, TypeOK
  <2> QED
    BY <2>1 DEF Reply, TypeOK
<1>4. TypeOK' /\ RowShape' /\ SentWasExecuted' /\ OneResultPerCompletion'
  BY <1>3 DEF TypeOK, RowShape, SentWasExecuted, OneResultPerCompletion
<1>5. BotShape'
  BY <1>2, <1>3 DEF BotShape, Holding, TypeOK, RowType, Left
<1>6. Leases' \subseteq Leases
  <2>1. [bot |-> b, command |-> c, token |-> row[c].token] \in RowLeases
    BY <1>1 DEF RowLeases
  <2>2. \A e \in BotLeases' : e \in BotLeases \/ e \in RowLeases
    BY <1>3, <2>1 DEF BotLeases, Holding
  <2>3. RowLeases' = RowLeases /\ execs' = execs
    BY DEF RowLeases
  <2> QED
    BY <2>2, <2>3 DEF Leases
<1>7. LeasesAreOfAttempts' /\ OneLeaseUnlessRetrySafe'
  BY <1>6, NoNewLease
<1>8. \A a \in Bots \ {b} : Holds(a, c) => ~(bot[a].left > MaxSkew)
  BY <1>1 DEF LiveLeaseIsCurrent, Holds, Terminal
<1>9. LiveLeaseIsCurrent' /\ LeaseExclusive'
  BY <1>1, <1>3, <1>8 DEF LiveLeaseIsCurrent, LeaseExclusive, Holds, Holding
<1> QED
  BY <1>4, <1>5, <1>7, <1>9

\* claim() giving up a command that must not run twice.
LEMMA MarkRecoveryKeeps ==
    ASSUME LedgerInv, NEW b \in Bots, NEW c \in Commands,
           NEW skew \in (-MaxSkew) .. MaxSkew, ClaimMarkRecovery(b, c, skew)
    PROVE  LedgerInv'
<1> USE DEF LedgerInv, ClaimMarkRecovery
<1>1. row[c].status = "CLAIMED"
  BY DEF Decision, LeaseLive, TypeOK, RowType
<1>2. /\ row' \in [Commands -> RowType]
      /\ row'[c] = Abandoned(c)
      /\ \A d \in Commands \ {c} : row'[d] = row[d]
  BY DEF TypeOK, Abandoned, RowType
<1>3. TypeOK' /\ BotShape' /\ SentWasExecuted' /\ LeaseExclusive'
  BY <1>2 DEF TypeOK, BotShape, SentWasExecuted, LeaseExclusive, Holds
<1>4. RowShape' /\ OneResultPerCompletion'
  BY <1>1, <1>2 DEF RowShape, OneResultPerCompletion, Abandoned
<1>5. Leases' \subseteq Leases
  BY <1>2 DEF Leases, RowLeases, BotLeases, Abandoned
<1>6. LeasesAreOfAttempts' /\ OneLeaseUnlessRetrySafe'
  BY <1>2, <1>5, NoNewLease DEF Abandoned
<1>7. LiveLeaseIsCurrent'
  BY <1>2 DEF LiveLeaseIsCurrent, Abandoned, Terminal, BotShape, TypeOK, BotType
<1> QED
  BY <1>3, <1>4, <1>6, <1>7

\* complete(): the request was sent by a bot that ran the command, and the
\* command had no result before.
LEMMA CompleteKeeps ==
    ASSUME LedgerInv, NEW m \in sent, CompleteCommand(m)
    PROVE  LedgerInv'
<1> USE DEF LedgerInv, CompleteCommand, CompletionAccepted
<1> DEFINE c == m.command
<1>1. c \in Commands /\ m.outcome \in Outcomes /\ row[c].status = "CLAIMED"
  BY DEF TypeOK, RequestType
<1>2. Completed(c, m.outcome) \in RowType
  BY <1>1 DEF Completed, TypeOK, RowType
<1>3. /\ row' \in [Commands -> RowType]
      /\ row'[c] = Completed(c, m.outcome)
      /\ \A d \in Commands \ {c} : row'[d] = row[d]
  BY <1>1, <1>2 DEF TypeOK
<1>4. results' = results \cup {[command |-> c, outcome |-> m.outcome,
                                version |-> row'[c].version]}
  OBVIOUS
<1>5. TypeOK'
  BY <1>1, <1>3 DEF TypeOK, RowType
<1>6. RowShape' /\ BotShape' /\ SentWasExecuted' /\ LeaseExclusive'
  BY <1>1, <1>3
     DEF RowShape, BotShape, SentWasExecuted, LeaseExclusive, Holds, Completed
<1>7. Leases' \subseteq Leases
  BY <1>3 DEF Leases, RowLeases, BotLeases, Completed
<1>8. LeasesAreOfAttempts' /\ OneLeaseUnlessRetrySafe'
  BY <1>3, <1>7, NoNewLease DEF Completed
<1>9. LiveLeaseIsCurrent'
  BY <1>3 DEF LiveLeaseIsCurrent, Completed, Terminal, BotShape, TypeOK, BotType
<1>10. OneResultPerCompletion'
  <2>1. {r \in results' : r.command = c}
            = {[command |-> c, outcome |-> row'[c].outcome, version |-> row'[c].version]}
    BY <1>1, <1>3, <1>4 DEF OneResultPerCompletion, Completed
  <2>2. \E e \in execs : e.command = c
    BY DEF SentWasExecuted
  <2>3. \A d \in Commands \ {c} : {r \in results' : r.command = d} = {r \in results : r.command = d}
    BY <1>4
  <2>4. row'[c].status = "COMPLETED"
    BY <1>3 DEF Completed
  <2>5. ASSUME NEW d \in Commands
        PROVE  LET mine == {r \in results' : r.command = d} IN
               IF row'[d].status = "COMPLETED"
               THEN /\ mine = {[command |-> d, outcome |-> row'[d].outcome,
                                version |-> row'[d].version]}
                    /\ \E e \in execs' : e.command = d
               ELSE mine = {}
    <3>1. CASE d = c
      BY <3>1, <2>1, <2>2, <2>4
    <3>2. CASE d # c
      BY <3>2, <2>3, <1>3 DEF OneResultPerCompletion
    <3> QED
      BY <3>1, <3>2
  <2> QED
    BY <2>5 DEF OneResultPerCompletion
<1> QED
  BY <1>5, <1>6, <1>8, <1>9, <1>10

\* A bot's side effect happens under the lease the bot holds, so it is no new
\* lease; its report names that execution.
LEMMA ExecuteKeeps ==
    ASSUME LedgerInv, NEW b \in Bots, Execute(b)
    PROVE  LedgerInv'
<1> USE DEF LedgerInv, Execute
<1> DEFINE run == [bot |-> b, command |-> bot[b].command, token |-> bot[b].token]
<1>1. /\ bot[b].command \in Commands /\ bot[b].token \in Nat
      /\ bot[b].version \in Nat /\ bot[b].left \in Left
  BY DEF BotShape, TypeOK, BotType
<1>2. PICK o \in Outcomes :
        /\ bot' = [bot EXCEPT ![b] = Executed(bot[b], o)]
        /\ sent' = sent \cup {Report(bot'[b])}
  OBVIOUS
<1>3. Executed(bot[b], o) \in BotType
  BY <1>1 DEF Executed, BotType
<1>4. /\ bot' \in [Bots -> BotType]
      /\ bot'[b] = Executed(bot[b], o)
      /\ \A a \in Bots \ {b} : bot'[a] = bot[a]
  BY <1>2, <1>3 DEF TypeOK
<1>5. Report(bot'[b]) \in RequestType /\ run \in ExecType
  BY <1>1, <1>4 DEF Report, Executed, RequestType, ExecType
<1>6. TypeOK'
  BY <1>2, <1>4, <1>5 DEF TypeOK
<1>7. RowShape' /\ OneResultPerCompletion'
  BY DEF RowShape, OneResultPerCompletion
<1>8. BotShape'
  BY <1>1, <1>4 DEF BotShape, Executed, Left
<1>9. Leases' \subseteq Leases
  <2>1. BotLeases' = BotLeases /\ run \in BotLeases
    BY <1>4 DEF BotLeases, Executed
  <2>2. RowLeases' = RowLeases
    BY DEF RowLeases
  <2> QED
    BY <2>1, <2>2 DEF Leases
<1>10. LeasesAreOfAttempts' /\ OneLeaseUnlessRetrySafe'
  BY <1>9, NoNewLease
<1>11. SentWasExecuted'
  <2>1. /\ Report(bot'[b]).command = run.command /\ Report(bot'[b]).token = run.token
        /\ run \in execs' /\ execs \subseteq execs'
    BY <1>4 DEF Report, Executed
  <2>2. \A m \in sent' : m \in sent \/ m = Report(bot'[b])
    BY <1>2
  <2> HIDE DEF run
  <2> QED
    BY <2>1, <2>2, Zenon DEF SentWasExecuted
<1>12. LiveLeaseIsCurrent' /\ LeaseExclusive'
  BY <1>4 DEF LiveLeaseIsCurrent, LeaseExclusive, Holds, Executed
<1> QED
  BY <1>6, <1>7, <1>8, <1>10, <1>11, <1>12

\* A bot that ends, by an answer or by a crash, only gives leases up.
LEMMA ReleaseKeeps ==
    ASSUME LedgerInv, NEW b \in Bots, Finish(b) \/ Crash(b)
    PROVE  LedgerInv'
<1> USE DEF LedgerInv
<1>1. /\ bot' = [bot EXCEPT ![b] = Idle]
      /\ UNCHANGED <<row, results, nextToken, sent, execs>>
      /\ crashes' \in Nat
  BY DEF Finish, Crash, TypeOK
<1>2. /\ bot' \in [Bots -> BotType]
      /\ bot'[b].pc = "idle"
      /\ \A a \in Bots \ {b} : bot'[a] = bot[a]
  BY <1>1 DEF TypeOK, Idle, BotType
<1>3. TypeOK'
  BY <1>1, <1>2 DEF TypeOK
<1>4. RowShape' /\ BotShape' /\ SentWasExecuted' /\ OneResultPerCompletion'
  BY <1>1, <1>2 DEF RowShape, BotShape, SentWasExecuted, OneResultPerCompletion
<1>5. Leases' \subseteq Leases
  BY <1>1, <1>2 DEF Leases, RowLeases, BotLeases
<1>6. LeasesAreOfAttempts' /\ OneLeaseUnlessRetrySafe'
  BY <1>1, <1>5, NoNewLease
<1>7. LiveLeaseIsCurrent' /\ LeaseExclusive'
  BY <1>1, <1>2 DEF LiveLeaseIsCurrent, LeaseExclusive, Holds
<1> QED
  BY <1>3, <1>4, <1>6, <1>7

\* A unit of time changes nothing of a row but the time its lease has left.
LEMMA AgedRow ==
    ASSUME NEW r \in RowType
    PROVE  /\ Aged(r) \in RowType
           /\ Aged(r).status = r.status /\ Aged(r).claimant = r.claimant
           /\ Aged(r).token = r.token /\ Aged(r).attempts = r.attempts
           /\ Aged(r).version = r.version /\ Aged(r).outcome = r.outcome
           /\ Aged(r).left = IF r.left = None \/ r.left = -MaxSkew
                             THEN r.left ELSE r.left - 1
<1>1. CASE r.left = None \/ r.left = -MaxSkew
  BY <1>1 DEF Aged
<1>2. CASE ~(r.left = None \/ r.left = -MaxSkew)
  <2>1. Aged(r) = [r EXCEPT !.left = r.left - 1]
    BY <1>2 DEF Aged
  <2>2. r.left - 1 \in Left
    <3>1. r.left \in Left
      BY <1>2 DEF RowType
    <3> QED
      BY <1>2, <3>1 DEF Left
  <2> QED
    BY <1>2, <2>1, <2>2 DEF RowType
<1> QED
  BY <1>1, <1>2

\* The same for the copy of the lease in a bot's memory.
LEMMA AgedBot ==
    ASSUME NEW h \in BotType
    PROVE  /\ Aged(h) \in BotType
           /\ Aged(h).pc = h.pc /\ Aged(h).command = h.command
           /\ Aged(h).token = h.token /\ Aged(h).version = h.version
           /\ Aged(h).outcome = h.outcome
           /\ Aged(h).left = IF h.left = None \/ h.left = -MaxSkew
                             THEN h.left ELSE h.left - 1
<1>1. CASE h.left = None \/ h.left = -MaxSkew
  BY <1>1 DEF Aged
<1>2. CASE ~(h.left = None \/ h.left = -MaxSkew)
  <2>1. Aged(h) = [h EXCEPT !.left = h.left - 1]
    BY <1>2 DEF Aged
  <2>2. h.left - 1 \in Left
    <3>1. h.left \in Left
      BY <1>2 DEF BotType
    <3> QED
      BY <1>2, <3>1 DEF Left
  <2> QED
    BY <1>2, <2>1, <2>2 DEF BotType
<1> QED
  BY <1>1, <1>2

\* Time shortens every lease alike.
LEMMA TickKeeps ==
    ASSUME LedgerInv, Tick
    PROVE  LedgerInv'
<1> USE DEF LedgerInv, Tick
<1>1. \A c \in Commands :
        /\ row'[c] \in RowType
        /\ row'[c].status = row[c].status /\ row'[c].claimant = row[c].claimant
        /\ row'[c].token = row[c].token /\ row'[c].attempts = row[c].attempts
        /\ row'[c].version = row[c].version /\ row'[c].outcome = row[c].outcome
        /\ row'[c].left = IF row[c].left = None \/ row[c].left = -MaxSkew
                          THEN row[c].left ELSE row[c].left - 1
  BY AgedRow DEF TypeOK
<1>2. \A b \in Bots :
        /\ bot'[b] \in BotType
        /\ bot'[b].pc = bot[b].pc /\ bot'[b].command = bot[b].command
        /\ bot'[b].token = bot[b].token /\ bot'[b].version = bot[b].version
        /\ bot'[b].outcome = bot[b].outcome
        /\ bot'[b].left = IF bot[b].left = None \/ bot[b].left = -MaxSkew
                          THEN bot[b].left ELSE bot[b].left - 1
  BY AgedBot DEF TypeOK
<1>3. TypeOK'
  BY <1>1, <1>2 DEF TypeOK
<1>4. RowShape' /\ OneResultPerCompletion' /\ SentWasExecuted'
  BY <1>1 DEF RowShape, OneResultPerCompletion, SentWasExecuted, TypeOK, RowType, Left
<1>5. BotShape'
  BY <1>2 DEF BotShape, TypeOK, BotType, Left
<1>6. Leases' \subseteq Leases
  BY <1>1, <1>2 DEF Leases, RowLeases, BotLeases
<1>7. LeasesAreOfAttempts' /\ OneLeaseUnlessRetrySafe'
  BY <1>1, <1>6, NoNewLease
<1>8. \A b \in Bots : bot[b].pc # "idle" =>
         /\ bot[b].command \in Commands /\ bot[b].left \in Int
         /\ bot'[b].left > MaxSkew => bot[b].left > MaxSkew
  BY <1>2 DEF BotShape, TypeOK, BotType, Left
<1>9. LiveLeaseIsCurrent'
  BY <1>1, <1>2, <1>8 DEF LiveLeaseIsCurrent
<1>10. LeaseExclusive'
  BY <1>2, <1>8 DEF LeaseExclusive, Holds
<1> QED
  BY <1>3, <1>4, <1>5, <1>7, <1>9, <1>10

-----------------------------------------------------------------------------
(* The theorems. *)

\* Every step of the ledger, its bots and the clock keeps the invariant.
LEMMA LedgerStep == LedgerInv /\ [Next]_vars => LedgerInv'
<1> SUFFICES ASSUME LedgerInv, [Next]_vars PROVE LedgerInv'
  OBVIOUS
<1>1. ASSUME NEW b \in Bots, NEW c \in Commands, ClaimCommand(b, c) PROVE LedgerInv'
  BY <1>1, AcquireKeeps, ExistingKeeps, MarkRecoveryKeeps DEF ClaimCommand
<1>2. CASE UNCHANGED vars
  BY <1>2
     DEF vars, LedgerInv, TypeOK, RowShape, BotShape, LeasesAreOfAttempts, Leases,
         RowLeases, BotLeases, OneLeaseUnlessRetrySafe, SentWasExecuted,
         LiveLeaseIsCurrent, LeaseExclusive, Holds, OneResultPerCompletion
<1> QED
  BY <1>1, <1>2, RegisterKeeps, CompleteKeeps, ExecuteKeeps, ReleaseKeeps, TickKeeps
     DEF Next

\* The empty ledger satisfies the invariant.
LEMMA LedgerStart == Init => LedgerInv
<1> SUFFICES ASSUME Init PROVE LedgerInv
  OBVIOUS
<1>1. TypeOK
  BY DEF Init, TypeOK, AbsentRow, Idle, RowType, BotType, Left
<1>2. Leases = {}
  BY DEF Init, Leases, RowLeases, BotLeases, AbsentRow, Idle
<1> QED
  BY <1>1, <1>2
     DEF Init, LedgerInv, RowShape, BotShape, LeasesAreOfAttempts,
         OneLeaseUnlessRetrySafe, SentWasExecuted, LiveLeaseIsCurrent, LeaseExclusive,
         Holds, OneResultPerCompletion, AbsentRow, Idle

\* The invariant always holds.
THEOREM LedgerInvariant == Spec => []LedgerInv
BY LedgerStart, LedgerStep, PTL DEF Spec

\* The ledger's variables always have their types.
THEOREM LedgerTypes == Spec => []TypeOK
<1>1. LedgerInv => TypeOK
  BY DEF LedgerInv
<1> QED
  BY <1>1, LedgerInvariant, PTL

\* A command that is not retry-safe is leased at most once and run under that
\* lease only: claim() never hands out a second token for it.
THEOREM NonRetrySafeOnce == Spec => []NonRetrySafeRunsUnderOneLease
<1>1. LedgerInv => NonRetrySafeRunsUnderOneLease
  BY DEF LedgerInv, OneLeaseUnlessRetrySafe, NonRetrySafeRunsUnderOneLease, Leases
<1> QED
  BY <1>1, LedgerInvariant, PTL

\* Leases no replica's clock can see as ended exclude each other.
THEOREM LeasesExclude == Spec => []LeaseExclusive
<1>1. LedgerInv => LeaseExclusive
  BY DEF LedgerInv
<1> QED
  BY <1>1, LedgerInvariant, PTL

\* complete() writes exactly one result row per completed command.
THEOREM OneResult == Spec => []OneResultPerCompletion
<1>1. LedgerInv => OneResultPerCompletion
  BY DEF LedgerInv
<1> QED
  BY <1>1, LedgerInvariant, PTL

\* One step never touches a completed or abandoned command, nor lets a bot come
\* to hold it: neither a late completion nor a new claim finds a way in.
LEMMA TerminalStep ==
    ASSUME LedgerInv, [Next]_vars, NEW c \in Commands, row[c].status \in Terminal
    PROVE  /\ row'[c] = row[c]
           /\ \A b \in Bots : Holds(b, c)' => Holds(b, c)
<1> USE DEF Terminal, Holds
<1> DEFINE Kept == row'[c] = row[c] /\ \A b \in Bots : Holds(b, c)' => Holds(b, c)
<1>1. ASSUME NEW d \in Commands, Register(d) PROVE Kept
  BY <1>1 DEF Register, LedgerInv, TypeOK
<1>2. ASSUME NEW b \in Bots, NEW d \in Commands, ClaimCommand(b, d) PROVE Kept
  <2> DEFINE Touched ==
        /\ d # c \/ UNCHANGED <<row, bot>>
        /\ \A e \in Commands \ {d} : row'[e] = row[e]
        /\ \A a \in Bots \ {b} : bot'[a] = bot[a]
        /\ bot'[b] = bot[b] \/ bot'[b] = Holding(d, row'[d])
  <2>1. Touched
    <3> USE DEF LedgerInv, TypeOK
    <3>1. ASSUME NEW skew \in Int, NEW lease \in Int, ClaimAcquire(b, d, skew, lease)
          PROVE  Touched
      BY <3>1 DEF ClaimAcquire, Reply, Decision
    <3>2. ASSUME NEW skew \in Int, ClaimExisting(b, d, skew) PROVE Touched
      BY <3>2 DEF ClaimExisting, Reply, Decision
    <3>3. ASSUME NEW skew \in Int, ClaimMarkRecovery(b, d, skew) PROVE Touched
      BY <3>3 DEF ClaimMarkRecovery, Decision
    <3>4. PICK skew \in (-MaxSkew) .. MaxSkew :
             \/ \E lease \in MinLease .. MaxLease : ClaimAcquire(b, d, skew, lease)
             \/ ClaimExisting(b, d, skew)
             \/ ClaimMarkRecovery(b, d, skew)
      BY <1>2 DEF ClaimCommand
    <3> HIDE DEF Touched
    <3> QED
      BY <3>1, <3>2, <3>3, <3>4
  <2> QED
    BY <2>1 DEF Holding
<1>3. ASSUME NEW m \in sent, CompleteCommand(m) PROVE Kept
  BY <1>3 DEF CompleteCommand, CompletionAccepted, LedgerInv, TypeOK
<1>4. ASSUME NEW b \in Bots, Execute(b) PROVE Kept
  BY <1>4 DEF Execute, Executed, LedgerInv, TypeOK
<1>5. ASSUME NEW b \in Bots, Finish(b) \/ Crash(b) PROVE Kept
  BY <1>5 DEF Finish, Crash, Idle, LedgerInv, TypeOK
<1>6. CASE Tick
  BY <1>6, AgedBot DEF Tick, Aged, LedgerInv, TypeOK, RowShape
<1>7. CASE UNCHANGED vars
  BY <1>7 DEF vars
<1> QED
  BY <1>1, <1>2, <1>3, <1>4, <1>5, <1>6, <1>7 DEF Next

\* COMPLETED and RECOVERY_REQUIRED are final.
THEOREM LedgerTerminal == Spec => TerminalIsFinal
<1>1. LedgerInv /\ [Next]_vars =>
        [\A c \in Commands : row[c].status \in Terminal =>
            /\ row'[c] = row[c]
            /\ \A b \in Bots : Holds(b, c)' => Holds(b, c)]_vars
  BY TerminalStep
<1> QED
  BY <1>1, LedgerInvariant, PTL DEF Spec, TerminalIsFinal

-----------------------------------------------------------------------------
(* Refinement of CommandPromise. *)

\* Steps that leave statuses, executions and results alone are invisible.
LEMMA Invisible ==
    ASSUME \A c \in Commands : row'[c].status = row[c].status,
           UNCHANGED <<execs, results>>
    PROVE  UNCHANGED <<verdictOf, runnersOf, publishedOf>>
BY DEF verdictOf, runnersOf, publishedOf

\* Each operation of the ledger is the step of the promise it stands for: a
\* registration accepts, a side effect runs, a completion decides, a lost lease
\* of a command that is not retry-safe abandons; the rest is invisible.
LEMMA PromiseStep ==
    ASSUME LedgerInv, [Next]_vars
    PROVE  [Promise!PromiseNext]_(Promise!promiseVars)
<1> DEFINE Step == [Promise!PromiseNext]_(Promise!promiseVars)
<1> SUFFICES Step
  OBVIOUS
<1> USE DEF LedgerInv, TypeOK
<1>1. ASSUME NEW c \in Commands, Register(c) PROVE Step
  <2>1. \A d \in Commands : row'[d].status = IF d = c THEN "PENDING" ELSE row[d].status
    BY <1>1 DEF Register, RowType
  <2>2. verdictOf[c] = "unknown" /\ verdictOf' = [verdictOf EXCEPT ![c] = "open"]
    <3>1. row[c].status = "ABSENT"
      BY <1>1 DEF Register
    <3> QED
      BY <2>1, <3>1 DEF verdictOf
  <2>3. UNCHANGED <<runnersOf, publishedOf>>
    BY <1>1 DEF Register, runnersOf, publishedOf
  <2> QED
    BY <2>2, <2>3 DEF Promise!PromiseNext, Promise!Accept, publishedOf
<1>2. ASSUME NEW b \in Bots, NEW c \in Commands, ClaimCommand(b, c) PROVE Step
  <2>1. ASSUME NEW skew \in Int, NEW lease \in Int, ClaimAcquire(b, c, skew, lease)
        PROVE  Step
    <3>1. verdictOf' = verdictOf
      BY <2>1 DEF verdictOf, ClaimAcquire, Acquired, Decision
    <3>2. UNCHANGED <<runnersOf, publishedOf>>
      BY <2>1 DEF ClaimAcquire, runnersOf, publishedOf
    <3> QED
      BY <3>1, <3>2 DEF Promise!promiseVars, publishedOf
  <2>2. ASSUME NEW skew \in Int, ClaimExisting(b, c, skew) PROVE Step
    BY <2>2, Invisible DEF ClaimExisting, Promise!promiseVars, publishedOf
  <2>3. ASSUME NEW skew \in Int, ClaimMarkRecovery(b, c, skew) PROVE Step
    <3>1. row[c].status = "CLAIMED" /\ c \notin RetrySafe
      BY <2>3 DEF ClaimMarkRecovery, Decision, RowType
    <3>2. \A d \in Commands :
             row'[d].status = IF d = c THEN "RECOVERY_REQUIRED" ELSE row[d].status
      BY <2>3 DEF ClaimMarkRecovery, Abandoned
    <3>3. verdictOf[c] = "open" /\ verdictOf' = [verdictOf EXCEPT ![c] = "abandoned"]
      BY <3>1, <3>2 DEF verdictOf
    <3>4. UNCHANGED <<runnersOf, publishedOf>>
      BY <2>3 DEF ClaimMarkRecovery, runnersOf, publishedOf
    <3> QED
      BY <3>1, <3>3, <3>4 DEF Promise!PromiseNext, Promise!Abandon, publishedOf
  <2>4. PICK skew \in (-MaxSkew) .. MaxSkew :
           \/ \E lease \in MinLease .. MaxLease : ClaimAcquire(b, c, skew, lease)
           \/ ClaimExisting(b, c, skew)
           \/ ClaimMarkRecovery(b, c, skew)
    BY <1>2 DEF ClaimCommand
  <2> HIDE DEF Step
  <2> QED
    BY <2>1, <2>2, <2>3, <2>4
<1>3. ASSUME NEW m \in sent, CompleteCommand(m) PROVE Step
  <2> DEFINE c == m.command
  <2>1. c \in Commands /\ m.outcome \in Outcomes /\ row[c].status = "CLAIMED"
    BY <1>3 DEF CompleteCommand, CompletionAccepted, RequestType
  <2>2. \A d \in Commands :
           row'[d].status = IF d = c THEN "COMPLETED" ELSE row[d].status
    BY <1>3, <2>1 DEF CompleteCommand, Completed
  <2>3. verdictOf[c] = "open" /\ verdictOf' = [verdictOf EXCEPT ![c] = "done"]
    BY <2>1, <2>2 DEF verdictOf
  <2>4. runnersOf[c] # {}
    <3>1. PICK e \in execs : e.command = c
      BY DEF SentWasExecuted
    <3>2. e.bot \in runnersOf[c]
      BY <2>1, <3>1 DEF runnersOf
    <3> QED
      BY <3>2
  <2>5. UNCHANGED runnersOf /\ publishedOf' = publishedOf \cup {<<c, m.outcome>>}
    <3>1. PICK v : results' = results \cup {[command |-> c, outcome |-> m.outcome,
                                             version |-> v]}
      BY <1>3 DEF CompleteCommand
    <3>2. publishedOf' = publishedOf \cup {<<c, m.outcome>>}
      <4> DEFINE new == [command |-> c, outcome |-> m.outcome, version |-> v]
      <4>1. new.command = c /\ new.outcome = m.outcome
        OBVIOUS
      <4>2. results' = results \cup {new}
        BY <3>1
      <4> HIDE DEF new, c
      <4> QED
        BY <4>1, <4>2 DEF publishedOf
    <3> QED
      BY <1>3, <3>2 DEF CompleteCommand, runnersOf
  <2> QED
    BY <2>1, <2>3, <2>4, <2>5 DEF Promise!PromiseNext, Promise!Decide, publishedOf
<1>4. ASSUME NEW b \in Bots, Execute(b) PROVE Step
  <2> DEFINE c == bot[b].command
  <2> DEFINE run == [bot |-> b, command |-> c, token |-> bot[b].token]
  <2>1. c \in Commands /\ execs' = execs \cup {run} /\ run \in BotLeases
    BY <1>4 DEF Execute, BotShape, BotType, BotLeases
  <2>2. verdictOf[c] # "unknown"
    <3>1. row[c].attempts > 0
      BY <2>1 DEF LeasesAreOfAttempts, Leases
    <3> QED
      BY <2>1, <3>1 DEF verdictOf, RowShape
  <2>3. c \in RetrySafe \/ runnersOf[c] \subseteq {b}
    BY <2>1 DEF OneLeaseUnlessRetrySafe, Leases, runnersOf
  <2>4. runnersOf' = [runnersOf EXCEPT ![c] = @ \cup {b}]
    <3>1. runnersOf'[c] = runnersOf[c] \cup {b}
      BY <2>1 DEF runnersOf
    <3>2. \A d \in Commands \ {c} : runnersOf'[d] = runnersOf[d]
      BY <2>1 DEF runnersOf
    <3>3. /\ runnersOf = [d \in Commands |-> runnersOf[d]]
          /\ runnersOf' = [d \in Commands |-> runnersOf'[d]]
      BY DEF runnersOf
    <3> QED
      BY <3>1, <3>2, <3>3
  <2>5. UNCHANGED <<verdictOf, publishedOf>>
    BY <1>4 DEF Execute, verdictOf, publishedOf
  <2> QED
    BY <2>1, <2>2, <2>3, <2>4, <2>5 DEF Promise!PromiseNext, Promise!Run, publishedOf
<1>5. ASSUME NEW b \in Bots, Finish(b) \/ Crash(b) PROVE Step
  BY <1>5, Invisible DEF Finish, Crash, Promise!promiseVars, publishedOf
<1>6. CASE Tick
  BY <1>6, AgedRow, Invisible DEF Tick, Promise!promiseVars, publishedOf
<1>7. CASE UNCHANGED vars
  BY <1>7, Invisible DEF vars, Promise!promiseVars, publishedOf
<1> HIDE DEF Step
<1> QED
  BY <1>1, <1>2, <1>3, <1>4, <1>5, <1>6, <1>7 DEF Next

\* The ledger implements CommandPromise.
THEOREM LedgerKeepsPromise == Spec => KeepsPromise
<1>1. Init => Promise!PromiseInit
  BY DEF Init, Promise!PromiseInit, verdictOf, runnersOf, publishedOf, AbsentRow
<1>2. LedgerInv /\ [Next]_vars => [Promise!PromiseNext]_(Promise!promiseVars)
  BY PromiseStep
<1> QED
  BY <1>1, <1>2, LedgerInvariant, PTL DEF Spec, KeepsPromise, Promise!PromiseSpec
=============================================================================
