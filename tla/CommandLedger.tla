--------------------------- MODULE CommandLedger ---------------------------
(***************************************************************************)
(* The durable ledger of bot commands (trust_safety.processed_command):    *)
(* registration by a decision's transaction, ClaimCommand, CompleteCommand *)
(* and the result rows, with bot processes that claim, execute, complete,  *)
(* crash and restart.  Every RPC is one PostgreSQL transaction under       *)
(* SELECT ... FOR UPDATE and so one step; what is not atomic is the bot:   *)
(* between claim, side effect and completion everything may interleave, a  *)
(* reply may be lost, and a completion may arrive late or more than once.  *)
(***************************************************************************)
EXTENDS Integers, FiniteSets

CONSTANTS
    Commands,       \* command ids
    RetrySafe,      \* the DELETE and KICK commands; NOTIFY and notices are not
    Bots,           \* claimant ids
    Outcomes,       \* (success, result_code) pairs a completion may report
    MinLease,       \* MIN_LEASE_SECONDS, in ticks
    MaxLease,       \* MAX_LEASE_SECONDS, in ticks
    MaxSkew,        \* largest distance between a replica's clock and the database's
    MaxAttempts,    \* bound on attempt_count: how often a command is leased
    MaxCrashes,     \* bound on bot crashes
    None            \* SQL NULL

ASSUME LedgerConstants ==
    /\ RetrySafe \subseteq Commands
    /\ MinLease \in Nat \ {0} /\ MaxLease \in Nat /\ MinLease <= MaxLease
    /\ MaxSkew \in Nat /\ MaxAttempts \in Nat /\ MaxCrashes \in Nat
    /\ None \notin Commands \cup Bots \cup Outcomes \cup Int

VARIABLES
    row,        \* processed_command, per command id
    results,    \* COMMAND_RESULT rows of the outbox
    nextToken,  \* tokens are fresh UUIDs; here the least unused number
    bot,        \* what each bot process holds in memory
    sent,       \* CompleteCommand requests on the wire, never forgotten
    execs,      \* side effects performed: who, under which token
    crashes

vars == <<row, results, nextToken, bot, sent, execs, crashes>>

\* lease_expires_at is kept as the time left until it by the database clock:
\* every comparison in the code is between an expiry and a current time.  Past
\* -MaxSkew no replica's clock can tell it from an older expiry.
Left == (-MaxSkew) .. MaxLease

Idle == [pc |-> "idle", command |-> None, token |-> None, version |-> None,
         left |-> None, outcome |-> None]

AbsentRow == [status |-> "ABSENT", claimant |-> None, token |-> None, left |-> None,
              attempts |-> 0, version |-> 1, outcome |-> None]

RowType ==
    [status : {"ABSENT", "PENDING", "CLAIMED", "COMPLETED", "RECOVERY_REQUIRED"},
     claimant : Bots \cup {None}, token : Nat \cup {None}, left : Left \cup {None},
     attempts : Nat, version : Nat, outcome : Outcomes \cup {None}]

BotType ==
    [pc : {"idle", "claimed", "executed"}, command : Commands \cup {None},
     token : Nat \cup {None}, version : Nat \cup {None},
     left : Left \cup {None}, outcome : Outcomes \cup {None}]

RequestType == [command : Commands, token : Nat, version : Nat, outcome : Outcomes]

ExecType == [bot : Bots, command : Commands, token : Nat]

TypeOK ==
    /\ row \in [Commands -> RowType]
    /\ results \subseteq [command : Commands, outcome : Outcomes, version : Nat]
    /\ nextToken \in Nat \ {0}
    /\ bot \in [Bots -> BotType]
    /\ sent \subseteq RequestType
    /\ execs \subseteq ExecType
    /\ crashes \in Nat

Init ==
    /\ row = [c \in Commands |-> AbsentRow]
    /\ results = {}
    /\ nextToken = 1
    /\ bot = [b \in Bots |-> Idle]
    /\ sent = {}
    /\ execs = {}
    /\ crashes = 0

-----------------------------------------------------------------------------
(* The server. *)

\* register_command: inside the transaction that persists the decision.  Its
\* idempotency key is unique, so a command is inserted at most once.
Register(c) ==
    /\ row[c].status = "ABSENT"
    /\ row' = [row EXCEPT ![c].status = "PENDING"]
    /\ UNCHANGED <<results, nextToken, bot, sent, execs, crashes>>

\* lease_expires_at > now, on a replica whose clock is skew ahead.
LeaseLive(r, skew) == r.left > skew

\* Slips of decide_claim: an ended lease is taken over whatever the command;
\* an ended lease still counts as busy.
DecisionTakesOver(c, b, skew) ==
    LET r == row[c] IN
    CASE r.status = "PENDING" -> "Acquire"
      [] r.status = "CLAIMED" -> IF LeaseLive(r, skew) THEN "ReturnBusy" ELSE "Acquire"
      [] OTHER                -> "ReturnCompleted"

DecisionWaitsForever(c, b, skew) ==
    CASE row[c].status = "PENDING" -> "Acquire"
      [] row[c].status = "CLAIMED" -> "ReturnBusy"
      [] OTHER                     -> "ReturnCompleted"

\* decide_claim.
Decision(c, b, skew) ==
    LET r == row[c] IN
    CASE r.status = "COMPLETED"         -> "ReturnCompleted"
      [] r.status = "RECOVERY_REQUIRED" -> "ReturnRecoveryRequired"
      [] r.status = "PENDING"           -> "Acquire"
      [] r.status = "CLAIMED"           ->
            IF LeaseLive(r, skew)
            THEN IF r.claimant = b THEN "ReturnExistingClaim" ELSE "ReturnBusy"
            ELSE IF c \in RetrySafe THEN "Acquire" ELSE "MarkRecoveryRequired"
      [] OTHER                          -> "NotFound"

Holding(c, r) == [pc |-> "claimed", command |-> c, token |-> r.token,
                  version |-> r.version, left |-> r.left, outcome |-> None]

\* The reply of an Acquired claim reaches the bot, or is lost.
Reply(b, c) ==
    \/ bot' = [bot EXCEPT ![b] = Holding(c, row'[c])]
    \/ bot' = bot

Acquired(c, b, lease) ==
    [status |-> "CLAIMED", claimant |-> b, token |-> nextToken, left |-> lease,
     attempts |-> row[c].attempts + 1, version |-> row[c].version + 1,
     outcome |-> row[c].outcome]

Abandoned(c) ==
    [status |-> "RECOVERY_REQUIRED", claimant |-> None, token |-> None, left |-> None,
     attempts |-> row[c].attempts, version |-> row[c].version + 1,
     outcome |-> row[c].outcome]

\* ClaimCommand with the decision Acquire: a new token and a lease counted
\* from the database clock.
ClaimAcquire(b, c, skew, lease) ==
    /\ Decision(c, b, skew) = "Acquire"
    /\ row[c].attempts < MaxAttempts
    /\ row' = [row EXCEPT ![c] = Acquired(c, b, lease)]
    /\ nextToken' = nextToken + 1
    /\ Reply(b, c)
    /\ UNCHANGED <<results, sent, execs, crashes>>

\* The claimant asks again under its live lease and gets the same token.
ClaimExisting(b, c, skew) ==
    /\ Decision(c, b, skew) = "ReturnExistingClaim"
    /\ row' = row
    /\ Reply(b, c)
    /\ UNCHANGED <<results, nextToken, sent, execs, crashes>>

\* The lease of a command that must not run twice has ended: give it up.
ClaimMarkRecovery(b, c, skew) ==
    /\ Decision(c, b, skew) = "MarkRecoveryRequired"
    /\ row' = [row EXCEPT ![c] = Abandoned(c)]
    /\ UNCHANGED <<results, nextToken, bot, sent, execs, crashes>>

\* A replica compares the lease with its own Utc::now().
ClaimCommand(b, c) ==
    /\ bot[b].pc = "idle"
    /\ \E skew \in (-MaxSkew) .. MaxSkew :
          \/ \E lease \in MinLease .. MaxLease : ClaimAcquire(b, c, skew, lease)
          \/ ClaimExisting(b, c, skew)
          \/ ClaimMarkRecovery(b, c, skew)

Completed(c, outcome) ==
    [status |-> "COMPLETED", claimant |-> None, token |-> None, left |-> None,
     attempts |-> row[c].attempts, version |-> row[c].version + 1,
     outcome |-> outcome]

\* complete() up to its first write: the checks that let a request through.
\* The lease's expiry is not among them.
CompletionAccepted(m) ==
    /\ row[m.command].status = "CLAIMED"
    /\ row[m.command].token = m.token
    /\ row[m.command].version = m.version

\* Slip: the outcome is stored without its COMMAND_RESULT row.
CompleteCommandSilently(m) ==
    /\ CompletionAccepted(m)
    /\ row' = [row EXCEPT ![m.command] = Completed(m.command, m.outcome)]
    /\ UNCHANGED <<results, nextToken, bot, sent, execs, crashes>>

\* CompleteCommand: the outcome and its COMMAND_RESULT row in one transaction.
\* Every other request either fails or is answered from the stored outcome, and
\* changes nothing.
CompleteCommand(m) ==
    /\ CompletionAccepted(m)
    /\ row' = [row EXCEPT ![m.command] = Completed(m.command, m.outcome)]
    /\ results' = results \cup {[command |-> m.command, outcome |-> m.outcome,
                                 version |-> row'[m.command].version]}
    /\ UNCHANGED <<nextToken, bot, sent, execs, crashes>>

-----------------------------------------------------------------------------
(* The bots (external) and time. *)

Executed(h, o) == [pc |-> "executed", command |-> h.command, token |-> h.token,
                   version |-> h.version, left |-> h.left, outcome |-> o]

Report(h) == [command |-> h.command, token |-> h.token, version |-> h.version,
              outcome |-> h.outcome]

\* The side effect.  The bot may be slow: its lease may have ended, and somebody
\* else may hold the next one.  It reports what happened until it is answered.
Execute(b) ==
    /\ bot[b].pc = "claimed"
    /\ \E o \in Outcomes :
          /\ bot' = [bot EXCEPT ![b] = Executed(@, o)]
          /\ sent' = sent \cup {Report(bot'[b])}
    /\ execs' = execs \cup {[bot |-> b, command |-> bot[b].command, token |-> bot[b].token]}
    /\ UNCHANGED <<row, results, nextToken, crashes>>

\* The bot gets an answer to its completion, acceptance or refusal, and
\* acknowledges the Kafka record.
Finish(b) ==
    /\ bot[b].pc = "executed"
    /\ ~CompletionAccepted(Report(bot[b]))
    /\ bot' = [bot EXCEPT ![b] = Idle]
    /\ UNCHANGED <<row, results, nextToken, sent, execs, crashes>>

\* A bot dies with whatever it held and comes back under the same claimant id.
Crash(b) ==
    /\ bot[b].pc # "idle"
    /\ crashes < MaxCrashes
    /\ crashes' = crashes + 1
    /\ bot' = [bot EXCEPT ![b] = Idle]
    /\ UNCHANGED <<row, results, nextToken, sent, execs>>

\* One unit of time passes for every lease.
Aged(r) == IF r.left = None \/ r.left = -MaxSkew THEN r ELSE [r EXCEPT !.left = @ - 1]

Tick ==
    /\ row' = [c \in Commands |-> Aged(row[c])]
    /\ bot' = [b \in Bots |-> Aged(bot[b])]
    /\ UNCHANGED <<results, nextToken, sent, execs, crashes>>

Next ==
    \/ \E c \in Commands : Register(c)
    \/ \E b \in Bots, c \in Commands : ClaimCommand(b, c)
    \/ \E m \in sent : CompleteCommand(m)
    \/ \E b \in Bots : Execute(b) \/ Finish(b) \/ Crash(b)
    \/ Tick

Spec == Init /\ [][Next]_vars

-----------------------------------------------------------------------------
(* Safety. *)

Terminal == {"COMPLETED", "RECOVERY_REQUIRED"}

Holds(b, c) == bot[b].pc # "idle" /\ bot[b].command = c

\* A command that is not retry-safe is leased once, and everything that was ever
\* done for it was done by one claimant under one token, whatever expires,
\* crashes, arrives late or is asked again.
NonRetrySafeRunsUnderOneLease ==
    \A c \in Commands \ RetrySafe :
        /\ row[c].attempts <= 1
        /\ \A e, f \in execs : e.command = c /\ f.command = c => e = f

\* Two bots never both hold a command under leases that no replica's clock can
\* see as ended ("an active lease owned by another claimant returns busy").
LeaseExclusive ==
    \A c \in Commands, a, b \in Bots :
        /\ Holds(a, c) /\ Holds(b, c)
        /\ bot[a].left > MaxSkew /\ bot[b].left > MaxSkew
        => a = b

\* A completed command has exactly one result row, it carries the stored
\* outcome, and somebody performed the side effect; no other command has one.
OneResultPerCompletion ==
    \A c \in Commands :
        LET mine == {r \in results : r.command = c} IN
        IF row[c].status = "COMPLETED"
        THEN /\ mine = {[command |-> c, outcome |-> row[c].outcome,
                         version |-> row[c].version]}
             /\ \E e \in execs : e.command = c
        ELSE mine = {}

\* A completed or abandoned command stays exactly as it is, and no bot comes to
\* hold it any more.
TerminalIsFinal ==
    [][\A c \in Commands : row[c].status \in Terminal =>
          /\ row'[c] = row[c]
          /\ \A b \in Bots : Holds(b, c)' => Holds(b, c)]_vars

-----------------------------------------------------------------------------
(* The inductive invariant behind the safety properties. *)

\* The CHECK constraints of the table, and what attempt_count says.
RowShape ==
    \A c \in Commands :
        /\ row[c].status = "CLAIMED" <=> row[c].token # None
        /\ row[c].status = "CLAIMED" <=> row[c].claimant # None
        /\ row[c].status = "CLAIMED" <=> row[c].left # None
        /\ row[c].status = "COMPLETED" <=> row[c].outcome # None
        /\ row[c].status \in {"ABSENT", "PENDING"} <=> row[c].attempts = 0

BotShape ==
    \A b \in Bots : bot[b].pc # "idle" =>
        /\ bot[b].command # None /\ bot[b].token # None
        /\ bot[b].version # None /\ bot[b].left # None
        /\ bot[b].pc = "executed" <=> bot[b].outcome # None

\* Every (claimant, command, token) triple in existence: in the ledger, in a
\* bot's memory, in the history of side effects.
RowLeases == {[bot |-> row[c].claimant, command |-> c, token |-> row[c].token] :
                 c \in {d \in Commands : row[d].status = "CLAIMED"}}
BotLeases == {[bot |-> b, command |-> bot[b].command, token |-> bot[b].token] :
                 b \in {a \in Bots : bot[a].pc # "idle"}}
Leases == RowLeases \cup BotLeases \cup execs

LeasesAreOfAttempts == \A e \in Leases : row[e.command].attempts > 0

OneLeaseUnlessRetrySafe ==
    \A c \in Commands \ RetrySafe :
        /\ row[c].attempts <= 1
        /\ \A e, f \in Leases : e.command = c /\ f.command = c => e = f

SentWasExecuted ==
    \A m \in sent : \E e \in execs : e.command = m.command /\ e.token = m.token

\* A lease nobody can see as ended is the ledger's own, until the command ends.
LiveLeaseIsCurrent ==
    \A b \in Bots :
        bot[b].pc # "idle" /\ bot[b].left > MaxSkew =>
            LET r == row[bot[b].command] IN
            \/ r.status \in Terminal
            \/ /\ r.status = "CLAIMED" /\ r.claimant = b
               /\ r.token = bot[b].token /\ r.left = bot[b].left

\* Everything above together, with the type invariant: what every step of the
\* ledger preserves, and what all its safety properties follow from.
LedgerInv ==
    /\ TypeOK
    /\ RowShape
    /\ BotShape
    /\ LeasesAreOfAttempts
    /\ OneLeaseUnlessRetrySafe
    /\ SentWasExecuted
    /\ LiveLeaseIsCurrent
    /\ LeaseExclusive
    /\ OneResultPerCompletion

-----------------------------------------------------------------------------
(* The ledger implements what it promises. *)

verdictOf == [c \in Commands |->
    CASE row[c].status = "ABSENT"    -> "unknown"
      [] row[c].status = "COMPLETED" -> "done"
      [] row[c].status = "RECOVERY_REQUIRED" -> "abandoned"
      [] OTHER -> "open"]

runnersOf == [c \in Commands |-> {e.bot : e \in {x \in execs : x.command = c}}]

publishedOf == {<<r.command, r.outcome>> : r \in results}

Promise == INSTANCE CommandPromise
    WITH verdict <- verdictOf,
         runners <- runnersOf,
         published <- publishedOf

\* Every step of the ledger and of its bots is a step of the promise or none.
KeepsPromise == Promise!PromiseSpec

-----------------------------------------------------------------------------
(* Liveness. *)

\* Kafka redelivers a command until it is acknowledged, so some bot keeps asking
\* for it; a bot that is up finishes its side effect, repeats its completion and
\* reads the answer; time passes.
Fairness ==
    /\ \A c \in Commands : WF_vars(\E b \in Bots : ClaimCommand(b, c))
    /\ \A b \in Bots : WF_vars(Execute(b)) /\ WF_vars(Finish(b))
    /\ \A b \in Bots : WF_vars(\E m \in sent : m.token = bot[b].token /\ CompleteCommand(m))
    /\ WF_vars(Tick)

FairSpec == Spec /\ Fairness

\* A registered command is completed or handed to an operator, unless it has
\* used up the model's bound on attempts.
EveryCommandSettles ==
    \A c \in Commands :
        row[c].status \in {"PENDING", "CLAIMED"}
            ~> row[c].status \in Terminal \/ row[c].attempts = MaxAttempts
=============================================================================
