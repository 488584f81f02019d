---------------------------- MODULE OutboxRelay ----------------------------
(***************************************************************************)
(* The transactional outbox and the relays of all replicas: a relay leases *)
(* a batch of rows, sends them to Kafka one by one, and marks each row     *)
(* under its lease token.  Sending and marking are separate steps, so a    *)
(* relay may die, lose the database or be overtaken between them; a send   *)
(* that reports an error may still have reached the topic.                 *)
(***************************************************************************)
EXTENDS Integers, FiniteSets

CONSTANTS
    Rows,           \* outbox rows
    Relays,         \* one per replica
    BatchSize,      \* the LIMIT of the claim: 25
    SendTimeout,    \* how long a send may take, in ticks: 10 s
    LeaseTicks,     \* how long a claim lasts, in ticks: 5 min
    MaxBackoff,     \* the largest delay after a failed send, in ticks: 60 s
    MaxFaults,      \* bound on crashes, stalls, send and database errors
    None            \* SQL NULL

\* A batch whose sends all run into their timeout is over before its lease.
ASSUME RelayConstants ==
    /\ BatchSize \in Nat \ {0} /\ SendTimeout \in Nat \ {0} /\ LeaseTicks \in Nat
    /\ BatchSize * SendTimeout < LeaseTicks
    /\ MaxBackoff \in Nat \ {0} /\ MaxFaults \in Nat
    /\ None \notin Rows \cup Nat

VARIABLES
    row,        \* trust_safety.outbox
    copies,     \* how many records of a row are on its topic
    relay,      \* relay_batch in progress on each replica
    nextToken,  \* lease tokens are fresh UUIDs; here the least unused number
    faults

vars == <<row, copies, relay, nextToken, faults>>

RowType ==
    [status : {"ABSENT", "PENDING", "CLAIMED", "FAILED", "PUBLISHED"},
     token : Nat \cup {None},
     left : Nat,        \* time until lease_expires_at
     wait : Nat,        \* time until available_at
     attempts : Nat]

RelayType ==
    [pc : {"idle", "sending", "sent", "unsent"}, token : Nat \cup {None},
     current : Rows \cup {None}, rest : SUBSET Rows, budget : Nat]

Idle == [pc |-> "idle", token |-> None, current |-> None, rest |-> {}, budget |-> 0]

TypeOK ==
    /\ row \in [Rows -> RowType]
    /\ \A r \in Rows : row[r].status = "CLAIMED" <=> row[r].token # None
    /\ copies \in [Rows -> Nat]
    /\ relay \in [Relays -> RelayType]
    /\ \A p \in Relays : relay[p].pc = "idle" <=> relay[p].current = None
    /\ nextToken \in Nat \ {0}
    /\ faults \in Nat

Init ==
    /\ row = [r \in Rows |-> [status |-> "ABSENT", token |-> None, left |-> 0, wait |-> 0,
                              attempts |-> 0]]
    /\ copies = [r \in Rows |-> 0]
    /\ relay = [p \in Relays |-> Idle]
    /\ nextToken = 1
    /\ faults = 0

-----------------------------------------------------------------------------
\* insert_outbox, inside the transaction of the state change it announces.
InsertOutbox(r) ==
    /\ row[r].status = "ABSENT"
    /\ row' = [row EXCEPT ![r].status = "PENDING"]
    /\ UNCHANGED <<copies, relay, nextToken, faults>>

\* Slips: a leased row is a candidate while its lease runs; an ended lease is
\* never taken over.
CandidateWhileLeased(r) == row[r].status \in {"PENDING", "FAILED", "CLAIMED"} /\ row[r].wait = 0

CandidateNotRecovered(r) == row[r].status \in {"PENDING", "FAILED"} /\ row[r].wait = 0

Candidate(r) ==
    \/ row[r].status \in {"PENDING", "FAILED"} /\ row[r].wait = 0
    \/ row[r].status = "CLAIMED" /\ row[r].left = 0

\* What a relay does next with the rows it has left, in whatever order the
\* UPDATE returned them.
Turn(token, rest) ==
    IF rest = {} THEN {Idle}
    ELSE {[pc |-> "sending", token |-> token, current |-> r, rest |-> rest \ {r},
           budget |-> SendTimeout] : r \in rest}

\* The claim of relay_batch.  SKIP LOCKED leaves out rows another relay is
\* claiming or marking at this moment.
ClaimBatch(p, batch) ==
    /\ relay[p].pc = "idle"
    /\ batch # {} /\ IsFiniteSet(batch) /\ Cardinality(batch) <= BatchSize
    /\ \A r \in batch : Candidate(r)
    /\ row' = [r \in Rows |-> IF r \in batch
                  THEN [status |-> "CLAIMED", token |-> nextToken, left |-> LeaseTicks,
                        wait |-> row[r].wait, attempts |-> row[r].attempts]
                  ELSE row[r]]
    /\ nextToken' = nextToken + 1
    /\ \E next \in Turn(nextToken, batch) : relay' = [relay EXCEPT ![p] = next]
    /\ UNCHANGED <<copies, faults>>

Goto(p, pc) == relay' = [relay EXCEPT ![p].pc = pc]

Fault == faults < MaxFaults /\ faults' = faults + 1

\* producer.send resolves: the record is on the topic.
Send(p) ==
    /\ relay[p].pc = "sending"
    /\ copies' = [copies EXCEPT ![relay[p].current] = @ + 1]
    /\ Goto(p, "sent")
    /\ UNCHANGED <<row, nextToken, faults>>

\* It resolves with an error, a timeout say: the record may be there all the same.
SendFails(p) ==
    /\ relay[p].pc = "sending"
    /\ Fault
    /\ \/ copies' = copies
       \/ copies' = [copies EXCEPT ![relay[p].current] = @ + 1]
    /\ Goto(p, "unsent")
    /\ UNCHANGED <<row, nextToken>>

\* WHERE id = $1 AND status = 'CLAIMED' AND lease_token = $2.
StillMine(p) == row[relay[p].current].token = relay[p].token

\* LEAST(60, 2 ^ LEAST(attempts, 6)) seconds.
Backoff(attempts) ==
    LET delay == 2 ^ (IF attempts < 6 THEN attempts ELSE 6)
    IN  IF delay < MaxBackoff THEN delay ELSE MaxBackoff

Published(r) == [status |-> "PUBLISHED", token |-> None, left |-> 0, wait |-> r.wait,
                 attempts |-> r.attempts + 1]

Failed(r) == [status |-> "FAILED", token |-> None, left |-> 0, wait |-> Backoff(r.attempts),
              attempts |-> r.attempts + 1]

\* The UPDATE after a send; it may find the row in other hands.
Mark(p) ==
    /\ relay[p].pc \in {"sent", "unsent"}
    /\ row' = IF StillMine(p)
              THEN [row EXCEPT ![relay[p].current] =
                       IF relay[p].pc = "sent" THEN Published(@) ELSE Failed(@)]
              ELSE row
    /\ UNCHANGED <<copies, nextToken>>

MarkAndGoOn(p) ==
    /\ Mark(p)
    /\ \E next \in Turn(relay[p].token, relay[p].rest) : relay' = [relay EXCEPT ![p] = next]
    /\ UNCHANGED faults

\* The UPDATE fails, or its answer is lost: relay_batch returns the error and the
\* rest of the batch waits for its lease to end.
MarkFails(p) ==
    /\ Fault
    /\ relay' = [relay EXCEPT ![p] = Idle]
    /\ \/ Mark(p)
       \/ relay[p].pc \in {"sent", "unsent"} /\ UNCHANGED <<row, copies, nextToken>>

\* The process stops; a record handed to the producer may still get through.
Crash(p) ==
    /\ relay[p].pc # "idle"
    /\ Fault
    /\ relay' = [relay EXCEPT ![p] = Idle]
    /\ \/ copies' = copies
       \/ /\ relay[p].pc = "sending"
          /\ copies' = [copies EXCEPT ![relay[p].current] = @ + 1]
    /\ UNCHANGED <<row, nextToken>>

Less(n) == IF n = 0 THEN 0 ELSE n - 1

Aged(r) == [status |-> r.status, token |-> r.token, left |-> Less(r.left),
            wait |-> Less(r.wait), attempts |-> r.attempts]

\* Time passes: a send ends within its timeout, an UPDATE within a tick.
Tick ==
    /\ \A p \in Relays :
          relay[p].pc = "idle" \/ (relay[p].pc = "sending" /\ relay[p].budget > 0)
    /\ row' = [r \in Rows |-> Aged(row[r])]
    /\ relay' = [p \in Relays |-> [relay[p] EXCEPT !.budget = Less(@)]]
    /\ UNCHANGED <<copies, nextToken, faults>>

\* Time passes while a relay is paused or the database is slow.
Stall ==
    /\ Fault
    /\ row' = [r \in Rows |-> Aged(row[r])]
    /\ UNCHANGED <<copies, relay, nextToken>>

RelaySteps(p) == Send(p) \/ MarkAndGoOn(p)

RelayFails(p) == SendFails(p) \/ MarkFails(p) \/ Crash(p)

Next ==
    \/ \E r \in Rows : InsertOutbox(r)
    \/ \E p \in Relays, batch \in SUBSET Rows : ClaimBatch(p, batch)
    \/ \E p \in Relays : RelaySteps(p) \/ RelayFails(p)
    \/ Tick
    \/ Stall

Spec == Init /\ [][Next]_vars

-----------------------------------------------------------------------------
(* Safety. *)

\* A row marked PUBLISHED has a record on its topic, however many relays were
\* crashed, overtaken or misinformed about a send on the way.
PublishedIsOnTopic ==
    \A r \in Rows : row[r].status = "PUBLISHED" => copies[r] > 0

\* Two copies of a row cost a fault: as long as relays only send, mark and wait,
\* each row is sent once, and every further copy goes back to a fault of its own.
CopiesCostFaults ==
    \A r \in Rows : copies[r] <= 1 + faults

\* Without a fault a relay has every row of its batch to itself until it is
\* done: 25 sends of at most 10 seconds fit into a lease of 5 minutes.
BatchFitsItsLease ==
    faults = 0 =>
        \A p \in Relays : relay[p].pc # "idle" =>
            \A r \in relay[p].rest \cup {relay[p].current} :
                row[r].token = relay[p].token /\ row[r].left > 0

\* A published row is never sent back: its status stays PUBLISHED, and no relay
\* comes to hold it.
PublishedIsFinal ==
    [][\A r \in Rows : row[r].status = "PUBLISHED" =>
          /\ row'[r].status = "PUBLISHED"
          /\ \A p \in Relays : relay'[p].current = r =>
                relay[p].current = r \/ r \in relay[p].rest]_vars

-----------------------------------------------------------------------------
(* Liveness. *)

\* The relay loop never stops for long, a send and an UPDATE end, time passes.
Fairness ==
    /\ \A r \in Rows : WF_vars(\E p \in Relays, batch \in SUBSET Rows :
                                  r \in batch /\ ClaimBatch(p, batch))
    /\ \A p \in Relays : WF_vars(RelaySteps(p))
    /\ WF_vars(Tick)

FairSpec == Spec /\ Fairness

\* What a transaction put into the outbox is published in the end.
EveryRowIsPublished ==
    \A r \in Rows : row[r].status # "ABSENT" ~> row[r].status = "PUBLISHED"
=============================================================================
