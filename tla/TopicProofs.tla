---------------------------- MODULE TopicProofs ----------------------------
(***************************************************************************)
(* Proofs about either end of the topics: OutboxRelay, which publishes,    *)
(* for any rows, relays, batch size, time limits and number of faults, and *)
(* ContentSync, a replica that follows them, for any scopes, replacements  *)
(* and upsets.                                                             *)
(***************************************************************************)
EXTENDS OutboxRelay, ContentSync, FiniteSetTheorems, TLAPS

-----------------------------------------------------------------------------
(* Publishing                                                              *)

USE RelayConstants

\* A relay that works on a batch does so under a token, and has no current row twice.
RelayShape ==
    \A p \in Relays : relay[p].pc # "idle" =>
        relay[p].token \in Nat /\ relay[p].current \in Rows

\* What a relay takes for sent is on the topic.
SentIsOnTopic ==
    \A p \in Relays : relay[p].pc = "sent" => copies[relay[p].current] > 0

\* The inductive invariant: PublishedIsOnTopic alone does not say why a relay may
\* mark the row it holds.
RelayInv == TypeOK /\ RelayShape /\ SentIsOnTopic /\ PublishedIsOnTopic

-----------------------------------------------------------------------------
\* The next turn of a relay is a well-formed one, of a row it had left.
LEMMA TurnShape ==
    ASSUME NEW token \in Nat, NEW rest \in SUBSET Rows, NEW next \in Turn(token, rest)
    PROVE  /\ next \in RelayType
           /\ next.pc \in {"idle", "sending"}
           /\ next.pc = "idle" <=> next.current = None
           /\ next.pc # "idle" => /\ next.token = token
                                  /\ next.current \in rest
                                  /\ next.rest = rest \ {next.current}
                                  /\ next.budget = SendTimeout
<1>1. CASE rest = {}
  BY <1>1 DEF Turn, Idle, RelayType
<1>2. CASE rest # {}
  <2>1. PICK r \in rest : next = [pc |-> "sending", token |-> token, current |-> r,
                                  rest |-> rest \ {r}, budget |-> SendTimeout]
    BY <1>2 DEF Turn
  <2>2. r \in Rows /\ r # None
    OBVIOUS
  <2> QED
    BY <2>1, <2>2 DEF RelayType
<1> QED
  BY <1>1, <1>2

\* The delay after a failed send is a number of ticks.
LEMMA BackoffType ==
    ASSUME NEW n \in Nat
    PROVE  Backoff(n) \in Nat
<1>1. /\ 2 ^ 0 \in Nat /\ 2 ^ 1 \in Nat /\ 2 ^ 2 \in Nat /\ 2 ^ 3 \in Nat
      /\ 2 ^ 4 \in Nat /\ 2 ^ 5 \in Nat /\ 2 ^ 6 \in Nat
  OBVIOUS
<1> DEFINE e == IF n < 6 THEN n ELSE 6
<1>2. e = 0 \/ e = 1 \/ e = 2 \/ e = 3 \/ e = 4 \/ e = 5 \/ e = 6
  OBVIOUS
<1> HIDE DEF e
<1>3. 2 ^ e \in Nat
  BY <1>1, <1>2
<1>4. Backoff(n) = IF 2 ^ e < MaxBackoff THEN 2 ^ e ELSE MaxBackoff
  BY DEF Backoff, e
<1> QED
  BY <1>3, <1>4

\* Init establishes the invariant.
LEMMA RelayInit == Init => RelayInv
BY DEF Init, RelayInv, TypeOK, RelayShape, SentIsOnTopic, PublishedIsOnTopic,
       RowType, RelayType, Idle

\* A relay's change of hands: what a step does to one relay while the rows and
\* the topics stay or grow.
LEMMA MovedRelay ==
    ASSUME RelayInv, NEW p \in Relays, NEW next \in RelayType,
           relay' = [relay EXCEPT ![p] = next],
           next.pc = "idle" <=> next.current = None,
           next.pc # "idle" => next.token \in Nat /\ next.current \in Rows,
           copies' \in [Rows -> Nat],
           \A r \in Rows : copies'[r] >= copies[r],
           next.pc = "sent" => copies'[next.current] > 0
    PROVE  /\ relay' \in [Relays -> RelayType]
           /\ \A q \in Relays : relay'[q].pc = "idle" <=> relay'[q].current = None
           /\ RelayShape' /\ SentIsOnTopic'
<1> USE DEF RelayInv
<1>1. /\ relay' \in [Relays -> RelayType]
      /\ relay'[p] = next
      /\ \A q \in Relays \ {p} : relay'[q] = relay[q]
  BY DEF TypeOK
<1>2. \A q \in Relays : relay'[q].pc = "idle" <=> relay'[q].current = None
  BY <1>1 DEF TypeOK
<1>3. RelayShape'
  BY <1>1 DEF RelayShape
<1>4. SentIsOnTopic'
  <2>1. ASSUME NEW q \in Relays \ {p}, relay'[q].pc = "sent"
        PROVE  copies'[relay'[q].current] > 0
    <3>1. relay[q].pc = "sent" /\ relay[q].current \in Rows
      BY <1>1, <2>1 DEF RelayShape
    <3>2. copies[relay[q].current] > 0 /\ copies[relay[q].current] \in Nat
      BY <3>1 DEF SentIsOnTopic, TypeOK
    <3> QED
      BY <1>1, <3>1, <3>2
  <2> QED
    BY <1>1, <2>1 DEF SentIsOnTopic
<1> QED
  BY <1>1, <1>2, <1>3, <1>4

-----------------------------------------------------------------------------
\* The steps that leave the relays alone.  Time and a new row touch neither a
\* row's status nor its token.
RowsKept ==
    /\ row' \in [Rows -> RowType]
    /\ \A r \in Rows :
          /\ row'[r].token = row[r].token
          /\ \/ row'[r].status = row[r].status
             \/ row[r].status = "ABSENT" /\ row'[r].status = "PENDING"

RelaysKept ==
    /\ relay' \in [Relays -> RelayType]
    /\ \A p \in Relays : /\ relay'[p].pc = relay[p].pc
                         /\ relay'[p].token = relay[p].token
                         /\ relay'[p].current = relay[p].current

\* A step that only ages rows, or inserts one.
LEMMA RowsAged ==
    ASSUME RelayInv, RowsKept, RelaysKept, copies' = copies, nextToken' = nextToken,
           faults' \in Nat
    PROVE  RelayInv'
BY DEF RelayInv, TypeOK, RelayShape, SentIsOnTopic, PublishedIsOnTopic, RowsKept, RelaysKept

\* A row that ages keeps its type, its status and its token.
LEMMA AgedType ==
    ASSUME NEW r \in RowType
    PROVE  Aged(r) \in RowType /\ Aged(r).status = r.status /\ Aged(r).token = r.token
BY DEF Aged, Less, RowType

\* A transaction inserts a row.
LEMMA InsertKeeps ==
    ASSUME RelayInv, NEW r \in Rows, InsertOutbox(r)
    PROVE  RelayInv'
<1>1. row \in [Rows -> RowType] /\ faults \in Nat /\ relay \in [Relays -> RelayType]
  BY DEF RelayInv, TypeOK
<1>2. RowsKept
  BY <1>1 DEF InsertOutbox, RowType, RowsKept
<1>3. RelaysKept /\ copies' = copies /\ nextToken' = nextToken /\ faults' \in Nat
  BY <1>1 DEF InsertOutbox, RelaysKept
<1> QED
  BY <1>2, <1>3, RowsAged

\* Time passes within the send timeout.
LEMMA TickKeeps ==
    ASSUME RelayInv, Tick
    PROVE  RelayInv'
<1>1. row \in [Rows -> RowType] /\ faults \in Nat /\ relay \in [Relays -> RelayType]
  BY DEF RelayInv, TypeOK
<1>2. RowsKept
  BY <1>1, AgedType DEF Tick, RowsKept
<1>3. ASSUME NEW p \in Relays
      PROVE  /\ relay'[p] \in RelayType
             /\ relay'[p].pc = relay[p].pc
             /\ relay'[p].token = relay[p].token
             /\ relay'[p].current = relay[p].current
  <2>1. relay'[p] = [relay[p] EXCEPT !.budget = Less(@)]
    BY DEF Tick
  <2>2. relay[p] \in RelayType /\ Less(relay[p].budget) \in Nat
    BY <1>1 DEF RelayType, Less
  <2> QED
    BY <2>1, <2>2 DEF RelayType
<1>4. RelaysKept
  BY <1>3 DEF Tick, RelaysKept
<1>5. copies' = copies /\ nextToken' = nextToken /\ faults' \in Nat
  BY <1>1 DEF Tick
<1> QED
  BY <1>2, <1>4, <1>5, RowsAged

\* Time passes for a paused process.
LEMMA StallKeeps ==
    ASSUME RelayInv, Stall
    PROVE  RelayInv'
<1>1. row \in [Rows -> RowType] /\ faults \in Nat /\ relay \in [Relays -> RelayType]
  BY DEF RelayInv, TypeOK
<1>2. RowsKept
  BY <1>1, AgedType DEF Stall, RowsKept
<1>3. RelaysKept /\ copies' = copies /\ nextToken' = nextToken /\ faults' \in Nat
  BY <1>1 DEF Stall, Fault, RelaysKept
<1> QED
  BY <1>2, <1>3, RowsAged

-----------------------------------------------------------------------------
\* The steps of a relay.

\* What the marking of one row has to keep.
RowsMarked ==
    /\ row' \in [Rows -> RowType]
    /\ \A r \in Rows : row'[r].status = "CLAIMED" <=> row'[r].token # None
    /\ \A r \in Rows : row'[r].status = "PUBLISHED" => copies'[r] > 0

\* The parts of the invariant together, for a step of relay p.
LEMMA RelayMoves ==
    ASSUME RelayInv, NEW p \in Relays, NEW next \in RelayType,
           relay' = [relay EXCEPT ![p] = next],
           next.pc = "idle" <=> next.current = None,
           next.pc # "idle" => next.token \in Nat /\ next.current \in Rows,
           copies' \in [Rows -> Nat],
           \A r \in Rows : copies'[r] >= copies[r],
           next.pc = "sent" => copies'[next.current] > 0,
           RowsMarked, nextToken' \in Nat \ {0}, faults' \in Nat
    PROVE  RelayInv'
<1>1. /\ relay' \in [Relays -> RelayType]
      /\ \A q \in Relays : relay'[q].pc = "idle" <=> relay'[q].current = None
      /\ RelayShape' /\ SentIsOnTopic'
  BY MovedRelay
<1> QED
  BY <1>1 DEF RelayInv, TypeOK, PublishedIsOnTopic, RowsMarked

\* Rows that stay as they are stay well marked when copies only grow.
LEMMA RowsStay ==
    ASSUME RelayInv, row' = row, copies' \in [Rows -> Nat],
           \A r \in Rows : copies'[r] >= copies[r]
    PROVE  RowsMarked
BY DEF RelayInv, TypeOK, PublishedIsOnTopic, RowsMarked

\* One more record of a row.
LEMMA OneMoreCopy ==
    ASSUME RelayInv, NEW r \in Rows, copies' = [copies EXCEPT ![r] = @ + 1]
    PROVE  /\ copies' \in [Rows -> Nat]
           /\ \A s \in Rows : copies'[s] >= copies[s]
           /\ copies'[r] > 0
BY DEF RelayInv, TypeOK

\* An idle relay is a well-formed one.
LEMMA IdleShape == Idle \in RelayType /\ Idle.pc = "idle" /\ Idle.current = None
BY DEF Idle, RelayType

\* A relay claims a batch.
LEMMA ClaimKeeps ==
    ASSUME RelayInv, NEW p \in Relays, NEW batch \in SUBSET Rows, ClaimBatch(p, batch)
    PROVE  RelayInv'
<1>1. /\ row \in [Rows -> RowType] /\ faults \in Nat /\ nextToken \in Nat \ {0}
      /\ copies \in [Rows -> Nat] /\ nextToken # None
  BY DEF RelayInv, TypeOK
<1>2. PICK next \in Turn(nextToken, batch) : relay' = [relay EXCEPT ![p] = next]
  BY DEF ClaimBatch
<1>3. /\ next \in RelayType
      /\ next.pc = "idle" <=> next.current = None
      /\ next.pc # "idle" => next.token \in Nat /\ next.current \in Rows
      /\ next.pc # "sent"
  <2>1. nextToken \in Nat /\ next \in Turn(nextToken, batch)
    BY <1>1, <1>2
  <2> QED
    BY <2>1, TurnShape
<1>4. ASSUME NEW r \in Rows
      PROVE  /\ row'[r] \in RowType
             /\ row'[r].status = "CLAIMED" <=> row'[r].token # None
             /\ row'[r].status = "PUBLISHED" => copies[r] > 0
  <2>1. CASE r \in batch
    <3>1. row'[r] = [status |-> "CLAIMED", token |-> nextToken, left |-> LeaseTicks,
                     wait |-> row[r].wait, attempts |-> row[r].attempts]
      BY <2>1 DEF ClaimBatch
    <3> QED
      BY <1>1, <3>1 DEF RowType
  <2>2. CASE r \notin batch
    BY <1>1, <2>2 DEF ClaimBatch, RelayInv, TypeOK, PublishedIsOnTopic
  <2> QED
    BY <2>1, <2>2
<1>5. copies' = copies /\ faults' = faults /\ nextToken' \in Nat \ {0}
  BY <1>1 DEF ClaimBatch
<1>6. RowsMarked
  BY <1>4, <1>5 DEF RowsMarked, ClaimBatch
<1>7. \A r \in Rows : copies'[r] >= copies[r]
  BY <1>1, <1>5
<1> QED
  BY <1>1, <1>2, <1>3, <1>5, <1>6, <1>7, RelayMoves

\* The relay goes on with the same row.
LEMMA GotoShape ==
    ASSUME RelayInv, NEW p \in Relays, relay[p].pc # "idle",
           NEW pc \in {"sending", "sent", "unsent"}, Goto(p, pc)
    PROVE  \E next \in RelayType :
              /\ relay' = [relay EXCEPT ![p] = next]
              /\ next.pc = pc /\ next.current = relay[p].current
              /\ next.current # None
              /\ next.token \in Nat /\ next.current \in Rows
<1> DEFINE next == [pc |-> pc, token |-> relay[p].token, current |-> relay[p].current,
                    rest |-> relay[p].rest, budget |-> relay[p].budget]
<1>1. relay[p] \in RelayType /\ relay[p].token \in Nat /\ relay[p].current \in Rows
  BY DEF RelayInv, TypeOK, RelayShape
<1>2. [relay[p] EXCEPT !.pc = pc] = next
  BY <1>1 DEF RelayType
<1>3. relay' = [relay EXCEPT ![p] = next]
  BY <1>2 DEF Goto
<1>4. next \in RelayType
  BY <1>1 DEF RelayType
<1> QED
  BY <1>1, <1>3, <1>4

\* A send is confirmed.
LEMMA SendKeeps ==
    ASSUME RelayInv, NEW p \in Relays, Send(p)
    PROVE  RelayInv'
<1>1. /\ copies \in [Rows -> Nat] /\ faults \in Nat /\ nextToken \in Nat \ {0}
      /\ relay[p].current \in Rows
  BY DEF RelayInv, TypeOK, RelayShape, Send
<1>2. PICK next \in RelayType :
         /\ relay' = [relay EXCEPT ![p] = next]
         /\ next.pc = "sent" /\ next.current = relay[p].current
         /\ next.current # None
         /\ next.token \in Nat /\ next.current \in Rows
  BY GotoShape DEF Send
<1>3. /\ copies' \in [Rows -> Nat] /\ copies'[relay[p].current] > 0
      /\ \A s \in Rows : copies'[s] >= copies[s]
  BY <1>1, OneMoreCopy DEF Send
<1>4. RowsMarked
  BY <1>3, RowsStay DEF Send
<1>5. nextToken' \in Nat \ {0} /\ faults' \in Nat
  BY <1>1 DEF Send
<1> QED
  BY <1>2, <1>3, <1>4, <1>5, RelayMoves

\* A send reports an error, whether or not the record got through.
LEMMA SendFailsKeeps ==
    ASSUME RelayInv, NEW p \in Relays, SendFails(p)
    PROVE  RelayInv'
<1>1. /\ copies \in [Rows -> Nat] /\ faults \in Nat /\ nextToken \in Nat \ {0}
      /\ relay[p].current \in Rows
  BY DEF RelayInv, TypeOK, RelayShape, SendFails
<1>2. PICK next \in RelayType :
         /\ relay' = [relay EXCEPT ![p] = next]
         /\ next.pc = "unsent" /\ next.current = relay[p].current
         /\ next.current # None
         /\ next.token \in Nat /\ next.current \in Rows
  BY GotoShape DEF SendFails
<1>3. copies' \in [Rows -> Nat] /\ \A s \in Rows : copies'[s] >= copies[s]
  <2>1. CASE copies' = copies
    BY <1>1, <2>1
  <2>2. CASE copies' = [copies EXCEPT ![relay[p].current] = @ + 1]
    BY <1>1, <2>2, OneMoreCopy
  <2> QED
    BY <2>1, <2>2 DEF SendFails
<1>4. RowsMarked
  BY <1>3, RowsStay DEF SendFails
<1>5. nextToken' \in Nat \ {0} /\ faults' \in Nat
  BY <1>1 DEF SendFails, Fault
<1> QED
  BY <1>2, <1>3, <1>4, <1>5, RelayMoves

\* A process stops.
LEMMA CrashKeeps ==
    ASSUME RelayInv, NEW p \in Relays, Crash(p)
    PROVE  RelayInv'
<1>1. /\ copies \in [Rows -> Nat] /\ faults \in Nat /\ nextToken \in Nat \ {0}
      /\ relay[p].current \in Rows
  BY DEF RelayInv, TypeOK, RelayShape, Crash
<1>2. copies' \in [Rows -> Nat] /\ \A s \in Rows : copies'[s] >= copies[s]
  <2>1. CASE copies' = copies
    BY <1>1, <2>1
  <2>2. CASE copies' = [copies EXCEPT ![relay[p].current] = @ + 1]
    BY <1>1, <2>2, OneMoreCopy
  <2> QED
    BY <2>1, <2>2 DEF Crash
<1>3. RowsMarked
  BY <1>2, RowsStay DEF Crash
<1>4. nextToken' \in Nat \ {0} /\ faults' \in Nat /\ relay' = [relay EXCEPT ![p] = Idle]
  BY <1>1 DEF Crash, Fault
<1> QED
  BY <1>2, <1>3, <1>4, IdleShape, RelayMoves

\* A mark keeps the rows well marked: it publishes only what was sent.
LEMMA MarkKeepsRows ==
    ASSUME RelayInv, NEW p \in Relays, Mark(p)
    PROVE  RowsMarked
<1> DEFINE r == relay[p].current
<1>1. r \in Rows /\ (relay[p].pc = "sent" => copies[r] > 0)
  BY DEF RelayInv, RelayShape, SentIsOnTopic, Mark
<1>2. row \in [Rows -> RowType] /\ copies' = copies
  BY DEF RelayInv, TypeOK, Mark
<1>3. CASE ~StillMine(p)
  <2>1. row' = row
    BY <1>3 DEF Mark
  <2> QED
    BY <2>1, <1>2 DEF RelayInv, TypeOK, PublishedIsOnTopic, RowsMarked
<1>4. CASE StillMine(p)
  <2>1. /\ row' \in [Rows -> RowType] => \A s \in Rows \ {r} : row'[s] = row[s]
        /\ row' = [row EXCEPT ![r] = IF relay[p].pc = "sent" THEN Published(row[r])
                                     ELSE Failed(row[r])]
    BY <1>1, <1>2, <1>4 DEF Mark
  <2>2. /\ Published(row[r]) \in RowType
        /\ Published(row[r]).token = None /\ Published(row[r]).status = "PUBLISHED"
    BY <1>1, <1>2 DEF Published, RowType
  <2>3. /\ Failed(row[r]) \in RowType
        /\ Failed(row[r]).token = None /\ Failed(row[r]).status = "FAILED"
    BY <1>1, <1>2, BackoffType DEF Failed, RowType
  <2>4. /\ row' \in [Rows -> RowType]
        /\ \A s \in Rows \ {r} : row'[s] = row[s]
        /\ row'[r].token = None
        /\ row'[r].status \in {"PUBLISHED", "FAILED"}
        /\ row'[r].status = "PUBLISHED" => copies[r] > 0
    BY <1>1, <1>2, <2>1, <2>2, <2>3
  <2> QED
    BY <1>1, <1>2, <2>4 DEF RelayInv, TypeOK, PublishedIsOnTopic, RowsMarked
<1> QED
  BY <1>3, <1>4

\* A row is marked, and the relay turns to the next.
LEMMA MarkAndGoOnKeeps ==
    ASSUME RelayInv, NEW p \in Relays, MarkAndGoOn(p)
    PROVE  RelayInv'
<1>1. /\ copies \in [Rows -> Nat] /\ faults \in Nat /\ nextToken \in Nat \ {0}
      /\ relay[p].token \in Nat /\ relay[p].rest \in SUBSET Rows
  <2>1. relay[p] \in RelayType /\ relay[p].pc # "idle"
    BY DEF RelayInv, TypeOK, MarkAndGoOn, Mark
  <2> QED
    BY <2>1 DEF RelayInv, TypeOK, RelayShape, RelayType
<1>2. PICK next \in Turn(relay[p].token, relay[p].rest) : relay' = [relay EXCEPT ![p] = next]
  BY DEF MarkAndGoOn
<1>3. /\ next \in RelayType
      /\ next.pc = "idle" <=> next.current = None
      /\ next.pc # "idle" => next.token \in Nat /\ next.current \in Rows
      /\ next.pc # "sent"
  BY <1>1, <1>2, TurnShape
<1>4. RowsMarked
  BY MarkKeepsRows DEF MarkAndGoOn
<1>5. copies' = copies /\ nextToken' = nextToken /\ faults' = faults
  BY DEF MarkAndGoOn, Mark
<1>6. \A r \in Rows : copies'[r] >= copies[r]
  BY <1>1, <1>5
<1> QED
  BY <1>1, <1>2, <1>3, <1>4, <1>5, <1>6, RelayMoves

\* The UPDATE fails, before or after its commit.
LEMMA MarkFailsKeeps ==
    ASSUME RelayInv, NEW p \in Relays, MarkFails(p)
    PROVE  RelayInv'
<1>1. /\ copies \in [Rows -> Nat] /\ faults \in Nat /\ nextToken \in Nat \ {0}
  BY DEF RelayInv, TypeOK
<1>2. copies' = copies /\ nextToken' = nextToken /\ relay' = [relay EXCEPT ![p] = Idle]
  BY DEF MarkFails, Mark
<1>3. faults' \in Nat /\ \A r \in Rows : copies'[r] >= copies[r]
  BY <1>1, <1>2 DEF MarkFails, Fault
<1>4. RowsMarked
  <2>1. CASE Mark(p)
    BY <2>1, MarkKeepsRows
  <2>2. CASE UNCHANGED <<row, copies, nextToken>>
    BY <1>1, <1>3, <2>2, RowsStay
  <2> QED
    BY <2>1, <2>2 DEF MarkFails
<1> QED
  BY <1>1, <1>2, <1>3, <1>4, IdleShape, RelayMoves

\* Every step of the relays keeps the invariant.
LEMMA RelayStep ==
    ASSUME RelayInv, [Next]_vars
    PROVE  RelayInv'
<1>1. CASE \E r \in Rows : InsertOutbox(r)
  BY <1>1, InsertKeeps
<1>2. CASE \E p \in Relays, batch \in SUBSET Rows : ClaimBatch(p, batch)
  BY <1>2, ClaimKeeps
<1>3. CASE \E p \in Relays : RelaySteps(p)
  BY <1>3, SendKeeps, MarkAndGoOnKeeps DEF RelaySteps
<1>4. CASE \E p \in Relays : RelayFails(p)
  BY <1>4, SendFailsKeeps, MarkFailsKeeps, CrashKeeps DEF RelayFails
<1>5. CASE Tick
  BY <1>5, TickKeeps
<1>6. CASE Stall
  BY <1>6, StallKeeps
<1>7. CASE UNCHANGED vars
  BY <1>7 DEF vars, RelayInv, TypeOK, RelayShape, SentIsOnTopic, PublishedIsOnTopic
<1> QED
  BY <1>1, <1>2, <1>3, <1>4, <1>5, <1>6, <1>7 DEF Next

-----------------------------------------------------------------------------
\* The relays' invariant holds in every reachable state of relay_batch's runs.
THEOREM RelayInvariant == Spec => []RelayInv
<1>1. Init => RelayInv
  BY RelayInit
<1>2. RelayInv /\ [Next]_vars => RelayInv'
  BY RelayStep
<1> QED
  BY <1>1, <1>2, PTL DEF Spec

\* The rows and relays of the outbox keep their types.
THEOREM RelayTypes == Spec => []TypeOK
BY RelayInvariant, PTL DEF RelayInv

\* A row marked PUBLISHED is on its topic, whatever crashes, stalls and lost
\* answers relay_batch met on the way.
THEOREM PublishedRowsAreOnTopic == Spec => []PublishedIsOnTopic
BY RelayInvariant, PTL DEF RelayInv

-----------------------------------------------------------------------------
\* No step of relay_batch takes a published row back.
LEMMA PublishedStays ==
    ASSUME RelayInv, [Next]_vars, NEW r \in Rows, row[r].status = "PUBLISHED"
    PROVE  row'[r].status = "PUBLISHED"
<1>1. row \in [Rows -> RowType] /\ row[r].token = None
  BY DEF RelayInv, TypeOK
<1>2. ASSUME NEW s \in Rows, InsertOutbox(s)
      PROVE  row'[r].status = "PUBLISHED"
  BY <1>1, <1>2 DEF InsertOutbox
<1>3. ASSUME NEW p \in Relays, NEW batch \in SUBSET Rows, ClaimBatch(p, batch)
      PROVE  row'[r].status = "PUBLISHED"
  <2>1. r \notin batch
    BY <1>3 DEF ClaimBatch, Candidate
  <2> QED
    BY <1>3, <2>1 DEF ClaimBatch
<1>4. ASSUME NEW p \in Relays, Mark(p)
      PROVE  row'[r].status = "PUBLISHED"
  <2>1. relay[p].token \in Nat /\ relay[p].token # None
    BY <1>4 DEF Mark, RelayInv, RelayShape
  <2>2. StillMine(p) => relay[p].current # r
    BY <1>1, <2>1 DEF StillMine
  <2> QED
    BY <1>1, <1>4, <2>2 DEF Mark
<1>5. CASE row' = [s \in Rows |-> Aged(row[s])]
  BY <1>1, <1>5 DEF Aged
<1>6. CASE row' = row
  BY <1>6
<1>7. ASSUME NEW p \in Relays, RelaySteps(p) \/ RelayFails(p)
      PROVE  row' = row \/ Mark(p)
  BY <1>7 DEF RelaySteps, RelayFails, Send, SendFails, MarkAndGoOn, MarkFails, Crash
<1> QED
  BY <1>2, <1>3, <1>4, <1>5, <1>6, <1>7 DEF Next, Tick, Stall, vars

\* A relay comes to hold only rows of its batch, and no published row gets into one.
LEMMA PublishedIsNotTaken ==
    ASSUME RelayInv, [Next]_vars, NEW r \in Rows, row[r].status = "PUBLISHED",
           NEW p \in Relays, relay'[p].current = r
    PROVE  relay[p].current = r \/ r \in relay[p].rest
<1>1. relay \in [Relays -> RelayType] /\ r # None
  BY DEF RelayInv, TypeOK
<1>2. ASSUME NEW q \in Relays, NEW batch \in SUBSET Rows, ClaimBatch(q, batch)
      PROVE  relay[p].current = r
  <2>1. r \notin batch /\ nextToken \in Nat
    BY <1>2 DEF ClaimBatch, Candidate, RelayInv, TypeOK
  <2>2. PICK next \in Turn(nextToken, batch) : relay' = [relay EXCEPT ![q] = next]
    BY <1>2 DEF ClaimBatch
  <2>3. next.current # r
    BY <1>1, <2>1, <2>2, TurnShape
  <2> QED
    BY <1>1, <2>2, <2>3
<1>3. ASSUME NEW q \in Relays, MarkAndGoOn(q)
      PROVE  relay[p].current = r \/ r \in relay[p].rest
  <2>1. relay[q].token \in Nat /\ relay[q].rest \in SUBSET Rows
    BY <1>1, <1>3 DEF MarkAndGoOn, Mark, RelayInv, RelayShape, RelayType
  <2>2. PICK next \in Turn(relay[q].token, relay[q].rest) : relay' = [relay EXCEPT ![q] = next]
    BY <1>3 DEF MarkAndGoOn
  <2>3. next.current = r => r \in relay[q].rest
    BY <1>1, <2>1, <2>2, TurnShape
  <2> QED
    BY <1>1, <2>2, <2>3
<1>4. ASSUME NEW q \in Relays, NEW pc, Goto(q, pc)
      PROVE  relay[p].current = r
  BY <1>1, <1>4 DEF Goto, RelayType
<1>5. CASE \E q \in Relays : relay' = [relay EXCEPT ![q] = Idle]
  BY <1>1, <1>5, IdleShape
<1>6. CASE relay' = [q \in Relays |-> [relay[q] EXCEPT !.budget = Less(@)]]
  BY <1>1, <1>6 DEF RelayType
<1>7. CASE relay' = relay
  BY <1>7
<1>8. ASSUME NEW q \in Relays, RelaySteps(q) \/ RelayFails(q)
      PROVE  MarkAndGoOn(q) \/ Goto(q, "sent") \/ Goto(q, "unsent")
             \/ relay' = [relay EXCEPT ![q] = Idle]
  BY <1>8 DEF RelaySteps, RelayFails, Send, SendFails, MarkFails, Crash
<1> QED
  BY <1>2, <1>3, <1>4, <1>5, <1>6, <1>7, <1>8 DEF Next, InsertOutbox, Tick, Stall, vars

\* A row that relay_batch marked PUBLISHED is never marked again nor sent again by a
\* relay that did not hold it by then.
THEOREM PublishedStaysFinal == Spec => PublishedIsFinal
<1>1. RelayInv /\ [Next]_vars =>
          [\A r \in Rows : row[r].status = "PUBLISHED" =>
              /\ row'[r].status = "PUBLISHED"
              /\ \A p \in Relays : relay'[p].current = r =>
                    relay[p].current = r \/ r \in relay[p].rest]_vars
  BY PublishedStays, PublishedIsNotTaken
<1> QED
  BY <1>1, RelayInvariant, PTL DEF Spec, PublishedIsFinal

-----------------------------------------------------------------------------
(* A batch fits its lease. *)

\* The time a relay may still need before its last send has ended.
Needs(p) == Cardinality(relay[p].rest) * SendTimeout
            + (IF relay[p].pc = "sending" THEN relay[p].budget ELSE 0)

\* Every row of a relay's batch is leased to it for longer than that.
Lasts(p) ==
    /\ IsFiniteSet(relay[p].rest)
    /\ relay[p].current \notin relay[p].rest
    /\ \A r \in relay[p].rest \cup {relay[p].current} :
          row[r].token = relay[p].token /\ row[r].left > Needs(p)

LeasesLast == faults = 0 => \A p \in Relays : relay[p].pc # "idle" => Lasts(p)

\* Tokens are fresh: no two relays work under the same one.
TokensDiffer ==
    /\ \A p \in Relays : relay[p].pc # "idle" => relay[p].token < nextToken
    /\ \A p, q \in Relays : relay[p].pc # "idle" /\ relay[q].pc # "idle" /\ p # q =>
          relay[p].token # relay[q].token

TimeInv == RelayInv /\ LeasesLast /\ TokensDiffer

\* One row less takes one timeout less; a whole batch takes less than a lease.
LEMMA OneLess ==
    ASSUME NEW n \in Nat \ {0}
    PROVE  (n - 1) * SendTimeout + SendTimeout = n * SendTimeout
<1>1. SendTimeout \in Int
  OBVIOUS
<1> QED
  BY ONLY <1>1, n \in Nat \ {0}, SMT

\* What is left of a batch fits into a lease.
LEMMA BatchTime ==
    ASSUME NEW n \in Nat, n <= BatchSize
    PROVE  n * SendTimeout \in Nat /\ n * SendTimeout < LeaseTicks
<1>1. PICK k \in Nat : BatchSize = n + k
  <2>1. BatchSize - n \in Nat /\ BatchSize = n + (BatchSize - n)
    OBVIOUS
  <2> QED
    BY <2>1
<1>2. (n + k) * SendTimeout = n * SendTimeout + k * SendTimeout
  BY SMT
<1>3. n * SendTimeout \in Nat /\ k * SendTimeout \in Nat
  BY SMT
<1> QED
  BY <1>1, <1>2, <1>3

\* What the next turn on a batch still needs is what the batch needed.
LEMMA TurnTime ==
    ASSUME NEW token \in Nat, NEW rest \in SUBSET Rows, IsFiniteSet(rest),
           NEW next \in Turn(token, rest), next.pc # "idle"
    PROVE  /\ IsFiniteSet(next.rest) /\ next.current \notin next.rest
           /\ next.rest \cup {next.current} = rest
           /\ Cardinality(next.rest) * SendTimeout + next.budget
                 = Cardinality(rest) * SendTimeout
<1>1. /\ next.current \in rest /\ next.rest = rest \ {next.current}
      /\ next.budget = SendTimeout
  <2>1. rest # {}
    BY DEF Turn, Idle
  <2>2. PICK r \in rest : next = [pc |-> "sending", token |-> token, current |-> r,
                                  rest |-> rest \ {r}, budget |-> SendTimeout]
    BY <2>1 DEF Turn
  <2> QED
    BY <2>2
<1>2. /\ IsFiniteSet(next.rest) /\ Cardinality(next.rest) = Cardinality(rest) - 1
      /\ Cardinality(rest) \in Nat
  <2>1. /\ IsFiniteSet(rest \ {next.current})
        /\ next.current \in rest =>
              Cardinality(rest \ {next.current}) = Cardinality(rest) - 1
    BY FS_RemoveElement
  <2>2. Cardinality(rest) \in Nat
    BY FS_CardinalityType
  <2> QED
    BY <1>1, <2>1, <2>2
<1>3. Cardinality(next.rest) \in Nat
  BY <1>2, FS_CardinalityType
<1>4. Cardinality(rest) \in Nat \ {0}
  BY <1>2, <1>3
<1>5. (Cardinality(rest) - 1) * SendTimeout + SendTimeout = Cardinality(rest) * SendTimeout
  BY <1>4, OneLess
<1> QED
  BY <1>1, <1>2, <1>5

\* A relay's needs are a natural number.
LEMMA NeedsType ==
    ASSUME TypeOK, NEW p \in Relays, IsFiniteSet(relay[p].rest)
    PROVE  Needs(p) \in Nat /\ Cardinality(relay[p].rest) * SendTimeout \in Nat
<1>1. relay[p].budget \in Nat
  BY DEF TypeOK, RelayType
<1>2. Cardinality(relay[p].rest) \in Nat
  BY FS_CardinalityType
<1>3. Cardinality(relay[p].rest) * SendTimeout \in Nat
  BY <1>2, SMT
<1> QED
  BY <1>1, <1>3 DEF Needs

\* Only a claim hands out a token.
LEMMA SameToken ==
    ASSUME RelayInv, [Next]_vars,
           ~\E p \in Relays, batch \in SUBSET Rows : ClaimBatch(p, batch)
    PROVE  /\ nextToken' = nextToken
           /\ \A q \in Relays : relay'[q].pc # "idle" =>
                 relay[q].pc # "idle" /\ relay'[q].token = relay[q].token
<1>1. relay \in [Relays -> RelayType]
  BY DEF RelayInv, TypeOK
<1>2. ASSUME NEW p \in Relays, MarkAndGoOn(p), NEW q \in Relays, relay'[q].pc # "idle"
      PROVE  relay[q].pc # "idle" /\ relay'[q].token = relay[q].token
  <2>1. /\ relay[p].token \in Nat /\ relay[p].rest \in SUBSET Rows
        /\ relay[p].pc # "idle"
    BY <1>1, <1>2 DEF MarkAndGoOn, Mark, RelayInv, RelayShape, RelayType
  <2>2. PICK next \in Turn(relay[p].token, relay[p].rest) : relay' = [relay EXCEPT ![p] = next]
    BY <1>2 DEF MarkAndGoOn
  <2>3. next.pc # "idle" => next.token = relay[p].token
    BY <2>1, <2>2, TurnShape
  <2> QED
    BY <1>1, <1>2, <2>1, <2>2, <2>3
<1>3. ASSUME NEW p \in Relays, NEW pc, Goto(p, pc), relay[p].pc # "idle", NEW q \in Relays,
             relay'[q].pc # "idle"
      PROVE  relay[q].pc # "idle" /\ relay'[q].token = relay[q].token
  BY <1>1, <1>3 DEF Goto, RelayType
<1>4. ASSUME NEW p \in Relays, relay' = [relay EXCEPT ![p] = Idle], NEW q \in Relays,
             relay'[q].pc # "idle"
      PROVE  relay[q].pc # "idle" /\ relay'[q].token = relay[q].token
  BY <1>1, <1>4, IdleShape
<1>5. ASSUME relay' = [q \in Relays |-> [relay[q] EXCEPT !.budget = Less(@)]],
             NEW q \in Relays, relay'[q].pc # "idle"
      PROVE  relay[q].pc # "idle" /\ relay'[q].token = relay[q].token
  BY <1>1, <1>5 DEF RelayType
<1>6. ASSUME NEW p \in Relays, RelaySteps(p) \/ RelayFails(p)
      PROVE  /\ \/ MarkAndGoOn(p)
                \/ relay[p].pc # "idle" /\ (Goto(p, "sent") \/ Goto(p, "unsent"))
                \/ relay' = [relay EXCEPT ![p] = Idle]
             /\ nextToken' = nextToken
  BY <1>6 DEF RelaySteps, RelayFails, Send, SendFails, MarkFails, Crash, MarkAndGoOn, Mark
<1> QED
  BY <1>2, <1>3, <1>4, <1>5, <1>6 DEF Next, InsertOutbox, Tick, Stall, vars

\* Tokens stay different.
LEMMA TokensKept ==
    ASSUME RelayInv, TokensDiffer, [Next]_vars
    PROVE  TokensDiffer'
<1>1. /\ relay \in [Relays -> RelayType] /\ nextToken \in Nat
      /\ \A p \in Relays : relay[p].pc # "idle" => relay[p].token \in Nat
  BY DEF RelayInv, TypeOK, RelayShape
<1>2. ASSUME NEW p \in Relays, NEW batch \in SUBSET Rows, ClaimBatch(p, batch)
      PROVE  TokensDiffer'
  <2>1. PICK next \in Turn(nextToken, batch) : relay' = [relay EXCEPT ![p] = next]
    BY <1>2 DEF ClaimBatch
  <2>2. next.pc # "idle" => next.token = nextToken
    BY <1>1, <2>1, TurnShape
  <2>3. nextToken' = nextToken + 1
    BY <1>2 DEF ClaimBatch
  <2>4. /\ \A q \in Relays \ {p} : relay'[q] = relay[q]
        /\ relay'[p] = next
    BY <1>1, <2>1
  <2> QED
    BY <1>1, <2>2, <2>3, <2>4 DEF TokensDiffer
<1>3. CASE ~\E p \in Relays, batch \in SUBSET Rows : ClaimBatch(p, batch)
  <2>1. /\ nextToken' = nextToken
        /\ \A q \in Relays : relay'[q].pc # "idle" =>
              relay[q].pc # "idle" /\ relay'[q].token = relay[q].token
    BY <1>3, SameToken
  <2> QED
    BY <2>1 DEF TokensDiffer
<1> QED
  BY <1>2, <1>3

\* The rows of a working relay are CLAIMED, and not ripe for another claim.
LEMMA HeldRows ==
    ASSUME RelayInv, NEW p \in Relays, relay[p].pc # "idle", Lasts(p),
           NEW r \in relay[p].rest \cup {relay[p].current}
    PROVE  /\ r \in Rows /\ relay[p].token \in Nat
           /\ row[r].status = "CLAIMED" /\ row[r].left > 0 /\ ~Candidate(r)
<1>1. relay[p].current \in Rows /\ relay[p].token \in Nat /\ relay[p].rest \in SUBSET Rows
  BY DEF RelayInv, RelayShape, TypeOK, RelayType
<1>2. r \in Rows /\ row[r].token # None /\ row[r].status = "CLAIMED" /\ row[r].left \in Nat
  BY <1>1 DEF Lasts, RelayInv, TypeOK, RowType
<1>3. Needs(p) \in Nat
  BY NeedsType DEF Lasts, RelayInv
<1>4. row[r].left > 0
  BY <1>2, <1>3 DEF Lasts
<1> QED
  BY <1>1, <1>2, <1>4 DEF Candidate

\* A relay that a step leaves alone, with its rows, keeps its leases.
LEMMA LastsKept ==
    ASSUME NEW p \in Relays, Lasts(p), relay'[p] = relay[p],
           \A r \in relay[p].rest \cup {relay[p].current} : row'[r] = row[r]
    PROVE  Lasts(p)'
BY DEF Lasts, Needs

\* A fresh claim lasts as long as a whole batch needs.
LEMMA ClaimLasts ==
    ASSUME TimeInv, faults = 0, NEW p \in Relays, NEW batch \in SUBSET Rows,
           ClaimBatch(p, batch), NEW q \in Relays, relay'[q].pc # "idle"
    PROVE  Lasts(q)'
<1>1. /\ relay \in [Relays -> RelayType] /\ nextToken \in Nat
      /\ IsFiniteSet(batch) /\ Cardinality(batch) <= BatchSize
  BY DEF TimeInv, RelayInv, TypeOK, ClaimBatch
<1>2. PICK next \in Turn(nextToken, batch) : relay' = [relay EXCEPT ![p] = next]
  BY DEF ClaimBatch
<1>3. CASE q # p
  <2>1. relay'[q] = relay[q] /\ Lasts(q) /\ relay[q].pc # "idle"
    BY <1>1, <1>2, <1>3 DEF TimeInv, LeasesLast
  <2>2. \A r \in relay[q].rest \cup {relay[q].current} : r \in Rows /\ r \notin batch
    BY <2>1, HeldRows DEF TimeInv, ClaimBatch
  <2>3. \A r \in relay[q].rest \cup {relay[q].current} : row'[r] = row[r]
    BY <2>2 DEF ClaimBatch
  <2> QED
    BY <2>1, <2>3, LastsKept
<1>4. CASE q = p
  <2>1. relay'[p] = next /\ next.pc # "idle"
    BY <1>1, <1>2, <1>4
  <2>2. /\ next.token = nextToken /\ next.pc = "sending"
        /\ IsFiniteSet(next.rest) /\ next.current \notin next.rest
        /\ next.rest \cup {next.current} = batch
        /\ Cardinality(next.rest) * SendTimeout + next.budget
              = Cardinality(batch) * SendTimeout
    BY <1>1, <1>2, <2>1, TurnShape, TurnTime
  <2>3. /\ Cardinality(batch) * SendTimeout \in Nat
        /\ Cardinality(batch) * SendTimeout < LeaseTicks
    BY <1>1, FS_CardinalityType, BatchTime
  <2>4. \A r \in batch : row'[r].token = nextToken /\ row'[r].left = LeaseTicks
    BY DEF ClaimBatch
  <2>5. Needs(p)' = Cardinality(batch) * SendTimeout
    BY <2>1, <2>2 DEF Needs
  <2> QED
    BY <1>4, <2>1, <2>2, <2>3, <2>4, <2>5 DEF Lasts
<1> QED
  BY <1>3, <1>4

\* A confirmed send gives its time back.
LEMMA SendLasts ==
    ASSUME TimeInv, faults = 0, NEW p \in Relays, Send(p),
           NEW q \in Relays, relay'[q].pc # "idle"
    PROVE  Lasts(q)'
<1>1. relay \in [Relays -> RelayType] /\ row' = row /\ relay[p].pc = "sending"
  BY DEF TimeInv, RelayInv, TypeOK, Send
<1>2. CASE q # p
  <2>1. relay'[q] = relay[q] /\ relay[q].pc # "idle" /\ Lasts(q)
    BY <1>1, <1>2 DEF Send, Goto, TimeInv, LeasesLast
  <2> QED
    BY <1>1, <2>1, LastsKept
<1>3. CASE q = p
  <2>1. Lasts(p)
    BY <1>1 DEF TimeInv, LeasesLast
  <2>2. /\ relay'[p].pc = "sent" /\ relay'[p].rest = relay[p].rest
        /\ relay'[p].current = relay[p].current /\ relay'[p].token = relay[p].token
    BY <1>1 DEF Send, Goto, RelayType
  <2>3. /\ relay[p].budget \in Nat /\ Cardinality(relay[p].rest) * SendTimeout \in Nat
        /\ relay[p].current \in Rows /\ relay[p].rest \in SUBSET Rows
    BY <1>1, <2>1, NeedsType DEF Lasts, TimeInv, RelayInv, RelayShape, RelayType
  <2>4. Needs(p)' = Cardinality(relay[p].rest) * SendTimeout
    BY <2>2, <2>3 DEF Needs
  <2>5. Needs(p) = Cardinality(relay[p].rest) * SendTimeout + relay[p].budget
    BY <1>1 DEF Needs
  <2>6. \A r \in Rows : row[r].left \in Nat
    BY DEF TimeInv, RelayInv, TypeOK, RowType
  <2>7. \A r \in relay[p].rest \cup {relay[p].current} :
           row[r].token = relay[p].token /\ row[r].left > Needs(p)'
    BY <2>1, <2>3, <2>4, <2>5, <2>6 DEF Lasts
  <2> QED
    BY <1>1, <1>3, <2>1, <2>2, <2>7 DEF Lasts
<1> QED
  BY <1>2, <1>3

\* A mark takes the current row from its relay and nothing from the others, whose
\* rows carry other tokens; the next send needs no more time than was left.
LEMMA MarkLasts ==
    ASSUME TimeInv, faults = 0, NEW p \in Relays, MarkAndGoOn(p),
           NEW q \in Relays, relay'[q].pc # "idle"
    PROVE  Lasts(q)'
<1> DEFINE c == relay[p].current
<1>1. /\ relay \in [Relays -> RelayType] /\ row \in [Rows -> RowType]
      /\ relay[p].pc \in {"sent", "unsent"} /\ Lasts(p)
      /\ relay[p].token \in Nat /\ c \in Rows /\ relay[p].rest \in SUBSET Rows
  BY DEF TimeInv, RelayInv, RelayShape, TypeOK, RelayType, LeasesLast, MarkAndGoOn, Mark
<1>2. PICK next \in Turn(relay[p].token, relay[p].rest) : relay' = [relay EXCEPT ![p] = next]
  BY DEF MarkAndGoOn
<1>3. \A r \in Rows \ {c} : row'[r] = row[r]
  BY <1>1 DEF MarkAndGoOn, Mark
<1>4. CASE q # p
  <2>1. relay'[q] = relay[q] /\ Lasts(q) /\ relay[q].pc # "idle"
    BY <1>1, <1>2, <1>4 DEF TimeInv, LeasesLast
  <2>2. relay[q].token # relay[p].token
    BY <1>1, <1>4, <2>1 DEF TimeInv, TokensDiffer
  <2>3. row[c].token = relay[p].token
    BY <1>1 DEF Lasts
  <2>4. \A r \in relay[q].rest \cup {relay[q].current} : r \in Rows /\ r # c
    BY <2>1, <2>2, <2>3, HeldRows DEF Lasts, TimeInv
  <2>5. \A r \in relay[q].rest \cup {relay[q].current} : row'[r] = row[r]
    BY <1>3, <2>4
  <2> QED
    BY <2>1, <2>5, LastsKept
<1>5. CASE q = p
  <2>1. relay'[p] = next /\ next.pc # "idle"
    BY <1>1, <1>2, <1>5
  <2>2. /\ next.token = relay[p].token /\ next.pc = "sending"
        /\ IsFiniteSet(next.rest) /\ next.current \notin next.rest
        /\ next.rest \cup {next.current} = relay[p].rest
        /\ Cardinality(next.rest) * SendTimeout + next.budget
              = Cardinality(relay[p].rest) * SendTimeout
    BY <1>1, <1>2, <2>1, TurnShape, TurnTime DEF Lasts
  <2>3. Needs(p) = Cardinality(relay[p].rest) * SendTimeout
    <3>1. Cardinality(relay[p].rest) * SendTimeout \in Nat
      BY <1>1, NeedsType DEF Lasts, TimeInv, RelayInv
    <3> QED
      BY <1>1, <3>1 DEF Needs
  <2>4. Needs(p)' = Needs(p)
    BY <2>1, <2>2, <2>3 DEF Needs
  <2>5. \A r \in relay[p].rest : row'[r] = row[r]
    BY <1>1, <1>3 DEF Lasts
  <2>6. \A r \in relay[p].rest :
           row'[r].token = relay[p].token /\ row'[r].left > Needs(p)'
    BY <1>1, <2>4, <2>5 DEF Lasts
  <2> QED
    BY <1>5, <2>1, <2>2, <2>6 DEF Lasts
<1> QED
  BY <1>4, <1>5

\* A tick costs a sending relay as much of its time as of its leases.
LEMMA TickLasts ==
    ASSUME TimeInv, faults = 0, Tick, NEW q \in Relays, relay'[q].pc # "idle"
    PROVE  Lasts(q)'
<1>1. /\ relay \in [Relays -> RelayType] /\ row \in [Rows -> RowType]
  BY DEF TimeInv, RelayInv, TypeOK
<1>2. relay'[q] = [relay[q] EXCEPT !.budget = Less(@)]
  BY DEF Tick
<1>3. /\ relay'[q].pc = relay[q].pc /\ relay'[q].token = relay[q].token
      /\ relay'[q].current = relay[q].current /\ relay'[q].rest = relay[q].rest
      /\ relay'[q].budget = Less(relay[q].budget)
  BY <1>1, <1>2 DEF RelayType
<1>4. relay[q].pc = "sending" /\ relay[q].budget > 0 /\ relay[q].budget \in Nat /\ Lasts(q)
  BY <1>1, <1>3 DEF Tick, RelayType, TimeInv, LeasesLast
<1>5. relay'[q].budget = relay[q].budget - 1
  BY <1>3, <1>4 DEF Less
<1>6. Cardinality(relay[q].rest) * SendTimeout \in Nat
  BY <1>4, NeedsType DEF Lasts, TimeInv, RelayInv
<1>7. Needs(q)' = Needs(q) - 1 /\ Needs(q) \in Nat
  BY <1>3, <1>4, <1>5, <1>6 DEF Needs
<1>8. ASSUME NEW r \in relay[q].rest \cup {relay[q].current}
      PROVE  row'[r].token = relay[q].token /\ row'[r].left > Needs(q)'
  <2>1. r \in Rows /\ row[r].left \in Nat /\ row[r].left > 0
    BY <1>1, <1>4, HeldRows DEF TimeInv, RowType
  <2>2. row'[r].token = row[r].token /\ row'[r].left = row[r].left - 1
    BY <2>1 DEF Tick, Aged, Less
  <2>3. row[r].token = relay[q].token /\ row[r].left > Needs(q)
    BY <1>4 DEF Lasts
  <2> QED
    BY <1>7, <2>1, <2>2, <2>3
<1> QED
  BY <1>3, <1>4, <1>8 DEF Lasts

\* A new row is in nobody's batch.
LEMMA InsertLasts ==
    ASSUME TimeInv, faults = 0, NEW s \in Rows, InsertOutbox(s),
           NEW q \in Relays, relay'[q].pc # "idle"
    PROVE  Lasts(q)'
<1>1. relay' = relay /\ Lasts(q) /\ relay[q].pc # "idle"
  BY DEF InsertOutbox, TimeInv, LeasesLast
<1>2. \A r \in relay[q].rest \cup {relay[q].current} : r \in Rows /\ r # s
  BY <1>1, HeldRows DEF InsertOutbox, TimeInv
<1>3. \A r \in relay[q].rest \cup {relay[q].current} : row'[r] = row[r]
  BY <1>2 DEF InsertOutbox, TimeInv, RelayInv, TypeOK
<1> QED
  BY <1>1, <1>3, LastsKept

\* Every step keeps the leases long enough; a fault only has to be counted.
LEMMA TimeStep ==
    ASSUME TimeInv, [Next]_vars
    PROVE  TimeInv'
<1>1. RelayInv' /\ TokensDiffer'
  BY RelayStep, TokensKept DEF TimeInv
<1>2. faults \in Nat
  BY DEF TimeInv, RelayInv, TypeOK
<1>3. ASSUME Fault
      PROVE  faults' # 0
  BY <1>2, <1>3 DEF Fault
<1>4. ASSUME faults' = 0, NEW q \in Relays, relay'[q].pc # "idle"
      PROVE  Lasts(q)'
  <2>1. CASE UNCHANGED vars
    <3>1. relay' = relay /\ row' = row /\ faults = 0 /\ Lasts(q)
      BY <1>4, <2>1 DEF vars, TimeInv, LeasesLast
    <3> QED
      BY <3>1, LastsKept
  <2>2. CASE Next
    <3>1. \/ \E r \in Rows : InsertOutbox(r)
          \/ \E p \in Relays, batch \in SUBSET Rows : ClaimBatch(p, batch)
          \/ \E p \in Relays : RelaySteps(p)
          \/ Tick
      BY <1>3, <1>4, <2>2 DEF Next, RelayFails, SendFails, MarkFails, Crash, Stall
    <3>2. faults = 0
      BY <1>4, <3>1 DEF InsertOutbox, ClaimBatch, RelaySteps, Send, MarkAndGoOn, Tick
    <3> QED
      BY <1>4, <3>1, <3>2, InsertLasts, ClaimLasts, SendLasts, MarkLasts, TickLasts
         DEF RelaySteps
  <2> QED
    BY <2>1, <2>2
<1> QED
  BY <1>1, <1>4 DEF TimeInv, LeasesLast

\* A batch claimed by relay_batch fits its lease: as long as there was no fault, every
\* row a relay has still to send or to mark is leased to it, however large batches,
\* timeouts and leases are, if only the product of the first two is below the third.
THEOREM BatchesFit == Spec => []BatchFitsItsLease
<1>1. Init => TimeInv
  BY RelayInit DEF Init, Idle, TimeInv, LeasesLast, TokensDiffer
<1>2. TimeInv /\ [Next]_vars => TimeInv'
  BY TimeStep
<1>3. TimeInv => BatchFitsItsLease
  BY HeldRows DEF TimeInv, LeasesLast, Lasts, BatchFitsItsLease
<1> QED
  BY <1>1, <1>2, <1>3, PTL DEF Spec

-----------------------------------------------------------------------------
(* A copy costs a fault. *)

\* The relays that are going to send a row, as things stand.
ToSend(r) == {p \in Relays : \/ r \in relay[p].rest
                             \/ relay[p].pc = "sending" /\ relay[p].current = r}

\* A relay has a row to itself until it is done with it, and is not about to give
\* it up as unsent.
Guards(p, r) ==
    /\ relay[p].pc # "idle"
    /\ r \in relay[p].rest \cup {relay[p].current}
    /\ relay[p].pc = "unsent" => relay[p].current # r
    /\ row[r].token = relay[p].token
    /\ row[r].left > Needs(p)

\* No further relay is going to claim the row.
Settled(r) == row[r].status = "PUBLISHED" \/ \E p \in Relays : Guards(p, r)

\* The claim that may still come, and may send the row once more.
Doubt(r) == IF Settled(r) THEN 0 ELSE 1

\* The copies a row has, those on the way and the one that may come to be were paid
\* for: one by the row, each other one by a fault.
Paid(r) ==
    /\ IsFiniteSet(ToSend(r))
    /\ copies[r] + Cardinality(ToSend(r)) + Doubt(r) <= 1 + faults

BatchShape ==
    \A p \in Relays : relay[p].pc # "idle" =>
        IsFiniteSet(relay[p].rest) /\ relay[p].current \notin relay[p].rest

CountInv == RelayInv /\ TokensDiffer /\ BatchShape /\ \A r \in Rows : Paid(r)

\* What Paid counts are numbers.
LEMMA PaidTypes ==
    ASSUME TypeOK, NEW r \in Rows, IsFiniteSet(ToSend(r))
    PROVE  /\ copies[r] \in Nat /\ faults \in Nat
           /\ Cardinality(ToSend(r)) \in Nat
           /\ Doubt(r) \in {0, 1}
BY FS_CardinalityType DEF TypeOK, Doubt

\* A step without a fault that sends nothing and gives up nothing.
LEMMA QuietStep ==
    ASSUME CountInv, RelayInv', NEW r \in Rows, copies'[r] = copies[r], faults' = faults,
           ToSend(r)' \subseteq ToSend(r), Settled(r) => Settled(r)'
    PROVE  Paid(r)'
<1>1. IsFiniteSet(ToSend(r)) /\ Paid(r) /\ TypeOK
  BY DEF CountInv, Paid, RelayInv
<1>2. IsFiniteSet(ToSend(r)') /\ Cardinality(ToSend(r)') <= Cardinality(ToSend(r))
  BY <1>1, FS_Subset
<1>3. Cardinality(ToSend(r)') \in Nat
  BY <1>2, FS_CardinalityType
<1>4. Doubt(r)' \in {0, 1} /\ Doubt(r)' <= Doubt(r)
  BY DEF Doubt
<1> QED
  BY <1>1, <1>2, <1>3, <1>4, PaidTypes DEF Paid

\* A fault pays for a row that is given up.
LEMMA FaultyStep ==
    ASSUME CountInv, NEW r \in Rows, copies'[r] = copies[r], faults' = faults + 1,
           ToSend(r)' \subseteq ToSend(r)
    PROVE  Paid(r)'
<1>1. IsFiniteSet(ToSend(r)) /\ Paid(r) /\ TypeOK
  BY DEF CountInv, Paid, RelayInv
<1>2. IsFiniteSet(ToSend(r)') /\ Cardinality(ToSend(r)') <= Cardinality(ToSend(r))
  BY <1>1, FS_Subset
<1>3. Cardinality(ToSend(r)') \in Nat
  BY <1>2, FS_CardinalityType
<1>4. Doubt(r)' \in {0, 1}
  BY DEF Doubt
<1> QED
  BY <1>1, <1>2, <1>3, <1>4, PaidTypes DEF Paid

\* A relay that was to send a row and may have done so is one sender less.
LEMMA SendingStep ==
    ASSUME CountInv, NEW r \in Rows, NEW p \in ToSend(r),
           copies'[r] = copies[r] \/ copies'[r] = copies[r] + 1,
           ToSend(r)' \subseteq ToSend(r) \ {p},
           \/ faults' = faults /\ (Settled(r) => Settled(r)')
           \/ faults' = faults + 1
    PROVE  Paid(r)'
<1>1. IsFiniteSet(ToSend(r)) /\ Paid(r) /\ TypeOK
  BY DEF CountInv, Paid, RelayInv
<1>2. /\ IsFiniteSet(ToSend(r) \ {p})
      /\ Cardinality(ToSend(r) \ {p}) = Cardinality(ToSend(r)) - 1
  BY <1>1, FS_RemoveElement
<1>3. IsFiniteSet(ToSend(r)') /\ Cardinality(ToSend(r)') <= Cardinality(ToSend(r)) - 1
  BY <1>2, FS_Subset
<1>4. Cardinality(ToSend(r)') \in Nat
  BY <1>3, FS_CardinalityType
<1>5. /\ Doubt(r)' \in {0, 1}
      /\ faults' = faults + 1 \/ (faults' = faults /\ Doubt(r)' <= Doubt(r))
  BY DEF Doubt
<1> QED
  BY <1>1, <1>3, <1>4, <1>5, PaidTypes DEF Paid

\* A relay that turns to other work leaves the other relays' rows to them.
LEMMA TurnedTo ==
    ASSUME TypeOK, NEW p \in Relays, NEW next, relay' = [relay EXCEPT ![p] = next],
           NEW r \in Rows
    PROVE  /\ ToSend(r)' \subseteq ToSend(r) \cup {p}
           /\ r \notin next.rest /\ ~(next.pc = "sending" /\ next.current = r) =>
                 ToSend(r)' \subseteq ToSend(r) \ {p}
BY DEF ToSend, TypeOK

\* A relay that a step leaves alone keeps its guard of a row the step leaves alone.
LEMMA GuardKept ==
    ASSUME NEW p \in Relays, NEW r \in Rows, Guards(p, r), relay'[p] = relay[p],
           row'[r] = row[r]
    PROVE  Guards(p, r)'
BY DEF Guards, Needs

\* Only a row in doubt is claimed.
LEMMA CandidateInDoubt ==
    ASSUME CountInv, NEW r \in Rows, Candidate(r)
    PROVE  ~Settled(r)
<1>1. row[r] \in RowType /\ row[r].status # "PUBLISHED"
  BY DEF CountInv, RelayInv, TypeOK, Candidate
<1>2. ASSUME NEW p \in Relays, Guards(p, r)
      PROVE  FALSE
  <2>1. relay[p].token \in Nat /\ row[r].token # None
    BY <1>2 DEF Guards, CountInv, RelayInv, RelayShape
  <2>2. row[r].status = "CLAIMED"
    BY <2>1 DEF CountInv, RelayInv, TypeOK
  <2>3. Needs(p) \in Nat
    BY <1>2, NeedsType DEF Guards, CountInv, RelayInv, BatchShape
  <2>4. row[r].left > 0
    BY <1>1, <1>2, <2>3 DEF Guards, RowType
  <2> QED
    BY <2>2, <2>4 DEF Candidate
<1> QED
  BY <1>1, <1>2 DEF Settled

\* A claim turns the doubt about each row of the batch into a relay that guards it
\* and is going to send it.
LEMMA ClaimPaid ==
    ASSUME CountInv, RelayInv', NEW p \in Relays, NEW batch \in SUBSET Rows,
           ClaimBatch(p, batch), NEW r \in Rows
    PROVE  Paid(r)'
<1>1. /\ TypeOK /\ relay \in [Relays -> RelayType] /\ nextToken \in Nat
      /\ IsFiniteSet(batch) /\ Cardinality(batch) <= BatchSize
      /\ copies' = copies /\ faults' = faults
  BY DEF CountInv, RelayInv, TypeOK, ClaimBatch
<1>2. PICK next \in Turn(nextToken, batch) : relay' = [relay EXCEPT ![p] = next]
  BY DEF ClaimBatch
<1>3. relay'[p] = next /\ \A q \in Relays \ {p} : relay'[q] = relay[q]
  BY <1>1, <1>2
<1>4. next.pc # "idle" /\ next.token = nextToken /\ next.pc = "sending"
  <2>1. batch # {}
    BY DEF ClaimBatch
  <2>2. next.pc = "sending"
    BY <1>2, <2>1 DEF Turn
  <2> QED
    BY <1>1, <1>2, <2>2, TurnShape
<1>5. /\ IsFiniteSet(next.rest) /\ next.current \notin next.rest
      /\ next.rest \cup {next.current} = batch
      /\ Cardinality(next.rest) * SendTimeout + next.budget
            = Cardinality(batch) * SendTimeout
  BY <1>1, <1>2, <1>4, TurnTime
<1>6. CASE r \in batch
  <2>1. ~Settled(r)
    BY <1>6, CandidateInDoubt DEF ClaimBatch
  <2>2. IsFiniteSet(ToSend(r)) /\ copies[r] + Cardinality(ToSend(r)) + 1 <= 1 + faults
    BY <2>1 DEF CountInv, Paid, Doubt
  <2>3. /\ IsFiniteSet(ToSend(r) \cup {p})
        /\ Cardinality(ToSend(r) \cup {p}) <= Cardinality(ToSend(r)) + 1
    <3>1. /\ IsFiniteSet(ToSend(r) \cup {p})
          /\ Cardinality(ToSend(r) \cup {p}) =
                IF p \in ToSend(r) THEN Cardinality(ToSend(r)) ELSE Cardinality(ToSend(r)) + 1
      BY <2>2, FS_AddElement
    <3>2. Cardinality(ToSend(r)) \in Nat
      BY <2>2, FS_CardinalityType
    <3> QED
      BY <3>1, <3>2
  <2>4. ToSend(r)' \subseteq ToSend(r) \cup {p}
    BY <1>1, <1>2, TurnedTo
  <2>5. /\ IsFiniteSet(ToSend(r)')
        /\ Cardinality(ToSend(r)') <= Cardinality(ToSend(r) \cup {p})
    BY <2>3, <2>4, FS_Subset
  <2>6. /\ Cardinality(ToSend(r)') \in Nat /\ Cardinality(ToSend(r)) \in Nat
        /\ Cardinality(ToSend(r) \cup {p}) \in Nat
    BY <2>2, <2>3, <2>5, FS_CardinalityType
  <2>7. Guards(p, r)'
    <3>1. row'[r].token = nextToken /\ row'[r].left = LeaseTicks
      BY <1>6 DEF ClaimBatch
    <3>2. Needs(p)' = Cardinality(batch) * SendTimeout
      BY <1>3, <1>4, <1>5 DEF Needs
    <3>3. Cardinality(batch) * SendTimeout < LeaseTicks
      BY <1>1, FS_CardinalityType, BatchTime
    <3>4. Cardinality(batch) * SendTimeout \in Nat
      BY <1>1, FS_CardinalityType, BatchTime
    <3> QED
      BY <1>3, <1>4, <1>5, <1>6, <3>1, <3>2, <3>3, <3>4 DEF Guards
  <2>8. Doubt(r)' = 0
    BY <2>7 DEF Doubt, Settled
  <2>9. copies'[r] = copies[r] /\ copies[r] \in Nat /\ faults \in Nat
    BY <1>1 DEF TypeOK
  <2> QED
    BY <1>1, <2>2, <2>3, <2>5, <2>6, <2>8, <2>9 DEF Paid
<1>7. CASE r \notin batch
  <2>1. ToSend(r)' \subseteq ToSend(r)
    BY <1>1, <1>2, <1>5, <1>7, TurnedTo
  <2>2. row'[r] = row[r]
    BY <1>7 DEF ClaimBatch
  <2>3. ASSUME NEW q \in Relays, Guards(q, r)
        PROVE  Guards(q, r)'
    <3>1. q # p
      BY <2>3 DEF Guards, ClaimBatch
    <3> QED
      BY <1>3, <2>2, <2>3, <3>1, GuardKept
  <2>4. Settled(r) => Settled(r)'
    BY <2>2, <2>3 DEF Settled
  <2> QED
    BY <1>1, <2>1, <2>4, QuietStep
<1> QED
  BY <1>6, <1>7

\* A confirmed send keeps every guard: the relay needs less time than before.
LEMMA SendGuards ==
    ASSUME CountInv, NEW p \in Relays, Send(p), NEW q \in Relays, NEW r \in Rows,
           Guards(q, r)
    PROVE  Guards(q, r)'
<1>1. relay \in [Relays -> RelayType] /\ row' = row /\ relay[p].pc = "sending"
  BY DEF CountInv, RelayInv, TypeOK, Send
<1>2. CASE q # p
  <2>1. relay'[q] = relay[q]
    BY <1>1, <1>2 DEF Send, Goto
  <2> QED
    BY <1>1, <2>1, GuardKept
<1>3. CASE q = p
  <2>1. /\ relay'[p].pc = "sent" /\ relay'[p].rest = relay[p].rest
        /\ relay'[p].current = relay[p].current /\ relay'[p].token = relay[p].token
    BY <1>1 DEF Send, Goto, RelayType
  <2>2. Cardinality(relay[p].rest) * SendTimeout \in Nat /\ relay[p].budget \in Nat
    BY <1>1, NeedsType DEF CountInv, BatchShape, RelayInv, RelayType
  <2>3. Needs(p)' <= Needs(p) /\ Needs(p)' \in Nat /\ Needs(p) \in Nat
    BY <1>1, <2>1, <2>2 DEF Needs
  <2>4. row[r].left > Needs(p)'
    BY <1>3, <2>3 DEF Guards, CountInv, RelayInv, TypeOK, RowType
  <2> QED
    BY <1>1, <1>3, <2>1, <2>4 DEF Guards
<1> QED
  BY <1>2, <1>3

\* A confirmed send turns a sender into a copy.
LEMMA SendPaid ==
    ASSUME CountInv, RelayInv', NEW p \in Relays, Send(p), NEW r \in Rows
    PROVE  Paid(r)'
<1> DEFINE c == relay[p].current
<1>1. /\ TypeOK /\ relay \in [Relays -> RelayType] /\ row' = row /\ relay[p].pc = "sending"
      /\ c \in Rows /\ c \notin relay[p].rest /\ faults' = faults
  BY DEF CountInv, RelayInv, RelayShape, TypeOK, BatchShape, Send
<1>2. /\ relay'[p].pc = "sent" /\ relay'[p].rest = relay[p].rest
      /\ \A q \in Relays \ {p} : relay'[q] = relay[q]
  BY <1>1 DEF Send, Goto, RelayType
<1>3. Settled(r) => Settled(r)'
  BY <1>1, SendGuards DEF Settled
<1>4. CASE r = c
  <2>1. p \in ToSend(r) /\ ToSend(r)' \subseteq ToSend(r) \ {p}
    BY <1>1, <1>2, <1>4 DEF ToSend
  <2>2. copies'[r] = copies[r] + 1
    BY <1>1, <1>4 DEF Send, TypeOK
  <2> QED
    BY <1>1, <1>3, <2>1, <2>2, SendingStep
<1>5. CASE r # c
  <2>1. ToSend(r)' \subseteq ToSend(r)
    BY <1>2 DEF ToSend
  <2>2. copies'[r] = copies[r]
    BY <1>1, <1>5 DEF Send, TypeOK
  <2> QED
    BY <1>1, <1>3, <2>1, <2>2, QuietStep
<1> QED
  BY <1>4, <1>5

\* A mark settles its row if it was sent, and leaves every other row to its guard.
LEMMA MarkSettles ==
    ASSUME CountInv, NEW p \in Relays, MarkAndGoOn(p), NEW r \in Rows, Settled(r)
    PROVE  Settled(r)'
<1> DEFINE c == relay[p].current
<1>1. /\ relay \in [Relays -> RelayType] /\ row \in [Rows -> RowType]
      /\ relay[p].pc \in {"sent", "unsent"} /\ c \in Rows /\ relay[p].token \in Nat
      /\ relay[p].rest \in SUBSET Rows /\ IsFiniteSet(relay[p].rest)
      /\ c \notin relay[p].rest
  BY DEF CountInv, RelayInv, RelayShape, TypeOK, RelayType, BatchShape, MarkAndGoOn, Mark
<1>2. PICK next \in Turn(relay[p].token, relay[p].rest) : relay' = [relay EXCEPT ![p] = next]
  BY DEF MarkAndGoOn
<1>3. /\ \A s \in Rows \ {c} : row'[s] = row[s]
      /\ ~StillMine(p) => row' = row
      /\ StillMine(p) /\ relay[p].pc = "sent" => row'[c].status = "PUBLISHED"
  BY <1>1 DEF MarkAndGoOn, Mark, Published
<1>4. CASE row[r].status = "PUBLISHED"
  <2>1. [Next]_vars
    BY DEF Next, RelaySteps
  <2>2. row'[r].status = "PUBLISHED"
    BY <1>4, <2>1, PublishedStays DEF CountInv
  <2> QED
    BY <2>2 DEF Settled
<1>5. ASSUME NEW q \in Relays \ {p}, Guards(q, r)
      PROVE  Settled(r)'
  <2>1. relay[q].token # relay[p].token /\ relay'[q] = relay[q]
    BY <1>1, <1>2, <1>5 DEF Guards, CountInv, TokensDiffer
  <2>2. r = c => ~StillMine(p)
    BY <1>5, <2>1 DEF Guards, StillMine
  <2>3. row'[r] = row[r]
    BY <1>3, <2>2
  <2>4. Guards(q, r)'
    BY <1>5, <2>1, <2>3, GuardKept
  <2> QED
    BY <2>4 DEF Settled
<1>6. ASSUME Guards(p, r), r = c
      PROVE  Settled(r)'
  <2>1. StillMine(p) /\ relay[p].pc = "sent"
    BY <1>1, <1>6 DEF Guards, StillMine
  <2> QED
    BY <1>3, <1>6, <2>1 DEF Settled
<1>7. ASSUME Guards(p, r), r # c
      PROVE  Settled(r)'
  <2>1. r \in relay[p].rest /\ row'[r] = row[r]
    BY <1>3, <1>7 DEF Guards
  <2>2. next.pc = "sending" /\ next.pc # "idle"
    BY <1>2, <2>1 DEF Turn
  <2>3. /\ next.token = relay[p].token
        /\ next.rest \cup {next.current} = relay[p].rest
        /\ Cardinality(next.rest) * SendTimeout + next.budget
              = Cardinality(relay[p].rest) * SendTimeout
    BY <1>1, <1>2, <2>2, TurnShape, TurnTime
  <2>4. relay'[p] = next
    BY <1>1, <1>2
  <2>5. Needs(p)' = Needs(p)
    <3>1. Cardinality(relay[p].rest) * SendTimeout \in Nat
      BY <1>1, NeedsType DEF CountInv, RelayInv
    <3> QED
      BY <1>1, <2>2, <2>3, <2>4, <3>1 DEF Needs
  <2>6. Guards(p, r)'
    BY <1>7, <2>1, <2>2, <2>3, <2>4, <2>5 DEF Guards
  <2> QED
    BY <2>6 DEF Settled
<1> QED
  BY <1>4, <1>5, <1>6, <1>7 DEF Settled

\* A mark sends nothing: the relay goes on with rows it had left.
LEMMA MarkPaid ==
    ASSUME CountInv, RelayInv', NEW p \in Relays, MarkAndGoOn(p), NEW r \in Rows
    PROVE  Paid(r)'
<1>1. /\ TypeOK /\ relay \in [Relays -> RelayType] /\ relay[p].token \in Nat
      /\ relay[p].rest \in SUBSET Rows /\ IsFiniteSet(relay[p].rest)
      /\ copies' = copies /\ faults' = faults
  BY DEF CountInv, RelayInv, RelayShape, TypeOK, RelayType, BatchShape, MarkAndGoOn, Mark
<1>2. PICK next \in Turn(relay[p].token, relay[p].rest) : relay' = [relay EXCEPT ![p] = next]
  BY DEF MarkAndGoOn
<1>3. /\ next.rest \subseteq relay[p].rest
      /\ next.pc = "sending" => next.current \in relay[p].rest
  BY <1>2 DEF Turn, Idle
<1>4. ToSend(r)' \subseteq ToSend(r)
  <2>1. CASE r \in relay[p].rest
    BY <1>1, <1>2, <2>1, TurnedTo DEF ToSend
  <2>2. CASE r \notin relay[p].rest
    BY <1>1, <1>2, <1>3, <2>2, TurnedTo
  <2> QED
    BY <2>1, <2>2
<1> QED
  BY <1>1, <1>4, MarkSettles, QuietStep

\* Time that passes for all passes for no guard in particular.
LEMMA TickGuards ==
    ASSUME CountInv, Tick, NEW q \in Relays, NEW r \in Rows, Guards(q, r)
    PROVE  Guards(q, r)'
<1>1. /\ relay \in [Relays -> RelayType] /\ row \in [Rows -> RowType]
  BY DEF CountInv, RelayInv, TypeOK
<1>2. relay'[q] = [relay[q] EXCEPT !.budget = Less(@)]
  BY DEF Tick
<1>3. /\ relay'[q].pc = relay[q].pc /\ relay'[q].token = relay[q].token
      /\ relay'[q].current = relay[q].current /\ relay'[q].rest = relay[q].rest
      /\ relay'[q].budget = Less(relay[q].budget)
  BY <1>1, <1>2 DEF RelayType
<1>4. relay[q].pc = "sending" /\ relay[q].budget > 0 /\ relay[q].budget \in Nat
  BY <1>1 DEF Tick, Guards, RelayType
<1>5. relay'[q].budget = relay[q].budget - 1
  BY <1>3, <1>4 DEF Less
<1>6. Cardinality(relay[q].rest) * SendTimeout \in Nat
  BY <1>4, NeedsType DEF CountInv, RelayInv, BatchShape
<1>7. Needs(q)' = Needs(q) - 1 /\ Needs(q) \in Nat
  BY <1>3, <1>4, <1>5, <1>6 DEF Needs
<1>8. row[r].left \in Nat /\ row[r].left > Needs(q)
  BY <1>1 DEF RowType, Guards
<1>9. row'[r].token = row[r].token /\ row'[r].left = row[r].left - 1
  BY <1>7, <1>8 DEF Tick, Aged, Less
<1>10. row'[r].left > Needs(q)'
  BY <1>7, <1>8, <1>9
<1> QED
  BY <1>3, <1>9, <1>10 DEF Guards

\* Time passes, and sends nothing.
LEMMA TickPaid ==
    ASSUME CountInv, RelayInv', Tick, NEW r \in Rows
    PROVE  Paid(r)'
<1>1. relay \in [Relays -> RelayType] /\ copies' = copies /\ faults' = faults
  BY DEF CountInv, RelayInv, TypeOK, Tick
<1>2. \A q \in Relays : /\ relay'[q].pc = relay[q].pc /\ relay'[q].rest = relay[q].rest
                        /\ relay'[q].current = relay[q].current
  BY <1>1 DEF Tick, RelayType
<1>3. ToSend(r)' \subseteq ToSend(r)
  BY <1>2 DEF ToSend
<1>4. row[r].status = "PUBLISHED" => row'[r].status = "PUBLISHED"
  BY DEF Tick, Aged
<1>5. Settled(r) => Settled(r)'
  BY <1>4, TickGuards DEF Settled
<1> QED
  BY <1>1, <1>3, <1>5, QuietStep

\* A new row is still in doubt, and the others are as they were.
LEMMA InsertPaid ==
    ASSUME CountInv, RelayInv', NEW s \in Rows, InsertOutbox(s), NEW r \in Rows
    PROVE  Paid(r)'
<1>1. /\ relay' = relay /\ copies' = copies /\ faults' = faults
      /\ row \in [Rows -> RowType]
  BY DEF CountInv, RelayInv, TypeOK, InsertOutbox
<1>2. ToSend(r)' \subseteq ToSend(r)
  BY <1>1 DEF ToSend
<1>3. CASE r # s
  <2>1. row'[r] = row[r]
    BY <1>1, <1>3 DEF InsertOutbox
  <2>2. Settled(r) => Settled(r)'
    BY <1>1, <2>1, GuardKept DEF Settled
  <2> QED
    BY <1>1, <1>2, <2>2, QuietStep
<1>4. CASE r = s
  <2>1. row[r].status = "ABSENT" /\ row[r].token = None
    BY <1>4 DEF InsertOutbox, CountInv, RelayInv, TypeOK
  <2>2. ~Settled(r)
    BY <2>1 DEF Settled, Guards, CountInv, RelayInv, RelayShape
  <2> QED
    BY <1>1, <1>2, <2>2, QuietStep
<1> QED
  BY <1>3, <1>4

-----------------------------------------------------------------------------
\* A send that reports an error, or dies with its process, costs a fault whether or
\* not it reached the topic.
LEMMA FailedSendPaid ==
    ASSUME CountInv, NEW p \in Relays, NEW next, relay[p].pc # "idle",
           relay' = [relay EXCEPT ![p] = next],
           next.pc # "sending", next.rest \subseteq relay[p].rest, faults' = faults + 1,
           \/ copies' = copies
           \/ relay[p].pc = "sending" /\ copies' = [copies EXCEPT ![relay[p].current] = @ + 1],
           NEW r \in Rows
    PROVE  Paid(r)'
<1> DEFINE c == relay[p].current
<1>1. TypeOK /\ c \in Rows /\ c \notin relay[p].rest
  BY DEF CountInv, RelayInv, RelayShape, BatchShape
<1>2. /\ ToSend(r)' \subseteq ToSend(r) \cup {p}
      /\ r \notin next.rest => ToSend(r)' \subseteq ToSend(r) \ {p}
  BY <1>1, TurnedTo
<1>3. ToSend(r)' \subseteq ToSend(r)
  <2>1. CASE r \in relay[p].rest
    BY <1>2, <2>1 DEF ToSend
  <2>2. CASE r \notin relay[p].rest
    BY <1>2, <2>2
  <2> QED
    BY <2>1, <2>2
<1>4. CASE copies'[r] = copies[r]
  BY <1>3, <1>4, FaultyStep
<1>5. CASE copies'[r] # copies[r]
  <2>1. /\ relay[p].pc = "sending" /\ r = c
        /\ copies'[r] = copies[r] + 1
    BY <1>1, <1>5 DEF TypeOK
  <2>2. p \in ToSend(r) /\ r \notin next.rest
    BY <1>1, <2>1 DEF ToSend
  <2> QED
    BY <1>2, <2>1, <2>2, SendingStep
<1> QED
  BY <1>4, <1>5

\* Whatever goes wrong is paid for with the fault it is.
LEMMA FaultPaid ==
    ASSUME CountInv, NEW p \in Relays, RelayFails(p), NEW r \in Rows
    PROVE  Paid(r)'
<1>1. TypeOK /\ relay \in [Relays -> RelayType]
  BY DEF CountInv, RelayInv, TypeOK
<1>2. Idle.pc # "sending" /\ Idle.rest \subseteq relay[p].rest
  BY DEF Idle
<1>3. CASE SendFails(p)
  <2> DEFINE next == [relay[p] EXCEPT !.pc = "unsent"]
  <2>1. /\ relay' = [relay EXCEPT ![p] = next] /\ next.pc = "unsent"
        /\ next.rest = relay[p].rest
    BY <1>1, <1>3 DEF SendFails, Goto, RelayType
  <2>2. /\ relay[p].pc = "sending" /\ faults' = faults + 1
        /\ copies' = copies \/ copies' = [copies EXCEPT ![relay[p].current] = @ + 1]
    BY <1>3 DEF SendFails, Fault
  <2> HIDE DEF next
  <2> QED
    BY <2>1, <2>2, FailedSendPaid
<1>4. CASE MarkFails(p)
  <2>1. /\ relay' = [relay EXCEPT ![p] = Idle] /\ copies' = copies /\ relay[p].pc # "idle"
        /\ faults' = faults + 1
    BY <1>4 DEF MarkFails, Mark, Fault
  <2> QED
    BY <1>2, <2>1, FailedSendPaid
<1>5. CASE Crash(p)
  <2>1. /\ relay' = [relay EXCEPT ![p] = Idle] /\ relay[p].pc # "idle"
        /\ faults' = faults + 1
        /\ \/ copies' = copies
           \/ /\ relay[p].pc = "sending"
              /\ copies' = [copies EXCEPT ![relay[p].current] = @ + 1]
    BY <1>5 DEF Crash, Fault
  <2> QED
    BY <1>2, <2>1, FailedSendPaid
<1> QED
  BY <1>3, <1>4, <1>5 DEF RelayFails

\* So is the time that leases lose while a relay is paused.
LEMMA StallPaid ==
    ASSUME CountInv, Stall, NEW r \in Rows
    PROVE  Paid(r)'
<1>1. relay' = relay /\ copies' = copies /\ faults' = faults + 1
  BY DEF Stall, Fault
<1>2. ToSend(r)' \subseteq ToSend(r)
  BY <1>1 DEF ToSend
<1> QED
  BY <1>1, <1>2, FaultyStep

\* A batch has its current row apart from the rows left, which are finitely many.
LEMMA ShapeKept ==
    ASSUME CountInv, [Next]_vars
    PROVE  BatchShape'
<1>1. relay \in [Relays -> RelayType] /\ nextToken \in Nat
  BY DEF CountInv, RelayInv, TypeOK
<1>2. ASSUME NEW p \in Relays, NEW token \in Nat, NEW rest \in SUBSET Rows,
             IsFiniteSet(rest), NEW next \in Turn(token, rest),
             relay' = [relay EXCEPT ![p] = next]
      PROVE  BatchShape'
  <2>1. next.pc # "idle" => IsFiniteSet(next.rest) /\ next.current \notin next.rest
    BY <1>2, TurnTime
  <2>2. relay'[p] = next /\ \A q \in Relays \ {p} : relay'[q] = relay[q]
    BY <1>1, <1>2
  <2> QED
    BY <2>1, <2>2 DEF CountInv, BatchShape
<1>3. ASSUME NEW p \in Relays, NEW batch \in SUBSET Rows, ClaimBatch(p, batch)
      PROVE  BatchShape'
  BY <1>1, <1>2, <1>3 DEF ClaimBatch
<1>4. ASSUME NEW p \in Relays, MarkAndGoOn(p)
      PROVE  BatchShape'
  <2>1. /\ relay[p].token \in Nat /\ relay[p].rest \in SUBSET Rows
        /\ IsFiniteSet(relay[p].rest)
    BY <1>1, <1>4 DEF MarkAndGoOn, Mark, CountInv, RelayInv, RelayShape, RelayType, BatchShape
  <2> QED
    BY <1>2, <1>4, <2>1 DEF MarkAndGoOn
<1>5. ASSUME NEW p \in Relays, NEW pc, Goto(p, pc), relay[p].pc # "idle"
      PROVE  BatchShape'
  BY <1>1, <1>5 DEF Goto, RelayType, CountInv, BatchShape
<1>6. ASSUME NEW p \in Relays, relay' = [relay EXCEPT ![p] = Idle]
      PROVE  BatchShape'
  BY <1>1, <1>6, IdleShape DEF CountInv, BatchShape
<1>7. CASE relay' = [q \in Relays |-> [relay[q] EXCEPT !.budget = Less(@)]]
  BY <1>1, <1>7 DEF RelayType, CountInv, BatchShape
<1>8. CASE relay' = relay
  BY <1>8 DEF CountInv, BatchShape
<1>9. ASSUME NEW p \in Relays, RelaySteps(p) \/ RelayFails(p)
      PROVE  \/ MarkAndGoOn(p)
             \/ relay[p].pc # "idle" /\ (Goto(p, "sent") \/ Goto(p, "unsent"))
             \/ relay' = [relay EXCEPT ![p] = Idle]
  BY <1>9 DEF RelaySteps, RelayFails, Send, SendFails, MarkFails, Crash
<1> QED
  BY <1>3, <1>4, <1>5, <1>6, <1>7, <1>8, <1>9 DEF Next, InsertOutbox, Tick, Stall, vars

\* Nothing moves, nothing is owed.
LEMMA StutterPaid ==
    ASSUME CountInv, UNCHANGED vars, NEW r \in Rows
    PROVE  Paid(r)'
<1>1. row' = row /\ copies' = copies /\ relay' = relay /\ faults' = faults
  BY DEF vars
<1>2. Paid(r)
  BY DEF CountInv
<1> QED
  BY <1>1, <1>2 DEF Paid, ToSend, Doubt, Settled, Guards, Needs

\* Every step keeps the account of every row.
LEMMA CountStep ==
    ASSUME CountInv, [Next]_vars
    PROVE  CountInv'
<1>1. RelayInv' /\ TokensDiffer' /\ BatchShape'
  BY RelayStep, TokensKept, ShapeKept DEF CountInv
<1>2. ASSUME NEW r \in Rows
      PROVE  Paid(r)'
  <2>1. CASE \E s \in Rows : InsertOutbox(s)
    BY <1>1, <2>1, InsertPaid
  <2>2. CASE \E p \in Relays, batch \in SUBSET Rows : ClaimBatch(p, batch)
    BY <1>1, <2>2, ClaimPaid
  <2>3. CASE \E p \in Relays : RelaySteps(p)
    BY <1>1, <2>3, SendPaid, MarkPaid DEF RelaySteps
  <2>4. CASE \E p \in Relays : RelayFails(p)
    BY <2>4, FaultPaid
  <2>5. CASE Tick
    BY <1>1, <2>5, TickPaid
  <2>6. CASE Stall
    BY <2>6, StallPaid
  <2>7. CASE UNCHANGED vars
    BY <2>7, StutterPaid
  <2> QED
    BY <2>1, <2>2, <2>3, <2>4, <2>5, <2>6, <2>7 DEF Next
<1> QED
  BY <1>1, <1>2 DEF CountInv

\* Each copy of a row on its topic beyond the first goes back to a crash, a stall, a
\* failed send or a failed mark of its own: relay_batch on any number of replicas, with
\* any sizes and times that fit, duplicates nothing by itself.
THEOREM DuplicatesCostFaults == Spec => []CopiesCostFaults
<1>1. Init => CountInv
  <2>1. SUFFICES ASSUME Init
                 PROVE  CountInv
    OBVIOUS
  <2>2. RelayInv /\ TokensDiffer /\ BatchShape
    BY <2>1, RelayInit DEF Init, Idle, TokensDiffer, BatchShape
  <2>3. ASSUME NEW r \in Rows
        PROVE  Paid(r)
    <3>1. ToSend(r) = {}
      BY <2>1 DEF Init, Idle, ToSend
    <3>2. IsFiniteSet(ToSend(r)) /\ Cardinality(ToSend(r)) = 0
      BY <3>1, FS_EmptySet
    <3>3. copies[r] = 0 /\ faults = 0 /\ Doubt(r) \in {0, 1}
      BY <2>1 DEF Init, Doubt
    <3> QED
      BY <3>2, <3>3 DEF Paid
  <2> QED
    BY <2>2, <2>3 DEF CountInv
<1>2. CountInv /\ [Next]_vars => CountInv'
  BY CountStep
<1>3. CountInv => CopiesCostFaults
  <2>1. ASSUME CountInv, NEW r \in Rows
        PROVE  copies[r] <= 1 + faults
    <3>1. Paid(r) /\ TypeOK
      BY <2>1 DEF CountInv, RelayInv
    <3> QED
      BY <3>1, PaidTypes DEF Paid
  <2> QED
    BY <2>1 DEF CopiesCostFaults
<1> QED
  BY <1>1, <1>2, <1>3, PTL DEF Spec

-----------------------------------------------------------------------------
(* Following                                                               *)

HIDE RelayConstants
USE SyncAssumption DEF Versions

PolicyRow == [version : Versions, enabled : BOOLEAN]

\* The rows a load has read are no newer than the rules it reads after them,
\* and these no newer than their parts, unless a replacement tore them.
PartIsLater(l, s, n) ==
    l.parts[n][s] \in Versions \cup {Torn} /\ (l.parts[n][s] # Torn => l.rules[s] <= l.parts[n][s])

LoadInOrder(t) ==
    LET l == load[t] IN
    /\ l.todo \subseteq Scopes
    /\ l.at \in {"rules", "parts", "apply"} =>
          /\ DOMAIN l.rows \subseteq Scopes
          /\ \A s \in DOMAIN l.rows : l.rows[s] \in PolicyRow /\ l.rows[s].version <= policy[s].version
    /\ l.at \in {"parts", "apply"} =>
          \A s \in DOMAIN l.rows : l.rules[s] \in Versions /\ l.rows[s].version <= l.rules[s]
    /\ l.at = "parts" =>
          /\ \A s \in DOMAIN l.rows : l.rules[s] <= policy[s].version
          /\ l.parts \in Seq([DOMAIN l.rows -> Versions \cup {Torn}]) /\ Len(l.parts) \in 0 .. 2
          /\ \A s \in DOMAIN l.rows, n \in 1 .. Len(l.parts) : PartIsLater(l, s, n)
    /\ l.at = "apply" => \A s \in DOMAIN l.rows, n \in Answers : PartIsLater(l, s, n)
    /\ l.at = "remove" => \A s \in DOMAIN l.rows : l.rows[s].version \in Nat /\ ~l.rows[s].enabled
    /\ t = "sweep" /\ l.at \in {"rules", "parts", "apply"} => l.todo \subseteq DOMAIN l.rows
    /\ t = "event" /\ l.at # "idle" => position < Len(topic)

SyncInv ==
    /\ SyncTypeOK
    /\ ContentMatchesVersion
    /\ DOMAIN load = Tasks /\ \A t \in Tasks : LoadInOrder(t)

\* What a step may leave in a slot: what is there, nothing, or a later version.
Moved(s, new) ==
    \/ new = slot[s]
    \/ \E v \in Nat : new = [last |-> v, shows |-> NoSnapshot] /\ v >= slot[s].last
    \/ \E v \in Versions, c \in Contents :
          new = [last |-> v, shows |-> c] /\ v > slot[s].last /\ v <= c.rules
          /\ \A n \in Answers : c.rules <= c.parts[n]

-----------------------------------------------------------------------------

LEMMA RemoveMoves ==
    ASSUME SyncInv, NEW s \in Scopes, NEW v \in Nat
    PROVE  Moved(s, Remove(s, v))
<1>1. slot[s].last \in Nat
  BY DEF SyncInv, SyncTypeOK
<1> QED
  BY <1>1 DEF Moved, Remove, Stored

LEMMA PublishesMoves ==
    ASSUME SyncInv, NEW t \in Tasks, NEW s \in DOMAIN load[t].rows, load[t].at = "apply", Compiles(t)
    PROVE  Moved(s, Publishes(t, s))
<1> DEFINE held == load[t].rows[s]
           content == Read(t, s)
<1>1. /\ s \in Scopes /\ held \in PolicyRow
      /\ load[t].rules[s] \in Versions /\ held.version <= load[t].rules[s]
      /\ \A n \in Answers : PartIsLater(load[t], s, n)
  BY DEF SyncInv, LoadInOrder
<1>2. slot[s].last \in Nat
  BY <1>1 DEF SyncInv, SyncTypeOK
<1>3. CASE held.enabled
  <2>1. \A n \in Answers : load[t].parts[n][s] \in Versions /\ load[t].rules[s] <= load[t].parts[n][s]
    BY <1>1, <1>3 DEF Compiles, PartIsLater
  <2>2. /\ content \in Contents /\ held.version <= content.rules
        /\ \A n \in Answers : content.rules <= content.parts[n]
    BY <1>1, <2>1 DEF Contents, Read
  <2>3. held.version \in Versions
    BY <1>1 DEF PolicyRow
  <2>4. Publishes(t, s) = IF held.version <= slot[s].last THEN slot[s]
                          ELSE [last |-> held.version, shows |-> content]
    BY <1>3 DEF Publishes, Replace, Stored
  <2> HIDE DEF content, held
  <2>5. CASE held.version <= slot[s].last
    BY <2>4, <2>5 DEF Moved
  <2>6. CASE held.version > slot[s].last
    <3>1. Publishes(t, s) = [last |-> held.version, shows |-> content]
      BY <1>2, <2>3, <2>4, <2>6
    <3> QED
      BY <2>2, <2>3, <2>6, <3>1 DEF Moved
  <2> QED
    BY <1>2, <2>3, <2>5, <2>6
<1>4. CASE ~held.enabled
  <2>1. held.version \in Nat
    BY <1>1 DEF PolicyRow
  <2>2. Publishes(t, s) = Remove(s, held.version)
    BY <1>4 DEF Publishes
  <2> QED
    BY <1>1, <2>1, <2>2, RemoveMoves
<1> QED
  BY <1>3, <1>4

\* A step that moves slots so keeps what they show as new as its version.
LEMMA MovedSlotsMatch ==
    ASSUME SyncInv, slot' = [s \in Scopes |-> slot'[s]], \A s \in Scopes : Moved(s, slot'[s])
    PROVE  /\ slot' \in [Scopes -> [last : Nat, shows : Contents \cup {NoSnapshot}]]
           /\ ContentMatchesVersion'
<1> SUFFICES ASSUME NEW s \in Scopes
             PROVE  /\ slot'[s] \in [last : Nat, shows : Contents \cup {NoSnapshot}]
                    /\ slot'[s].shows # NoSnapshot =>
                          /\ slot'[s].shows.rules >= slot'[s].last
                          /\ \A n \in Answers : slot'[s].shows.parts[n] >= slot'[s].shows.rules
  BY DEF ContentMatchesVersion, Loaded
<1>1. CASE slot'[s] = slot[s]
  BY <1>1 DEF SyncInv, SyncTypeOK, ContentMatchesVersion, Loaded
<1>2. CASE \E v \in Nat : slot'[s] = [last |-> v, shows |-> NoSnapshot]
  BY <1>2
<1>3. ASSUME NEW v \in Versions, NEW c \in Contents, slot'[s] = [last |-> v, shows |-> c],
             v <= c.rules, \A n \in Answers : c.rules <= c.parts[n]
      PROVE  /\ slot'[s] \in [last : Nat, shows : Contents \cup {NoSnapshot}]
             /\ slot'[s].shows.rules >= slot'[s].last
             /\ \A n \in Answers : slot'[s].shows.parts[n] >= slot'[s].shows.rules
  BY <1>3 DEF Contents
<1> QED
  BY <1>1, <1>2, <1>3 DEF Moved

-----------------------------------------------------------------------------
(* What a step leaves of the loads.                                         *)

\* A load that does not move stays in order: versions only grow.
LEMMA RestsInOrder ==
    ASSUME SyncInv, NEW t \in Tasks, load'[t] = load[t],
           \A s \in Scopes : policy'[s].version \in Nat /\ policy[s].version <= policy'[s].version,
           t = "event" /\ load[t].at # "idle" => position' = position /\ Len(topic) <= Len(topic')
    PROVE  LoadInOrder(t)'
<1>1. LoadInOrder(t) /\ position \in Nat /\ Len(topic) \in Nat
  BY DEF SyncInv, SyncTypeOK
<1>2. \A s \in Scopes : policy[s].version \in Nat
  BY DEF SyncInv, SyncTypeOK
<1>3. load[t].at \in {"rules", "parts", "apply"} =>
        \A s \in DOMAIN load[t].rows : load[t].rows[s].version <= policy'[s].version
  BY <1>1, <1>2 DEF LoadInOrder, PolicyRow
<1>4. load[t].at = "parts" =>
        /\ \A s \in DOMAIN load[t].rows : load[t].rules[s] <= policy'[s].version
        /\ load[t].parts \in Seq([DOMAIN load[t].rows -> Versions \cup {Torn}])
        /\ Len(load[t].parts) \in 0 .. 2
        /\ \A s \in DOMAIN load[t].rows, n \in 1 .. Len(load[t].parts) : PartIsLater(load[t], s, n)
  BY <1>1, <1>2 DEF LoadInOrder
<1>5. t = "event" /\ load[t].at # "idle" => position' < Len(topic')
  <2> SUFFICES ASSUME t = "event", load[t].at # "idle" PROVE position' < Len(topic')
    OBVIOUS
  <2>1. position < Len(topic) /\ position' = position /\ Len(topic) <= Len(topic')
    BY <1>1 DEF LoadInOrder
  <2>2. Len(topic) <= Len(topic')
    BY <2>1
  <2> QED
    BY <1>1, <2>1 DEF SyncInv, SyncTypeOK
<1>6. load[t].at = "apply" =>
        \A s \in DOMAIN load[t].rows, n \in Answers : PartIsLater(load[t], s, n)
  BY <1>1 DEF LoadInOrder
<1> QED
  BY <1>1, <1>3, <1>4, <1>5, <1>6 DEF LoadInOrder

\* A load that is over, or has only its absent scopes left, is in order.
LEMMA EndedInOrder ==
    ASSUME NEW t \in Tasks, load'[t].at \in {"idle", "absent", "commit"}, load'[t].todo \subseteq Scopes,
           t = "event" => load'[t].at = "idle" \/ position' < Len(topic')
    PROVE  LoadInOrder(t)'
  BY DEF LoadInOrder

\* A load reads its policies, its rules and the rest one after the other.
LEMMA ReadsInOrder ==
    ASSUME SyncInv, NEW t \in Tasks, Reads(t)
    PROVE  LoadInOrder(t)'
<1>0. /\ LoadInOrder(t) /\ DOMAIN load = Tasks
      /\ policy \in [Scopes -> PolicyRow] /\ topic \in Seq(Invalidations) /\ position \in Nat
  BY DEF SyncInv, SyncTypeOK, PolicyRow
<1>1. CASE ReadPolicies(t)
  <2> DEFINE found == {s \in Wanted(t) : policy[s].version > 0}
  <2>1. Wanted(t) \subseteq Scopes
    <3>1. CASE t = "event"
      <4>1. NextEvent \in Invalidations
        BY <1>0, <1>1, <3>1 DEF ReadPolicies, MayStart, NextEvent
      <4> QED
        BY <3>1, <4>1 DEF Wanted, Invalidations
    <3> QED
      BY <3>1 DEF Wanted
  <2>2. /\ load'[t].at \in {"rules", "apply"}
        /\ load'[t].rows = [s \in found |-> policy[s]]
        /\ load'[t].at = "apply" => found = {}
        /\ load'[t].todo \subseteq Scopes
        /\ t # "event" => load'[t].todo = found
    <3>1. load'[t] = [at    |-> IF found = {} THEN "apply" ELSE "rules",
                      rows  |-> [s \in found |-> policy[s]],
                      rules |-> <<>>, parts |-> <<>>,
                      todo  |-> IF t = "event" THEN {NextEvent.scope} ELSE found]
      BY <1>0, <1>1 DEF ReadPolicies, Looking
    <3>2. t = "event" => {NextEvent.scope} \subseteq Scopes
      BY <2>1 DEF Wanted
    <3>3. found \subseteq Scopes
      BY <2>1
    <3> HIDE DEF found
    <3> QED
      BY <3>1, <3>2, <3>3
  <2>3. found \subseteq Scopes
    BY <2>1
  <2>4. t = "event" => position' < Len(topic')
    BY <1>1 DEF ReadPolicies, MayStart
  <2>5. policy' = policy
    BY <1>1 DEF ReadPolicies
  <2> HIDE DEF found
  <2>6. \A s \in found : policy[s] \in PolicyRow /\ policy[s].version <= policy[s].version
    BY <1>0, <2>3 DEF PolicyRow
  <2> QED
    BY <2>2, <2>3, <2>4, <2>5, <2>6 DEF LoadInOrder
<1>2. CASE ReadRules(t)
  <2>1. load'[t] = [at    |-> "parts",
                    rows  |-> load[t].rows,
                    rules |-> [s \in DOMAIN load[t].rows |-> policy[s].version],
                    parts |-> <<>>,
                    todo  |-> load[t].todo]
    BY <1>0, <1>2 DEF ReadRules
  <2>2. load[t].at = "rules" /\ policy' = policy /\ topic' = topic /\ position' = position
    BY <1>2 DEF ReadRules
  <2>3. \A s \in DOMAIN load[t].rows :
          /\ s \in Scopes /\ load[t].rows[s] \in PolicyRow
          /\ load[t].rows[s].version <= policy[s].version
          /\ policy[s].version \in Versions /\ policy[s].version <= policy[s].version
    BY <1>0, <2>2 DEF LoadInOrder, PolicyRow
  <2>4. /\ load[t].todo \subseteq Scopes /\ (t = "event" => position < Len(topic))
        /\ t = "sweep" => load[t].todo \subseteq DOMAIN load[t].rows
    BY <1>0, <2>2 DEF LoadInOrder
  <2> QED
    BY <2>1, <2>2, <2>3, <2>4 DEF LoadInOrder
<1>3. CASE ReadPart(t)
  <2> DEFINE l == load[t]
  <2>1. PICK kept \in SUBSET Scopes :
          load' = [load EXCEPT ![t] =
            [at    |-> IF Len(load[t].parts) = 2 THEN "apply" ELSE "parts",
             rows  |-> load[t].rows,
             rules |-> load[t].rules,
             parts |-> PartsWith(t, kept),
             todo  |-> load[t].todo]]
    BY <1>3 DEF ReadPart
  <2> DEFINE part == [s \in DOMAIN load[t].rows |-> PartOf(t, s, kept)]
  <2>2. load'[t] = [at    |-> IF Len(l.parts) = 2 THEN "apply" ELSE "parts",
                    rows  |-> l.rows,
                    rules |-> l.rules,
                    parts |-> Append(l.parts, part),
                    todo  |-> l.todo]
    BY <1>0, <2>1 DEF PartsWith
  <2>3. l.at = "parts" /\ policy' = policy /\ topic' = topic /\ position' = position
    BY <1>3 DEF ReadPart
  <2>4. \A s \in DOMAIN l.rows :
          /\ l.rows[s] \in PolicyRow /\ l.rows[s].version <= policy[s].version
          /\ l.rules[s] \in Versions /\ l.rows[s].version <= l.rules[s]
          /\ s \in Scopes /\ l.rules[s] <= policy[s].version
    BY <1>0, <2>3 DEF LoadInOrder
  <2>5. \A s \in DOMAIN l.rows :
          part[s] \in Versions \cup {Torn} /\ (part[s] # Torn => l.rules[s] <= part[s])
    BY <1>0, <2>4 DEF PartOf, PolicyRow
  <2>6. /\ l.parts \in Seq([DOMAIN l.rows -> Versions \cup {Torn}]) /\ Len(l.parts) \in 0 .. 2
        /\ \A s \in DOMAIN l.rows, n \in 1 .. Len(l.parts) : PartIsLater(l, s, n)
    BY <1>0, <2>3 DEF LoadInOrder
  <2>7. /\ l.todo \subseteq Scopes /\ (t = "event" => position < Len(topic))
        /\ t = "sweep" => l.todo \subseteq DOMAIN l.rows
        /\ DOMAIN l.rows \subseteq Scopes
    BY <1>0, <2>3, <2>4 DEF LoadInOrder
  <2>8. part \in [DOMAIN l.rows -> Versions \cup {Torn}]
    BY <2>5
  <2> DEFINE now == Append(l.parts, part)
  <2> HIDE DEF part
  <2>9. /\ now \in Seq([DOMAIN l.rows -> Versions \cup {Torn}]) /\ Len(now) = Len(l.parts) + 1
        /\ \A n \in 1 .. Len(l.parts) : now[n] = l.parts[n]
        /\ now[Len(l.parts) + 1] = part
    BY <2>6, <2>8
  <2>10. load'[t].at \in {"parts", "apply"} /\ load'[t].rows = l.rows /\ load'[t].rules = l.rules
         /\ load'[t].parts = now /\ load'[t].todo = l.todo
         /\ (load'[t].at = "apply" <=> Len(l.parts) = 2)
    BY <2>2
  <2> HIDE DEF now, l
  <2>11. ASSUME NEW s \in DOMAIN l.rows, NEW n \in 1 .. Len(now)
         PROVE  PartIsLater(load'[t], s, n)
    <3>1. CASE n \in 1 .. Len(l.parts)
      BY <2>6, <2>9, <2>10, <3>1 DEF PartIsLater
    <3>2. CASE n = Len(l.parts) + 1
      BY <2>5, <2>9, <2>10, <3>2 DEF PartIsLater
    <3>3. Len(l.parts) \in 0 .. 2 /\ Len(now) = Len(l.parts) + 1
      BY <2>6, <2>9
    <3>4. n \in 1 .. Len(l.parts) \/ n = Len(l.parts) + 1
      BY <3>3
    <3> QED
      BY <3>1, <3>2, <3>4
  <2> DEFINE answers == Len(l.parts)
             next == Len(now)
             at == load'[t].at
  <2>12. answers \in 0 .. 2 /\ next = answers + 1
    BY <2>6, <2>9
  <2>13. at \in {"parts", "apply"} /\ (at = "apply" <=> answers = 2)
    BY <2>10
  <2> HIDE DEF answers, next, at
  <2>14. (at = "apply" => next = 3) /\ (at = "parts" => next \in 0 .. 2)
    BY <2>12, <2>13
  <2>15. (load'[t].at = "apply" => Len(now) = 3) /\ (load'[t].at = "parts" => Len(now) \in 0 .. 2)
    BY <2>14 DEF next, at
  <2> QED
    BY <2>3, <2>4, <2>7, <2>9, <2>10, <2>11, <2>15 DEF LoadInOrder, Answers
<1> QED
  BY <1>1, <1>2, <1>3 DEF Reads

\* A restart leaves empty slots and no load.
LEMMA RestartKeepsInv ==
    ASSUME SyncInv, Restart, upsets' \in 0 .. MaxUpsets
    PROVE  SyncInv'
<1>1. /\ mode' = "boot" /\ slot' = [s \in Scopes |-> EmptySlot] /\ load' = [t \in Tasks |-> NoLoad]
      /\ position' \in 0 .. Len(topic')
      /\ policy' = policy /\ outbox' = outbox /\ topic' = topic
  BY DEF SyncInv, SyncTypeOK, Restart
<1>2. SyncTypeOK'
  BY <1>1 DEF SyncInv, SyncTypeOK, EmptySlot
<1>3. ContentMatchesVersion'
  BY <1>1 DEF ContentMatchesVersion, Loaded, EmptySlot
<1>4. ASSUME NEW t \in Tasks PROVE LoadInOrder(t)'
  BY <1>1, EndedInOrder DEF NoLoad, Looking
<1> QED
  BY <1>1, <1>2, <1>3, <1>4 DEF SyncInv

-----------------------------------------------------------------------------
(* The database and the topic.                                              *)

LEMMA ReplacePolicyKeepsInv ==
    ASSUME SyncInv, NEW s \in Scopes, ReplacePolicy(s)
    PROVE  SyncInv' /\ slot' = slot
<1>1. PICK on \in BOOLEAN : policy' = [policy EXCEPT ![s] = [version |-> policy[s].version + 1, enabled |-> on]]
  BY DEF ReplacePolicy
<1>2. /\ policy[s].version < MaxVersion
      /\ outbox' = outbox \cup {[scope |-> s, version |-> policy[s].version + 1]}
      /\ UNCHANGED <<topic, slot, mode, load, position, upsets>>
  BY DEF ReplacePolicy
<1>3. policy \in [Scopes -> PolicyRow] /\ policy[s].version + 1 \in Versions
  BY <1>2 DEF SyncInv, SyncTypeOK, PolicyRow
<1>4. SyncTypeOK'
  <2>1. policy' \in [Scopes -> PolicyRow]
    BY <1>1, <1>3 DEF PolicyRow
  <2>2. outbox' \subseteq Invalidations
    BY <1>2, <1>3 DEF SyncInv, SyncTypeOK, Invalidations
  <2> QED
    BY <1>2, <2>1, <2>2 DEF SyncInv, SyncTypeOK, PolicyRow
<1>5. \A o \in Scopes : policy'[o].version \in Nat /\ policy[o].version <= policy'[o].version
  BY <1>1, <1>3 DEF PolicyRow
<1>6. ASSUME NEW t \in Tasks PROVE LoadInOrder(t)'
  <2>1. Len(topic) <= Len(topic')
    BY <1>2 DEF SyncInv, SyncTypeOK
  <2> QED
    BY <1>2, <1>5, <2>1, RestsInOrder
<1>7. ContentMatchesVersion'
  BY <1>2 DEF SyncInv, ContentMatchesVersion, Loaded
<1> QED
  BY <1>2, <1>4, <1>6, <1>7 DEF SyncInv

LEMMA VersionsStay ==
    ASSUME SyncInv, policy' = policy
    PROVE  \A s \in Scopes : policy'[s].version \in Nat /\ policy[s].version <= policy'[s].version
  BY DEF SyncInv, SyncTypeOK

LEMMA PublishKeepsInv ==
    ASSUME SyncInv, Publish
    PROVE  SyncInv' /\ slot' = slot
<1>1. PICK e \in outbox : topic' = topic \o <<e>> /\ outbox' = outbox \ {e}
  BY DEF Publish
<1>2. UNCHANGED <<policy, slot, mode, load, position, upsets>>
  BY DEF Publish
<1>3. topic \in Seq(Invalidations) /\ e \in Invalidations
  BY <1>1 DEF SyncInv, SyncTypeOK
<1>4. topic' \in Seq(Invalidations) /\ Len(topic) <= Len(topic')
  BY <1>1, <1>3
<1>5. SyncTypeOK'
  BY <1>1, <1>2, <1>4 DEF SyncInv, SyncTypeOK
<1>6. ASSUME NEW t \in Tasks PROVE LoadInOrder(t)'
  BY <1>2, <1>4, VersionsStay, RestsInOrder
<1>7. ContentMatchesVersion'
  BY <1>2 DEF SyncInv, ContentMatchesVersion, Loaded
<1> QED
  BY <1>2, <1>5, <1>6, <1>7 DEF SyncInv

-----------------------------------------------------------------------------
(* The tasks.                                                               *)

\* A step of one task that leaves the database and the topic alone.
LEMMA TaskKeepsInv ==
    ASSUME SyncInv, NEW t \in Tasks, LoadInOrder(t)',
           UNCHANGED <<policy, outbox, topic>>, DOMAIN load' = Tasks,
           \A u \in Tasks \ {t} : load'[u] = load[u],
           t = "sweep" => position' = position,
           mode' \in {"boot", "up"}, position' \in 0 .. Len(topic'), upsets' = upsets,
           slot' = [s \in Scopes |-> slot'[s]], \A s \in Scopes : Moved(s, slot'[s])
    PROVE  SyncInv'
<1>1. /\ slot' \in [Scopes -> [last : Nat, shows : Contents \cup {NoSnapshot}]]
      /\ ContentMatchesVersion'
  BY MovedSlotsMatch
<1>2. SyncTypeOK'
  BY <1>1 DEF SyncInv, SyncTypeOK
<1>3. ASSUME NEW u \in Tasks \ {t} PROVE LoadInOrder(u)'
  <2>1. u = "event" => t = "sweep"
    BY DEF Tasks
  <2>2. Len(topic) <= Len(topic')
    BY DEF SyncInv, SyncTypeOK
  <2> QED
    BY <2>1, <2>2, VersionsStay, RestsInOrder
<1> QED
  BY <1>1, <1>2, <1>3 DEF SyncInv

\* What a step of a living replica may do to its slots.
SlotsMove == mode = "up" /\ mode' = "up" => \A s \in Scopes : Moved(s, slot'[s])

LEMMA SlotsRest ==
    ASSUME SyncInv, slot' = slot
    PROVE  slot' = [s \in Scopes |-> slot'[s]] /\ \A s \in Scopes : Moved(s, slot'[s])
  BY DEF SyncInv, SyncTypeOK, Moved

LEMMA OneSlotMoves ==
    ASSUME SyncInv, NEW s \in Scopes, NEW new, Moved(s, new), slot' = [slot EXCEPT ![s] = new]
    PROVE  slot' = [o \in Scopes |-> slot'[o]] /\ \A o \in Scopes : Moved(o, slot'[o])
<1>1. slot \in [Scopes -> [last : Nat, shows : Contents \cup {NoSnapshot}]]
  BY DEF SyncInv, SyncTypeOK
<1>2. slot' = [o \in Scopes |-> IF o = s THEN new ELSE slot[o]]
  BY <1>1
<1>3. \A o \in Scopes \ {s} : Moved(o, slot[o])
  BY DEF Moved
<1> QED
  BY <1>2, <1>3

LEMMA LoadingKeepsInv ==
    ASSUME SyncInv, NEW t \in Tasks, Reads(t)
    PROVE  SyncInv' /\ SlotsMove
<1>1. LoadInOrder(t)'
  BY ReadsInOrder
<1>2. UNCHANGED <<policy, outbox, topic, slot, mode, position, upsets>>
  BY DEF Reads, ReadPolicies, ReadRules, ReadPart
<1>3. DOMAIN load' = Tasks /\ \A u \in Tasks \ {t} : load'[u] = load[u]
  BY DEF Reads, ReadPolicies, ReadRules, ReadPart, SyncInv
<1>4. slot' = [s \in Scopes |-> slot'[s]] /\ \A s \in Scopes : Moved(s, slot'[s])
  BY <1>2, SlotsRest
<1>5. mode' \in {"boot", "up"} /\ position' \in 0 .. Len(topic')
  BY <1>2 DEF SyncInv, SyncTypeOK
<1> QED
  BY <1>1, <1>2, <1>3, <1>4, <1>5, TaskKeepsInv DEF SlotsMove

\* The event whose load is under way is on the topic.
LEMMA EventIsThere ==
    ASSUME SyncInv, load["event"].at # "idle"
    PROVE  NextEvent \in Invalidations /\ position < Len(topic)
<1>1. position < Len(topic) /\ position \in Nat /\ topic \in Seq(Invalidations)
  BY DEF SyncInv, SyncTypeOK, LoadInOrder, Tasks
<1> QED
  BY <1>1 DEF NextEvent

LEMMA ApplyEventKeepsInv ==
    ASSUME SyncInv, ApplyEvent
    PROVE  SyncInv' /\ SlotsMove
<1> DEFINE s == NextEvent.scope
           new == IF s \in DOMAIN load["event"].rows THEN Publishes("event", s) ELSE Remove(s, Expected)
<1>1. /\ load["event"].at = "apply" /\ Compiles("event")
      /\ slot' = [slot EXCEPT ![s] = new]
      /\ load' = [load EXCEPT !["event"] = Looking("commit", <<>>, {})]
      /\ UNCHANGED <<policy, outbox, topic, mode, position, upsets>>
  BY DEF ApplyEvent
<1>2. "event" \in Tasks /\ DOMAIN load = Tasks
  BY DEF SyncInv, Tasks
<1>3. s \in Scopes /\ Expected \in Nat /\ position < Len(topic)
  BY <1>1, EventIsThere DEF Invalidations, Expected
<1>4. Moved(s, new)
  <2>1. CASE s \in DOMAIN load["event"].rows
    BY <1>1, <1>2, <2>1, PublishesMoves
  <2>2. CASE s \notin DOMAIN load["event"].rows
    BY <1>3, <2>2, RemoveMoves
  <2> QED
    BY <2>1, <2>2
<1> HIDE DEF s, new
<1>5. slot' = [o \in Scopes |-> slot'[o]] /\ \A o \in Scopes : Moved(o, slot'[o])
  BY <1>1, <1>3, <1>4, OneSlotMoves
<1>6. /\ load'["event"] = Looking("commit", <<>>, {})
      /\ DOMAIN load' = Tasks /\ \A u \in Tasks \ {"event"} : load'[u] = load[u]
  BY <1>1, <1>2
<1>7. LoadInOrder("event")'
  BY <1>1, <1>2, <1>3, <1>6, EndedInOrder DEF Looking
<1>8. mode' \in {"boot", "up"} /\ position' \in 0 .. Len(topic')
  BY <1>1 DEF SyncInv, SyncTypeOK
<1> QED
  BY <1>1, <1>2, <1>5, <1>6, <1>7, <1>8, TaskKeepsInv DEF SlotsMove

LEMMA CommitEventKeepsInv ==
    ASSUME SyncInv, CommitEvent
    PROVE  SyncInv' /\ SlotsMove
<1>1. /\ position' = position + 1 /\ load["event"].at = "commit"
      /\ load' = [load EXCEPT !["event"] = NoLoad]
      /\ UNCHANGED <<policy, outbox, topic, slot, mode, upsets>>
  BY DEF CommitEvent
<1>2. "event" \in Tasks /\ DOMAIN load = Tasks
  BY DEF SyncInv, Tasks
<1>3. /\ load'["event"] = NoLoad
      /\ DOMAIN load' = Tasks /\ \A u \in Tasks \ {"event"} : load'[u] = load[u]
  BY <1>1, <1>2
<1>4. LoadInOrder("event")'
  BY <1>2, <1>3, EndedInOrder DEF NoLoad, Looking
<1>5. slot' = [s \in Scopes |-> slot'[s]] /\ \A s \in Scopes : Moved(s, slot'[s])
  BY <1>1, SlotsRest
<1>6. mode' \in {"boot", "up"} /\ position' \in 0 .. Len(topic')
  <2>1. position < Len(topic) /\ position \in 0 .. Len(topic) /\ mode \in {"boot", "up"}
    BY <1>1, EventIsThere DEF SyncInv, SyncTypeOK
  <2>2. position' = position + 1 /\ topic' = topic /\ mode' = mode
    BY <1>1
  <2> QED
    BY <2>1, <2>2
<1> QED
  BY <1>1, <1>2, <1>3, <1>4, <1>5, <1>6, TaskKeepsInv DEF SlotsMove

\* No event is being loaded, and none that was consumed is lost.
LEMMA MissEventKeepsInv ==
    ASSUME SyncInv, MissEvent
    PROVE  SyncInv' /\ SlotsMove
<1>1. /\ load["event"].at = "idle" /\ position < Len(topic)
      /\ topic' = SubSeq(topic, 1, position) \o SubSeq(topic, position + 2, Len(topic))
      /\ upsets < MaxUpsets /\ upsets' = upsets + 1
      /\ UNCHANGED <<policy, outbox, slot, mode, load, position>>
  BY DEF MissEvent, MayStart
<1>2. topic \in Seq(Invalidations) /\ position \in 0 .. Len(topic)
  BY DEF SyncInv, SyncTypeOK
<1>3. topic' \in Seq(Invalidations) /\ position \in 0 .. Len(topic')
  <2> DEFINE kept == SubSeq(topic, 1, position)
             rest == SubSeq(topic, position + 2, Len(topic))
  <2>1. Len(topic) \in Nat /\ position \in Nat
    BY <1>2
  <2>2. kept \in Seq(Invalidations) /\ Len(kept) = position
    BY <1>1, <1>2, <2>1
  <2>3. rest \in Seq(Invalidations)
    BY <1>1, <1>2, <2>1
  <2> HIDE DEF kept, rest
  <2>4. kept \o rest \in Seq(Invalidations) /\ Len(kept \o rest) = Len(kept) + Len(rest) /\ Len(rest) \in Nat
    BY <2>2, <2>3
  <2>5. topic' = kept \o rest
    BY <1>1 DEF kept, rest
  <2> QED
    BY <2>1, <2>2, <2>4, <2>5
<1>4. SyncTypeOK'
  <2>1. UNCHANGED <<policy, outbox, slot, mode, position>> /\ upsets < MaxUpsets /\ upsets' = upsets + 1
    BY <1>1
  <2> QED
    BY <1>3, <2>1 DEF SyncInv, SyncTypeOK
<1>5. ASSUME NEW t \in Tasks PROVE LoadInOrder(t)'
  <2>1. t = "event" => load[t].at = "idle"
    BY <1>1
  <2>2. load'[t] = load[t]
    BY <1>1
  <2>3. \A s \in Scopes : policy'[s].version \in Nat /\ policy[s].version <= policy'[s].version
    BY <1>1, VersionsStay
  <2> QED
    BY <2>1, <2>2, <2>3, RestsInOrder
<1>6. ContentMatchesVersion'
  BY <1>1 DEF SyncInv, ContentMatchesVersion, Loaded
<1>7. SlotsMove
  BY <1>1, SlotsRest DEF SlotsMove
<1> QED
  BY <1>1, <1>4, <1>5, <1>6, <1>7 DEF SyncInv

-----------------------------------------------------------------------------
(* Bootstrap and reconciliation.                                            *)

\* A step of the sweep that leaves its load as EXCEPT says.
LEMMA SweepKeepsInv ==
    ASSUME SyncInv, NEW l, load' = [load EXCEPT !["sweep"] = l], LoadInOrder("sweep")',
           UNCHANGED <<policy, outbox, topic, position, upsets>>, mode' \in {"boot", "up"},
           slot' = [s \in Scopes |-> slot'[s]], \A s \in Scopes : Moved(s, slot'[s])
    PROVE  SyncInv' /\ SlotsMove
<1>1. "sweep" \in Tasks /\ DOMAIN load = Tasks
  BY DEF SyncInv, Tasks
<1>2. DOMAIN load' = Tasks /\ \A u \in Tasks \ {"sweep"} : load'[u] = load[u]
  BY <1>1
<1>3. position' \in 0 .. Len(topic')
  BY DEF SyncInv, SyncTypeOK
<1> QED
  BY <1>1, <1>2, <1>3, TaskKeepsInv DEF SlotsMove

LEMMA SweepEnds ==
    ASSUME SyncInv, load' = [load EXCEPT !["sweep"] = NoLoad]
    PROVE  LoadInOrder("sweep")'
<1>1. "sweep" \in Tasks /\ DOMAIN load = Tasks
  BY DEF SyncInv, Tasks
<1>2. load'["sweep"] = NoLoad
  BY <1>1
<1> QED
  BY <1>1, <1>2, EndedInOrder DEF NoLoad, Looking

\* The sweep goes on with fewer scopes to publish.
LEMMA SweepGoesOnInOrder ==
    ASSUME SyncInv, NEW todo \in SUBSET Scopes, load["sweep"].at = "apply",
           load' = [load EXCEPT !["sweep"].todo = todo], UNCHANGED policy, todo \subseteq load["sweep"].todo
    PROVE  LoadInOrder("sweep")'
<1>1. "sweep" \in Tasks /\ DOMAIN load = Tasks /\ LoadInOrder("sweep")
  BY DEF SyncInv, Tasks
<1>2. load'["sweep"] = [load["sweep"] EXCEPT !.todo = todo]
  BY <1>1
<1>3. PICK l : l = [load["sweep"] EXCEPT !.todo = todo]
  OBVIOUS
<1>4. /\ l.at = load["sweep"].at /\ l.rows = load["sweep"].rows /\ l.rules = load["sweep"].rules
      /\ l.parts = load["sweep"].parts
  BY <1>3
<1>5. l.todo = todo
  BY <1>1, <1>3 DEF LoadInOrder
<1> QED
  BY <1>1, <1>2, <1>3, <1>4, <1>5 DEF LoadInOrder, PartIsLater

\* The sweep has only scopes left that it did not find.
LEMMA SweepLooksOn ==
    ASSUME SyncInv, NEW at \in {"absent", "remove"}, NEW rows, NEW todo \in SUBSET Scopes,
           load' = [load EXCEPT !["sweep"] = Looking(at, rows, todo)],
           at = "remove" => \A s \in DOMAIN rows : rows[s].version \in Nat /\ ~rows[s].enabled
    PROVE  LoadInOrder("sweep")'
<1>1. "sweep" \in Tasks /\ DOMAIN load = Tasks
  BY DEF SyncInv, Tasks
<1>2. load'["sweep"] = [at |-> at, rows |-> rows, rules |-> <<>>, parts |-> <<>>, todo |-> todo]
  BY <1>1 DEF Looking
<1> QED
  BY <1>2 DEF LoadInOrder

LEMMA SweepFailsKeepsInv ==
    ASSUME SyncInv, SweepFails
    PROVE  SyncInv' /\ SlotsMove
<1>1. CASE mode = "boot" /\ Restart
  <2>1. upsets' \in 0 .. MaxUpsets
    BY DEF SweepFails, SyncInv, SyncTypeOK
  <2> QED
    BY <1>1, <2>1, RestartKeepsInv DEF SlotsMove
<1>2. CASE /\ mode = "up" /\ load' = [load EXCEPT !["sweep"] = NoLoad]
           /\ UNCHANGED <<policy, outbox, topic, slot, mode, position>>
  <2>1. UNCHANGED <<policy, outbox, topic, position, upsets>> /\ slot' = slot /\ mode' \in {"boot", "up"}
    BY <1>2 DEF SweepFails
  <2>2. slot' = [s \in Scopes |-> slot'[s]] /\ \A s \in Scopes : Moved(s, slot'[s])
    BY <2>1, SlotsRest
  <2> QED
    BY <1>2, <2>1, <2>2, SweepEnds, SweepKeepsInv
<1> QED
  BY <1>1, <1>2 DEF SweepFails

LEMMA SweepScopeKeepsInv ==
    ASSUME SyncInv, NEW s \in Scopes, SweepScope(s)
    PROVE  SyncInv' /\ SlotsMove
<1> DEFINE rest == load["sweep"].todo \ {s}
           l == [load["sweep"] EXCEPT !.todo = rest]
<1>1. /\ load["sweep"].at = "apply" /\ Compiles("sweep") /\ s \in load["sweep"].todo
      /\ slot' = [slot EXCEPT ![s] = Publishes("sweep", s)]
      /\ load' = [load EXCEPT !["sweep"].todo = rest]
      /\ UNCHANGED <<policy, outbox, topic, mode, position, upsets>>
  BY DEF SweepScope
<1>2. LoadInOrder("sweep") /\ "sweep" \in Tasks
  BY DEF SyncInv, Tasks
<1>3. s \in DOMAIN load["sweep"].rows /\ rest \in SUBSET Scopes /\ rest \subseteq load["sweep"].todo
  BY <1>1, <1>2 DEF LoadInOrder
<1>4. Moved(s, Publishes("sweep", s))
  BY <1>1, <1>2, <1>3, PublishesMoves
<1>5. slot' = [o \in Scopes |-> slot'[o]] /\ \A o \in Scopes : Moved(o, slot'[o])
  BY <1>1, <1>4, OneSlotMoves
<1>6. load' = [load EXCEPT !["sweep"] = l]
  BY <1>1
<1> HIDE DEF rest, l
<1>7. LoadInOrder("sweep")'
  BY <1>1, <1>3, SweepGoesOnInOrder
<1>8. mode' \in {"boot", "up"}
  BY <1>1 DEF SyncInv, SyncTypeOK
<1> QED
  BY <1>1, <1>5, <1>6, <1>7, <1>8, SweepKeepsInv

LEMMA SweepPublishedKeepsInv ==
    ASSUME SyncInv, SweepPublished
    PROVE  SyncInv' /\ SlotsMove
<1>1. mode' = "up" /\ UNCHANGED <<policy, outbox, topic, slot, position, upsets>>
  BY DEF SweepPublished
<1>2. slot' = [s \in Scopes |-> slot'[s]] /\ \A s \in Scopes : Moved(s, slot'[s])
  BY <1>1, SlotsRest
<1>3. CASE load' = [load EXCEPT !["sweep"] = Looking("absent", <<>>, Absent)]
  <2>1. Absent \in SUBSET Scopes
    BY DEF Absent
  <2>2. LoadInOrder("sweep")'
    BY <1>3, <2>1, SweepLooksOn
  <2> QED
    BY <1>1, <1>2, <1>3, <2>2, SweepKeepsInv
<1>4. CASE load' = [load EXCEPT !["sweep"] = NoLoad]
  BY <1>1, <1>2, <1>4, SweepEnds, SweepKeepsInv
<1> QED
  BY <1>3, <1>4 DEF SweepPublished

LEMMA SweepLooksKeepsInv ==
    ASSUME SyncInv, NEW s \in Scopes, SweepLooks(s)
    PROVE  SyncInv' /\ SlotsMove
<1> DEFINE gone == [version |-> IF Loaded(s) THEN slot[s].last + 1 ELSE 1, enabled |-> FALSE]
           rows == [o \in {s} |-> gone]
           rest == load["sweep"].todo \ {s}
<1>1. /\ load' = [load EXCEPT !["sweep"] = Looking("remove", rows, rest)]
      /\ UNCHANGED <<policy, outbox, topic, slot, mode, position, upsets>>
  BY DEF SweepLooks
<1>2. \A o \in DOMAIN rows : rows[o].version \in Nat /\ ~rows[o].enabled
  BY DEF SyncInv, SyncTypeOK
<1>3. rest \in SUBSET Scopes
  BY DEF SyncInv, LoadInOrder, Tasks
<1>4. slot' = [o \in Scopes |-> slot'[o]] /\ \A o \in Scopes : Moved(o, slot'[o])
  BY <1>1, SlotsRest
<1>5. mode' \in {"boot", "up"}
  BY <1>1 DEF SyncInv, SyncTypeOK
<1> HIDE DEF rows, rest
<1>6. LoadInOrder("sweep")'
  BY <1>1, <1>2, <1>3, SweepLooksOn
<1> QED
  BY <1>1, <1>4, <1>5, <1>6, SweepKeepsInv

LEMMA SweepAbsentKeepsInv ==
    ASSUME SyncInv, NEW s \in Scopes, SweepAbsent(s)
    PROVE  SyncInv' /\ SlotsMove
<1> DEFINE gone == load["sweep"].rows[s]
           l == IF load["sweep"].todo = {} THEN NoLoad ELSE Looking("absent", <<>>, load["sweep"].todo)
<1>1. /\ load["sweep"].at = "remove" /\ s \in DOMAIN load["sweep"].rows
      /\ slot' = [slot EXCEPT ![s] = Publishes("sweep", s)]
      /\ load' = [load EXCEPT !["sweep"] = l]
      /\ UNCHANGED <<policy, outbox, topic, mode, position, upsets>>
  BY DEF SweepAbsent
<1>2. gone.version \in Nat /\ ~gone.enabled /\ load["sweep"].todo \in SUBSET Scopes
  BY <1>1 DEF SyncInv, LoadInOrder, Tasks
<1>3. Moved(s, Publishes("sweep", s))
  BY <1>2, RemoveMoves DEF Publishes
<1>4. slot' = [o \in Scopes |-> slot'[o]] /\ \A o \in Scopes : Moved(o, slot'[o])
  BY <1>1, <1>3, OneSlotMoves
<1>5. mode' \in {"boot", "up"}
  BY <1>1 DEF SyncInv, SyncTypeOK
<1>6. LoadInOrder("sweep")'
  <2>1. CASE load["sweep"].todo = {}
    BY <1>1, <2>1, SweepEnds
  <2>2. CASE load["sweep"].todo # {}
    BY <1>1, <1>2, <2>2, SweepLooksOn
  <2> QED
    BY <2>1, <2>2
<1> HIDE DEF gone, l
<1> QED
  BY <1>1, <1>4, <1>5, <1>6, SweepKeepsInv

-----------------------------------------------------------------------------
(* Theorems.                                                                *)

LEMMA SyncInitInv == SyncInit => SyncInv
<1> SUFFICES ASSUME SyncInit PROVE SyncInv
  OBVIOUS
<1>1. SyncTypeOK
  <2>1. policy \in [Scopes -> [version : Versions, enabled : BOOLEAN]]
    <3>1. {[version |-> 0, enabled |-> FALSE], [version |-> 1, enabled |-> TRUE],
           [version |-> 1, enabled |-> FALSE]} \subseteq [version : Versions, enabled : BOOLEAN]
      OBVIOUS
    <3> QED
      BY <3>1 DEF SyncInit
  <2>2. topic \in Seq(Invalidations) /\ outbox \subseteq Invalidations
    BY DEF SyncInit
  <2>3. slot \in [Scopes -> [last : Nat, shows : Contents \cup {NoSnapshot}]]
    BY DEF SyncInit, EmptySlot
  <2>4. mode \in {"boot", "up"} /\ position \in 0 .. Len(topic) /\ upsets \in 0 .. MaxUpsets
    BY DEF SyncInit
  <2> QED
    BY <2>1, <2>2, <2>3, <2>4 DEF SyncTypeOK
<1>2. ContentMatchesVersion
  BY DEF SyncInit, ContentMatchesVersion, Loaded, EmptySlot
<1>3. ASSUME NEW t \in Tasks PROVE LoadInOrder(t)
  BY DEF SyncInit, LoadInOrder, NoLoad, Looking
<1> QED
  BY <1>1, <1>2, <1>3 DEF SyncInit, SyncInv

LEMMA SyncNextInv == SyncInv /\ [SyncNext]_syncVars => SyncInv' /\ SlotsMove
<1> SUFFICES ASSUME SyncInv, [SyncNext]_syncVars PROVE SyncInv' /\ SlotsMove
  OBVIOUS
<1>1. ASSUME NEW s \in Scopes, ReplacePolicy(s) PROVE SyncInv' /\ SlotsMove
  BY <1>1, ReplacePolicyKeepsInv, SlotsRest DEF SlotsMove
<1>2. CASE Publish
  BY <1>2, PublishKeepsInv, SlotsRest DEF SlotsMove
<1>3. CASE Loading
  BY <1>3, LoadingKeepsInv DEF Loading
<1>4. CASE Sweeping
  BY <1>4, SweepFailsKeepsInv, SweepPublishedKeepsInv, SweepScopeKeepsInv, SweepLooksKeepsInv,
     SweepAbsentKeepsInv DEF Sweeping
<1>5. CASE Consuming
  <2>1. CASE EventFails
    <3>1. Restart /\ upsets' \in 0 .. MaxUpsets
      BY <2>1 DEF EventFails, SyncInv, SyncTypeOK
    <3> QED
      BY <3>1, RestartKeepsInv DEF SlotsMove, Restart
  <2> QED
    BY <1>5, <2>1, ApplyEventKeepsInv, CommitEventKeepsInv DEF Consuming
<1>6. CASE MissEvent
  BY <1>6, MissEventKeepsInv
<1>7. CASE CrashReplica
  <2>1. Restart /\ upsets' \in 0 .. MaxUpsets
    BY <1>7 DEF CrashReplica, SyncInv, SyncTypeOK
  <2> QED
    BY <2>1, RestartKeepsInv DEF SlotsMove, Restart
<1>8. CASE UNCHANGED syncVars
  <2>1. SyncInv'
    BY <1>8 DEF syncVars, SyncInv, SyncTypeOK, ContentMatchesVersion, Loaded, LoadInOrder
  <2> QED
    BY <1>8, <2>1, SlotsRest DEF syncVars, SlotsMove
<1> QED
  BY <1>1, <1>2, <1>3, <1>4, <1>5, <1>6, <1>7, <1>8 DEF SyncNext

\* The inductive invariant: types, content no older than its version, and loads
\* whose rows, rules and parts were read in this order.
THEOREM SyncInvariant == SyncSpec => []SyncInv
  BY SyncInitInv, SyncNextInv, PTL DEF SyncSpec

\* Type correctness of the database, the topic, the replica's slots and tasks.
THEOREM SyncTypes == SyncSpec => []SyncTypeOK
<1>1. SyncInv => SyncTypeOK
  BY DEF SyncInv
<1> QED
  BY <1>1, SyncInvariant, PTL

\* What a replica shows under a version is of that version or a later one,
\* whatever was replaced between the statements of its loads.
THEOREM ContentIsOfItsVersion == SyncSpec => []ContentMatchesVersion
<1>1. SyncInv => ContentMatchesVersion
  BY DEF SyncInv
<1> QED
  BY <1>1, SyncInvariant, PTL

-----------------------------------------------------------------------------
(* What was consumed stays shown.                                           *)

\* No event is ahead of its policy; the load at boot covers every event that
\* will not be read again; and an event is applied before its offset moves.
EventsBehind ==
    /\ \A e \in outbox : e.version <= policy[e.scope].version
    /\ \A i \in 1 .. Len(topic) : topic[i].version <= policy[topic[i].scope].version

BootCovers ==
    LET l == load["sweep"] IN
    /\ l.at \in {"idle", "rules", "parts", "apply"}
    /\ l.at \in {"rules", "parts"} => l.todo = DOMAIN l.rows
    /\ l.at # "idle" => \A i \in 1 .. position :
          topic[i].version > 0 => /\ topic[i].scope \in DOMAIN l.rows
                                  /\ topic[i].version <= l.rows[topic[i].scope].version
    /\ l.at = "apply" => \A s \in DOMAIN l.rows \ l.todo : l.rows[s].version <= slot[s].last

Applied == load["event"].at = "commit" => Expected <= slot[NextEvent.scope].last

FollowInv ==
    /\ SyncInv /\ EventsBehind /\ ConsumedIsShown /\ Applied
    /\ mode = "boot" => load["event"].at = "idle" /\ BootCovers

\* What is published of a scope, and what was there, is no newer than its slot.
LEMMA PublishesCatchesUp ==
    ASSUME NEW t \in Tasks, NEW s \in Scopes,
           load[t].rows[s].version \in Nat, slot[s].last \in Nat
    PROVE  LET new == Publishes(t, s) IN load[t].rows[s].version <= new.last /\ slot[s].last <= new.last
  BY DEF Publishes, Replace, Remove, Stored

\* Events that are not touched, and versions that only grow.
LEMMA StillBehind ==
    ASSUME FollowInv, UNCHANGED <<policy, outbox, topic>>
    PROVE  EventsBehind'
  BY DEF FollowInv, EventsBehind

LEMMA SlotsGrow ==
    ASSUME SyncInv, NEW s \in Scopes, Moved(s, slot'[s])
    PROVE  slot[s].last <= slot'[s].last
<1>1. slot[s].last \in Nat
  BY DEF SyncInv, SyncTypeOK
<1>2. CASE \E v \in Versions, c \in Contents :
             slot'[s] = [last |-> v, shows |-> c] /\ v > slot[s].last /\ v <= c.rules
               /\ \A n \in Answers : c.rules <= c.parts[n]
  BY <1>1, <1>2
<1>3. CASE \E v \in Nat : slot'[s] = [last |-> v, shows |-> NoSnapshot] /\ v >= slot[s].last
  BY <1>1, <1>3
<1>4. CASE slot'[s] = slot[s]
  BY <1>1, <1>4
<1> QED
  BY <1>2, <1>3, <1>4, Zenon DEF Moved

\* Events are typed.
LEMMA EventTypes ==
    ASSUME SyncInv
    PROVE  /\ \A i \in 1 .. Len(topic) : topic[i] \in Invalidations
           /\ position \in Nat /\ Len(topic) \in Nat /\ position <= Len(topic)
           /\ \A s \in Scopes : slot[s].last \in Nat /\ policy[s].version \in Nat
<1>1. topic \in Seq(Invalidations) /\ position \in 0 .. Len(topic)
  BY DEF SyncInv, SyncTypeOK
<1>2. \A s \in Scopes : slot[s].last \in Nat /\ policy[s].version \in Nat
  BY DEF SyncInv, SyncTypeOK
<1> QED
  BY <1>1, <1>2

\* A step of a living replica that consumes no event.
LEMMA LivingKeepsFollow ==
    ASSUME FollowInv, SyncInv', SlotsMove, mode = "up", mode' = "up",
           UNCHANGED <<policy, outbox, topic, position>>,
           load'["event"].at = "commit" => load["event"].at = "commit"
    PROVE  FollowInv'
<1>1. SyncInv /\ \A s \in Scopes : slot[s].last <= slot'[s].last
  BY SlotsGrow DEF FollowInv, SlotsMove
<1>2. \A s \in Scopes : slot[s].last \in Nat /\ slot'[s].last \in Nat
  BY <1>1 DEF SyncInv, SyncTypeOK
<1>3. ConsumedIsShown'
  <2> SUFFICES ASSUME NEW i \in 1 .. position PROVE slot'[topic[i].scope].last >= topic[i].version
    BY DEF ConsumedIsShown
  <2>1. topic[i] \in Invalidations
    BY <1>1, EventTypes
  <2>2. slot[topic[i].scope].last >= topic[i].version
    BY DEF FollowInv, ConsumedIsShown
  <2> QED
    BY <1>1, <1>2, <2>1, <2>2 DEF Invalidations
<1>4. Applied'
  <2> SUFFICES ASSUME load'["event"].at = "commit" PROVE NextEvent.version <= slot'[NextEvent.scope].last
    BY DEF Applied, Expected, NextEvent
  <2>1. NextEvent \in Invalidations
    BY <1>1, EventIsThere
  <2>2. NextEvent.version <= slot[NextEvent.scope].last
    BY DEF FollowInv, Applied, Expected
  <2> QED
    BY <1>1, <1>2, <2>1, <2>2 DEF Invalidations
<1>5. EventsBehind'
  BY StillBehind
<1> QED
  BY <1>3, <1>4, <1>5 DEF FollowInv

LEMMA RestartKeepsFollow ==
    ASSUME FollowInv, SyncInv', Restart
    PROVE  FollowInv'
<1>1. /\ mode' = "boot" /\ load' = [t \in Tasks |-> NoLoad]
      /\ UNCHANGED <<policy, outbox, topic>>
  BY DEF Restart
<1>2. load'["event"].at = "idle" /\ load'["sweep"].at = "idle"
  BY <1>1 DEF Tasks, NoLoad, Looking
<1>3. ConsumedIsShown' /\ Applied' /\ BootCovers'
  BY <1>1, <1>2 DEF ConsumedIsShown, Applied, BootCovers
<1> QED
  BY <1>1, <1>2, <1>3, StillBehind DEF FollowInv

-----------------------------------------------------------------------------
(* The database, the topic and the consumer.                                *)

LEMMA ReplacePolicyKeepsFollow ==
    ASSUME FollowInv, SyncInv', NEW s \in Scopes, ReplacePolicy(s)
    PROVE  FollowInv'
<1>1. PICK on \in BOOLEAN : policy' = [policy EXCEPT ![s] = [version |-> policy[s].version + 1, enabled |-> on]]
  BY DEF ReplacePolicy
<1>2. /\ outbox' = outbox \cup {[scope |-> s, version |-> policy[s].version + 1]}
      /\ UNCHANGED <<topic, slot, mode, load, position>>
  BY DEF ReplacePolicy
<1>3. /\ \A o \in Scopes : policy[o].version \in Nat /\ policy[o].version <= policy'[o].version
      /\ policy'[s].version = policy[s].version + 1
  BY <1>1 DEF FollowInv, SyncInv, SyncTypeOK
<1>4. ASSUME NEW e \in Invalidations, e.version <= policy[e.scope].version
      PROVE  e.version <= policy'[e.scope].version
  BY <1>3, <1>4 DEF FollowInv, SyncInv, SyncTypeOK, Invalidations
<1>5. EventsBehind'
  <2>1. ASSUME NEW e \in outbox' PROVE e.version <= policy'[e.scope].version
    <3>1. CASE e \in outbox
      BY <1>4, <3>1 DEF FollowInv, EventsBehind, SyncInv, SyncTypeOK
    <3>2. CASE e = [scope |-> s, version |-> policy[s].version + 1]
      BY <1>3, <3>2
    <3> QED
      BY <1>2, <3>1, <3>2
  <2>2. ASSUME NEW i \in 1 .. Len(topic) PROVE topic[i].version <= policy'[topic[i].scope].version
    <3>1. topic[i] \in Invalidations /\ topic[i].version <= policy[topic[i].scope].version
      BY EventTypes DEF FollowInv, EventsBehind
    <3> QED
      BY <1>4, <3>1
  <2> QED
    BY <1>2, <2>1, <2>2 DEF EventsBehind
<1>6. ConsumedIsShown' /\ Applied' /\ (mode' = "boot" => load'["event"].at = "idle" /\ BootCovers')
  BY <1>2 DEF FollowInv, ConsumedIsShown, Applied, Expected, NextEvent, BootCovers
<1> QED
  BY <1>5, <1>6 DEF FollowInv

\* Records at and before the position keep their places.
LEMMA TopicKeepsFollow ==
    ASSUME FollowInv, SyncInv', UNCHANGED <<policy, slot, mode, load, position>>,
           \A i \in 1 .. position : topic'[i] = topic[i],
           load["event"].at = "commit" => topic'[position + 1] = topic[position + 1],
           EventsBehind'
    PROVE  FollowInv'
<1>1. ConsumedIsShown' /\ (mode' = "boot" => load'["event"].at = "idle" /\ BootCovers')
  BY DEF FollowInv, ConsumedIsShown, BootCovers
<1>2. Applied'
  BY DEF FollowInv, Applied, Expected, NextEvent
<1> QED
  BY <1>1, <1>2 DEF FollowInv

LEMMA PublishKeepsFollow ==
    ASSUME FollowInv, SyncInv', Publish
    PROVE  FollowInv'
<1>1. PICK e \in outbox : topic' = topic \o <<e>> /\ outbox' = outbox \ {e}
  BY DEF Publish
<1>2. UNCHANGED <<policy, slot, mode, load, position>> /\ SyncInv
  BY DEF Publish, FollowInv
<1>3. topic \in Seq(Invalidations) /\ e \in Invalidations /\ position \in 0 .. Len(topic)
  BY <1>2 DEF SyncInv, SyncTypeOK
<1>4. /\ Len(topic') = Len(topic) + 1 /\ topic'[Len(topic) + 1] = e
      /\ \A i \in 1 .. Len(topic) : topic'[i] = topic[i]
  BY <1>1, <1>3
<1>5. EventsBehind'
  <2>1. \A o \in outbox' : o.version <= policy[o.scope].version
    BY <1>1 DEF FollowInv, EventsBehind
  <2>2. ASSUME NEW i \in 1 .. Len(topic') PROVE topic'[i].version <= policy[topic'[i].scope].version
    <3>1. Len(topic) \in Nat
      BY <1>3
    <3>2. CASE i \in 1 .. Len(topic)
      BY <1>4, <3>2 DEF FollowInv, EventsBehind
    <3>3. CASE i = Len(topic) + 1
      BY <1>4, <3>3 DEF FollowInv, EventsBehind
    <3> QED
      BY <1>4, <3>1, <3>2, <3>3
  <2> QED
    BY <1>2, <2>1, <2>2 DEF EventsBehind
<1>6. \A i \in 1 .. position : topic'[i] = topic[i]
  BY <1>3, <1>4
<1>7. load["event"].at = "commit" => topic'[position + 1] = topic[position + 1]
  <2> SUFFICES ASSUME load["event"].at = "commit" PROVE topic'[position + 1] = topic[position + 1]
    OBVIOUS
  <2>1. position < Len(topic)
    BY <1>2, EventIsThere
  <2> QED
    BY <1>3, <1>4, <2>1
<1> QED
  BY <1>2, <1>5, <1>6, <1>7, TopicKeepsFollow

LEMMA MissEventKeepsFollow ==
    ASSUME FollowInv, SyncInv', MissEvent
    PROVE  FollowInv'
<1> DEFINE kept == SubSeq(topic, 1, position)
           rest == SubSeq(topic, position + 2, Len(topic))
<1>1. /\ load["event"].at = "idle" /\ position < Len(topic) /\ topic' = kept \o rest
      /\ UNCHANGED <<policy, outbox, slot, mode, load, position>>
  BY DEF MissEvent, MayStart
<1>2. topic \in Seq(Invalidations) /\ position \in Nat /\ Len(topic) \in Nat
  BY EventTypes DEF FollowInv, SyncInv, SyncTypeOK
<1>3. kept \in Seq(Invalidations) /\ Len(kept) = position /\ \A i \in 1 .. position : kept[i] = topic[i]
  BY <1>1, <1>2
<1>4. /\ rest \in Seq(Invalidations)
      /\ \A i \in 1 .. Len(rest) : i + position + 1 \in 1 .. Len(topic) /\ rest[i] = topic[i + position + 1]
  BY <1>1, <1>2
<1> HIDE DEF kept, rest
<1>5. /\ Len(topic') = Len(kept) + Len(rest) /\ Len(rest) \in Nat
      /\ \A i \in 1 .. Len(topic') :
           topic'[i] = IF i <= Len(kept) THEN kept[i] ELSE rest[i - Len(kept)]
  <2>1. kept \in Seq(Invalidations) /\ rest \in Seq(Invalidations)
    BY <1>3, <1>4
  <2>2. /\ Len(kept \o rest) = Len(kept) + Len(rest) /\ Len(rest) \in Nat
        /\ \A i \in 1 .. Len(kept \o rest) :
             (kept \o rest)[i] = IF i <= Len(kept) THEN kept[i] ELSE rest[i - Len(kept)]
    BY <2>1
  <2> QED
    BY <1>1, <2>2
<1>6. \A i \in 1 .. position : topic'[i] = topic[i]
  BY <1>2, <1>3, <1>5
<1>7. \A i \in 1 .. Len(topic') : \E j \in 1 .. Len(topic) : topic'[i] = topic[j]
  <2> SUFFICES ASSUME NEW i \in 1 .. Len(topic') PROVE \E j \in 1 .. Len(topic) : topic'[i] = topic[j]
    OBVIOUS
  <2>1. CASE i <= position
    <3>1. i \in 1 .. position /\ i \in 1 .. Len(topic)
      BY <1>1, <1>2, <1>5, <2>1
    <3> QED
      BY <1>6, <3>1
  <2>2. CASE i > position
    <3>1. i - position \in 1 .. Len(rest) /\ topic'[i] = rest[i - position]
      BY <1>2, <1>3, <1>5, <2>2
    <3> QED
      BY <1>4, <3>1
  <2> QED
    BY <1>2, <1>5, <2>1, <2>2
<1>8. EventsBehind'
  BY <1>1, <1>7 DEF FollowInv, EventsBehind
<1> QED
  BY <1>1, <1>6, <1>8, TopicKeepsFollow

LEMMA ApplyEventKeepsFollow ==
    ASSUME FollowInv, SyncInv', SlotsMove, ApplyEvent
    PROVE  FollowInv'
<1> DEFINE s == NextEvent.scope
           rows == load["event"].rows
<1>1. /\ load["event"].at = "apply" /\ (s \in DOMAIN rows => rows[s].version >= Expected)
      /\ slot' = [slot EXCEPT ![s] = IF s \in DOMAIN rows THEN Publishes("event", s) ELSE Remove(s, Expected)]
      /\ load' = [load EXCEPT !["event"] = Looking("commit", <<>>, {})]
      /\ UNCHANGED <<policy, outbox, topic, mode, position>>
  BY DEF ApplyEvent
<1>2. SyncInv /\ mode = "up" /\ "event" \in Tasks
  BY <1>1 DEF FollowInv, SyncInv, SyncTypeOK, Tasks
<1>3. s \in Scopes /\ Expected \in Nat
  BY <1>1, <1>2, EventIsThere DEF Invalidations, Expected
<1>4. slot[s].last \in Nat /\ (s \in DOMAIN rows => rows[s].version \in Nat)
  <2>1. LoadInOrder("event")
    BY <1>2 DEF SyncInv
  <2>2. s \in DOMAIN rows => rows[s] \in PolicyRow
    BY <1>1, <2>1 DEF LoadInOrder
  <2> QED
    BY <1>2, <1>3, <2>2, EventTypes DEF PolicyRow
<1>5. Expected <= slot'[s].last
  <2>1. CASE s \in DOMAIN rows
    <3>1. rows[s].version <= Publishes("event", s).last
      BY <1>2, <1>3, <1>4, <2>1, PublishesCatchesUp
    <3>2. slot'[s] = Publishes("event", s)
      BY <1>1, <1>2, <1>3, <2>1 DEF SyncInv, SyncTypeOK
    <3>3. slot'[s].last \in Nat
      BY <1>3 DEF SyncInv, SyncTypeOK
    <3> QED
      BY <1>1, <1>3, <1>4, <2>1, <3>1, <3>2, <3>3
  <2>2. CASE s \notin DOMAIN rows
    <3>1. slot'[s] = Remove(s, Expected)
      BY <1>1, <1>2, <1>3, <2>2 DEF SyncInv, SyncTypeOK
    <3> QED
      BY <1>3, <1>4, <3>1 DEF Remove, Stored
  <2> QED
    BY <2>1, <2>2
<1>6. ConsumedIsShown'
  <2> SUFFICES ASSUME NEW i \in 1 .. position PROVE slot'[topic[i].scope].last >= topic[i].version
    BY <1>1 DEF ConsumedIsShown
  <2>1. topic[i] \in Invalidations
    BY <1>2, EventTypes
  <2>2. slot[topic[i].scope].last >= topic[i].version
    BY <1>2 DEF FollowInv, ConsumedIsShown
  <2>3. slot[topic[i].scope].last <= slot'[topic[i].scope].last
    BY <1>1, <1>2, <2>1, SlotsGrow DEF SlotsMove, Invalidations
  <2>4. slot[topic[i].scope].last \in Nat /\ topic[i].scope \in Scopes /\ topic[i].version \in Nat
    BY <1>2, <2>1, EventTypes DEF Invalidations
  <2>5. slot'[topic[i].scope].last \in Nat
    BY <2>4 DEF SyncInv, SyncTypeOK
  <2> QED
    BY <2>2, <2>3, <2>4, <2>5
<1>7. Applied'
  BY <1>1, <1>5 DEF Applied, Expected, NextEvent
<1> QED
  BY <1>1, <1>2, <1>6, <1>7, StillBehind DEF FollowInv

LEMMA CommitEventKeepsFollow ==
    ASSUME FollowInv, SyncInv', CommitEvent
    PROVE  FollowInv'
<1>1. /\ load["event"].at = "commit" /\ position' = position + 1
      /\ load' = [load EXCEPT !["event"] = NoLoad]
      /\ UNCHANGED <<policy, outbox, topic, slot, mode>>
  BY DEF CommitEvent
<1>2. SyncInv /\ mode = "up" /\ "event" \in Tasks /\ DOMAIN load = Tasks
  BY <1>1 DEF FollowInv, SyncInv, SyncTypeOK, Tasks
<1>3. load'["event"].at = "idle"
  BY <1>1, <1>2 DEF NoLoad, Looking
<1>4. ConsumedIsShown'
  <2> SUFFICES ASSUME NEW i \in 1 .. position + 1 PROVE slot[topic[i].scope].last >= topic[i].version
    BY <1>1 DEF ConsumedIsShown
  <2>1. position \in Nat /\ position < Len(topic) /\ NextEvent \in Invalidations
    BY <1>1, <1>2, EventIsThere, EventTypes
  <2>2. CASE i \in 1 .. position
    BY <1>2, <2>2 DEF FollowInv, ConsumedIsShown
  <2>3. CASE i = position + 1
    <3>1. NextEvent.version <= slot[NextEvent.scope].last /\ topic[i] = NextEvent
      BY <1>1, <2>3 DEF FollowInv, Applied, Expected, NextEvent
    <3>2. NextEvent.version \in Nat /\ slot[NextEvent.scope].last \in Nat
      BY <1>2, <2>1, EventTypes DEF Invalidations
    <3> QED
      BY <3>1, <3>2
  <2> QED
    BY <2>1, <2>2, <2>3
<1>5. Applied'
  BY <1>3 DEF Applied
<1> QED
  BY <1>1, <1>2, <1>4, <1>5, StillBehind DEF FollowInv

-----------------------------------------------------------------------------
(* The loads.                                                               *)

\* The policies are read first, and every event consumed before is of one of
\* them: the load at boot covers it from then on.
LEMMA BootReads ==
    ASSUME FollowInv, Reads("sweep"), mode = "boot"
    PROVE  BootCovers'
<1> DEFINE l == load["sweep"]
<1>1. SyncInv /\ BootCovers /\ "sweep" \in Tasks /\ DOMAIN load = Tasks
  BY DEF FollowInv, SyncInv, Tasks
<1>2. UNCHANGED <<policy, topic, slot, position>>
  BY DEF Reads, ReadPolicies, ReadRules, ReadPart
<1>3. CASE ReadPolicies("sweep")
  <2> DEFINE found == {s \in Scopes : policy[s].version > 0}
  <2>1. load'["sweep"] = [at |-> IF found = {} THEN "apply" ELSE "rules",
                          rows |-> [s \in found |-> policy[s]], rules |-> <<>>, parts |-> <<>>, todo |-> found]
    BY <1>1, <1>3 DEF ReadPolicies, Wanted, Looking
  <2>2. ASSUME NEW i \in 1 .. position, topic[i].version > 0
        PROVE  topic[i].scope \in found /\ topic[i].version <= policy[topic[i].scope].version
    <3>1. /\ topic[i] \in Invalidations /\ topic[i].version <= policy[topic[i].scope].version
          /\ \A s \in Scopes : policy[s].version \in Nat
      BY <1>1, EventTypes DEF FollowInv, EventsBehind
    <3> QED
      BY <2>2, <3>1 DEF Invalidations
  <2> HIDE DEF found
  <2>3. /\ load'["sweep"].at \in {"apply", "rules"} /\ load'["sweep"].rows = [s \in found |-> policy[s]]
        /\ load'["sweep"].todo = found
    BY <2>1
  <2> QED
    BY <1>2, <2>2, <2>3 DEF BootCovers
<1>4. CASE ReadRules("sweep") \/ ReadPart("sweep")
  <2>1. /\ l.at \in {"rules", "parts"} /\ load'["sweep"].at \in {"parts", "apply"}
        /\ load'["sweep"].rows = l.rows /\ load'["sweep"].todo = l.todo
    <3>1. CASE ReadRules("sweep")
      BY <1>1, <3>1 DEF ReadRules
    <3>2. CASE ReadPart("sweep")
      <4>1. PICK kept \in SUBSET Scopes :
              load' = [load EXCEPT !["sweep"] =
                [at    |-> IF Len(l.parts) = 2 THEN "apply" ELSE "parts",
                 rows  |-> l.rows,
                 rules |-> l.rules,
                 parts |-> PartsWith("sweep", kept),
                 todo  |-> l.todo]]
        BY <3>2 DEF ReadPart
      <4> QED
        BY <1>1, <3>2, <4>1 DEF ReadPart
    <3> QED
      BY <1>4, <3>1, <3>2
  <2>2. /\ l.todo = DOMAIN l.rows
        /\ \A i \in 1 .. position :
             topic[i].version > 0 => /\ topic[i].scope \in DOMAIN l.rows
                                     /\ topic[i].version <= l.rows[topic[i].scope].version
    BY <1>1, <2>1 DEF BootCovers
  <2> HIDE DEF l
  <2>3. DOMAIN l.rows \ l.todo = {}
    BY <2>2
  <2> QED
    BY <1>2, <2>1, <2>2, <2>3 DEF BootCovers
<1> QED
  BY <1>3, <1>4 DEF Reads

LEMMA LoadingKeepsFollow ==
    ASSUME FollowInv, SyncInv', SlotsMove, NEW t \in Tasks, Reads(t)
    PROVE  FollowInv'
<1>1. UNCHANGED <<policy, outbox, topic, slot, mode, position>>
  BY DEF Reads, ReadPolicies, ReadRules, ReadPart
<1>2. SyncInv /\ mode \in {"boot", "up"} /\ DOMAIN load = Tasks /\ "event" \in Tasks
  BY DEF FollowInv, SyncInv, SyncTypeOK, Tasks
<1>3. t # "event" => load'["event"] = load["event"]
  BY <1>2 DEF Reads, ReadPolicies, ReadRules, ReadPart
<1>4. CASE mode = "up"
  <2>1. t = "event" => load'["event"].at # "commit"
    BY <1>2 DEF Reads, ReadPolicies, ReadRules, ReadPart, Looking
  <2> QED
    BY <1>1, <1>3, <1>4, <2>1, LivingKeepsFollow
<1>5. CASE mode = "boot"
  <2>1. t = "sweep"
    BY <1>5 DEF FollowInv, Tasks, Reads, ReadPolicies, ReadRules, ReadPart, MayStart
  <2>2. BootCovers' /\ load'["event"].at = "idle"
    BY <1>3, <1>5, <2>1, BootReads DEF FollowInv
  <2>3. ConsumedIsShown' /\ Applied'
    BY <1>1, <1>5, <2>2 DEF ConsumedIsShown, Applied
  <2> QED
    BY <1>1, <2>2, <2>3, StillBehind DEF FollowInv
<1> QED
  BY <1>2, <1>4, <1>5

LEMMA SweepScopeKeepsFollow ==
    ASSUME FollowInv, SyncInv', SlotsMove, NEW s \in Scopes, SweepScope(s)
    PROVE  FollowInv'
<1> DEFINE l == load["sweep"]
<1>1. /\ l.at = "apply" /\ s \in l.todo
      /\ slot' = [slot EXCEPT ![s] = Publishes("sweep", s)]
      /\ load' = [load EXCEPT !["sweep"].todo = l.todo \ {s}]
      /\ UNCHANGED <<policy, outbox, topic, mode, position>>
  BY DEF SweepScope
<1>2. /\ SyncInv /\ mode \in {"boot", "up"} /\ DOMAIN load = Tasks /\ "sweep" \in Tasks /\ LoadInOrder("sweep")
      /\ DOMAIN slot = Scopes
  BY DEF FollowInv, SyncInv, SyncTypeOK, Tasks
<1>3. load'["event"] = load["event"]
  BY <1>1, <1>2
<1>4. CASE mode = "up"
  BY <1>1, <1>3, <1>4, LivingKeepsFollow
<1>5. CASE mode = "boot"
  <2>1. /\ load'["sweep"].at = l.at /\ load'["sweep"].rows = l.rows
        /\ load'["sweep"].todo = l.todo \ {s}
    <3>1. load'["sweep"] = [l EXCEPT !.todo = l.todo \ {s}]
      BY <1>1, <1>2
    <3>2. \A m : m = [l EXCEPT !.todo = l.todo \ {s}] => m.at = l.at /\ m.rows = l.rows
      OBVIOUS
    <3>3. load'["sweep"].todo = l.todo \ {s}
      BY <1>1, <1>2, <3>1 DEF LoadInOrder
    <3> QED
      BY <3>1, <3>2, <3>3
  <2>2. ASSUME NEW o \in DOMAIN l.rows \ (l.todo \ {s}) PROVE l.rows[o].version <= slot'[o].last
    <3>1. CASE o = s
      <4>1. l.rows[s].version \in Nat /\ slot[s].last \in Nat
        BY <1>1, <1>2, <2>2, <3>1 DEF LoadInOrder, PolicyRow, SyncInv, SyncTypeOK
      <4>2. slot'[s] = Publishes("sweep", s)
        BY <1>1, <1>2
      <4> QED
        BY <1>2, <3>1, <4>1, <4>2, PublishesCatchesUp
    <3>2. CASE o # s
      <4>1. slot'[o] = slot[o]
        BY <1>1, <1>2, <3>2 DEF LoadInOrder
      <4> QED
        BY <1>1, <1>5, <2>2, <3>2, <4>1 DEF FollowInv, BootCovers
    <3> QED
      BY <3>1, <3>2
  <2>3. /\ load["event"].at = "idle"
        /\ \A i \in 1 .. position :
             topic[i].version > 0 => /\ topic[i].scope \in DOMAIN l.rows
                                     /\ topic[i].version <= l.rows[topic[i].scope].version
    BY <1>1, <1>5 DEF FollowInv, BootCovers
  <2> HIDE DEF l
  <2>4. BootCovers'
    BY <1>1, <2>1, <2>2, <2>3 DEF BootCovers
  <2>5. ConsumedIsShown' /\ Applied'
    BY <1>1, <1>3, <1>5, <2>3 DEF ConsumedIsShown, Applied
  <2> QED
    BY <1>1, <1>3, <2>3, <2>4, <2>5, StillBehind DEF FollowInv
<1> QED
  BY <1>2, <1>4, <1>5

\* The replica comes up once every policy of its load is in its slot.
LEMMA SweepPublishedKeepsFollow ==
    ASSUME FollowInv, SyncInv', SlotsMove, SweepPublished
    PROVE  FollowInv'
<1> DEFINE l == load["sweep"]
<1>1. /\ l.at = "apply" /\ l.todo = {} /\ mode' = "up"
      /\ UNCHANGED <<policy, outbox, topic, slot, position>>
  BY DEF SweepPublished
<1>2. SyncInv /\ mode \in {"boot", "up"} /\ DOMAIN load = Tasks /\ LoadInOrder("sweep")
  BY DEF FollowInv, SyncInv, SyncTypeOK, Tasks
<1>3. load'["event"] = load["event"]
  BY <1>2 DEF SweepPublished, Tasks
<1>4. CASE mode = "up"
  BY <1>1, <1>3, <1>4, LivingKeepsFollow
<1>5. CASE mode = "boot"
  <2>1. ConsumedIsShown'
    <3> SUFFICES ASSUME NEW i \in 1 .. position PROVE slot[topic[i].scope].last >= topic[i].version
      BY <1>1 DEF ConsumedIsShown
    <3>1. topic[i] \in Invalidations
      BY <1>2, EventTypes
    <3>2. slot[topic[i].scope].last \in Nat /\ topic[i].version \in Nat
      BY <1>2, <3>1, EventTypes DEF Invalidations
    <3>3. CASE topic[i].version > 0
      <4>1. topic[i].scope \in DOMAIN l.rows /\ topic[i].version <= l.rows[topic[i].scope].version
        BY <1>1, <1>5, <3>3 DEF FollowInv, BootCovers
      <4>2. l.rows[topic[i].scope].version <= slot[topic[i].scope].last
        BY <1>1, <1>5, <4>1 DEF FollowInv, BootCovers
      <4>3. l.rows[topic[i].scope] \in PolicyRow
        BY <1>1, <1>2, <4>1 DEF LoadInOrder
      <4> HIDE DEF l
      <4> QED
        BY <3>2, <4>1, <4>2, <4>3 DEF PolicyRow
    <3> QED
      BY <3>2, <3>3
  <2>2. load'["event"].at = "idle"
    BY <1>3, <1>5 DEF FollowInv
  <2>3. Applied'
    BY <2>2 DEF Applied
  <2> QED
    BY <1>1, <2>1, <2>3, StillBehind DEF FollowInv
<1> QED
  BY <1>2, <1>4, <1>5

\* Scopes that were not found are looked for by a replica that is up.
LEMMA SweepAbsentKeepsFollow ==
    ASSUME FollowInv, SyncInv', SlotsMove, NEW s \in Scopes, SweepLooks(s) \/ SweepAbsent(s)
    PROVE  FollowInv'
<1>1. UNCHANGED <<policy, outbox, topic, mode, position>> /\ load["sweep"].at \in {"absent", "remove"}
  BY DEF SweepLooks, SweepAbsent
<1>2. mode = "up" /\ DOMAIN load = Tasks
  BY <1>1 DEF FollowInv, SyncInv, SyncTypeOK, BootCovers
<1>3. load'["event"] = load["event"]
  BY <1>2 DEF SweepLooks, SweepAbsent, Tasks
<1> QED
  BY <1>1, <1>2, <1>3, LivingKeepsFollow

LEMMA FollowNext == FollowInv /\ [SyncNext]_syncVars => FollowInv'
<1> SUFFICES ASSUME FollowInv, [SyncNext]_syncVars PROVE FollowInv'
  OBVIOUS
<1>0. SyncInv' /\ SlotsMove
  BY SyncNextInv DEF FollowInv
<1>1. ASSUME NEW s \in Scopes, ReplacePolicy(s) PROVE FollowInv'
  BY <1>0, <1>1, ReplacePolicyKeepsFollow
<1>2. CASE Publish
  BY <1>0, <1>2, PublishKeepsFollow
<1>3. CASE Loading
  BY <1>0, <1>3, LoadingKeepsFollow DEF Loading
<1>4. CASE Sweeping
  <2>1. CASE SweepFails
    <3>1. CASE Restart
      BY <1>0, <3>1, RestartKeepsFollow
    <3>2. CASE /\ mode = "up" /\ load' = [load EXCEPT !["sweep"] = NoLoad]
               /\ UNCHANGED <<policy, outbox, topic, slot, mode, position>>
      <4>1. load'["event"] = load["event"]
        BY <3>2 DEF FollowInv, SyncInv, Tasks
      <4> QED
        BY <1>0, <3>2, <4>1, LivingKeepsFollow
    <3> QED
      BY <2>1, <3>1, <3>2 DEF SweepFails
  <2> QED
    BY <1>0, <1>4, <2>1, SweepPublishedKeepsFollow, SweepScopeKeepsFollow, SweepAbsentKeepsFollow DEF Sweeping
<1>5. CASE Consuming
  <2>1. EventFails => Restart
    BY DEF EventFails
  <2> QED
    BY <1>0, <1>5, <2>1, RestartKeepsFollow, ApplyEventKeepsFollow, CommitEventKeepsFollow DEF Consuming
<1>6. CASE MissEvent
  BY <1>0, <1>6, MissEventKeepsFollow
<1>7. CASE CrashReplica
  BY <1>0, <1>7, RestartKeepsFollow DEF CrashReplica
<1>8. CASE UNCHANGED syncVars
  BY <1>0, <1>8 DEF syncVars, FollowInv, EventsBehind, ConsumedIsShown, Applied, Expected, NextEvent, BootCovers
<1> QED
  BY <1>1, <1>2, <1>3, <1>4, <1>5, <1>6, <1>7, <1>8 DEF SyncNext

\* What a replica has consumed it never needs again: its load at boot makes up
\* for the slots a crash empties, whichever offset it starts from, and no sweep
\* that read earlier takes an applied event back.
THEOREM ConsumedStaysShown == SyncSpec => []ConsumedIsShown
<1>1. SyncInit => FollowInv
  <2> SUFFICES ASSUME SyncInit PROVE FollowInv
    OBVIOUS
  <2>1. /\ mode = "boot" /\ position = 0 /\ outbox = {} /\ topic = <<>>
        /\ load = [t \in Tasks |-> NoLoad]
    BY DEF SyncInit
  <2>2. load["event"].at = "idle" /\ load["sweep"].at = "idle"
    BY <2>1 DEF Tasks, NoLoad, Looking
  <2>3. EventsBehind /\ ConsumedIsShown /\ Applied /\ BootCovers
    BY <2>1, <2>2 DEF EventsBehind, ConsumedIsShown, Applied, BootCovers
  <2> QED
    BY <2>2, <2>3, SyncInitInv DEF FollowInv
<1>2. FollowInv => ConsumedIsShown
  BY DEF FollowInv
<1> QED
  BY <1>1, <1>2, FollowNext, PTL DEF SyncSpec
=============================================================================
