---------------------------- MODULE PolicyWorkers ----------------------------
(***************************************************************************)
(* The processes that run Luau policies.  The evaluations of a replica     *)
(* take its worker slots in turn; under a slot's lock an evaluation starts *)
(* the worker if there is none, writes its request as one line to it and   *)
(* reads one line back.  A worker answers the lines it reads in order.     *)
(* The caller of an evaluation may give it up: a client that closes its    *)
(* stream, or whose deadline passes, has the handler dropped where it      *)
(* waits, and with it the lock of the slot.                                *)
(***************************************************************************)
EXTENDS Integers, Sequences

CONSTANTS
    Evaluations,    \* requests to a worker, of gRPC handlers or of the action consumer
    Patient,        \* those of the action consumer, which gives none up
    SlotCount,      \* POLARIZER_POLICY_WORKER_COUNT
    MaxExits,       \* bound: workers that do not start, or exit by themselves
    Nobody

ASSUME WorkerConstants ==
    Patient \subseteq Evaluations /\ SlotCount \in Nat \ {0} /\ MaxExits \in Nat /\ Nobody \notin Evaluations

Slots == 0..SlotCount - 1

\* What a run of the sandbox ends with; effects that fill the output limit make
\* a response, which holds more than them, exceed it.
RunCodes == {"EFFECTS", "FULL_EFFECTS", "MALFORMED_EFFECTS", "OUTPUT_LIMIT", "MEMORY_LIMIT", "TIMEOUT", "RUNTIME_ERROR"}
Responses == [of : Evaluations, code : RunCodes \cup {"INVALID_PROTOCOL"}]

VARIABLES
    nextSlot,       \* next_slot, modulo the number of slots
    lock,           \* of each slot: the evaluation that holds it
    worker,         \* of each slot: its process with what it has yet to read and what is unread of it
    evaluation,
    exits

workerVars == <<nextSlot, lock, worker, evaluation, exits>>

Lines == [of : Evaluations, valid : BOOLEAN]
WorkerStates ==
    [present : BOOLEAN, runs : BOOLEAN, torn : BOOLEAN, stdin : Seq(Lines), stdout : Seq(Responses)]

NoWorker == [present |-> FALSE, runs |-> FALSE, torn |-> FALSE, stdin |-> <<>>, stdout |-> <<>>]
NewWorker == [present |-> TRUE, runs |-> TRUE, torn |-> FALSE, stdin |-> <<>>, stdout |-> <<>>]

WorkersTypeOK ==
    /\ nextSlot \in Slots /\ lock \in [Slots -> Evaluations \cup {Nobody}]
    /\ worker \in [Slots -> WorkerStates]
    /\ evaluation \in [Evaluations ->
         [step : {"idle", "locking", "writing", "reading", "answered", "given up", "abandoned"}, slot : Slots,
          result : {"none", "Effects", "Timeout", "MemoryLimit", "MalformedEffects", "Worker"},
          of : Evaluations \cup {Nobody}]]
    /\ exits \in 0..MaxExits

WorkersInit ==
    /\ nextSlot = 0 /\ lock = [s \in Slots |-> Nobody] /\ worker = [s \in Slots |-> NoWorker]
    /\ evaluation = [e \in Evaluations |-> [step |-> "idle", slot |-> 0, result |-> "none", of |-> Nobody]]
    /\ exits = 0

Release(s) == lock' = [lock EXCEPT ![s] = Nobody]
Goes(e, step) == evaluation' = [evaluation EXCEPT ![e].step = step]
Answers(e, result, of) ==
    evaluation' = [evaluation EXCEPT ![e] =
        [step |-> "answered", slot |-> evaluation[e].slot, result |-> result, of |-> of]]

\* The slot is left without a worker; one that runs is killed.
Terminate(s) == worker' = [worker EXCEPT ![s] = NoWorker]

Request(e) ==
    /\ evaluation[e].step = "idle"
    /\ nextSlot' = (nextSlot + 1) % SlotCount
    /\ evaluation' = [evaluation EXCEPT ![e] = [step |-> "locking", slot |-> nextSlot, result |-> "none", of |-> Nobody]]
    /\ UNCHANGED <<lock, worker, exits>>

\* The lock goes to any evaluation that waits for it: which is first is no matter here.
Lock(e) ==
    LET s == evaluation[e].slot IN
    /\ evaluation[e].step = "locking" /\ lock[s] = Nobody
    /\ \/ /\ worker' = IF worker[s].present THEN worker ELSE [worker EXCEPT ![s] = NewWorker]
          /\ lock' = [lock EXCEPT ![s] = e]
          /\ Goes(e, "writing") /\ UNCHANGED exits
       \/ /\ ~worker[s].present /\ exits < MaxExits
          /\ Answers(e, "Worker", Nobody)
          /\ exits' = exits + 1 /\ UNCHANGED <<lock, worker>>
    /\ UNCHANGED nextSlot

\* A request that follows one whose line was never ended is one line with it.
WriteLine(e) ==
    LET s == evaluation[e].slot
        w == worker[s]
    IN
    /\ evaluation[e].step = "writing"
    /\ IF w.runs
       THEN /\ worker' = [worker EXCEPT ![s] =
                   [present |-> TRUE, runs |-> TRUE, torn |-> FALSE, stdout |-> w.stdout,
                    stdin |-> Append(w.stdin, [of |-> e, valid |-> ~w.torn])]]
            /\ Goes(e, "reading") /\ UNCHANGED lock
       ELSE Terminate(s) /\ Answers(e, "Worker", Nobody) /\ Release(s)
    /\ UNCHANGED <<nextSlot, exits>>

ResultOf(code) ==
    CASE code = "EFFECTS" -> "Effects"
      [] code = "TIMEOUT" -> "Timeout"
      [] code = "MEMORY_LIMIT" -> "MemoryLimit"
      [] code = "MALFORMED_EFFECTS" -> "MalformedEffects"
      [] OTHER -> "Worker"

\* A response over the limit is not read to its end, so its worker is killed.
ReadLine(e) ==
    LET s == evaluation[e].slot
        response == Head(worker[s].stdout)
    IN
    /\ evaluation[e].step = "reading" /\ worker[s].stdout # <<>>
    /\ IF response.code = "FULL_EFFECTS"
       THEN Terminate(s) /\ Answers(e, "Worker", Nobody)
       ELSE /\ worker' = [worker EXCEPT ![s].stdout = Tail(@)]
            /\ Answers(e, ResultOf(response.code), response.of)
    /\ Release(s)
    /\ UNCHANGED <<nextSlot, exits>>

\* The worker exited without a response.
ReadEnd(e) ==
    LET s == evaluation[e].slot IN
    /\ evaluation[e].step = "reading" /\ worker[s].stdout = <<>> /\ ~worker[s].runs
    /\ Terminate(s) /\ Answers(e, "Worker", Nobody) /\ Release(s)
    /\ UNCHANGED <<nextSlot, exits>>

\* Slip: a worker that is late is left to finish.
WallTimeoutSpares(e) ==
    /\ evaluation[e].step \in {"writing", "reading"}
    /\ Answers(e, "Timeout", Nobody) /\ Release(evaluation[e].slot)
    /\ UNCHANGED <<nextSlot, worker, exits>>

WallTimeout(e) ==
    LET s == evaluation[e].slot IN
    /\ evaluation[e].step \in {"writing", "reading"}
    /\ Terminate(s) /\ Answers(e, "Timeout", Nobody) /\ Release(s)
    /\ UNCHANGED <<nextSlot, exits>>

\* The caller is gone.  The worker stays in its slot: it may have been written a
\* part of the request, or have an answer to it.
GiveUp(e) ==
    LET s == evaluation[e].slot IN
    /\ e \notin Patient
    /\ \/ evaluation[e].step = "locking" /\ Goes(e, "given up") /\ UNCHANGED <<lock, worker>>
       \/ /\ evaluation[e].step \in {"writing", "reading"}
          /\ Goes(e, "abandoned") /\ Release(s) /\ UNCHANGED worker
       \/ /\ evaluation[e].step = "writing" /\ worker[s].runs
          /\ Goes(e, "abandoned") /\ Release(s) /\ worker' = [worker EXCEPT ![s].torn = TRUE]
    /\ UNCHANGED <<nextSlot, exits>>

(* ------------------------------ the worker ----------------------------- *)

Serve(s) ==
    LET w == worker[s]
        line == Head(w.stdin)
    IN
    /\ w.runs /\ w.stdin # <<>>
    /\ \E code \in IF line.valid THEN RunCodes ELSE {"INVALID_PROTOCOL"} :
           worker' = [worker EXCEPT ![s] =
               [present |-> TRUE, runs |-> TRUE, torn |-> w.torn, stdin |-> Tail(w.stdin),
                stdout |-> Append(w.stdout, [of |-> line.of, code |-> code])]]
    /\ UNCHANGED <<nextSlot, lock, evaluation, exits>>

Exit(s) ==
    /\ worker[s].runs /\ exits < MaxExits
    /\ worker' = [worker EXCEPT ![s].runs = FALSE]
    /\ exits' = exits + 1
    /\ UNCHANGED <<nextSlot, lock, evaluation>>

WorkersNext ==
    \/ \E e \in Evaluations : Request(e) \/ Lock(e) \/ WriteLine(e) \/ ReadLine(e) \/ ReadEnd(e) \/ WallTimeout(e) \/ GiveUp(e)
    \/ \E s \in Slots : Serve(s) \/ Exit(s)

WorkersSpec == WorkersInit /\ [][WorkersNext]_workerVars

(* ------------------------------ properties ----------------------------- *)

\* However evaluations time out, fail and share the workers, one is answered
\* with what a worker made of its own request; only an evaluation its caller
\* gave up in the middle of the exchange puts a worker out of step.
OnlyTheGivenUpMislead ==
    \A e \in Evaluations :
        evaluation[e].of \in {e, Nobody}
          \/ \E d \in Evaluations : evaluation[d].step = "abandoned" /\ evaluation[d].slot = evaluation[e].slot

=============================================================================
