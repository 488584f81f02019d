--------------------------- MODULE CommandPromise ---------------------------
(***************************************************************************)
(* What the command ledger promises, without leases, tokens or clocks: a   *)
(* registered command is decided at most once, only after somebody ran it, *)
(* its decision is published exactly then; a command that is not retry-safe*)
(* is run by one claimant only, and it alone may be abandoned instead.     *)
(***************************************************************************)
CONSTANTS Commands, RetrySafe, Bots, Outcomes

VARIABLES
    verdict,    \* per command: unknown, open, done or abandoned
    runners,    \* per command: the claimants that performed its side effect
    published   \* the (command, outcome) pairs announced

promiseVars == <<verdict, runners, published>>

PromiseInit ==
    /\ verdict = [c \in Commands |-> "unknown"]
    /\ runners = [c \in Commands |-> {}]
    /\ published = {}

Accept(c) ==
    /\ verdict[c] = "unknown"
    /\ verdict' = [verdict EXCEPT ![c] = "open"]
    /\ UNCHANGED <<runners, published>>

\* A claimant may still be running when the command has been decided elsewhere.
Run(c, b) ==
    /\ verdict[c] # "unknown"
    /\ c \in RetrySafe \/ runners[c] \subseteq {b}
    /\ runners' = [runners EXCEPT ![c] = @ \cup {b}]
    /\ UNCHANGED <<verdict, published>>

Decide(c, o) ==
    /\ verdict[c] = "open"
    /\ runners[c] # {}
    /\ verdict' = [verdict EXCEPT ![c] = "done"]
    /\ published' = published \cup {<<c, o>>}
    /\ UNCHANGED runners

Abandon(c) ==
    /\ c \notin RetrySafe
    /\ verdict[c] = "open"
    /\ verdict' = [verdict EXCEPT ![c] = "abandoned"]
    /\ UNCHANGED <<runners, published>>

PromiseNext ==
    \E c \in Commands :
        \/ Accept(c)
        \/ \E b \in Bots : Run(c, b)
        \/ \E o \in Outcomes : Decide(c, o)
        \/ Abandon(c)

PromiseSpec == PromiseInit /\ [][PromiseNext]_promiseVars
=============================================================================
