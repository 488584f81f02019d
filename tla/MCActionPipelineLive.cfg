\* Two messages, a malformed record and an RPC side by side, with two faults: holds
\* expire in batches, jobs and callbacks of different actions mix, and every
\* obligation is met in the end.
SPECIFICATION FairSpec
CONSTANTS
    Actions = {msg, rpc, bad}
    RpcActions = {rpc}
    WithPayload = {msg, bad}
    Malformed = {bad}
    ProducerId <- OwnId
    Results <- FewResults
    Workers = {w1}
    Requests = {k1}
    MaxTries = 2
    MaxFaults = 2
    None = None
CHECK_DEADLOCK FALSE
PROPERTY EveryObligationEnds
