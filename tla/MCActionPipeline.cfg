\* One message in the hands of two workers and of two reviewers' requests; four
\* faults: a dead letter and one more.
SPECIFICATION Spec
CONSTANTS
    Actions = {msg}
    RpcActions = {}
    WithPayload = {msg}
    Malformed = {}
    ProducerId <- OwnId
    Results <- AllResults
    Workers = {w1, w2}
    Requests = {k1, k2}
    MaxTries = 3
    MaxFaults = 4
    None = None
SYMMETRY WorkerSymmetry
CHECK_DEADLOCK FALSE
INVARIANTS
    ExactlyOnceEffects
    NoUnapprovedContent
    NoSilentLoss
PROPERTY FollowsLifecycle
