\* A retry-safe and a non-retry-safe command, two bots, leases that can outlive
\* the clock skew, one crash and up to two leases per command.
SPECIFICATION FairSpec
CONSTANTS
    Commands = {delete, notify}
    RetrySafe = {delete}
    Bots = {b1, b2}
    Outcomes = {done, failed}
    MinLease = 1
    MaxLease = 2
    MaxSkew = 1
    MaxAttempts = 2
    MaxCrashes = 1
    None = None
INVARIANTS
    NonRetrySafeRunsUnderOneLease
PROPERTIES
    KeepsPromise
    EveryCommandSettles
