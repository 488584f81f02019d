\* Two relays, two rows that arrive one after the other, batches of two, three
\* faults; a replica, two versions of a scope and two faults.
SPECIFICATION MCSpec
CONSTANTS
    Rows = {r1, r2}
    Relays = {p1, p2}
    BatchSize = 2
    SendTimeout = 1
    LeaseTicks = 3
    MaxBackoff = 2
    MaxFaults = 3
    None = None
    Scopes = {hub}
    NoSnapshot = NoSnapshot
    Torn = Torn
    MaxVersion = 2
    MaxUpsets = 2
INVARIANTS
    CopiesCostFaults
    ContentMatchesVersion
    ConsumedIsShown
PROPERTIES
    EveryRowIsPublished
    ExistingScopesConverge
