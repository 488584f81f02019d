\* A version, two administrators, its scheduled activation, two workers, a bundle
\* update and a crash.
SPECIFICATION FairSpec
CONSTANTS
    Versions = {v1}
    Fixtures = {}
    Admins = {a1, a2}
    Testers = {}
    Editors = {e}
    Schedules = {s}
    Workers = {w1, w2}
    Platform = TRUE
    MaxVersion = 4
    MaxRevision = 0
    MaxAhead = 1
    MaxCrashes = 1
    None = None
CHECK_DEADLOCK FALSE
INVARIANTS
    MandatoryWasApprovedTwice
PROPERTIES
    EveryScheduleEnds
