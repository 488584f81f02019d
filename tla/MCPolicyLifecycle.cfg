\* Two versions, a fixture changed up to twice, an administrator and a test run
\* in flight.
SPECIFICATION Spec
CONSTANTS
    Versions = {v1, v2}
    Fixtures = {f}
    Admins = {a}
    Testers = {t}
    Editors = {}
    Schedules = {}
    Workers = {}
    Platform = TRUE
    MaxVersion = 5
    MaxRevision = 2
    MaxAhead = 1
    MaxCrashes = 0
    None = None
SYMMETRY AuthorSymmetry
CHECK_DEADLOCK FALSE
INVARIANTS
    ActiveVersionAgrees
    EnforcedWasVetted
