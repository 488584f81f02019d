\* A version, a fixture changed while a test run is under way.
SPECIFICATION Spec
CONSTANTS
    Versions = {v1}
    Fixtures = {f}
    Admins = {}
    Testers = {t}
    Editors = {}
    Schedules = {}
    Workers = {}
    Platform = FALSE
    MaxVersion = 2
    MaxRevision = 2
    MaxAhead = 0
    MaxCrashes = 0
    None = None
CHECK_DEADLOCK FALSE
INVARIANT PublishedWasTested
