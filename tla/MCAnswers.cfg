\* Each part has bounds of its own; none of them shares a variable with another.
SPECIFICATION MCSpec
CONSTANTS
    a = a
    b = b
    Servers = {a, b}
    Length = 6
    NoPolicy = NoPolicy
    DefaultName = DefaultName
    Keys <- MCKeys
    Workers = {a, b}
    Messages <- MCMessages
    Window = 2
    MaxEntries = 2
    MaxTime = 4
    MaxFaults = 1
    Targets = {a, b}
    MaxFailures = 2
    NoPlan = NoPlan
    Modes = {"Legacy", "Shadow", "Enforce"}
    MaxAttempts = 2
    MaxVersion = 3
    Ids = {1, 2, 3, 4}
    Dates = {1, 2}
    Sizes = {1, 2}
    MaxPage = 2
    FirstOf = 3
    LastOf = 4
    MaxWrites = 1
    Absent = Absent
    Letters = {"a", "b"}
    Capital <- MCCapital
    Likeness <- MCLikeness
    Enough = 2
    Evaluations = {e1, e2, e3}
    Patient = {e3}
    SlotCount = 1
    MaxExits = 1
    Nobody = Nobody
    Features <- MCFeatures
    Values <- MCValues
    Attributes <- MCAttributes
    Nested <- MCNested
INVARIANTS
    GroupingIsTransparent CensoredIsHidden
    DecisionIsSeverest FailureIsNotSilent NoReplacedNameIsShown
    RepeatsAreTheOriginal ShadowIsLegacy
    SteadyRowsAreListed OnlyTheGivenUpMislead FoundWhereItIsRead AbsenceNeverApplies
PROPERTIES
    OncePerWindow
CHECK_DEADLOCK FALSE
