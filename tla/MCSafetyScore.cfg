SPECIFICATION MCSpec
CONSTANTS
    c1 = c1
    c2 = c2
    w1 = w1
    k1 = k1
    s1 = s1
    s2 = s2
    record = record
    recalculate = recalculate
    Subjects = {s1, s2}
    Callers = {c1, c2}
    Workers = {w1}
    Keys = {k1}
    Ops = {record, recalculate}
    Recalculating = {recalculate}
    KeyOf <- MCKeyOf
    OpOf <- MCOpOf
    SubjectOf <- MCSubjectOf
    Plans <- MCPlans
    Points <- MCPoints
    Expiring = {k1}
    Echo = Echo
    MaxFaults = 2
    None = None
    a1 = a1
    a2 = a2
    a3 = a3
    a4 = a4
    a5 = a5
    l1 = l1
    l2 = l2
    Actions = {a1, a2, a3, a4, a5}
    Lobbies = {l1, l2}
    LobbyOf <- MCLobbyOf
    Ends = {a2}
    Timeless = {a5}
    Writers = {v1, v2}
    CallReports = {r1}
    PageSizes = {0, 2, 5}
    MaxPage = 2
    MaxRollbacks = 1
    NoAction = NoAction
INVARIANTS ScoreIsCurrent AnsweredIsEvaluated TranscriptIsTheCall
PROPERTIES EveryCallEnds
CHECK_DEADLOCK FALSE
