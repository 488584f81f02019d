SPECIFICATION Spec
CONSTANTS
    Users = {u1}
    Charges <- MCCharges
    Kinds <- MCKinds
    Deadlines = {1, None}
    Restrictions = {1}
    Infractions = {1, 2}
    Appeals = {1}
    Reports = {p1}
    About <- MCAbout
    Filed <- MCFiled
    MaxTime = 1
    MaxVersion = 3
    None = None
    Silent = Silent
    Unclear = Unclear
INVARIANTS RevokedIsLifted MitigatedOnce UserKnowsTheTerm
CHECK_DEADLOCK FALSE
