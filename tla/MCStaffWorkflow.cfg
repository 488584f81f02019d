SPECIFICATION Spec
CONSTANTS
    Reports = {r1}
    Requests = {q1, q2}
    Staff = {alice, bob}
    Targets = {t1}
    LeaseTicks = 2
    CooldownTicks = 1
    RenewTicks = 1
    WindowTicks = 2
    BanTicks = 1
    MaxVersion = 4
    None = None
INVARIANTS ForfeitedNeverExecutes BannedOnceByTwoPeople
PROPERTIES ClosedOnceByItsHolder RequestsSettle
CHECK_DEADLOCK FALSE
