CONSTANTS
    Session = {s1, s2}
    Client = {c1, c2}
    Turn = {t1, t2}
    Watchdog = watchdog
    NoTurn = NoTurn
    NoSession = NoSession
    MaxConcurrent = 1
    MaxCalls = 2
SPECIFICATION MCSpec
CHECK_DEADLOCK FALSE
SYMMETRY Symmetry
INVARIANTS
    TypeOK
    NoLostWakeup
    StartingOwned
    PendingOwned
    StopIsNotAnError
