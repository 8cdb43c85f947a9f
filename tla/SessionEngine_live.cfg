CONSTANTS
    Session = {s1}
    Client = {c1}
    Turn = {t1, t2}
    Watchdog = watchdog
    NoTurn = NoTurn
    NoSession = NoSession
    MaxConcurrent = 2
    MaxCalls = 3
SPECIFICATION MCFairSpec
CHECK_DEADLOCK FALSE
PROPERTY PendingLeaves
