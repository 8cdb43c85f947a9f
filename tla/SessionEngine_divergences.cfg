\* What the documents or comments say and the code does not do. TLC stops at the first property it
\* finds violated: comment that line out for the next one.
CONSTANTS
    Session = {s1}
    Client = {c1, c2}
    Turn = {t1, t2}
    Watchdog = watchdog
    NoTurn = NoTurn
    NoSession = NoSession
    MaxConcurrent = 1
    MaxCalls = 3
SPECIFICATION MCSpec
CHECK_DEADLOCK FALSE
INVARIANT KillIsNotLost
INVARIANT RegisteredTurnIsLive
PROPERTY NeverResurrect
