\* What the documents or comments say and the code does not do.
SPECIFICATION Spec
CONSTANTS
    Ticker = {t1, t2}
    User = {u1}
    MaxReset = 1
    Fallback = 2
    MaxCalls = 2
    MaxLimits = 1
    MaxRestarts = 1
PROPERTIES StoppedIsNotTakenUp
CHECK_DEADLOCK FALSE
