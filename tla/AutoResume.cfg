SPECIFICATION FairSpec
CONSTANTS
    Ticker = {t1, t2}
    User = {u1}
    MaxReset = 1
    Fallback = 2
    MaxCalls = 2
    MaxLimits = 1
    MaxRestarts = 1
INVARIANTS OneResumePerEpisode
PROPERTIES BlockedIsResumed
CHECK_DEADLOCK FALSE
