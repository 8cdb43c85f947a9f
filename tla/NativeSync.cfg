SPECIFICATION SyncSpec
CONSTANTS
    Sender = {f1, f2}
    Detacher = {d1}
    MaxLines = 3
    MaxCalls = 4
    MaxCrashes = 1
    MaxLoss = 1
    MaxFresh = 0
INVARIANTS NothingSkipped ImportedOnce
PROPERTIES ReclaimComplete
CHECK_DEADLOCK FALSE
