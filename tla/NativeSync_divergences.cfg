\* What the documents or comments say and the code does not do.
SPECIFICATION SyncSpec
CONSTANTS
    Sender = {f1, f2}
    Detacher = {d1}
    MaxLines = 3
    MaxCalls = 4
    MaxCrashes = 0
    MaxLoss = 1
    MaxFresh = 1
PROPERTIES
    TerminalTurnsReturn
    WatermarkStays
CHECK_DEADLOCK FALSE
