SPECIFICATION Spec
CHECK_DEADLOCK FALSE
CONSTANTS
    Api = {a1, a2}
    MaxCalls = 3
    MaxOutside = 1
    MaxFaults = 1
INVARIANTS UnreadableKept ToggleHolds DefinitionSurvives ReloadNotLost
