SPECIFICATION Spec
CONSTANTS
    Sessions = {s1, s2}
    Adopted = {a1}
    r1 = r1
    r2 = r2
    Repos <- MCRepos
    Tokens = {t1}
    MaxEdits = 2
    MaxTurns = 2
    MaxFaults = 1
    MaxCrashes = 1
    MaxAdmin = 1
    MaxEvents = 5
SYMMETRY MCSymmetry
INVARIANTS
    RowHasWorkspace
    RefusedLeavesNothing
PROPERTY RewindRestores
CHECK_DEADLOCK FALSE
