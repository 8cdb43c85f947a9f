\* What the documents or comments say and the code does not do. TLC stops at the first property it
\* finds violated: comment that line out for the next one.
SPECIFICATION Spec
CONSTANTS
    Sessions = {s1, s2}
    Adopted = {a1}
    r1 = r1
    r2 = r2
    Repos <- MCRepos
    Tokens = {t1}
    MaxEdits = 2
    MaxTurns = 2
    MaxFaults = 1
    MaxCrashes = 1
    MaxAdmin = 2
    MaxEvents = 7
CHECK_DEADLOCK FALSE
INVARIANT ForkIsAllOrNothing
INVARIANT ForkStaysAtomic
PROPERTY RewindIsExact
PROPERTY RewindOnIdle
