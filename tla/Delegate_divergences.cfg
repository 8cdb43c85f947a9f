\* What the documents or comments say and the code does not do. TLC stops at the first property it
\* finds violated: comment that line out for the next one.
SPECIFICATION Spec
CHECK_DEADLOCK FALSE
CONSTANTS
    r1 = r1
    r2 = r2
    Run <- MCRun
    Workers = 2
    Repos = 2
    Tasks <- MCTasks
    Writer <- MCWriter
    MaxProcs = 2
    MaxFaults = 1
    MaxCrashes = 1
INVARIANT AbortIsClean
INVARIANT ExemptWholeFanOut
