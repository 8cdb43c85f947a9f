\* What the documents or comments say and the code does not do. TLC stops at the first property it
\* finds violated: comment that line out for the next one.
CONSTANTS
    MaxMsgs = 2
    MaxStops = 1
SPECIFICATION Spec
CHECK_DEADLOCK FALSE
INVARIANT CrashIsAFailure
INVARIANT RecoveredFromTheLastTurn
