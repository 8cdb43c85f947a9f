\* What the documents or comments say and the code does not do. TLC stops at the first property it
\* finds violated: comment that line out for the next one.
CONSTANTS
    MaxCalls = 2
    Kinds = {"perm", "delegate"}
    MaxProcs = 1
    MaxTaps = 2
    MaxLines = 1
SPECIFICATION Spec
CHECK_DEADLOCK FALSE
INVARIANT DecisionForItsCard
INVARIANT LinkIsItsOwn
INVARIANT ParkedIsOffered
