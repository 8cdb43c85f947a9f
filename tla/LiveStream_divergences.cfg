\* What the documents or comments say and the code does not do.
CONSTANTS
    Client = {c1}
    Reader = {r1}
    MaxBodies = 2
    MaxDrops = 1
    MaxEnds = 1
SPECIFICATION Spec
CHECK_DEADLOCK FALSE
INVARIANT
    ResumeIsGapFree
