CONSTANTS
    Client = {c1}
    Reader = {r1}
    MaxBodies = 2
    MaxDrops = 1
    MaxEnds = 1
SPECIFICATION FairSpec
CHECK_DEADLOCK FALSE
INVARIANTS
    ProjectionEquivalent
    ExitAfterLastLine
PROPERTIES
    DeliversInOrder
    LinesArrive
