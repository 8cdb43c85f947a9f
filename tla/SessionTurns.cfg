\* The turns of one session, with one stop of the server.
CONSTANTS
    MaxMsgs = 2
    MaxStops = 1
SPECIFICATION Spec
CHECK_DEADLOCK FALSE
INVARIANTS
    OutcomeHonest
    RecoverHonest
    PushOncePerTurn
    EveryTurnAnnounced
    CostCountsEveryResult
