SPECIFICATION Spec
CHECK_DEADLOCK FALSE
CONSTANTS
    r1 = r1
    r2 = r2
    Run <- MCRun
    Workers = 2
    Repos = 2
    Tasks <- MCTasks
    Writer <- MCWriter
    MaxProcs = 2
    MaxFaults = 1
    MaxCrashes = 1
INVARIANTS NoPhantomRun ScratchRemoved PatchesComplete ExemptWhileAlone
PROPERTIES EveryRunReturns
