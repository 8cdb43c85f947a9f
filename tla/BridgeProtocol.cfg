CONSTANTS
    MaxCalls = 2
    Kinds = {"ask", "perm", "delegate", "workflow", "agent", "plain"}
    MaxProcs = 2
    MaxTaps = 1
    MaxLines = 2
SPECIFICATION Spec
INVARIANTS
    OncePerResult
    CardHonest
PROPERTY DelegateReturns
CHECK_DEADLOCK FALSE
