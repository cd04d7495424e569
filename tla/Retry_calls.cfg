\* Two calls share one place of the limit and one breaker, and every call
\* returns (no symmetry: liveness).
SPECIFICATION RetryLiveSpec
CONSTANTS
    c1 = c1
    c2 = c2
    g1 = g1
    g2 = g2
    g3 = g3
    g4 = g4
    Callers <- TwoCallers
    Generations <- FourGenerations
    FailureThreshold = 1
    RecoveryTimeout = 1
    SuccessThreshold = 1
    TimeWindow = 1
    ConsecutiveFailures = TRUE
    MaxFailureHistory = 2
    MaxRetryAfter = 2
    ManualRecording = FALSE
    MaxRetries = 1
    MaxDelay = 1
    BaseDelay = 1
    Slots = 1
INVARIANTS
    BudgetsKept
    OpenErrorKeepsTheFailure
PROPERTY CallsReturn
