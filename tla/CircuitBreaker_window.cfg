\* A breaker of the defaults' kind: failures within a window, two successes
\* close, the application records outcomes by hand, and the outage ends (no
\* symmetry: liveness).
SPECIFICATION LiveSpec
CONSTANTS
    c1 = c1
    c2 = c2
    c3 = c3
    g1 = g1
    g2 = g2
    g3 = g3
    g4 = g4
    g5 = g5
    Callers <- TwoCallers
    Generations <- FourGenerations
    FailureThreshold = 2
    RecoveryTimeout = 1
    SuccessThreshold = 2
    TimeWindow = 1
    ConsecutiveFailures = FALSE
    MaxFailureHistory = 2
    MaxRetryAfter = 1
    ManualRecording = TRUE
INVARIANT ClosedIsProven
PROPERTY Recovers
