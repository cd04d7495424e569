\* DeliveryCircuitBreakerConfig: consecutive failures, one success closes.
SPECIFICATION Spec
CONSTANTS
    c1 = c1
    c2 = c2
    c3 = c3
    g1 = g1
    g2 = g2
    g3 = g3
    g4 = g4
    g5 = g5
    Callers <- ThreeCallers
    Generations <- FiveGenerations
    FailureThreshold = 2
    RecoveryTimeout = 2
    SuccessThreshold = 1
    TimeWindow = 2
    ConsecutiveFailures = TRUE
    MaxFailureHistory = 3
    MaxRetryAfter = 3
    ManualRecording = FALSE
SYMMETRY Symmetric
INVARIANTS
    KeepsCallersBack
    ProbeSlotNotLeaked
    OneProbeAtATime
PROPERTY
    NoCallWhileOwed
