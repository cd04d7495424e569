\* What global.go and its tests say of the breaker of a closed client.
SPECIFICATION ClientSpec
CONSTANTS
    r1 = r1
    r2 = r2
    drain = drain
    drain2 = drain2
    loop1 = loop1
    none = none
    Records <- TwoRecords
    Size <- UnitSize
    RecordLimit = 2
    ByteLimit = 2
    ReplayConcurrency = 2
    Drainers <- OneDrainer
    Loop = loop1
    Nobody = none
    MayExpire = FALSE
    Workers = 1
    QueueSize = 1
    CloseDrain = drain
    UsedAfterClose = FALSE
PROPERTY ForgottenOnceDone
CHECK_DEADLOCK FALSE
