\* One record, an application Flush, and sends after Close, under fairness.
SPECIFICATION ClientLiveSpec
CONSTANTS
    r1 = r1
    r2 = r2
    drain = drain
    drain2 = drain2
    loop1 = loop1
    none = none
    Records <- OneRecord
    Size <- UnitSize
    RecordLimit = 1
    ByteLimit = 1
    ReplayConcurrency = 2
    Drainers <- TwoDrainers
    Loop = loop1
    Nobody = none
    MayExpire = FALSE
    Workers = 1
    QueueSize = 1
    CloseDrain = drain
    UsedAfterClose = TRUE
PROPERTY BreakerGivenBack
\* A closed client with nothing left to send does stop.
CHECK_DEADLOCK FALSE
