\* Two records, Close at any time, every wait timing out or not.
SPECIFICATION ClientSpec
CONSTANTS
    r1 = r1
    r2 = r2
    drain = drain
    drain2 = drain2
    loop1 = loop1
    none = none
    Records <- TwoRecords
    Size <- UnitSize
    RecordLimit = 1
    ByteLimit = 2
    ReplayConcurrency = 2
    Drainers <- OneDrainer
    Loop = loop1
    Nobody = none
    MayExpire = FALSE
    Workers = 1
    QueueSize = 1
    CloseDrain = drain
    UsedAfterClose = FALSE
SYMMETRY Symmetric
INVARIANTS
    SendsKept
PROPERTIES
    CloseNeverMissesARecord
    BufferSpec
\* A closed client with nothing left to send does stop.
CHECK_DEADLOCK FALSE
