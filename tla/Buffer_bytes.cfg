\* Records of several sizes against the byte limit.
SPECIFICATION BufferSpec
CONSTANTS
    r1 = r1
    r2 = r2
    r3 = r3
    r4 = r4
    drain = drain
    loop1 = loop1
    none = none
    Records <- FourRecords
    Size <- MixedSize
    RecordLimit = 3
    ByteLimit = 4
    ReplayConcurrency = 2
    Drainers <- OneDrainer
    Loop = loop1
    Nobody = none
    MayExpire = FALSE
INVARIANTS
    BytesKept
    QueueKept
    LossesTold
