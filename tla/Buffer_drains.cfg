\* Every held record leaves once Revenium answers, by a resend or by age (no
\* symmetry: liveness).
SPECIFICATION BufferLiveSpec
CONSTANTS
    r1 = r1
    r2 = r2
    r3 = r3
    r4 = r4
    drain = drain
    loop1 = loop1
    none = none
    Records <- ThreeRecords
    Size <- MixedSize
    RecordLimit = 2
    ByteLimit = 4
    ReplayConcurrency = 2
    Drainers <- NoDrainer
    Loop = loop1
    Nobody = none
    MayExpire = TRUE
PROPERTY HeldRecordsLeave
\* A closed client whose loop has ended does stop.
CHECK_DEADLOCK FALSE
