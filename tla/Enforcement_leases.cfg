\* Clients of one team, and of a key with no team, that open and close while
\* the application stops all polls (no symmetry: liveness).
SPECIFICATION LiveSpec
CONSTANTS
    c1 = c1
    c2 = c2
    k1 = k1
    k2 = k2
    p1 = p1
    p2 = p2
    p3 = p3
    p4 = p4
    p5 = p5
    None = None
    Clients <- TwoClients
    Keys <- TwoKeys
    Dormant <- SecondKey
    Pollers <- FivePollers
    StaleAfter = 1
INVARIANTS
    LeasesCounted
    NoPollLeftBehind
PROPERTIES
    EngineCallsReturn
    FailsOpen
