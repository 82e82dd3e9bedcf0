SPECIFICATION Spec
CONSTANTS
    e1 = e1
    e2 = e2
    e3 = e3
    p1 = p1
    p2 = p2
    NoEvent = NoEvent
    Events <- ThreeEvents
    Producers <- TwoProducers
    PostThrows <- SecondThrows
    post_retry_count = 2
SYMMETRY Symmetry
CHECK_DEADLOCK FALSE
INVARIANTS
    EveryEventAccounted
    VerdictsTrustworthy
    StopDrains
PROPERTY
    ImplementsOutbox
