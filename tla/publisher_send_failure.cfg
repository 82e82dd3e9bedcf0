SPECIFICATION Spec
CONSTANTS
    e1 = e1
    e2 = e2
    e3 = e3
    p1 = p1
    p2 = p2
    NoEvent = NoEvent
    Events <- TwoEvents
    Producers <- TwoProducers
    PostThrows <- SecondThrows
    post_retry_count = 2
CHECK_DEADLOCK FALSE
INVARIANT SendFailureIsReported
