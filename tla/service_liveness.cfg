SPECIFICATION FairServiceSpec
CONSTANTS
    s1 = s1
    s2 = s2
    c1 = c1
    t1 = t1
    h1 = h1
    h2 = h2
    Main = Main
    NoThread = NoThread
    NoScenario = NoScenario
    NoImpact = NoImpact
    NoEvent = NoEvent
    Scenarios <- TwoScenarios
    Cameras <- OneCamera
    Facts <- TwoFacts
    Batch <- OneScenarioBatch
    allow_single_source = TRUE
    Handlers <- MainAndTwoClients
    Threads <- OneThread
    SpawnMayFail = TRUE
    FilesMayFail = TRUE
    SendMayFail = TRUE
    MaxRuns = 1
    post_retry_count = 1
    PostThrows <- NoneThrows
CHECK_DEADLOCK FALSE
CONSTRAINT NoOverride
PROPERTIES
    PublishedEventsSettle
    ShutdownEnds
    CommandsReturn
    BatchEnds
