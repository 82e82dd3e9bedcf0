SPECIFICATION ServiceSpec
CONSTANTS
    s1 = s1
    s2 = s2
    c1 = c1
    t1 = t1
    h1 = h1
    h2 = h2
    Main = Main
    NoThread = NoThread
    NoScenario = NoScenario
    NoImpact = NoImpact
    NoEvent = NoEvent
    Scenarios <- TwoScenarios
    Cameras <- OneCamera
    Facts <- TwoFacts
    Batch <- TwoScenarioBatch
    allow_single_source = TRUE
    Handlers <- MainAndClient
    Threads <- OneThread
    SpawnMayFail = TRUE
    FilesMayFail = TRUE
    SendMayFail = TRUE
    MaxRuns = 2
    post_retry_count = 1
    PostThrows <- SecondThrows
CHECK_DEADLOCK FALSE
CONSTRAINT NoCalibration
INVARIANTS
    ServiceTypeOK
    ShutdownSettlesEverything
    DrainIsFinite
    LossesReachTheController
    CrashLosesOnlyTheEnd
