SPECIFICATION Spec
CONSTANTS
    s1 = s1
    s2 = s2
    c1 = c1
    t1 = t1
    t2 = t2
    h1 = h1
    h2 = h2
    NoThread = NoThread
    NoScenario = NoScenario
    NoImpact = NoImpact
    Scenarios <- TwoScenarios
    Cameras <- OneCamera
    Facts <- TwoFacts
    Batch <- TwoScenarioBatch
    allow_single_source = TRUE
    Handlers <- TwoHandlers
    Threads <- TwoThreads
    SpawnMayFail = TRUE
    FilesMayFail = TRUE
    SendMayFail = TRUE
SYMMETRY Symmetry
CHECK_DEADLOCK FALSE
CONSTRAINTS
    NoStopAfterOverlap
    OneEarlyError
INVARIANTS
    SingleWorker
    OnlyOverlappingStartsTerminate
    CalibrationTakesEffect
    CalibrationLoadedIsEarned
    RunningMeansWork
    NeverIdleWhileProcessing
    StopTakesHold
PROPERTIES
    StopReturnsQuiet
    ImplementsBatchReplay
