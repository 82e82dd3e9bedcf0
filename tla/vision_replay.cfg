SPECIFICATION Spec
CONSTANTS
    c1 = c1
    NoImpact = NoImpact
    Cameras <- OneCamera
    Scenarios <- AllScenarios
    Facts <- AllFacts
    Listings <- SomeListings
    Unreadable <- SomeUnreadable
CHECK_DEADLOCK FALSE
INVARIANTS
    ExitCodeTellsTheTruth
    ShotNumbersArePositions
    ScoresAreTheBoards
