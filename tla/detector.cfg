SPECIFICATION Spec
CONSTANTS
    Contours <- FewContours
    MaxContours = 4
    quality_floor = 20
CHECK_DEADLOCK FALSE
INVARIANTS
    BestIsFirstHighest
    SecondIsRunnerUp
    VerdictHasItsReason
    OnlyNeighboursHideRivals
