SPECIFICATION Spec
CONSTANTS
    Inputs <- SomeInputs
    outlier_threshold = 50
CHECK_DEADLOCK FALSE
INVARIANTS
    FirstLargestGroupWins
    UsedCamerasAgree
    RejectionIsJustified
    FusedPointAmongUsed
    CamerasUsedIsTheCount
