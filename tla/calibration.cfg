SPECIFICATION EitherSpec
CONSTANTS
    Absent = Absent
    Torn = Torn
    NoHomography = NoHomography
    Misshapen = Misshapen
    Matrices <- ThreeMatrices
    Contents <- AllFiles
    MaxWrites = 3
    Numbers <- ThreeNumbers
    Junk = Junk
    MaxArguments = 4
CHECK_DEADLOCK FALSE
CONSTRAINT Bounded
INVARIANTS
    PreferredFileDecides
    JsonNeverThrows
    UsedCalibrationIsSound
    PrintedPointsAreRight
