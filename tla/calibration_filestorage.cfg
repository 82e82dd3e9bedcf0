SPECIFICATION EitherSpec
CONSTANTS
    Absent = Absent
    Torn = Torn
    NoHomography = NoHomography
    Misshapen = Misshapen
    Matrices <- ThreeMatrices
    Contents <- AllFiles
    MaxWrites = 0
    Numbers <- ThreeNumbers
    Junk = Junk
    MaxArguments = 4
CHECK_DEADLOCK FALSE
CONSTRAINT Bounded
INVARIANT UndisturbedAnswerIsDeserved
