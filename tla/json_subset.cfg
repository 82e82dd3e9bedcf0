SPECIFICATION Spec
CONSTANTS
    NaN = NaN
    numeric_tolerance = 1
    Documents <- FlatAndNested
CHECK_DEADLOCK FALSE
INVARIANTS
    ContainedIffEveryNodeAgrees
    MismatchPathIsFirst
