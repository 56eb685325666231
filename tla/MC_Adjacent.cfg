CONSTANTS
    Programs <- Adjacent
    Builds <- BuildsMC
    MaxSteps = 40
    IntPrefixedNames = {}
SPECIFICATION Spec
INVARIANT SpatialSafety
CHECK_DEADLOCK FALSE
