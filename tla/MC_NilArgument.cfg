CONSTANTS
    Programs <- NilArgument
    Builds <- BuildsMC
    MaxSteps = 40
    IntPrefixedNames = {}
SPECIFICATION Spec
INVARIANT ExpectedOutcome
CHECK_DEADLOCK FALSE
