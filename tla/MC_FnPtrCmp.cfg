\* p != nil and p == 0 for a function pointer p.
CONSTANTS
    Programs <- FnPtrCompare
    Builds <- BuildsMC
    MaxSteps = 40
    IntPrefixedNames = {}
SPECIFICATION Spec
INVARIANT ExpectedOutcome
CHECK_DEADLOCK FALSE
