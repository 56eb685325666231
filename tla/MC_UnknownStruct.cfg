CONSTANTS
    Programs <- ZeroInitTrust
    Builds <- BuildsMC
    MaxSteps = 40
    IntPrefixedNames = {}
SPECIFICATION Spec
INVARIANT NoInternalFault
CHECK_DEADLOCK FALSE
