\* Every program of both suites, in both build profiles.
CONSTANTS
    Programs <- AllPrograms
    Builds <- BuildsMC
    MaxSteps = 120
    IntPrefixedNames = {}
SPECIFICATION Spec
INVARIANTS TypeOK RuntimeWellTyped DistinctAllocations ExpectedOutcome NoInternalFault
    SuiteRoundTrip
PROPERTY Terminates
\* interpret() returns: a finished interpreter takes no further step.
CHECK_DEADLOCK FALSE
