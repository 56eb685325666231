\* Every valid program of the family, lowered and interpreted in both builds.
CONSTANTS
    Asts <- ValidFamily
    Programs <- LoweredAsts
    Builds <- BuildsMC
    MaxSteps = 10
    IntPrefixedNames = {"interval"}
SPECIFICATION PipelineSpec
INVARIANT TextRoundTrip
PROPERTY CFlatRefinement
\* interpret() returns: a finished interpreter takes no further step.
CHECK_DEADLOCK FALSE
