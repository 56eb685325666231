\* A valid program declaring struct interval and a global r: &interval.
CONSTANTS
    Asts <- IntervalStruct
    Programs <- LoweredAsts
    Builds <- BuildsMC
    MaxSteps = 10
    IntPrefixedNames = {"interval"}
SPECIFICATION PipelineSpec
INVARIANT TextRoundTrip
\* interpret() returns: a finished interpreter takes no further step.
CHECK_DEADLOCK FALSE
