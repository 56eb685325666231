\* fn main() -> int { let x: int = 7; return x; }, lowered and interpreted.
CONSTANTS
    Asts <- LostInit
    Programs <- LoweredAsts
    Builds <- BuildsMC
    MaxSteps = 10
    IntPrefixedNames = {"interval"}
SPECIFICATION PipelineSpec
PROPERTY CFlatRefinement
\* interpret() returns: a finished interpreter takes no further step.
CHECK_DEADLOCK FALSE
