\* Every three-block control-flow graph of main.
SPECIFICATION Spec
INVARIANT ReachabilityAgreesWithGraphs
