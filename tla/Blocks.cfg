CONSTANTS
    Programs <- MCPrograms
    Inputs <- MCInputs
    Hosts <- MCHosts
    MaxBlocks = 3
SPECIFICATION Spec
INVARIANT SameState
INVARIANT SameFlags
INVARIANT ReadFlagsAreCurrent
CHECK_DEADLOCK FALSE
