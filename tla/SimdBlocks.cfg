SPECIFICATION Spec
CONSTANTS
    Fp <- MCFp
    Programs <- MCPrograms
    Inputs <- MCInputs
    Hosts <- MCHosts
INVARIANTS SameVectors  
CHECK_DEADLOCK FALSE
