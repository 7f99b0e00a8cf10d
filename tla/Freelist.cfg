SPECIFICATION Spec
CONSTANTS
    MinPage = 1
    LastPage = 8
    TopPage = 7
    MaxSize = 7
INVARIANT Normal
PROPERTY Refines
