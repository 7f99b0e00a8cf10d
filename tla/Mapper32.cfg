SPECIFICATION Spec
CONSTANTS
    t1 = t1
    t2 = t2
    Threads = {t1, t2}
    MinPage = 1
    LastPage = 4
    TopPage = 3
    MaxSize = 2
    MaxRough = 1
 
INVARIANT NothingLeaks
 
 
CONSTRAINT MCFewEvents
SYMMETRY MCSymmetry
CHECK_DEADLOCK FALSE
