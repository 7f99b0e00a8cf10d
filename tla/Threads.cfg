SPECIFICATION FairSpec
CONSTANTS
    Procs = {1, 2}
    Slots = {1, 2}
    Main = 1
    MaxCalls = 3
INVARIANT FrameOutlivesHelper
 
INVARIANT ListIsThreads
INVARIANT LocksHaveHolders
 
CHECK_DEADLOCK FALSE
