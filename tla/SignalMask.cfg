SPECIFICATION FairSpec
CONSTANTS
    usr1 = usr1
    usr2 = usr2
    segv = segv
    Sigs = {usr1, usr2, segv}
    Necessary = {segv}
    Terminating = {usr1, segv}
    Masks <- MCMasks
    Handlers <- MCHandlers
    MaxDepth = 2
    MaskInHandlers = FALSE
INVARIANT NecessaryOpen
INVARIANT MasksAgree
PROPERTY OutermostHonoursMask
PROPERTY SignalsArrive
CHECK_DEADLOCK FALSE
