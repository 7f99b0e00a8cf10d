SPECIFICATION FairSpec
CONSTANTS
    NumThreads = 2
    p1 = p1
    p2 = p2
    b1 = b1
    b2 = b2
    Pages = {p1}
    Blocks = {b1}
    Values = {0}
    NoBlock = NoBlock
    PagesOf <- MCPagesOf
INVARIANT LiveBlocksRegistered
INVARIANT PatchingIsExclusive
PROPERTY FaultIsHandled
PROPERTY TranslationEnds
