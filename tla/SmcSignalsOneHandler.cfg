SPECIFICATION SigSpec
CONSTANTS
    NumThreads = 1
    Pages = {p1, p2}
    Blocks = {b1, b2}
    Values = {0}
    NoBlock = NoBlock
    MaxDepth = 1
    PagesOf <- MCPagesOf
INVARIANT LiveBlocksRegistered
CHECK_DEADLOCK FALSE
