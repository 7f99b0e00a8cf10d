SPECIFICATION Spec
CONSTANTS
    NumThreads = 1
    p1 = p1
    p2 = p2
    b1 = b1
    b2 = b2
    Pages = {p1, p2}
    Blocks = {b1, b2}
    Values = {0, 1}
    NoBlock = NoBlock
    PagesOf <- MCPagesOf
INVARIANT TypeOK
INVARIANT Coherent
INVARIANT LiveBlocksProtected
INVARIANT NoNullStore
