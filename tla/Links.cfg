SPECIFICATION FairSpec
CONSTANTS
    a = a
    b = b
    c = c
    p = p
    q = q
    NoRip = NoRip
    Rips = {a, b, c}
    Pages = {p, q}
    Guests <- MCGuests
    PageOf <- MCPageOf
    Slot <- MCSlot
    CacheWords = 22
    Reserve = 8
 
INVARIANT NeverWild
INVARIANT RipMatches
INVARIANT PendingSitesAreUnlinked
INVARIANT StubNamesItsBlock
PROPERTY BlocksComplete
CHECK_DEADLOCK FALSE
