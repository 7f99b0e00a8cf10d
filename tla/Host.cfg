SPECIFICATION Spec
CONSTANTS
    Root <- MCRoot
    Exe <- MCExe
    Calls <- MCFileCalls
    Starts <- MCStarts
    Mounts = {"proc", "run"}
    Replaced = {5}
    Overlaid = {"lib"}
    Requests <- MCRequests
    Booted <- MCBooted
    Usual <- MCUsual
    WordBits = 2
    PageBit = 2
    MinStack = 4
    TlsEntries = {12, 13, 14}
    Page = 2
    Top = 14
    Callers = {1, 2}
    FirstSize = 2
    Limits = {3, 8}
    Hints = {4}
    Breaks = {0, 7, 9, 13}
    Images <- MCImages
PROPERTY LikeChroot
PROPERTY LikeKernel
INVARIANT HeapInPlace
INVARIANT GrowsIntoReserve
CHECK_DEADLOCK FALSE
