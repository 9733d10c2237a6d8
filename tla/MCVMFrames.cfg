\* Three pages over two frames, so every third load evicts; one swap slot
\* fewer than the pages that can be out at once, so swap can run full.
CONSTANTS
    Procs = {"A", "B"}
    Pages <- MCPages
    Owner <- MCOwner
    FilePages = {"a1", "b1"}
    Writable = {"b1", "b2"}
    Kaddrs = {k1, k2}
    NSwap = 1
    NoPage = NoPage
    NoFrame = NoFrame
    None = None
    End = End
    Dangling = Dangling
SPECIFICATION Spec
INVARIANTS TypeOK FrameOwnership SwapSlotsExclusive
CHECK_DEADLOCK FALSE
