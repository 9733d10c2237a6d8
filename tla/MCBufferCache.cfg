CONSTANTS
    c1 = c1
    c2 = c2
    Clients = {c1}
    Prefetcher = pf
    NSlots <- MCNSlots
    DevSize <- MCDevSize
    Values = {v0}
    InitVal = v0
    WriteSectors = {0}
    NULL = NULL

SPECIFICATION Spec

INVARIANT TypeOK
INVARIANT PinnedSlotStable
INVARIANT UsedCountAccurate

\* A kernel panic (block_read of a sector outside the device) halts every thread.
CHECK_DEADLOCK FALSE
