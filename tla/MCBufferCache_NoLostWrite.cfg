CONSTANTS
    c1 = c1
    c2 = c2
    Clients = {c1}
    Prefetcher = pf
    NSlots <- MCNSlots
    DevSize <- MCDevSize
    Values = {v0, v1}
    InitVal = v0
    WriteSectors = {0}
    NULL = NULL


SPECIFICATION Spec

INVARIANT NoLostWrite

CHECK_DEADLOCK FALSE
