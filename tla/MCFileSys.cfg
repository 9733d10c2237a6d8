CONSTANTS
    Procs = {p1, p2}
    Names <- MCNames
    Inos <- MCInos
    Root = 1
    Fds = {2}
    Paths <- MCPaths
    MaxOpenCnt = 1
    None = None
    NoFile = NoFile

SPECIFICATION Spec

SYMMETRY ProcSymmetry

INVARIANTS
    TypeOK
    HeldAllocated
    OpenDirNotRemoved

CHECK_DEADLOCK FALSE
