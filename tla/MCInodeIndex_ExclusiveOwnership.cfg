\* One direct block, two entries per index block, two-byte sectors: a file
\* of 7 or more bytes reaches the doubly indirect block, and such a file
\* (7 sectors and its inode) fits on the 8 free sectors of the device.
\* Lengths 1 and 7 are not sector-aligned; at most two files at a time.
CONSTANTS
    NDirect = 1
    NIndex = 2
    SectorSize = 2
    DevSize = 10
    CreateLens = {1}
    WriteEnds = {2, 4, 7}
    MaxFiles = 2
SPECIFICATION Spec
CONSTRAINT FilesBound
INVARIANT ExclusiveOwnership
\* A failed ASSERT in free_map_release halts the kernel.
CHECK_DEADLOCK FALSE
