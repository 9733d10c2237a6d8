\* Three threads (a writer can extend while another writer and a reader
\* queue behind it) and two free sectors, so that growth both succeeds
\* and, once the disk is full, fails.  A failed growth leaves inode->lock
\* held and the system may then stop for good, so deadlock is not an error.
CONSTANTS
    Threads = {t1, t2, t3}
    FreeSectors = 2
    NoHolder = NoHolder
SPECIFICATION SysSpec
PROPERTY WriteCompletes
CHECK_DEADLOCK FALSE
