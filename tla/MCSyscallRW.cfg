\* Three threads: a writer can wait behind two readers, a reader can queue
\* behind a waiting writer, and a woken writer can race a newly arriving one.
\* Two free sectors, so that growth both succeeds and, once the disk is
\* full, fails.  A failed growth leaves inode->lock held and the threads
\* may then all stop for good, so deadlock is not an error here.
CONSTANTS
    Threads = {t1, t2, t3}
    FreeSectors = 2
    NoHolder = NoHolder
SPECIFICATION SysSpec
INVARIANTS SysTypeOK CountersAccurate
PROPERTIES RWLockRefinement NoLostWakeup
CHECK_DEADLOCK FALSE
