------------------------------- MODULE RWLock -------------------------------
(***************************************************************************)
(* The global reader/writer lock of src/filesys/rwlock.c, taken by the     *)
(* read syscall (rwlock_acquire_read/rwlock_release_read) and by the write *)
(* syscall (rwlock_acquire_write/rwlock_release_write) in                  *)
(* src/userprog/syscall.c.                                                  *)
(*                                                                         *)
(* Every function body runs under lock->mutex, and the mutex is only given *)
(* up inside cond_wait, so the body between two cond_waits is one atomic   *)
(* step.  cond_wait(c) atomically releases the mutex and puts the thread   *)
(* in the waiter set of c; cond_signal removes one (any) waiter, and       *)
(* cond_broadcast all of them.  A woken thread is "woken_r"/"woken_w"      *)
(* until it re-acquires the mutex, decrements its waiting counter and      *)
(* re-evaluates the while condition.                                       *)
(***************************************************************************)
EXTENDS Naturals, FiniteSets

CONSTANTS Threads      \* threads issuing read and write syscalls

VARIABLES
    active_readers, active_writers, waiting_readers, waiting_writers,
    okRead,      \* waiters of lock->OK_read
    okWrite,     \* waiters of lock->OK_write
    pc           \* where each thread is in its read or write syscall

lockVars == <<active_readers, active_writers, waiting_readers,
              waiting_writers, okRead, okWrite, pc>>

PCs == {"idle", "blocked_r", "woken_r", "reading",
                "blocked_w", "woken_w", "writing"}

(* rwlock_init *)
Init ==
    /\ active_readers = 0 /\ active_writers = 0
    /\ waiting_readers = 0 /\ waiting_writers = 0
    /\ okRead = {} /\ okWrite = {}
    /\ pc = [t \in Threads |-> "idle"]

(* cond_signal(&OK_write): wake one waiter, if there is one, on top of   *)
(* the pc function p.  Which waiter is left open (Pintos' synch.c is not  *)
(* part of src).                                                          *)
SignalOKWrite(p) ==
    \/ /\ okWrite = {}
       /\ okWrite' = okWrite /\ pc' = p
    \/ \E u \in okWrite :
          /\ okWrite' = okWrite \ {u}
          /\ pc' = [p EXCEPT ![u] = "woken_w"]

(* cond_broadcast(&OK_read): wake every waiter. *)
BroadcastOKRead(p) ==
    /\ okRead' = {}
    /\ pc' = [u \in Threads |-> IF u \in okRead THEN "woken_r" ELSE p[u]]

(* The while loop of rwlock_acquire_read, entered holding the mutex with  *)
(* the waiting count wr: either wait on OK_read or become active.         *)
ReadLoop(t, wr) ==
    IF active_writers > 0 \/ waiting_writers > 0
    THEN /\ waiting_readers' = wr + 1
         /\ okRead' = okRead \cup {t}
         /\ pc' = [pc EXCEPT ![t] = "blocked_r"]
         /\ UNCHANGED active_readers
    ELSE /\ waiting_readers' = wr
         /\ active_readers' = active_readers + 1
         /\ pc' = [pc EXCEPT ![t] = "reading"]
         /\ UNCHANGED okRead

(* rwlock_acquire_read, up to the first cond_wait or the return. *)
AcquireRead(t) ==
    /\ pc[t] = "idle"
    /\ ReadLoop(t, waiting_readers)
    /\ UNCHANGED <<active_writers, waiting_writers, okWrite>>

(* Return from cond_wait(&OK_read): waiting_readers -= 1, loop again. *)
WakeRead(t) ==
    /\ pc[t] = "woken_r"
    /\ ReadLoop(t, waiting_readers - 1)
    /\ UNCHANGED <<active_writers, waiting_writers, okWrite>>

(* Mutant: the last reader tests the count before decrementing it. *)
ReleaseReadStaleCount(t) ==
    /\ pc[t] = "reading"
    /\ active_readers' = active_readers - 1
    /\ LET p == [pc EXCEPT ![t] = "idle"]
       IN IF active_readers = 0 /\ waiting_writers > 0
          THEN SignalOKWrite(p)
          ELSE okWrite' = okWrite /\ pc' = p
    /\ UNCHANGED <<active_writers, waiting_readers, waiting_writers, okRead>>

(* rwlock_release_read *)
ReleaseRead(t) ==
    /\ pc[t] = "reading"
    /\ active_readers' = active_readers - 1
    /\ LET p == [pc EXCEPT ![t] = "idle"]
       IN IF active_readers - 1 = 0 /\ waiting_writers > 0
          THEN SignalOKWrite(p)
          ELSE okWrite' = okWrite /\ pc' = p
    /\ UNCHANGED <<active_writers, waiting_readers, waiting_writers, okRead>>

(* Mutant: the writer loop only waits for another writer. *)
WriteLoopIgnoresReaders(t, ww) ==
    IF active_writers > 0
    THEN /\ waiting_writers' = ww + 1
         /\ okWrite' = okWrite \cup {t}
         /\ pc' = [pc EXCEPT ![t] = "blocked_w"]
         /\ UNCHANGED active_writers
    ELSE /\ waiting_writers' = ww
         /\ active_writers' = active_writers + 1
         /\ pc' = [pc EXCEPT ![t] = "writing"]
         /\ UNCHANGED okWrite

(* The while loop of rwlock_acquire_write with the waiting count ww. *)
WriteLoop(t, ww) ==
    IF active_writers > 0 \/ active_readers > 0
    THEN /\ waiting_writers' = ww + 1
         /\ okWrite' = okWrite \cup {t}
         /\ pc' = [pc EXCEPT ![t] = "blocked_w"]
         /\ UNCHANGED active_writers
    ELSE /\ waiting_writers' = ww
         /\ active_writers' = active_writers + 1
         /\ pc' = [pc EXCEPT ![t] = "writing"]
         /\ UNCHANGED okWrite

(* rwlock_acquire_write, up to the first cond_wait or the return. *)
AcquireWrite(t) ==
    /\ pc[t] = "idle"
    /\ WriteLoop(t, waiting_writers)
    /\ UNCHANGED <<active_readers, waiting_readers, okRead>>

(* Mutant: the woken writer forgets waiting_writers -= 1. *)
WakeWriteKeepsCount(t) ==
    /\ pc[t] = "woken_w"
    /\ WriteLoop(t, waiting_writers)
    /\ UNCHANGED <<active_readers, waiting_readers, okRead>>

(* Return from cond_wait(&OK_write): waiting_writers -= 1, loop again. *)
WakeWrite(t) ==
    /\ pc[t] = "woken_w"
    /\ WriteLoop(t, waiting_writers - 1)
    /\ UNCHANGED <<active_readers, waiting_readers, okRead>>

(* rwlock_release_write: hand over to one waiting writer if any counted,  *)
(* otherwise wake every waiting reader.                                   *)
ReleaseWrite(t) ==
    /\ pc[t] = "writing"
    /\ active_writers' = active_writers - 1
    /\ LET p == [pc EXCEPT ![t] = "idle"]
       IN IF waiting_writers > 0
          THEN SignalOKWrite(p) /\ okRead' = okRead
          ELSE BroadcastOKRead(p) /\ okWrite' = okWrite
    /\ UNCHANGED <<active_readers, waiting_readers, waiting_writers>>

(* Steps a thread takes inside the lock functions once it has called one. *)
LockStep(t) ==
    WakeRead(t) \/ ReleaseRead(t) \/ WakeWrite(t) \/ ReleaseWrite(t)

Next == \E t \in Threads : AcquireRead(t) \/ AcquireWrite(t) \/ LockStep(t)

(* A thread that has been woken or holds the lock keeps running: weak     *)
(* fairness on each thread's in-call steps.  Issuing a new syscall is not *)
(* fair: a thread may stay idle forever.                                  *)
Fairness == \A t \in Threads : WF_lockVars(LockStep(t))

Spec == Init /\ [][Next]_lockVars /\ Fairness

(***************************************************************************)
(* Properties                                                              *)
(***************************************************************************)
InState(S) == {t \in Threads : pc[t] \in S}

TypeOK ==
    /\ pc \in [Threads -> PCs]
    /\ {active_readers, active_writers, waiting_readers, waiting_writers}
          \subseteq 0..Cardinality(Threads)
    /\ okRead \subseteq Threads /\ okWrite \subseteq Threads

(* The four counters of struct rw_lock agree with where the threads are:  *)
(* active_* counts the threads inside a read or write, waiting_* counts   *)
(* those between the increment before cond_wait and the decrement after   *)
(* it (still waiting, or woken but not yet back in the loop), and the     *)
(* waiter sets of OK_read/OK_write hold exactly the not-yet-woken ones.   *)
(* The while conditions of rwlock_acquire_* read only the counters, so a  *)
(* counter that drifts lets a thread in or keeps it out wrongly.          *)
CountersAccurate ==
    /\ active_readers = Cardinality(InState({"reading"}))
    /\ active_writers = Cardinality(InState({"writing"}))
    /\ waiting_readers = Cardinality(InState({"blocked_r", "woken_r"}))
    /\ waiting_writers = Cardinality(InState({"blocked_w", "woken_w"}))
    /\ okRead = InState({"blocked_r"})
    /\ okWrite = InState({"blocked_w"})

(* rwlock.c implements a reader/writer lock: the threads that returned    *)
(* from rwlock_acquire_read and not yet called rwlock_release_read, and   *)
(* the one that returned from rwlock_acquire_write, change only as the    *)
(* abstract lock allows, so a write syscall never overlaps a read or      *)
(* another write.                                                         *)
ARW == INSTANCE AbstractRW WITH readers <- InState({"reading"}),
                                writer <- InState({"writing"})
RWLockRefinement == ARW!Spec

(* No lost wakeup: whenever a thread is waiting inside rwlock_acquire_*   *)
(* some thread eventually holds the lock.  The signal in                  *)
(* rwlock_release_read goes out only when the last reader leaves and a    *)
(* writer is counted, and rwlock_release_write broadcasts to readers only *)
(* when no writer is counted; a miss in either leaves every caller parked *)
(* in cond_wait.                                                          *)
NoLostWakeup ==
    (InState({"blocked_r", "blocked_w"}) # {})
        ~> (InState({"reading", "writing"}) # {})
==============================================================================
