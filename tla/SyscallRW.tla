------------------------------ MODULE SyscallRW ------------------------------
(***************************************************************************)
(* The read and write syscalls (src/userprog/syscall.c read/write) around *)
(* the global rw_lock of RWLock, with the length-extending part of         *)
(* inode_write_at (src/filesys/inode.c) inside the write: a write past    *)
(* EOF takes the inode's lock, grows the file, writes the inode back and   *)
(* releases the lock -- but when inode_growth fails it returns 0 still     *)
(* holding the lock.                                                       *)
(*                                                                         *)
(* One file, opened by every thread.  The data moved by a read or write    *)
(* and the layout of the growth are left out (InodeIndex models them);     *)
(* what remains is whether the write extends the file and whether the free *)
(* map still has a sector for the growth.                                  *)
(***************************************************************************)
EXTENDS RWLock

CONSTANTS
    FreeSectors,   \* sectors left in the free map at the start
    NoHolder       \* model value: inode->lock is free

VARIABLES
    body,       \* per thread: where it is in file_write once rw_lock is held
    ilock,      \* holder of inode->lock, or NoHolder
    space,      \* free sectors left for growth
    panicked    \* a kernel ASSERT failed; the machine has stopped

sysVars == <<body, ilock, space, panicked>>
vars == <<lockVars, sysVars>>

Bodies == {"start", "extend", "grow", "done"}

SysInit ==
    /\ Init
    /\ body = [t \in Threads |-> "start"]
    /\ ilock = NoHolder
    /\ space = FreeSectors
    /\ panicked = FALSE

(* read: rwlock_acquire_read, file_read, rwlock_release_read.  file_read  *)
(* takes no lock and changes no state this model keeps.                   *)
SysRead(t) ==
    /\ AcquireRead(t) \/ WakeRead(t) \/ ReleaseRead(t)
    /\ UNCHANGED sysVars

(* The "diff > 0" test of inode_write_at.  The offset and size of a      *)
(* write are fixed when the syscall is issued and rw_lock keeps other      *)
(* writers out, so whether the write extends the file is decided here,     *)
(* once.  A write that ends within the file (or returns early on           *)
(* deny_write_cnt) takes no inode lock and grows nothing.                  *)
WriteInPlace(t) ==
    /\ pc[t] = "writing" /\ body[t] = "start"
    /\ body' = [body EXCEPT ![t] = "done"]
    /\ UNCHANGED <<lockVars, ilock, space, panicked>>

WriteExtend(t) ==
    /\ pc[t] = "writing" /\ body[t] = "start"
    /\ body' = [body EXCEPT ![t] = "extend"]
    /\ UNCHANGED <<lockVars, ilock, space, panicked>>

(* inode_write_at, diff > 0 on a regular file: lock_acquire(&inode->lock). *)
(* Pintos' lock_acquire asserts the caller does not already hold the lock; *)
(* otherwise the thread blocks until the lock is free.                     *)
WriteLockInode(t) ==
    /\ pc[t] = "writing" /\ body[t] = "extend"
    /\ \/ /\ ilock = t
          /\ panicked' = TRUE
          /\ UNCHANGED <<body, ilock>>
       \/ /\ ilock = NoHolder
          /\ ilock' = t
          /\ body' = [body EXCEPT ![t] = "grow"]
          /\ UNCHANGED panicked
    /\ UNCHANGED <<lockVars, space>>

(* inode_write_at with the lock_release the failure path lacks; with it  *)
(* WriteCompletes holds.                                                  *)
WriteGrowReleasesOnFailure(t) ==
    /\ body[t] = "grow"
    /\ space' = IF space > 0 THEN space - 1 ELSE space
    /\ ilock' = NoHolder
    /\ body' = [body EXCEPT ![t] = "done"]
    /\ UNCHANGED <<lockVars, panicked>>

(* Mutant: growth takes a sector without checking the free map. *)
WriteGrowNoSpaceCheck(t) ==
    /\ body[t] = "grow"
    /\ space' = space - 1 /\ ilock' = NoHolder
    /\ body' = [body EXCEPT ![t] = "done"]
    /\ UNCHANGED <<lockVars, panicked>>

(* inode_growth, then either inode_write_data_to_disk and lock_release,  *)
(* or "return 0" with inode->lock still held when no sector is free.     *)
WriteGrow(t) ==
    /\ body[t] = "grow"
    /\ IF space > 0
       THEN space' = space - 1 /\ ilock' = NoHolder
       ELSE UNCHANGED <<space, ilock>>
    /\ body' = [body EXCEPT ![t] = "done"]
    /\ UNCHANGED <<lockVars, panicked>>

(* write: rwlock_release_write once file_write has returned. *)
WriteReturn(t) ==
    /\ body[t] = "done"
    /\ ReleaseWrite(t)
    /\ body' = [body EXCEPT ![t] = "start"]
    /\ UNCHANGED <<ilock, space, panicked>>

(* write: rwlock_acquire_write, up to holding the lock. *)
SysWriteEnter(t) ==
    /\ AcquireWrite(t) \/ WakeWrite(t)
    /\ UNCHANGED sysVars

WriteBody(t) ==
    \/ WriteInPlace(t) \/ WriteExtend(t)
    \/ WriteLockInode(t) \/ WriteGrow(t) \/ WriteReturn(t)

(* Steps of a thread inside rwlock_* that leave the file_write state be. *)
InCall(t) ==
    /\ WakeRead(t) \/ ReleaseRead(t) \/ WakeWrite(t)
    /\ UNCHANGED sysVars

SysNext ==
    /\ ~panicked
    /\ \E t \in Threads : SysRead(t) \/ SysWriteEnter(t) \/ WriteBody(t)

(* Once in a syscall a thread keeps running (weak fairness on everything  *)
(* but issuing the call).  Whether a write extends the file is its input, *)
(* not a scheduling decision: weak fairness makes the thread take one of  *)
(* WriteInPlace and WriteExtend, never the one that avoids a held lock.   *)
(* Only the write that owns rw_lock contends for inode->lock, so weak     *)
(* fairness is enough for lock_acquire too.                               *)
SysFairness ==
    \A t \in Threads :
        WF_vars(~panicked /\ (InCall(t) \/ WriteBody(t)))

SysSpec == SysInit /\ [][SysNext]_vars /\ SysFairness

(***************************************************************************)
(* Properties                                                              *)
(***************************************************************************)
SysTypeOK ==
    /\ TypeOK
    /\ body \in [Threads -> Bodies]
    /\ ilock \in Threads \cup {NoHolder}
    /\ space \in 0..FreeSectors

(* Every write syscall that has obtained rw_lock returns (its file_write  *)
(* finishes and rwlock_release_write runs) unless a kernel ASSERT stopped *)
(* the machine.  inode_write_at returns 0 on a failed inode_growth        *)
(* without lock_release(&inode->lock), so another thread's extending      *)
(* write blocks in lock_acquire for good while holding rw_lock.           *)
WriteCompletes ==
    \A t \in Threads : (pc[t] = "writing") ~> (pc[t] = "idle" \/ panicked)
==============================================================================
