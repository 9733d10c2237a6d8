------------------------------ MODULE FileSys ------------------------------
(***************************************************************************)
(* The file-system front end and the references it holds: path lookup and *)
(* filesys_create/open/remove (src/src/filesys/filesys.c), the open-inode *)
(* table with its open counts (inode_open, inode_reopen, inode_close,     *)
(* inode_remove in inode.c), and the syscalls create, mkdir, open, close, *)
(* remove and chdir with each process's fd table and working directory    *)
(* (src/src/userprog/syscall.c).                                           *)
(*                                                                         *)
(* Every one of these syscalls runs under filesys_lock, so each is one    *)
(* step.  A file is its inode sector: the index behind it is InodeIndex's *)
(* business, and the directory layer (directory.c, file.c) is not in src: *)
(* dir_* and file_* are modelled from the Pintos interface they implement *)
(* and only through the references they take and drop.                    *)
(*                                                                         *)
(* A held reference (an fd's struct file, a cwd's struct dir) names an    *)
(* inode sector and whether the in-memory inode it points to is still     *)
(* allocated: when an inode's open_cnt reaches 0 inode_close frees it,    *)
(* and every reference the count did not include is left dangling.       *)
(***************************************************************************)
EXTENDS Naturals, FiniteSets, Sequences

CONSTANTS
    Procs,         \* user processes (one thread each)
    Names,         \* file names used in paths
    Inos,          \* inode sectors, ROOT_DIR_SECTOR among them
    Root,          \* ROOT_DIR_SECTOR
    Fds,           \* fd slots 2 .. MAX_OPEN_FILES - 1 of a fd_table
    Paths,         \* path arguments: [abs: BOOLEAN, comps: Seq(Names)]
    MaxOpenCnt,    \* bound on an inode's open_cnt
    None,          \* model value: no directory entry / NULL pointer
    NoFile         \* model value: fd_table[fd] == NULL

ASSUME Root \in Inos

Handle == [ino: Inos, live: BOOLEAN]

VARIABLES
    dirents,    \* dirents[d][n]: the inode sector of entry n of directory d
    isDir,      \* inodes created as directories
    used,       \* inode sectors the free map has set
    cnt,        \* open_cnt of the in-memory inode of a sector (0: none)
    removed,    \* in-memory inodes marked by inode_remove
    fdt,        \* fdt[p][fd]: the file an fd of p holds, or NoFile
    cwd,        \* cwd[p]: the working directory of p, or None
    crash       \* "none", or how the kernel died

vars == <<dirents, isDir, used, cnt, removed, fdt, cwd, crash>>

NoEntries == [n \in Names |-> None]

(* filesys_init with do_format: an empty root directory. *)
Init ==
    /\ dirents = [d \in Inos |-> NoEntries]
    /\ isDir = {Root}
    /\ used = {Root}
    /\ cnt = [s \in Inos |-> 0]
    /\ removed = {}
    /\ fdt = [p \in Procs |-> [fd \in Fds |-> NoFile]]
    /\ cwd = [p \in Procs |-> None]
    /\ crash = "none"

-----------------------------------------------------------------------------
(* One syscall threads st = [cnt, removed, used, freed, uaf] through the  *)
(* inode calls it makes; freed collects the inodes whose memory it frees. *)
Start == [cnt |-> cnt, removed |-> removed, used |-> used, freed |-> {},
          uaf |-> FALSE]

(* inode_open: reuse the inode of open_inodes and count one more opener,  *)
(* or read a fresh one with open_cnt 1 and removed false.                 *)
InodeOpen(st, s) ==
    IF st.cnt[s] > 0 THEN [st EXCEPT !.cnt[s] = @ + 1]
    ELSE [st EXCEPT !.cnt[s] = 1, !.removed = @ \ {s}]

(* Mutants of inode_close: a removed sector released by any closer, not  *)
(* only the last; an open_cnt decremented without looking at it.         *)
InodeCloseReleasesEarly(st, s) ==
    CASE st.cnt[s] = 0 -> [st EXCEPT !.uaf = TRUE]
      [] st.cnt[s] = 1 ->
            [st EXCEPT !.cnt[s] = 0, !.freed = @ \cup {s},
                       !.used = IF s \in st.removed THEN @ \ {s} ELSE @,
                       !.removed = @ \ {s}]
      [] OTHER -> [st EXCEPT !.cnt[s] = @ - 1,
                       !.used = IF s \in st.removed THEN @ \ {s} ELSE @]

InodeCloseNoCheck(st, s) ==
    IF st.cnt[s] = 1
    THEN [st EXCEPT !.cnt[s] = 0, !.freed = @ \cup {s},
                    !.used = IF s \in st.removed THEN @ \ {s} ELSE @,
                    !.removed = @ \ {s}]
    ELSE [st EXCEPT !.cnt[s] = @ - 1]

(* inode_close: the last opener removes the inode from open_inodes,       *)
(* releases its sector if it was removed, and frees it.  Closing an inode *)
(* already freed decrements freed memory.                                 *)
InodeClose(st, s) ==
    CASE st.cnt[s] = 0 -> [st EXCEPT !.uaf = TRUE]
      [] st.cnt[s] = 1 ->
            [st EXCEPT !.cnt[s] = 0, !.freed = @ \cup {s},
                       !.used = IF s \in st.removed THEN @ \ {s} ELSE @,
                       !.removed = @ \ {s}]
      [] OTHER -> [st EXCEPT !.cnt[s] = @ - 1]

(* dir_close: close the directory's inode; dir_close(NULL) does nothing. *)
DirClose(st, d) == IF d = None THEN st ELSE InodeClose(st, d)

(* dir_lookup: an entry found is opened with inode_open. *)
Entry(d, n) == IF n \in Names THEN dirents[d][n] ELSE None

DirLookup(st, d, n) ==
    IF Entry(d, n) = None THEN [st |-> st, ino |-> None]
    ELSE [st |-> InodeOpen(st, Entry(d, n)), ino |-> Entry(d, n)]

(* The while loop of filesys_lookup, at the component i that next holds. *)
(* A component that is not found, or a file before the last component,   *)
(* ends the walk; a walk that would go on past it closes the directory   *)
(* and returns dir = NULL, with success as it was.                        *)
RECURSIVE Walk(_, _, _, _, _, _)
Walk(st, comps, d, i, succ, fin) ==
    IF i > Len(comps)
    THEN [st |-> st, dir |-> d, succ |-> succ,
          name |-> IF comps = <<>> THEN "" ELSE comps[Len(comps)]]
    ELSE IF fin
    THEN [st |-> DirClose(st, d), dir |-> None, succ |-> succ, name |-> ""]
    ELSE LET lk == DirLookup(st, d, comps[i]) IN
         IF lk.ino = None THEN Walk(st, comps, d, i + 1, FALSE, TRUE)
         ELSE IF i < Len(comps) /\ lk.ino \in isDir
         THEN Walk(DirClose(lk.st, d), comps, lk.ino, i + 1, succ, FALSE)
         ELSE Walk(InodeClose(lk.st, lk.ino), comps, d, i + 1, succ, TRUE)

(* filesys_lookup(path, &dir, filename) from process p: start at the root *)
(* (dir_open_root) for an absolute path or a NULL cwd, else at           *)
(* dir_reopen(cwd).                                                        *)
Lookup(p, path) ==
    LET fromRoot == path.abs \/ cwd[p] = None
        d0 == IF fromRoot THEN Root ELSE cwd[p].ino
        st0 == IF fromRoot \/ cwd[p].live THEN InodeOpen(Start, d0)
               ELSE [Start EXCEPT !.uaf = TRUE]
    IN  Walk(st0, path.comps, d0, 1, TRUE, FALSE)

-----------------------------------------------------------------------------
(* The end of a syscall: the open counts, removed marks and free map it   *)
(* left, and every reference to an inode it freed left dangling.  An     *)
(* inode call on freed memory stops the kernel.                           *)
Dangle(h, st) ==
    IF h \in Handle /\ h.ino \in st.freed THEN [h EXCEPT !.live = FALSE] ELSE h

DangledFdt(st) == [p \in Procs |-> [fd \in Fds |-> Dangle(fdt[p][fd], st)]]
DangledCwd(st) == [p \in Procs |-> Dangle(cwd[p], st)]

Commit(st) ==
    /\ \A s \in Inos : st.cnt[s] <= MaxOpenCnt
    /\ cnt' = st.cnt /\ removed' = st.removed /\ used' = st.used
    /\ crash' = IF st.uaf THEN "use_after_free" ELSE crash

(* Closing a held reference: file_close or dir_close of what it points to. *)
CloseHandle(st, h) ==
    CASE h \notin Handle -> st
      [] h.live -> InodeClose(st, h.ino)
      [] OTHER -> [st EXCEPT !.uaf = TRUE]

FirstOf(S) == CHOOSE x \in S : \A y \in S : x <= y

-----------------------------------------------------------------------------
(* open: filesys_open, then allocate_fd.  filesys_open returns NULL when  *)
(* the lookup failed or gave no directory, without dir_close(dir).  When  *)
(* the name is not in the directory it opens the directory's own inode    *)
(* (dir_get_inode), then dir_close(dir) and file_open(inode).  A file     *)
(* opened when fd_table is full is never closed.                          *)
Open(p, path) ==
    LET lk == Lookup(p, path)
        dl == DirLookup(lk.st, lk.dir, lk.name)
        ino == IF dl.ino = None THEN lk.dir ELSE dl.ino
        st == DirClose(dl.st, lk.dir)
        freeFds == {fd \in Fds : fdt[p][fd] = NoFile}
    IN
    IF ~lk.succ \/ lk.dir = None
    THEN /\ Commit(lk.st)
         /\ fdt' = DangledFdt(lk.st) /\ cwd' = DangledCwd(lk.st)
         /\ UNCHANGED <<dirents, isDir>>
    ELSE /\ Commit(st)
         /\ fdt' = IF freeFds = {} THEN DangledFdt(st)
                   ELSE [DangledFdt(st) EXCEPT ![p][FirstOf(freeFds)] =
                           [ino |-> ino, live |-> st.cnt[ino] > 0]]
         /\ cwd' = DangledCwd(st)
         /\ UNCHANGED <<dirents, isDir>>

(* close: close_openfile, file_close and fd_table[fd] = NULL. *)
Close(p, fd) ==
    LET st == CloseHandle(Start, fdt[p][fd]) IN
    /\ fdt[p][fd] # NoFile
    /\ Commit(st)
    /\ fdt' = [DangledFdt(st) EXCEPT ![p][fd] = NoFile]
    /\ cwd' = DangledCwd(st)
    /\ UNCHANGED <<dirents, isDir>>

(* filesize, isdir, inumber and readdir: get_file(fd), then a read of the *)
(* file's inode (inode_length, inode_is_dir, the sector, the directory   *)
(* data).  They change nothing the model keeps unless that inode was     *)
(* freed under the fd.                                                    *)
QueryFd(p, fd) ==
    /\ fdt[p][fd] # NoFile
    /\ crash' = IF fdt[p][fd].live THEN crash ELSE "use_after_free"
    /\ UNCHANGED <<dirents, isDir, used, cnt, removed, fdt, cwd>>

(* create and mkdir: filesys_create.  For a name not found it chains      *)
(* free_map_allocate, inode_create (a file's initial size may not fit:    *)
(* createOk) and dir_add (which may fail: addOk), releases the inode     *)
(* sector if it got one and a later call failed, and closes the dir.     *)
Create(p, path, isdir) ==
    LET lk == Lookup(p, path)
        fr == Inos \ lk.st.used
        sec == FirstOf(fr)
        st == DirClose(lk.st, lk.dir)
    IN
    \E createOk \in BOOLEAN, addOk \in BOOLEAN :
        /\ isdir => createOk
        /\ IF ~lk.succ /\ lk.dir # None /\ fr # {} /\ createOk /\ addOk
           THEN /\ Commit([st EXCEPT !.used = @ \cup {sec}])
                /\ dirents' = [dirents EXCEPT ![lk.dir][lk.name] = sec,
                                              ![sec] = NoEntries]
                /\ isDir' = IF isdir THEN isDir \cup {sec} ELSE isDir \ {sec}
           ELSE /\ Commit(st)
                /\ UNCHANGED <<dirents, isDir>>
        /\ fdt' = DangledFdt(st) /\ cwd' = DangledCwd(st)

(* remove: filesys_remove, dir_remove and dir_close.  dir_remove opens   *)
(* the entry's inode, refuses a directory that is open elsewhere         *)
(* (inode_get_open_cnt > 1) or not empty, otherwise erases the entry and *)
(* calls inode_remove, and closes the inode.                              *)
(* Mutant: dir_remove without the inode_get_open_cnt check. *)
DirRemoveRefusedNoCount(st, e) ==
    e \in isDir /\ dirents[e] # NoEntries

DirRemoveRefused(st, e) ==
    e \in isDir /\ (st.cnt[e] > 1 \/ dirents[e] # NoEntries)

Remove(p, path) ==
    LET lk == Lookup(p, path)
        e == IF lk.dir = None THEN None ELSE Entry(lk.dir, lk.name)
        st1 == InodeOpen(lk.st, e)
        ok == e # None /\ ~DirRemoveRefused(st1, e)
        st2 == IF e = None THEN lk.st
               ELSE IF ok THEN InodeClose([st1 EXCEPT !.removed = @ \cup {e}], e)
               ELSE InodeClose(st1, e)
        st == DirClose(st2, lk.dir)
    IN
    /\ Commit(st)
    /\ dirents' = IF ok THEN [dirents EXCEPT ![lk.dir][lk.name] = None]
                  ELSE dirents
    /\ fdt' = DangledFdt(st) /\ cwd' = DangledCwd(st)
    /\ UNCHANGED isDir

(* chdir: "/" closes the cwd and opens the root.  Otherwise               *)
(* filesys_lookup, dir_lookup(new_dir, filename) (dir_lookup ASSERTs a    *)
(* non-NULL dir), dir_close(new_dir), and for a directory dir_close(cwd)  *)
(* and cwd = dir_open(inode); an inode that is not a directory stays open.*)
Chdir(p, path) ==
    IF path.abs /\ path.comps = <<>>
    THEN LET st == InodeOpen(CloseHandle(Start, cwd[p]), Root) IN
         /\ Commit(st)
         /\ cwd' = [DangledCwd(st) EXCEPT ![p] = [ino |-> Root, live |-> TRUE]]
         /\ fdt' = DangledFdt(st)
         /\ UNCHANGED <<dirents, isDir>>
    ELSE LET lk == Lookup(p, path)
             dl == IF lk.succ THEN DirLookup(lk.st, lk.dir, lk.name)
                   ELSE [st |-> lk.st, ino |-> None]
             st1 == DirClose(dl.st, lk.dir)
             into == dl.ino # None /\ dl.ino \in isDir
             st == IF into THEN CloseHandle(st1, cwd[p]) ELSE st1
         IN
         IF lk.succ /\ lk.dir = None
         THEN /\ crash' = "null_dir"
              /\ UNCHANGED <<dirents, isDir, used, cnt, removed, fdt, cwd>>
         ELSE /\ Commit(st)
              /\ cwd' = IF into
                        THEN [DangledCwd(st) EXCEPT ![p] = [ino |-> dl.ino,
                                                           live |-> TRUE]]
                        ELSE DangledCwd(st)
              /\ fdt' = DangledFdt(st)
              /\ UNCHANGED <<dirents, isDir>>

Next ==
    /\ crash = "none"
    /\ \E p \in Procs :
          \/ \E path \in Paths :
                Open(p, path) \/ Create(p, path, FALSE) \/ Create(p, path, TRUE)
                \/ Remove(p, path) \/ Chdir(p, path)
          \/ \E fd \in Fds : Close(p, fd) \/ QueryFd(p, fd)

Spec == Init /\ [][Next]_vars

-----------------------------------------------------------------------------
TypeOK ==
    /\ dirents \in [Inos -> [Names -> Inos \cup {None}]]
    /\ isDir \subseteq Inos /\ Root \in isDir
    /\ used \subseteq Inos /\ removed \subseteq Inos
    /\ cnt \in [Inos -> 0 .. MaxOpenCnt]
    /\ fdt \in [Procs -> [Fds -> Handle \cup {NoFile}]]
    /\ cwd \in [Procs -> Handle \cup {None}]
    /\ crash \in {"none", "use_after_free", "null_dir"}

(* Every inode something can still reach (an fd's file, a process's cwd,  *)
(* an entry of a live directory) keeps its sector in the free map:        *)
(* inode_close releases a removed inode's sectors only when the last of   *)
(* its openers, across processes and syscalls, closes it.                 *)
Held == {fdt[p][fd] : p \in Procs, fd \in Fds} \cup {cwd[p] : p \in Procs}

HeldAllocated ==
    /\ \A h \in Held \cap Handle : h.ino \in used
    /\ \A d \in used \cap isDir, n \in Names :
          dirents[d][n] # None => dirents[d][n] \in used

(* A directory that a process has open (as its cwd, or through an fd) is *)
(* never removed under it: dir_remove refuses a directory whose open_cnt *)
(* shows another opener, and an inode reopened after removal is read     *)
(* afresh.                                                                *)
OpenDirNotRemoved ==
    \A h \in Held \cap Handle :
        (h.live /\ h.ino \in isDir) => h.ino \notin removed

(* No syscall sequence makes the kernel use an inode that inode_close     *)
(* has freed: every reference a process keeps was counted in open_cnt.    *)
NoUseAfterFree == crash # "use_after_free"

=============================================================================
