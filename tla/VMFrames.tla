------------------------------ MODULE VMFrames ------------------------------
(***************************************************************************)
(* The virtual-memory layer of src/vm: the frame table with its clock      *)
(* eviction (frame.c), the supplemental page entries and page loading      *)
(* (page.c), the swap slots (swap.c), and the two callers of page.c that   *)
(* are in src: the read/write syscalls' buffer pinning (syscall.c) and     *)
(* process exit through page_exit.                                         *)
(*                                                                         *)
(* One thread per process.  Every page belongs to one process.  A step is  *)
(* the code between two blocking operations: lock_acquire is a guard on a *)
(* free lock, lock_try_acquire a test inside a step.  The eviction scan    *)
(* holds frame_lock across its steps, so other threads change pins,        *)
(* accessed bits and page locks between two frames of one scan.  Page      *)
(* contents are not modelled, only where a page is: in a frame, in a swap  *)
(* slot, or (for a file page never written) in its file.                   *)
(***************************************************************************)
EXTENDS Naturals, SequencesExt

CONSTANTS
    Procs,      \* processes (one thread each)
    Pages,      \* user pages of all processes
    Owner,      \* Owner[p]: the process whose page table holds p
    FilePages,  \* pages backed by an executable (page->file != NULL)
    Writable,   \* pages mapped writable
    Kaddrs,     \* the user pool: palloc_get_page(PAL_USER) hands these out
    NSwap,      \* swap slots (bitmap bits); slots are 0 .. NSwap-1
    NoPage, NoFrame, None, End, Dangling

ASSUME Owner \in [Pages -> Procs] /\ FilePages \cup Writable \subseteq Pages

Slots == 0 .. NSwap - 1
NoSlot == NSwap     \* BLOCK_SECTOR_NULL

VARIABLES
    table,      \* frame_table: the kaddrs of the frames, in list order
    allocated,  \* kaddrs palloc has handed out
    fpage,      \* frame->page
    flock,      \* holder of frame->lock
    frame_lock, \* holder of frame_lock
    hand,       \* last_frame: a kaddr, End (NULL/list_end) or Dangling
    live,       \* pages in their owner's supplemental table
    pframe,     \* page->frame
    pd,         \* the owner's pagedir maps the page (present)
    accessed, dirty,   \* the pagedir's bits for the page
    pinned, swapped, slot,
    plock,      \* holder of page->lock
    swapUsed,   \* set bits of swap_map
    loc,        \* per thread: pc and the locals of the call it is in
    crash       \* "none", or how the kernel died

vars == <<table, allocated, fpage, flock, frame_lock, hand, live, pframe, pd,
          accessed, dirty, pinned, swapped, slot, plock, swapUsed, loc, crash>>
frameVars == <<table, allocated, fpage, flock, frame_lock, hand>>
pageVars == <<live, pframe, pd, accessed, dirty, pinned, swapped, slot, plock>>

PCs == {"idle", "fault_lock", "alloc", "push", "evict_lock", "scan", "evict1",
        "evict2", "setpage", "mapfail", "load", "shortfree", "swapreset",
        "swapdone", "sys_pin", "sys_io", "sys_unpin", "exit_next",
        "exit_lock", "exit_free", "dead"}

Idle == [pc |-> "idle", cur |-> NoPage, ret |-> "idle", e |-> 1,
         frm |-> NoFrame, vic |-> NoPage, isdirty |-> FALSE, left |-> {}]

(* frame_init, swap_init, and pages already in each supplemental table    *)
(* (page_init leaves them unloaded, unpinned, not swapped).               *)
Init ==
    /\ table = <<>> /\ allocated = {}
    /\ fpage = [k \in Kaddrs |-> NoPage] /\ flock = [k \in Kaddrs |-> None]
    /\ frame_lock = None /\ hand = End
    /\ live = [p \in Pages |-> TRUE] /\ pframe = [p \in Pages |-> NoFrame]
    /\ pd = [p \in Pages |-> FALSE]
    /\ accessed = [p \in Pages |-> FALSE] /\ dirty = [p \in Pages |-> FALSE]
    /\ pinned = [p \in Pages |-> FALSE] /\ swapped = [p \in Pages |-> FALSE]
    /\ slot = [p \in Pages |-> NoSlot] /\ plock = [p \in Pages |-> None]
    /\ swapUsed = {}
    /\ loc = [t \in Procs |-> Idle]
    /\ crash = "none"

Goto(t, pc) == loc' = [loc EXCEPT ![t].pc = pc]

(* A user access by the owner to a present page: the MMU sets accessed,   *)
(* and dirty on a store to a writable page.                               *)
Touch(t, p) ==
    /\ loc[t].pc = "idle" /\ Owner[p] = t /\ live[p] /\ pd[p]
    /\ accessed' = [accessed EXCEPT ![p] = TRUE]
    /\ \E store \in BOOLEAN :
          dirty' = [dirty EXCEPT ![p] = @ \/ (store /\ p \in Writable)]
    /\ UNCHANGED <<frameVars, live, pframe, pd, pinned, swapped, slot, plock,
                   swapUsed, loc, crash>>

(* page_load entered from a fault on a page that is not present; it       *)
(* returns to ret.                                                        *)
StartLoad(t, p, ret) ==
    loc' = [loc EXCEPT ![t] = [Idle EXCEPT !.pc = "fault_lock", !.cur = p,
                                           !.ret = ret]]

Fault(t, p) ==
    /\ loc[t].pc = "idle" /\ Owner[p] = t /\ live[p] /\ ~pd[p]
    /\ StartLoad(t, p, "idle")
    /\ UNCHANGED <<frameVars, pageVars, swapUsed, crash>>

(* lock_acquire(&p->lock) by t: wait while another thread holds it; if  *)
(* t still holds it (a page_load that returned false keeps it), Pintos'   *)
(* ASSERT (!lock_held_by_current_thread (lock)) stops the kernel.         *)
Relock(t, p) ==
    /\ plock[p] = t
    /\ crash' = "relock"
    /\ UNCHANGED <<frameVars, pageVars, swapUsed, loc>>

(* page_load: lock_acquire(&p->lock). *)
LoadLock(t) ==
    /\ loc[t].pc = "fault_lock"
    /\ \/ /\ plock[loc[t].cur] = None
          /\ plock' = [plock EXCEPT ![loc[t].cur] = t]
          /\ Goto(t, "alloc")
          /\ UNCHANGED <<frameVars, live, pframe, pd, accessed, dirty, pinned,
                         swapped, slot, swapUsed, crash>>
       \/ Relock(t, loc[t].cur)

(* frame_get_frame: palloc_get_page(PAL_USER); on failure, eviction. *)
Palloc(t) ==
    /\ loc[t].pc = "alloc"
    /\ IF Kaddrs \ allocated # {}
       THEN \E k \in Kaddrs \ allocated :
              /\ allocated' = allocated \cup {k}
              /\ loc' = [loc EXCEPT ![t].pc = "push", ![t].frm = k]
       ELSE Goto(t, "evict_lock") /\ UNCHANGED allocated
    /\ UNCHANGED <<table, fpage, flock, frame_lock, hand, pageVars, swapUsed,
                   crash>>

(* frame_init_frame: a frame with page = NULL, pushed under frame_lock. *)
PushFrame(t) ==
    /\ loc[t].pc = "push" /\ frame_lock = None
    /\ table' = Append(table, loc[t].frm)
    /\ fpage' = [fpage EXCEPT ![loc[t].frm] = NoPage]
    /\ flock' = [flock EXCEPT ![loc[t].frm] = None]
    /\ Goto(t, "setpage")
    /\ UNCHANGED <<allocated, frame_lock, hand, pageVars, swapUsed, crash>>

(* frame_get_evicted_frame: lock_acquire(&frame_lock), then start at      *)
(* last_frame, or at list_front when it is NULL or list_end.  list_front  *)
(* of an empty list fails its ASSERT; a last_frame whose frame was freed  *)
(* is a use after free.                                                   *)
EvictLock(t) ==
    /\ loc[t].pc = "evict_lock" /\ frame_lock = None
    /\ frame_lock' = t
    /\ CASE hand = Dangling -> crash' = "dangling_hand" /\ UNCHANGED loc
         [] table = <<>> -> crash' = "empty_table" /\ UNCHANGED loc
         [] hand = End -> loc' = [loc EXCEPT ![t].pc = "scan", ![t].e = 1]
                          /\ UNCHANGED crash
         [] OTHER -> loc' = [loc EXCEPT ![t].pc = "scan",
                        ![t].e = SelectInSeq(table, LAMBDA k : k = hand)]
                     /\ UNCHANGED crash
    /\ UNCHANGED <<table, allocated, fpage, flock, hand, pageVars, swapUsed>>

(* The for loop's step to the next frame, and the wrap to list_front at   *)
(* the end of the list (the while loop).                                  *)
NextIndex(e) == IF e = Len(table) THEN 1 ELSE e + 1

(* A frame the scan passes over: what lock_try_acquire took is released. *)
ScanSkip(t) ==
    /\ loc' = [loc EXCEPT ![t].e = NextIndex(loc[t].e)]
    /\ UNCHANGED <<flock, plock, hand, frame_lock, crash>>

(* The victim: both locks stay held, last_frame = list_next(e), and       *)
(* frame_lock is released.                                                *)
ScanFound(t, f, p) ==
    /\ loc' = [loc EXCEPT ![t].pc = "evict1", ![t].frm = f, ![t].vic = p]
    /\ flock' = [flock EXCEPT ![f] = t]
    /\ plock' = [plock EXCEPT ![p] = t]
    /\ hand' = IF loc[t].e = Len(table) THEN End ELSE table[loc[t].e + 1]
    /\ frame_lock' = None
    /\ UNCHANGED crash

(* One frame of the clock scan, with frame_lock held: lock_try_acquire of *)
(* the frame, then of its page (a NULL page faults), then the pinned and  *)
(* accessed tests; a failed test releases what it took and moves on.      *)
Scan(t) ==
    /\ loc[t].pc = "scan"
    /\ LET f == table[loc[t].e]
           p == fpage[f]
       IN  CASE flock[f] # None -> ScanSkip(t) /\ UNCHANGED accessed
             [] p = NoPage ->
                  /\ crash' = "null_page"
                  /\ UNCHANGED <<loc, flock, plock, hand, frame_lock, accessed>>
             [] plock[p] # None \/ pinned[p] -> ScanSkip(t) /\ UNCHANGED accessed
             [] accessed[p] ->
                  ScanSkip(t) /\ accessed' = [accessed EXCEPT ![p] = FALSE]
             [] OTHER -> ScanFound(t, f, p) /\ UNCHANGED accessed
    /\ UNCHANGED <<table, allocated, fpage, live, pframe, pd, dirty, pinned,
                   swapped, slot, swapUsed>>

(* frame_get_frame after the victim is chosen: read its dirty bit, unmap  *)
(* it, pin it.                                                            *)
Evict1(t) ==
    /\ loc[t].pc = "evict1"
    /\ LET v == loc[t].vic
       IN  /\ loc' = [loc EXCEPT ![t].pc = "evict2", ![t].isdirty = dirty[v]]
           /\ pd' = [pd EXCEPT ![v] = FALSE]
           /\ pinned' = [pinned EXCEPT ![v] = TRUE]
    /\ UNCHANGED <<frameVars, live, pframe, accessed, dirty, swapped, slot,
                   plock, swapUsed, crash>>

(* Whether frame_get_frame writes the victim to swap: a VM_BIN page only  *)
(* when dirty or writable, a VM_ANON page always.                         *)
NeedsSwap(v, isdirty) == v \in FilePages => (isdirty \/ v \in Writable)

(* Mutant: the scan result is off by one bit. *)
SwapSlotOffByOne == Min(Slots \ swapUsed) + 1

(* swap_out's bitmap_scan_and_flip(swap_map, 0, 1, false): the lowest     *)
(* free slot.                                                             *)
SwapSlot == Min(Slots \ swapUsed)

\* Mutant of SwapOut: bitmap_scan instead of bitmap_scan_and_flip.
SwapOutNoFlip(v, out) ==
    /\ UNCHANGED swapUsed
    /\ slot' = IF out THEN [slot EXCEPT ![v] = SwapSlot] ELSE slot
    /\ swapped' = IF out THEN [swapped EXCEPT ![v] = TRUE] ELSE swapped

(* swap_out(kaddr) for victim v when out: the slot is flipped in swap_map *)
(* under swap_lock and written; frame_get_frame then sets p->swap_id and  *)
(* p->swapped.                                                             *)
SwapOut(v, out) ==
    /\ swapUsed' = IF out THEN swapUsed \cup {SwapSlot} ELSE swapUsed
    /\ slot' = IF out THEN [slot EXCEPT ![v] = SwapSlot] ELSE slot
    /\ swapped' = IF out THEN [swapped EXCEPT ![v] = TRUE] ELSE swapped

(* swap_out: bitmap_scan_and_flip takes the lowest free slot; PANIC when  *)
(* there is none.  Then the victim is unlinked from the frame, unpinned,  *)
(* and both locks are released.                                           *)
Evict2(t) ==
    /\ loc[t].pc = "evict2"
    /\ LET v == loc[t].vic
           f == loc[t].frm
           out == NeedsSwap(v, loc[t].isdirty)
       IN  IF out /\ swapUsed = Slots
           THEN crash' = "swap_full" /\ UNCHANGED <<frameVars, pageVars,
                                                    swapUsed, loc>>
           ELSE /\ SwapOut(v, out)
                /\ pframe' = [pframe EXCEPT ![v] = NoFrame]
                /\ fpage' = [fpage EXCEPT ![f] = NoPage]
                /\ pinned' = [pinned EXCEPT ![v] = FALSE]
                /\ flock' = [flock EXCEPT ![f] = None]
                /\ plock' = [plock EXCEPT ![v] = None]
                /\ Goto(t, "setpage")
                /\ UNCHANGED <<table, allocated, frame_lock, hand, live, pd,
                               accessed, dirty, crash>>

(* Mutant: the frame is freed but left in frame_table. *)
FrameFreeKeepsEntry(f) ==
    /\ UNCHANGED table
    /\ allocated' = allocated \ {f}
    /\ fpage' = [fpage EXCEPT ![f] = NoPage]
    /\ hand' = IF hand = f THEN Dangling ELSE hand

(* frame_free_frame's body: list_remove if the frame is in frame_table,   *)
(* palloc_free_page, free(entry); last_frame may still point at it.       *)
FrameFree(f) ==
    /\ table' = Remove(table, f)
    /\ allocated' = allocated \ {f}
    /\ fpage' = [fpage EXCEPT ![f] = NoPage]
    /\ hand' = IF hand = f THEN Dangling ELSE hand

(* page_load once frame_get_frame has returned (it never returns NULL:   *)
(* the eviction loops until it finds a victim): p->frame and              *)
(* p->frame->page are linked, then pagedir_set_page, which fails when no  *)
(* kernel page is left for a page table.  On success the page is mapped  *)
(* and pagedir_set_accessed marks it.                                     *)
SetPage(t) ==
    /\ loc[t].pc = "setpage"
    /\ LET p == loc[t].cur
           f == loc[t].frm
       IN  /\ pframe' = [pframe EXCEPT ![p] = f]
           /\ fpage' = [fpage EXCEPT ![f] = p]
           /\ \/ /\ pd' = [pd EXCEPT ![p] = TRUE]
                 /\ accessed' = [accessed EXCEPT ![p] = TRUE]
                 /\ dirty' = [dirty EXCEPT ![p] = FALSE]
                 /\ Goto(t, "load")
              \/ /\ Goto(t, "mapfail")
                 /\ UNCHANGED <<pd, accessed, dirty>>
    /\ UNCHANGED <<table, allocated, flock, frame_lock, hand, live, pinned,
                   swapped, slot, plock, swapUsed, crash>>

(* frame_free_frame(f) for page p: lock_acquire(&frame_lock) and          *)
(* lock_acquire(&entry->lock), unlink and free, p->frame = NULL.          *)
FreeOwnFrame(t, next, keepLock) ==
    LET p == loc[t].cur
        f == pframe[p]
    IN  /\ frame_lock = None /\ flock[f] = None
        /\ FrameFree(f)
        /\ pframe' = [pframe EXCEPT ![p] = NoFrame]
        /\ plock' = IF keepLock THEN plock ELSE [plock EXCEPT ![p] = None]
        /\ Goto(t, next)
        /\ UNCHANGED <<flock, frame_lock, live, pd, accessed, dirty, pinned,
                       swapped, slot, swapUsed, crash>>

(* pagedir_set_page failed: frame_free_frame, then "return false" with    *)
(* p->lock still held.  The syscall path ignores the result.              *)
MapFail(t) ==
    /\ loc[t].pc = "mapfail"
    /\ FreeOwnFrame(t, loc[t].ret, TRUE)

(* Loading the data.  Swapped: swap_in's block_read into the frame (the  *)
(* frame_io semaphore only serialises the I/O).  A file page:             *)
(* page_load_file's file_read_at returns the bytes asked for, or fewer   *)
(* when the segment runs past the end of the file; then the frame is     *)
(* freed while the page stays mapped.  Otherwise page_load_zero.  The     *)
(* complete loads end with lock_release(&p->lock).                       *)
LoadData(t) ==
    /\ loc[t].pc = "load"
    /\ LET p == loc[t].cur IN
       \/ /\ swapped[p]
          /\ Goto(t, "swapreset")
          /\ UNCHANGED plock
       \/ /\ ~swapped[p] /\ p \in FilePages
          /\ Goto(t, "shortfree")
          /\ UNCHANGED plock
       \/ /\ ~swapped[p]
          /\ plock' = [plock EXCEPT ![p] = None]
          /\ Goto(t, loc[t].ret)
    /\ UNCHANGED <<frameVars, live, pframe, pd, accessed, dirty, pinned,
                   swapped, slot, swapUsed, crash>>

(* page_load_file's short read: frame_free_frame(p->frame),               *)
(* p->frame = NULL, return; page_load releases p->lock and returns true   *)
(* with the page still mapped to the freed kaddr.                         *)
ShortFree(t) ==
    /\ loc[t].pc = "shortfree"
    /\ FreeOwnFrame(t, loc[t].ret, FALSE)

(* swap_in's bitmap_reset(swap_map, swap_id), after the read, without     *)
(* swap_lock.                                                             *)
SwapReset(t) ==
    /\ loc[t].pc = "swapreset"
    /\ swapUsed' = swapUsed \ {slot[loc[t].cur]}
    /\ Goto(t, "swapdone")
    /\ UNCHANGED <<frameVars, pageVars, crash>>

(* p->swapped = false, p->swap_id = BLOCK_SECTOR_NULL, lock_release.     *)
SwapDone(t) ==
    /\ loc[t].pc = "swapdone"
    /\ LET p == loc[t].cur IN
       /\ swapped' = [swapped EXCEPT ![p] = FALSE]
       /\ slot' = [slot EXCEPT ![p] = NoSlot]
       /\ plock' = [plock EXCEPT ![p] = None]
    /\ Goto(t, loc[t].ret)
    /\ UNCHANGED <<frameVars, live, pframe, pd, accessed, dirty, pinned,
                   swapUsed, crash>>

(* page_exit via exit: destroy the caller's pages one by one.             *)
StartExit(t) ==
    loc' = [loc EXCEPT ![t] = [Idle EXCEPT !.pc = "exit_next",
                !.left = {p \in Pages : Owner[p] = t /\ live[p]}]]

(* SYS_READ / SYS_WRITE with a one-page buffer p: page_load_buffer_pages  *)
(* (exit(-1) if a read targets a read-only page; page_load if the page is *)
(* not mapped), then page_pin_pages(true).                                *)
SysStart(t, p) ==
    /\ loc[t].pc = "idle" /\ Owner[p] = t /\ live[p]
    /\ \E isRead \in BOOLEAN :
          CASE isRead /\ p \notin Writable -> StartExit(t)
            [] pd[p] -> loc' = [loc EXCEPT ![t] = [Idle EXCEPT !.pc = "sys_pin",
                                                              !.cur = p]]
            [] OTHER -> StartLoad(t, p, "sys_pin")
    /\ UNCHANGED <<frameVars, pageVars, swapUsed, crash>>

(* page_pin_pages(buffer, size, true): no page lock taken. *)
SysPin(t) ==
    /\ loc[t].pc = "sys_pin"
    /\ pinned' = [pinned EXCEPT ![loc[t].cur] = TRUE]
    /\ Goto(t, "sys_io")
    /\ UNCHANGED <<frameVars, live, pframe, pd, accessed, dirty, swapped, slot,
                   plock, swapUsed, crash>>

(* read or write moves the bytes through the buffer's user address. *)
SysIO(t) ==
    /\ loc[t].pc = "sys_io"
    /\ accessed' = [accessed EXCEPT ![loc[t].cur] = @ \/ pd[loc[t].cur]]
    /\ Goto(t, "sys_unpin")
    /\ UNCHANGED <<frameVars, live, pframe, pd, dirty, pinned, swapped, slot,
                   plock, swapUsed, crash>>

(* page_pin_pages(buffer, size, false). *)
SysUnpin(t) ==
    /\ loc[t].pc = "sys_unpin"
    /\ pinned' = [pinned EXCEPT ![loc[t].cur] = FALSE]
    /\ Goto(t, "idle")
    /\ UNCHANGED <<frameVars, live, pframe, pd, accessed, dirty, swapped, slot,
                   plock, swapUsed, crash>>

Exit(t) ==
    /\ loc[t].pc = "idle"
    /\ StartExit(t)
    /\ UNCHANGED <<frameVars, pageVars, swapUsed, crash>>

(* hash_destroy: page_destroy on each remaining page, in hash order. *)
ExitNext(t) ==
    /\ loc[t].pc = "exit_next"
    /\ IF loc[t].left = {}
       THEN Goto(t, "dead")
       ELSE \E p \in loc[t].left :
              loc' = [loc EXCEPT ![t].pc = "exit_lock", ![t].cur = p,
                                 ![t].left = @ \ {p}]
    /\ UNCHANGED <<frameVars, pageVars, swapUsed, crash>>

(* page_destroy: lock_acquire(&p->lock), never released since p is freed. *)
(* Without a frame it unmaps and frees the page; its swap slot, if any,   *)
(* stays set in swap_map.                                                 *)
ExitLock(t) ==
    /\ loc[t].pc = "exit_lock"
    /\ LET p == loc[t].cur
       IN  \/ /\ plock[p] = None
              /\ plock' = [plock EXCEPT ![p] = t]
              /\ IF pframe[p] # NoFrame
                 THEN Goto(t, "exit_free") /\ UNCHANGED <<pd, live>>
                 ELSE /\ pd' = [pd EXCEPT ![p] = FALSE]
                      /\ live' = [live EXCEPT ![p] = FALSE]
                      /\ Goto(t, "exit_next")
              /\ UNCHANGED <<frameVars, pframe, accessed, dirty, pinned, swapped,
                             slot, swapUsed, crash>>
           \/ Relock(t, p)

(* frame_free_frame under frame_lock and the frame's lock: unlink the     *)
(* frame, palloc_free_page, page->frame = NULL, free the frame (last_frame *)
(* is not updated); then page_destroy unmaps and frees the page.          *)
ExitFree(t) ==
    /\ loc[t].pc = "exit_free"
    /\ LET p == loc[t].cur
           f == pframe[p]
       IN  /\ frame_lock = None /\ flock[f] = None
           /\ FrameFree(f)
           /\ pframe' = [pframe EXCEPT ![p] = NoFrame]
           /\ pd' = [pd EXCEPT ![p] = FALSE]
           /\ live' = [live EXCEPT ![p] = FALSE]
    /\ Goto(t, "exit_next")
    /\ UNCHANGED <<flock, frame_lock, accessed, dirty, pinned, swapped, slot,
                   plock, swapUsed, crash>>

Next ==
    /\ crash = "none"
    /\ \E t \in Procs :
          \/ \E p \in Pages : Touch(t, p) \/ Fault(t, p) \/ SysStart(t, p)
          \/ LoadLock(t) \/ Palloc(t) \/ PushFrame(t) \/ EvictLock(t)
          \/ Scan(t) \/ Evict1(t) \/ Evict2(t) \/ SetPage(t) \/ MapFail(t)
          \/ LoadData(t) \/ ShortFree(t) \/ SwapReset(t) \/ SwapDone(t)
          \/ SysPin(t) \/ SysIO(t) \/ SysUnpin(t)
          \/ Exit(t) \/ ExitNext(t) \/ ExitLock(t) \/ ExitFree(t)

Spec == Init /\ [][Next]_vars

(***************************************************************************)
(* Properties                                                              *)
(***************************************************************************)
Holders == Procs \cup {None}

TypeOK ==
    /\ table \in Seq(Kaddrs) /\ allocated \subseteq Kaddrs
    /\ fpage \in [Kaddrs -> Pages \cup {NoPage}]
    /\ flock \in [Kaddrs -> Holders] /\ frame_lock \in Holders
    /\ hand \in Kaddrs \cup {End, Dangling}
    /\ pframe \in [Pages -> Kaddrs \cup {NoFrame}]
    /\ slot \in [Pages -> Slots \cup {NoSlot}] /\ swapUsed \subseteq Slots
    /\ plock \in [Pages -> Holders]
    /\ \A t \in Procs : loc[t].pc \in PCs /\ loc[t].e \in 1 .. Cardinality(Kaddrs)

(* Frames and pages point at each other: a live page's frame is in        *)
(* frame_table and names it back, a frame in the table names a live page  *)
(* or none, and no kaddr is in the table twice.  frame_get_frame hands a  *)
(* victim's frame to another page between two lock releases, and          *)
(* page_destroy, a failed pagedir_set_page and a short file read free     *)
(* frames while scans run, so a missed reset leaves two pages on a frame. *)
FrameOwnership ==
    /\ \A i, j \in DOMAIN table : i # j => table[i] # table[j]
    /\ ToSet(table) \subseteq allocated
    /\ \A p \in Pages :
          live[p] /\ pframe[p] # NoFrame =>
              pframe[p] \in ToSet(table) /\ fpage[pframe[p]] = p
    /\ \A k \in ToSet(table) :
          fpage[k] # NoPage => live[fpage[k]] /\ pframe[fpage[k]] = k

(* A page whose contents exist only in swap: swapped out, and no page_load *)
(* of it has finished swap_in's block_read.                                *)
InSwap(p) ==
    /\ live[p] /\ swapped[p]
    /\ ~\E t \in Procs : loc[t].cur = p /\ loc[t].pc \in {"swapreset", "swapdone"}

(* The swap slot of a page whose only copy is in swap is set in swap_map *)
(* and holds no other such page.  swap_out flips a slot in one thread     *)
(* while swap_in resets one in another, outside swap_lock, and page_load *)
(* clears p->swapped only after the reset.                               *)
SwapSlotsExclusive ==
    \A p \in Pages : InSwap(p) =>
        /\ slot[p] \in swapUsed
        /\ \A q \in Pages \ {p} : InSwap(q) => slot[q] # slot[p]

(* The eviction path never faults: frame_get_evicted_frame does not start *)
(* from a freed last_frame, does not call list_front on an empty table,   *)
(* and does not dereference a frame whose page is still NULL.             *)
NoEvictionFault == crash \in {"none", "swap_full", "relock"}
==============================================================================
