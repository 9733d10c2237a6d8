---------------------------- MODULE BufferCache ----------------------------
(***************************************************************************)
(* The buffer cache of src/src/filesys/buffer_cache.c: a fixed array of   *)
(* BUFFER_CACHE_SIZE slots guarded by buffer_cache_lock, the clock        *)
(* eviction of buffer_cache_evict, the read-ahead ring consumed by the    *)
(* buffer_cache_read_ahead thread and the periodic buffer_cache_write_    *)
(* behind thread.  Sector contents are abstracted to elements of Values.  *)
(*                                                                         *)
(* Granularity.  Everything the code does while holding buffer_cache_lock *)
(* without waiting (lookup, a whole clock pass, the write-back and the    *)
(* device read of buffer_cache_load, the decrement and signal of          *)
(* buffer_cache_release) is one step.  The memcpy into a slot and the     *)
(* "entry->dirty = true" of buffer_cache_write run without the lock and   *)
(* are steps of their own.  The write-behind thread keeps the lock for    *)
(* its whole loop, so its per-slot steps exclude every other lock user    *)
(* but not an unlocked memcpy.                                            *)
(***************************************************************************)
EXTENDS Naturals, FiniteSets, Sequences

CONSTANTS
    Clients,     \* threads calling buffer_cache_read / buffer_cache_write
    Prefetcher,  \* the buffer_cache_read_ahead thread
    NSlots,      \* BUFFER_CACHE_SIZE (also the size of read_ahead_sectors)
    DevSize,     \* number of sectors of fs_device
    Values,      \* abstract sector contents
    WriteSectors, \* the sectors clients write (a subset of the device)
    InitVal,     \* the content every device sector starts with
    NULL         \* BLOCK_SECTOR_NULL

ASSUME /\ NSlots \in Nat \ {0}
       /\ DevSize \in Nat \ {0}
       /\ InitVal \in Values
       /\ WriteSectors \subseteq 0 .. (DevSize - 1)
       /\ Prefetcher \notin Clients

\* Sectors of fs_device; block_read/block_write of any other sector panics
\* in the block layer ("Access past end of device").
Sectors == 0 .. (DevSize - 1)
\* What a read-ahead request can name: sector + 1, or BLOCK_SECTOR_NULL.
RaValue == 1 .. DevSize \cup {NULL}
Slots == 1 .. NSlots
NoSlot == 0
RaIdx == 0 .. (NSlots - 1)
Actors == Clients \cup {Prefetcher}

VARIABLES
    slot,       \* buffer_cache[]: [sector, data, dirty, accessed, meta, used]
    disk,       \* contents of the device sectors
    latest,     \* history: last value memcpy'd into the cache per sector
    waitSet,    \* threads in cond_wait(&buffer_cache_available)
    pc,         \* program counter of every client and of the prefetcher
    op,         \* the call each actor is executing
    hold,       \* slot an actor has obtained from buffer_cache_load
    raSectors,  \* read_ahead_sectors[]
    raRmv,      \* read_ahead_rmv_idx
    raAdd,      \* read_ahead_add_idx
    raCnt,      \* read_ahead_cnt
    fpc,        \* write-behind thread: "sleep", "scan" or "clear"
    fi,         \* write-behind loop index i
    panicked,   \* a device access outside the device panicked the kernel
    power,      \* halt: "on", read-ahead "off", flushing ("scan", "clear"), "done"
    si          \* loop index i of the halting thread's buffer_cache_write_to_disk

vars == <<slot, disk, latest, waitSet, pc, op, hold, raSectors, raRmv, raAdd,
          raCnt, fpc, fi, panicked, power, si>>

Entry == [sector: Sectors \cup {NULL}, data: Values, dirty: BOOLEAN,
          accessed: BOOLEAN, meta: BOOLEAN, used: Nat]
Op == [kind: {"read", "write", "prefetch"}, sector: Sectors \cup RaValue,
       val: Values]
\* The arguments of an actor that is not inside a call.
NoOp == [kind |-> "read", sector |-> NULL, val |-> InitVal]

-----------------------------------------------------------------------------
(* buffer_cache_init: every slot through buffer_cache_entry_init (the     *)
(* static array leaves accessed FALSE), every ring entry NULL.            *)
Init ==
    /\ slot = [i \in Slots |-> [sector |-> NULL, data |-> InitVal,
                                dirty |-> FALSE, accessed |-> FALSE,
                                meta |-> FALSE, used |-> 0]]
    /\ disk = [s \in Sectors |-> InitVal]
    /\ latest = disk
    /\ waitSet = {}
    /\ pc = [a \in Actors |-> IF a = Prefetcher THEN "deq" ELSE "idle"]
    /\ op = [a \in Actors |-> NoOp]
    /\ hold = [a \in Actors |-> NoSlot]
    /\ raSectors = [k \in RaIdx |-> NULL]
    /\ raRmv = 0
    /\ raAdd = 0
    /\ raCnt = 0
    /\ fpc = "sleep"
    /\ fi = 1
    /\ panicked = FALSE
    /\ power = "on"
    /\ si = 1

\* buffer_cache_lock is free unless a buffer_cache_write_to_disk loop (of
\* the write-behind thread or of halt) is holding it.
LockFree == fpc = "sleep" /\ power \notin {"scan", "clear"}

\* buffer_cache_lookup: the first slot bound to sector s, NoSlot if none.
Lookup(s) ==
    IF \E i \in Slots : slot[i].sector = s
    THEN CHOOSE i \in Slots : slot[i].sector = s
                              /\ \A j \in 1 .. (i - 1) : slot[j].sector # s
    ELSE NoSlot

(* One pass of the for loop of buffer_cache_evict from slot i, with meta  *)
(* the metadata_entry remembered so far.  Returns the slots with the      *)
(* accessed bits the pass cleared, the slot chosen (NoSlot: the pass      *)
(* found nothing, the caller waits) and whether it was an empty slot      *)
(* (prepared without buffer_cache_entry_init).                            *)
\* Mutant of Scan: the "used_cnt > 0" skip is missing.
RECURSIVE ScanIgnoresPins(_, _, _)
ScanIgnoresPins(sl, i, meta) ==
    IF i > NSlots THEN [slots |-> sl, victim |-> meta, empty |-> FALSE]
    ELSE IF sl[i].sector = NULL THEN [slots |-> sl, victim |-> i, empty |-> TRUE]
    ELSE IF ~sl[i].accessed /\ sl[i].meta THEN ScanIgnoresPins(sl, i + 1, i)
    ELSE IF ~sl[i].accessed THEN [slots |-> sl, victim |-> i, empty |-> FALSE]
    ELSE ScanIgnoresPins([sl EXCEPT ![i].accessed = FALSE], i + 1, meta)

RECURSIVE Scan(_, _, _)
Scan(sl, i, meta) ==
    IF i > NSlots THEN [slots |-> sl, victim |-> meta, empty |-> FALSE]
    ELSE IF sl[i].sector = NULL THEN [slots |-> sl, victim |-> i, empty |-> TRUE]
    ELSE IF sl[i].used > 0 THEN Scan(sl, i + 1, meta)
    ELSE IF ~sl[i].accessed /\ sl[i].meta THEN Scan(sl, i + 1, i)
    ELSE IF ~sl[i].accessed THEN [slots |-> sl, victim |-> i, empty |-> FALSE]
    ELSE Scan([sl EXCEPT ![i].accessed = FALSE], i + 1, meta)

\* Mutant of Bind: an empty slot is also reset by buffer_cache_entry_init.
BindAlwaysInit(e, s, init, d) ==
    [e EXCEPT !.sector = s, !.dirty = FALSE, !.meta = FALSE,
              !.used = 1, !.accessed = TRUE, !.data = d]

(* buffer_cache_prepare_eviction(e, s, init) followed by the block_read   *)
(* and "entry->accessed = true" of buffer_cache_load.                      *)
Bind(e, s, init, d) ==
    IF init THEN [e EXCEPT !.sector = s, !.dirty = FALSE, !.meta = FALSE,
                           !.used = 1, !.accessed = TRUE, !.data = d]
    ELSE [e EXCEPT !.sector = s, !.used = @ + 1, !.accessed = TRUE, !.data = d]

(* The block_write of a dirty victim in buffer_cache_evict; an empty slot *)
(* (prepared with init = false) is never written back.                    *)
WriteBack(e, empty) ==
    IF ~empty /\ e.dirty THEN [disk EXCEPT ![e.sector] = e.data] ELSE disk

(* buffer_cache_evict(s) for actor t, then the block_read of               *)
(* buffer_cache_load.  A victim that is not an empty slot is written back  *)
(* first if dirty.  A pass that finds nothing puts t in cond_wait, which   *)
(* releases the lock.                                                      *)
Evict(t) ==
    LET s == op[t].sector
        r == Scan(slot, 1, NoSlot)
        j == r.victim
        e == r.slots[j]
        d2 == WriteBack(e, r.empty)
    IN  \/ /\ j = NoSlot
           /\ slot' = r.slots
           /\ waitSet' = waitSet \cup {t}
           /\ pc' = [pc EXCEPT ![t] = "wait"]
           /\ UNCHANGED <<disk, hold, panicked>>
        \/ /\ j # NoSlot
           /\ disk' = d2
           /\ slot' = [r.slots EXCEPT ![j] =
                         Bind(e, s, ~r.empty,
                              IF s \in Sectors THEN d2[s] ELSE e.data)]
           /\ panicked' = (s \notin Sectors)
           /\ hold' = [hold EXCEPT ![t] = j]
           /\ pc' = [pc EXCEPT ![t] = IF op[t].kind = "write" THEN "copy"
                                      ELSE "release"]
           /\ UNCHANGED waitSet

-----------------------------------------------------------------------------
(* Client calls.  buffer_cache_read(s): load, memcpy out, release, then   *)
(* queue s + 1 for read-ahead.  buffer_cache_write(s, v): load, memcpy    *)
(* in, dirty = true, release.  The memcpy out of a read changes no state  *)
(* and is folded into the load.                                           *)
StartRead(t, s) ==
    /\ pc[t] = "idle"
    /\ pc' = [pc EXCEPT ![t] = "load"]
    /\ op' = [op EXCEPT ![t] = [kind |-> "read", sector |-> s, val |-> InitVal]]
    /\ UNCHANGED <<slot, disk, latest, waitSet, hold, raSectors, raRmv, raAdd,
                   raCnt, fpc, fi, panicked, power, si>>

StartWrite(t, s, v) ==
    /\ pc[t] = "idle"
    /\ pc' = [pc EXCEPT ![t] = "load"]
    /\ op' = [op EXCEPT ![t] = [kind |-> "write", sector |-> s, val |-> v]]
    /\ UNCHANGED <<slot, disk, latest, waitSet, hold, raSectors, raRmv, raAdd,
                   raCnt, fpc, fi, panicked, power, si>>

(* buffer_cache_load, hit: buffer_cache_lookup marks the slot accessed and *)
(* takes a reference.                                                      *)
LoadHit(t) ==
    LET i == Lookup(op[t].sector) IN
    /\ pc[t] = "load"
    /\ LockFree
    /\ i # NoSlot
    /\ slot' = [slot EXCEPT ![i].accessed = TRUE, ![i].used = @ + 1]
    /\ hold' = [hold EXCEPT ![t] = i]
    /\ pc' = [pc EXCEPT ![t] = IF op[t].kind = "write" THEN "copy" ELSE "release"]
    /\ UNCHANGED <<disk, latest, waitSet, op, raSectors, raRmv, raAdd, raCnt,
                   fpc, fi, panicked, power, si>>

\* buffer_cache_load, miss: buffer_cache_evict and block_read.
LoadMiss(t) ==
    /\ pc[t] = "load"
    /\ LockFree
    /\ Lookup(op[t].sector) = NoSlot
    /\ Evict(t)
    /\ UNCHANGED <<latest, op, raSectors, raRmv, raAdd, raCnt, fpc, fi, power, si>>

(* A thread woken from cond_wait re-acquires the lock and runs the next   *)
(* iteration of the while (true) loop of buffer_cache_evict: a new pass,  *)
(* without a new lookup.                                                   *)
EvictRetry(t) ==
    /\ pc[t] = "retry"
    /\ LockFree
    /\ Evict(t)
    /\ UNCHANGED <<latest, op, raSectors, raRmv, raAdd, raCnt, fpc, fi, power, si>>

\* The memcpy of buffer_cache_write into the held slot.
CopyIn(t) ==
    /\ pc[t] = "copy"
    /\ slot' = [slot EXCEPT ![hold[t]].data = op[t].val]
    /\ latest' = [latest EXCEPT ![op[t].sector] = op[t].val]
    /\ pc' = [pc EXCEPT ![t] = "dirty"]
    /\ UNCHANGED <<disk, waitSet, op, hold, raSectors, raRmv, raAdd, raCnt,
                   fpc, fi, panicked, power, si>>

\* "entry->dirty = true" of buffer_cache_write, outside the lock.
MarkDirty(t) ==
    /\ pc[t] = "dirty"
    /\ slot' = [slot EXCEPT ![hold[t]].dirty = TRUE]
    /\ pc' = [pc EXCEPT ![t] = "release"]
    /\ UNCHANGED <<disk, latest, waitSet, op, hold, raSectors, raRmv, raAdd,
                   raCnt, fpc, fi, panicked, power, si>>

(* buffer_cache_release: drop the reference and cond_signal one waiter,   *)
(* which goes on to retry its eviction.  A read continues with the        *)
(* read-ahead request, a write returns, the prefetcher loops.             *)
Release(t) ==
    LET next == CASE op[t].kind = "read" -> "enqueue"
                  [] op[t].kind = "write" -> "idle"
                  [] OTHER -> "deq"
    IN
    /\ pc[t] = "release"
    /\ LockFree
    /\ slot' = [slot EXCEPT ![hold[t]].used = @ - 1]
    /\ hold' = [hold EXCEPT ![t] = NoSlot]
    /\ op' = IF next = "idle" THEN [op EXCEPT ![t] = NoOp] ELSE op
    /\ \/ /\ waitSet = {}
          /\ pc' = [pc EXCEPT ![t] = next]
          /\ UNCHANGED waitSet
       \/ \E w \in waitSet :
             /\ waitSet' = waitSet \ {w}
             /\ pc' = [pc EXCEPT ![t] = next, ![w] = "retry"]
    /\ UNCHANGED <<disk, latest, raSectors, raRmv, raAdd, raCnt, fpc, fi,
                   panicked, power, si>>

\* Mutant of Enqueue: the "read_ahead_cnt < BUFFER_CACHE_SIZE" test is missing.
EnqueueIgnoresFull(t) ==
    /\ pc[t] = "enqueue"
    /\ raAdd' = (raAdd + 1) % NSlots
    /\ raCnt' = raCnt + 1
    /\ raSectors' = [raSectors EXCEPT ![(raAdd + 1) % NSlots] = op[t].sector + 1]
    /\ pc' = [pc EXCEPT ![t] = "idle"]
    /\ op' = [op EXCEPT ![t] = NoOp]
    /\ UNCHANGED <<slot, disk, latest, waitSet, hold, raRmv, fpc, fi, panicked, power, si>>

(* The read-ahead request at the end of buffer_cache_read, under          *)
(* read_ahead_lock: the add index is advanced before the store.  A full   *)
(* ring drops the request.                                                 *)
Enqueue(t) ==
    /\ pc[t] = "enqueue"
    /\ raCnt < NSlots
    /\ raAdd' = (raAdd + 1) % NSlots
    /\ raCnt' = raCnt + 1
    /\ raSectors' = [raSectors EXCEPT ![(raAdd + 1) % NSlots] = op[t].sector + 1]
    /\ pc' = [pc EXCEPT ![t] = "idle"]
    /\ op' = [op EXCEPT ![t] = NoOp]
    /\ UNCHANGED <<slot, disk, latest, waitSet, hold, raRmv, fpc, fi, panicked, power, si>>

EnqueueDropped(t) ==
    /\ pc[t] = "enqueue"
    /\ raCnt = NSlots
    /\ pc' = [pc EXCEPT ![t] = "idle"]
    /\ op' = [op EXCEPT ![t] = NoOp]
    /\ UNCHANGED <<slot, disk, latest, waitSet, hold, raSectors, raRmv,
                   raAdd, raCnt, fpc, fi, panicked, power, si>>

(* buffer_cache_read_ahead: wait while the ring is empty, take the entry  *)
(* at the remove index, then load and release that sector.                *)
Dequeue ==
    /\ pc[Prefetcher] = "deq"
    /\ raCnt > 0
    /\ raCnt' = raCnt - 1
    /\ op' = [op EXCEPT ![Prefetcher] = [kind |-> "prefetch",
                                         sector |-> raSectors[raRmv],
                                         val |-> InitVal]]
    /\ raSectors' = [raSectors EXCEPT ![raRmv] = NULL]
    /\ raRmv' = (raRmv + 1) % NSlots
    /\ pc' = [pc EXCEPT ![Prefetcher] = "load"]
    /\ UNCHANGED <<slot, disk, latest, waitSet, hold, raAdd, fpc, fi, panicked, power, si>>

-----------------------------------------------------------------------------
(* buffer_cache_write_behind: after timer_sleep, buffer_cache_write_to_   *)
(* disk takes the lock and for every slot writes a dirty one to the       *)
(* device, then clears its dirty flag.                                     *)
FlushBegin ==
    /\ LockFree
    /\ fpc' = "scan"
    /\ fi' = 1
    /\ UNCHANGED <<slot, disk, latest, waitSet, pc, op, hold, raSectors, raRmv,
                   raAdd, raCnt, panicked, power, si>>

FlushWrite ==
    /\ fpc = "scan"
    /\ fi <= NSlots
    /\ slot[fi].dirty
    /\ disk' = [disk EXCEPT ![slot[fi].sector] = slot[fi].data]
    /\ fpc' = "clear"
    /\ UNCHANGED <<slot, latest, waitSet, pc, op, hold, raSectors, raRmv, raAdd,
                   raCnt, fi, panicked, power, si>>

FlushSkip ==
    /\ fpc = "scan"
    /\ fi <= NSlots
    /\ ~slot[fi].dirty
    /\ fi' = fi + 1
    /\ UNCHANGED <<slot, disk, latest, waitSet, pc, op, hold, raSectors, raRmv,
                   raAdd, raCnt, fpc, panicked, power, si>>

FlushClear ==
    /\ fpc = "clear"
    /\ slot' = [slot EXCEPT ![fi].dirty = FALSE]
    /\ fi' = fi + 1
    /\ fpc' = "scan"
    /\ UNCHANGED <<disk, latest, waitSet, pc, op, hold, raSectors, raRmv, raAdd,
                   raCnt, panicked, power, si>>

FlushEnd ==
    /\ fpc = "scan"
    /\ fi > NSlots
    /\ fpc' = "sleep"
    /\ UNCHANGED <<slot, disk, latest, waitSet, pc, op, hold, raSectors, raRmv,
                   raAdd, raCnt, fi, panicked, power, si>>

-----------------------------------------------------------------------------
(* filesys_done, reached from the halt syscall through shutdown_power_off *)
(* (shutdown.c is not in the repository) with no lock held, while other  *)
(* threads keep running.  buffer_cache_set_read_ahead(false) clears       *)
(* read_ahead_enabled; free_map_close (free-map.c is not in the           *)
(* repository) is left out.                                               *)
ShutdownReadAhead ==
    /\ power = "on"
    /\ power' = "off"
    /\ UNCHANGED <<slot, disk, latest, waitSet, pc, op, hold, raSectors, raRmv,
                   raAdd, raCnt, fpc, fi, panicked, si>>

(* Then buffer_cache_write_to_disk on the halting thread: the same loop   *)
(* as the write-behind thread's, under buffer_cache_lock, with its own    *)
(* index si; power is "scan" or "clear" while it holds the lock.  When    *)
(* it returns the machine powers off ("done") and no thread runs again.   *)
HaltFlushBegin ==
    /\ power = "off"
    /\ LockFree
    /\ power' = "scan"
    /\ si' = 1
    /\ UNCHANGED <<slot, disk, latest, waitSet, pc, op, hold, raSectors, raRmv,
                   raAdd, raCnt, fpc, fi, panicked>>

HaltFlushWrite ==
    /\ power = "scan"
    /\ si <= NSlots
    /\ slot[si].dirty
    /\ disk' = [disk EXCEPT ![slot[si].sector] = slot[si].data]
    /\ power' = "clear"
    /\ UNCHANGED <<slot, latest, waitSet, pc, op, hold, raSectors, raRmv, raAdd,
                   raCnt, fpc, fi, panicked, si>>

HaltFlushSkip ==
    /\ power = "scan"
    /\ si <= NSlots
    /\ ~slot[si].dirty
    /\ si' = si + 1
    /\ UNCHANGED <<slot, disk, latest, waitSet, pc, op, hold, raSectors, raRmv,
                   raAdd, raCnt, fpc, fi, panicked, power>>

HaltFlushClear ==
    /\ power = "clear"
    /\ slot' = [slot EXCEPT ![si].dirty = FALSE]
    /\ si' = si + 1
    /\ power' = "scan"
    /\ UNCHANGED <<disk, latest, waitSet, pc, op, hold, raSectors, raRmv, raAdd,
                   raCnt, fpc, fi, panicked>>

HaltFlushEnd ==
    /\ power = "scan"
    /\ si > NSlots
    /\ power' = "done"
    /\ UNCHANGED <<slot, disk, latest, waitSet, pc, op, hold, raSectors, raRmv,
                   raAdd, raCnt, fpc, fi, panicked, si>>

(* The "while (read_ahead_enabled)" test of buffer_cache_read_ahead: once *)
(* it is false the thread leaves its loop.  A thread that passed the test *)
(* before the flag was cleared may still dequeue (Dequeue is not guarded). *)
PrefetcherExit ==
    /\ pc[Prefetcher] = "deq"
    /\ power # "on"
    /\ pc' = [pc EXCEPT ![Prefetcher] = "exit"]
    /\ UNCHANGED <<slot, disk, latest, waitSet, op, hold, raSectors, raRmv,
                   raAdd, raCnt, fpc, fi, panicked, power, si>>

-----------------------------------------------------------------------------
\* Steps of actor t once its call has started.
ActorStep(t) ==
    \/ LoadHit(t) \/ LoadMiss(t) \/ EvictRetry(t)
    \/ CopyIn(t) \/ MarkDirty(t) \/ Release(t)
    \/ Enqueue(t) \/ EnqueueDropped(t)

FlusherStep == FlushBegin \/ FlushWrite \/ FlushSkip \/ FlushClear \/ FlushEnd

HaltFlushStep ==
    HaltFlushBegin \/ HaltFlushWrite \/ HaltFlushSkip \/ HaltFlushClear \/ HaltFlushEnd

\* No thread runs after a panic or the power-off.
Running == ~panicked /\ power # "done"

(* A kernel panic, or the power-off at the end of halt, stops every thread. *)
Next ==
    /\ Running
    /\ \/ \E t \in Clients, s \in Sectors : StartRead(t, s)
       \/ \E t \in Clients, s \in WriteSectors, v \in Values : StartWrite(t, s, v)
       \/ \E t \in Actors : ActorStep(t)
       \/ Dequeue
       \/ FlusherStep
       \/ ShutdownReadAhead \/ PrefetcherExit \/ HaltFlushStep

(* Fairness.  A thread inside a call keeps running (weak fairness), and   *)
(* Pintos locks hand themselves to waiters in turn, so the steps that     *)
(* acquire buffer_cache_lock, which the write-behind loop takes           *)
(* intermittently, are strongly fair.  Both daemons run for the life of   *)
(* the kernel.  Clients are not obliged to start new calls.               *)
Fairness ==
    /\ \A t \in Actors :
          /\ SF_vars(Running /\ (LoadHit(t) \/ LoadMiss(t) \/ EvictRetry(t)
                                \/ Release(t)))
          /\ WF_vars(Running /\ (CopyIn(t) \/ MarkDirty(t) \/ Enqueue(t)
                                \/ EnqueueDropped(t)))
    /\ WF_vars(Running /\ Dequeue)
    /\ WF_vars(Running /\ FlusherStep)

Spec == Init /\ [][Next]_vars
FairSpec == Spec /\ Fairness

-----------------------------------------------------------------------------
(***************************************************************************)
(* Properties                                                              *)
(***************************************************************************)

TypeOK ==
    /\ slot \in [Slots -> [sector: Sectors \cup {NULL, DevSize}, data: Values,
                           dirty: BOOLEAN, accessed: BOOLEAN, meta: BOOLEAN,
                           used: Nat]]
    /\ disk \in [Sectors -> Values]
    /\ latest \in [Sectors -> Values]
    /\ waitSet \subseteq Actors
    /\ op \in [Actors -> Op]
    /\ hold \in [Actors -> Slots \cup {NoSlot}]
    /\ raSectors \in [RaIdx -> RaValue]
    /\ {raRmv, raAdd} \subseteq RaIdx
    /\ raCnt \in 0 .. NSlots
    /\ fpc \in {"sleep", "scan", "clear"}
    /\ fi \in 1 .. (NSlots + 1)
    /\ panicked \in BOOLEAN
    /\ power \in {"on", "off", "scan", "clear", "done"}
    /\ si \in 1 .. (NSlots + 1)

(* Pin safety (buffer_cache_evict skips slots with used_cnt > 0): while a *)
(* thread holds a slot it loaded for a device sector, no other thread's   *)
(* eviction rebinds that slot to another sector, so its memcpy reaches    *)
(* the sector it asked for.                                               *)
PinnedSlotStable ==
    \A t \in Actors :
        hold[t] # NoSlot /\ op[t].sector \in Sectors
            => slot[hold[t]].sector = op[t].sector

(* Reference counting (buffer_cache_lookup, buffer_cache_prepare_eviction *)
(* and buffer_cache_release): every slot's used_cnt is exactly the number *)
(* of threads between its buffer_cache_load and its buffer_cache_release, *)
(* including a prefetch of BLOCK_SECTOR_NULL that "hit" an empty slot     *)
(* which another thread then claims.                                      *)
UsedCountAccurate ==
    \A i \in Slots : slot[i].used = Cardinality({t \in Actors : hold[t] = i})

(* No lost write (spec section 8, round trip): the content of a sector as *)
(* the cache presents it (every slot bound to it, or the device when it   *)
(* is not resident) is the value last written by buffer_cache_write.      *)
NoLostWrite ==
    \A s \in Sectors :
        /\ \A i \in Slots : slot[i].sector = s => slot[i].data = latest[s]
        /\ (\A i \in Slots : slot[i].sector # s) => disk[s] = latest[s]

(* Progress of buffer_cache_evict: a client whose buffer_cache_read or    *)
(* buffer_cache_write blocked in cond_wait for a free slot eventually     *)
(* obtains one, unless the kernel panicked or halt powered it off.        *)
LoadCompletes ==
    \A t \in Clients : pc[t] = "wait" ~> (pc[t] \in {"copy", "release"} \/ ~Running)

=============================================================================
