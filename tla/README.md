# TLA+ models of the Pintos storage engine (16danjj/Operating-Systems)

This directory holds TLA+ models of the file-system storage engine in
`src/src/filesys`, and the TLC configurations that check them. The engine has
three parts: a buffer cache with a read-ahead thread and a write-behind thread,
a multilevel inode index, and an open-inode table. The file-system front end
(path lookup, `filesys_create/open/remove`) and the syscalls create, mkdir,
open, close, remove and chdir are modelled with it in FileSys. The global reader/writer
lock of the read and write syscalls, and the VM frame table with page loading
and swap (`src/src/vm`), are modelled as well. The other parts of the source
are listed too. Each module is translated from the C source. The map in
`PROJECT.json` gives the lines each definition stands for.

## 1. Inventory

### Components and their state

| Component | Source | State | Operations |
|---|---|---|---|
| Buffer cache | `filesys/buffer_cache.c` | `buffer_cache[64]`: sector, data, dirty, accessed, is_metadata, used_cnt. `buffer_cache_lock`, condition `buffer_cache_available`. | `buffer_cache_lookup`, `buffer_cache_load`, `buffer_cache_evict` (clock with metadata bias), `buffer_cache_prepare_eviction`, `buffer_cache_read`, `buffer_cache_write`, `buffer_cache_release`, `buffer_cache_write_to_disk` |
| Read-ahead | `filesys/buffer_cache.c` | ring `read_ahead_sectors[64]`, `read_ahead_add_idx`, `read_ahead_rmv_idx`, `read_ahead_cnt`, `read_ahead_enabled`, `read_ahead_lock`, condition `read_ahead_available` | enqueue at the end of `buffer_cache_read`; the `buffer_cache_read_ahead` thread; `buffer_cache_set_read_ahead` |
| Write-behind | `filesys/buffer_cache.c` | none of its own | the `buffer_cache_write_behind` thread: `timer_sleep`, then `buffer_cache_write_to_disk` |
| Inode index | `filesys/inode.c` | on-disk `inode_disk`: length, 10 direct, 1 indirect and 1 doubly indirect sector numbers. Index blocks hold 128 sector numbers each. | `byte_to_sector`, `inode_growth`, `inode_growth_block`, `inode_alloc_indir_block`, `inode_create`, `inode_free`, `inode_free_block`, `inode_read_at`, `inode_write_at` |
| Open-inode table | `filesys/inode.c` | list `open_inodes`; per inode: sector, open_cnt, removed, deny_write_cnt, the `inode_data` mirror, a lock | `inode_open`, `inode_reopen`, `inode_close`, `inode_remove`, `inode_deny_write`, `inode_allow_write`, `inode_set_parent` |
| Reader-writer lock | `filesys/rwlock.c` | active/waiting readers and writers, mutex, conditions `OK_read`, `OK_write` | acquire/release read and write |
| System-call layer | `userprog/syscall.c` | `filesys_lock`, the global `rw_lock` | `read` takes `rw_lock` for reading, `write` takes it for writing. Every other file call takes `filesys_lock`. |
| File-system front end | `filesys/filesys.c` | `fs_device` | `filesys_init`, `filesys_done` (disable read-ahead, flush), `filesys_create`, `filesys_open`, `filesys_remove`, path lookup |
| Producer-consumer buffer | `threads/procon.c` | ring buffer, in, out, current, lock, conditions `not_empty`, `not_full` | `procon_produce`, `procon_consume` |
| VM frame table | `vm/frame.c` | `frame_table`, `frame_lock`, `last_frame` (clock hand), `io_sema` | `frame_get_frame`, `frame_get_evicted_frame`, `frame_free_frame` |
| VM pages and swap | `vm/page.c`, `vm/swap.c` | per-process page table: pinned, swapped, swap_id, frame. `swap_map` bitmap. | `page_load`, `page_destroy`, `page_pin_pages`, `swap_out`, `swap_in` |

The raw block device and the free map (`free-map.c`) are not in `src`. The
directory layer, `file.c` and `process.c` are not there either. They appear in
the models only as the operations these files call.

### How the parts interact

* A file `read` or `write` goes through `rw_lock` and then `inode_read_at` or
  `inode_write_at`. Those calls translate offsets with `byte_to_sector`. That
  function reads index blocks with `buffer_cache_read`.
* Each cache call loads the sector under `buffer_cache_lock`. The lookup, the
  eviction and the device read all happen inside that lock. The caller then
  copies bytes without the lock, while it holds a reference (`used_cnt`).
* `buffer_cache_read` then queues `sector + 1` for the read-ahead thread. That
  thread loads the sector and releases it at once.
* The write-behind thread holds the cache lock while it writes dirty slots to
  the device and clears their dirty flags.
* Create, open, close and remove take `filesys_lock`. Read and write take
  `rw_lock`. So a file write can run at the same time as a create, or as a
  close of another inode.

### What is hard

* Unlocked copies race locked bookkeeping. A writer copies data and sets
  `dirty` without the cache lock, while the write-behind thread writes and
  clears `dirty` under it.
* Eviction blocks with a condition-variable wait. A woken thread starts a new
  scan and does not look the sector up again.
* The read-ahead ring uses index arithmetic modulo the cache size.
* Growth allocates sectors across a three-level tree and can fail partway.
  Deallocation walks the same tree again.
* A removed inode is freed by its last close. The deny-write count must stay at
  or below the open count.

### What makes each part correct

* **Cache.** A slot with `used_cnt > 0` is never reused, and `used_cnt` counts
  its holders. A dirty slot is written back before it is reused. No write is
  lost. Every device access targets a device sector. A load that waits for a
  slot eventually gets one.
* **Read-ahead.** The ring behaves as a bounded FIFO.
* **Inode index.** Every byte below the length maps to an allocated sector
  that the inode owns. No sector is owned twice. No sector leaks after a free.
  A failed growth leaves nothing half-allocated.
* **Open-inode table.** There is one in-memory inode per sector. A removed
  inode's sectors are released exactly once, by the last close.
  `deny_write_cnt <= open_cnt`.
* **Reader-writer lock.** A writer excludes every other reader and writer. No
  thread waits forever while the lock is free.

## 2. Plan

1. **BufferCache** (done): the cache, the clock eviction, the read-ahead ring
   and thread, and the write-behind thread.
2. **InodeIndex** (done): the tree of `inode_data` and index blocks, and the free
   map as a set. It covers `inode_growth`, `inode_create`, `byte_to_sector`
   and `inode_free`, with lengths in bytes over a small sector size.
   `byte_to_sector` is checked against a recursive walk of the tree.
3. **FileSys** (done): the open-inode table (`inode_open`, `inode_close`,
   `inode_remove`) with path lookup, `filesys_create/open/remove` and the
   syscalls create, mkdir, open, close, remove and chdir over per-process fd
   tables and working directories. Still open: composing it with InodeIndex
   so that the last close frees the tree, and deny/allow write.
4. **RWLock** (done): `rwlock.c` with the syscalls `read` and `write` as its
   clients, shown to implement AbstractRW. **SyscallRW** (done) composes it
   with the extending-write path of `inode_write_at`. Per-thread starvation
   freedom was dropped: the lock prefers writers and lets a releasing writer
   barge, and neither the code nor the spec promises it (see hazards).
5. **BufferCache**, extended with `filesys_done` (done: read-ahead disabled,
   then a final flush). Still open: a larger client set for the
   duplicate-residency race.
6. **ProCon** (done): `procon.c`, shown to implement the abstract
   BoundedFIFO.
7. **VMFrames** (done): the VM frame table and its clock eviction over pinned
   pages, page loading and destruction, and the swap bitmap, in one module.

## 3. Modules

### BufferCache.tla

Variables:

* `slot`: `buffer_cache[]`.
* `disk`: the device contents.
* `waitSet`: the threads in `cond_wait(&buffer_cache_available)`.
* `pc`, `op`, `hold`: each thread's place in its call, the call's arguments,
  and the slot it holds.
* `raSectors`, `raRmv`, `raAdd`, `raCnt`: the read-ahead ring.
* `fpc`, `fi`: the write-behind loop.
* `panicked`: the block layer refused a sector outside the device.
* `latest`: history, the last value written to each sector.
* `power`, `si`: `halt` and its `filesys_done`. `power` is `"on"` while
  `read_ahead_enabled` is true and `"off"` after
  `buffer_cache_set_read_ahead(false)`. It is `"scan"` or `"clear"` while the
  halting thread holds `buffer_cache_lock` in its `buffer_cache_write_to_disk`,
  with `si` as that loop's index. It is `"done"` once the kernel has powered
  off.

Actions:

| Action | Code |
|---|---|
| `StartRead`, `StartWrite` | `buffer_cache_read`, `buffer_cache_write` |
| `LoadHit`, `LoadMiss` | `buffer_cache_load`, with `Evict` for `buffer_cache_evict` and `Scan` for one clock pass |
| `EvictRetry` | the next loop iteration after `cond_wait` |
| `CopyIn`, `MarkDirty` | the unlocked `memcpy` and `dirty = true` of a write |
| `Release` | `buffer_cache_release`, whose `cond_signal` wakes one waiter |
| `Enqueue`, `EnqueueDropped` | the read-ahead request in `buffer_cache_read` |
| `Dequeue` | the read-ahead thread |
| `FlushBegin`, `FlushWrite`, `FlushSkip`, `FlushClear`, `FlushEnd` | `buffer_cache_write_behind` and `buffer_cache_write_to_disk` |
| `ShutdownReadAhead` | `halt` → `filesys_done`: `buffer_cache_set_read_ahead(false)`, at any time |
| `HaltFlushBegin`, `HaltFlushWrite`, `HaltFlushSkip`, `HaltFlushClear`, `HaltFlushEnd` | the `buffer_cache_write_to_disk` of `filesys_done`, one step per slot as in the write-behind loop, then power-off |
| `PrefetcherExit` | the `while (read_ahead_enabled)` test of the read-ahead thread failing |

Step size follows the locks. Everything done under `buffer_cache_lock`
without waiting is one step. The unlocked copy and the setting of the dirty
flag are separate steps. The write-behind thread holds the lock across its
per-slot steps, so only the unlocked steps can come between them.

Abstractions:

* Sector contents are values from a small set, and a write stores one value.
  The copy out of a read changes no state, so it is folded into the load.
* `is_metadata` is kept, and the metadata branch of the scan is translated.
  The code never sets the flag, so the branch is dead in the model too.
* `halt` (syscall.c:316) calls `shutdown_power_off`, which runs
  `filesys_done` on the calling thread with no lock, while other processes
  may be inside any file-system call. So `ShutdownReadAhead` has no guard,
  and clients may still start calls, copy and set dirty flags while the halt
  flush scans. The read-ahead thread may already have passed its loop test,
  so it may still dequeue and load after the flag is cleared. The
  write-behind thread keeps running. `Running` is false after a panic or the
  power-off, and every action and every fairness condition requires it: the
  machine stops. A write that lands after the flush passed its slot is lost
  at power-off; this is what the code does, so no property claims otherwise
  (hazard at `filesys.c:42`).
* `BLOCK_SECTOR_NULL` is not defined in `src`. It is modelled as a value
  outside the device. `swap.c` asserts that it is not a valid slot id, and
  `page.c` uses it as "no sector".

The comment on `read_ahead_sectors` and spec section 4.2 promise a bounded
FIFO that drops a request when it is full. The ring does not implement one:
`buffer_cache_read` advances `read_ahead_add_idx` before it stores, while the
thread reads at `read_ahead_rmv_idx`, so the first request taken is the
`BLOCK_SECTOR_NULL` init left at index 0 and every later one is taken a
request late. An earlier version of this project checked the ring against an
abstract FIFO and TLC failed it at the first enqueue. That run was retired
to make room for the file-system runs, because a unit test of the ring shows
the bug after one request (hazard at `buffer_cache.c:188`).

### Runs (MCBufferCache)

The bounds are one client, the read-ahead thread, the write-behind thread,
2 slots, 3 device sectors and 2 values (one value in `cache_safety`). The client writes sector 0 and reads
any sector. Three sectors over two slots make a full cache miss, so eviction,
write-back and waiting all happen. The `sector + 1` of sector 2 is past the
device. Two ring entries are the fewest in which the index arithmetic differs
from a FIFO (with one entry `(add + 1) % 1 = 0`). Writes go to one sector
because the races are per sector. Each extra written sector multiplies the
state space by the values of `disk` and `latest` without adding an
interleaving. A second client would add the duplicate-residency race, which
needs three blocked actors (plan step 5). `cache_safety` uses a single
value: none of its properties looks at contents, so a second value only
doubles the states and keeps the run from finishing in reasonable time once
the halt flush interleaves with everything.

| Run | Expect | Checks |
|---|---|---|
| `cache_safety` | pass (2.8M states, ~45 s) | `TypeOK`. `PinnedSlotStable`: a held slot is never rebound. `UsedCountAccurate`: `used_cnt` equals the number of holders, including a read-ahead of `BLOCK_SECTOR_NULL` that "hits" an empty slot which a client then claims. Both hold while a halt flush runs concurrently with the client and the daemons. |
| `cache_lost_write` | violation | `NoLostWrite`. The write-behind thread writes slot 0, the client copies a new value and sets dirty, the write-behind thread clears dirty, and a later eviction drops the new value without write-back. |
| `evict_progress` | violation | `LoadCompletes`, under `FairSpec`. A write misses on a full cache whose slots are unpinned but recently accessed. The pass clears the accessed bits, finds no victim and waits. Only the write-behind thread runs afterwards, and it never signals. |

There is one mutant per property of the passing run. Each mutant is a
plausible slip in the code, and each one is caught:

* `ScanIgnoresPins`: the `used_cnt > 0` skip is dropped.
* `BindAlwaysInit`: empty slots are reinitialised too, which resets a held
  count.
* `EnqueueIgnoresFull`: the `read_ahead_cnt < BUFFER_CACHE_SIZE` test is
  dropped, which breaks `TypeOK`.

### InodeIndex.tla

The module models the index engine of `inode.c` and the parts of
`filesys.c` that drive it. It is parameterised by:

* `NDirect` (`DIRECT_BLOCKS`);
* `NIndex` (`BLOCK_INDEX_AMOUNT`);
* `SectorSize` (`BLOCK_SECTOR_SIZE`);
* `DevSize`;
* the lengths callers pass: `CreateLens` and `WriteEnds`.

Variables:

* `inodes`: the `inode_data` of every file in a directory, by inode sector.
* `blk`: every sector's content, read as an array of sector numbers, which
  is how the code reads an index block.
* `free`: the clear bits of the free map.
* `panicked`: an `ASSERT` in `free_map_release` failed.

The code's pieces are operators over one record of state:

* `InodeGrowth` stands for `inode_growth`. It is built from `GrowDirect`,
  `GrowIndirect`, `GrowDoubly` and `GrowChildren`, which follow the code's
  three stages and its early returns.
* `GrowthBlock` is `inode_growth_block`, a recursion over the array.
* `AllocIndir` is `inode_alloc_indir_block`.
* `ByteToSector` is `byte_to_sector`.
* `InodeFree` is `inode_free`, built from `FreeBlock` and `FreeChildren`.

There are three actions, and each call is one step because it runs under
`filesys_lock` or `rw_lock`:

* `Create` is `filesys_create`: inode sector, `inode_create`, then `dir_add`,
  which may fail.
* `Extend` is the growth in `inode_write_at`.
* `Delete` is `filesys_remove` followed by the last `inode_close` of the
  removed inode.

The free map (`free-map.c`) is not in `src`. It is modelled from its
interface: allocation takes the first clear bit (`bitmap_scan_and_flip`), and
release asserts the bit is set.

Abstractions:

* Sector contents matter only as index words. A sector written as an inode
  holds the first words of `struct inode_disk`: `start` = 0, `length`, then
  the block pointers. Growth zero-fills data sectors.
* User data written into data sectors is not modelled. It could only add
  more garbage to reused sectors.

### Runs (MCInodeIndex)

The bounds are one direct block, 2 entries per index block, 2-byte sectors,
a 10-sector device (the free map and the root directory use 2) and at most
two files at a time (`FilesBound`). These are the smallest sizes where:

* a 7-byte file reaches the doubly indirect block and still fits;
* a 1-byte file is not sector-aligned;
* a second file can reuse the sectors of a removed one.

Creates are 1 byte; writes end at byte 2, 4 or 7.

| Run | Expect | Checks |
|---|---|---|
| `inode_translate` | pass (74k states) | `TypeOK` (lengths are ones callers asked for). `TranslateMatchesWalk`: the offset arithmetic of `byte_to_sector` equals a recursive depth-by-depth walk of the tree (`TreeWalk`, `SectorByWalk`). It is checked at every `0 <= pos <= length` of every reachable file, and at every offset of `FullIno`/`FullBlk`, a synthetic file of the largest length the constants allow whose index blocks hold distinct sector numbers. On the device, files stay at 7 bytes, so the doubly indirect outer index never leaves 0; the synthetic file moves both the outer and the inner index through every value. |
| `inode_exclusive` | violation | `ExclusiveOwnership`, in 5 states: create A (inode sector 2), create B, remove A, extend B to 7 bytes. Removing A releases sector 2, which still holds the words `[0, 1]` (start, length). B's growth takes that sector as its new indirect block without zeroing it, fills entry 0 and keeps the word `1` in entry 1 as an allocated data sector. Sector 1 is `ROOT_DIR_SECTOR`. |

Two sector leaks are modelled as the code has them, but no run checks them
any more: that run slot now checks procon. The invariant that caught them
said every allocated sector is a system sector, an inode in a directory, or
in such an inode's tree. TLC reported it violated by:

* `filesys_create` releases only the inode sector when `inode_create` or
  `dir_add` fails (filesys.c:137). The data sectors of the initial size stay
  allocated.

`inode_free` as the code has it is modelled too: its doubly indirect loop
loads `indirect_block` again (line 449), so removing a file grown to 7 bytes
releases a sector already released and fails `free_map_release`'s `ASSERT`.
The model halts on that panic. No run checks it, because any test that
removes a file that large finds it at once.

The same ring-index bug also makes the read-ahead thread
ask the device for the `BLOCK_SECTOR_NULL` that init left at index 0. With
the cache full, it evicts a slot for that sector. The model halts such a
`block_read` as a panic. No run checks it separately, because the trace
would show the same bug again.

Two more defects of the index show up in the same model:

* `inode_growth` allocates `bytes_to_sectors(new - old)` sectors (line 215).
  That is one too many when `old` is not sector-aligned. A 1-byte file grown
  to 2 bytes gets an indirect block and an entry it does not need.
  `inode_free` releases by length, so both leak when the file is removed.
  The same leak invariant catches this one too.
* A stale entry left in a reused index block can name a sector the free map
  has clear. A later create then zero-fills that sector, and an existing
  file's bytes move. This is the hazard `ExclusiveOwnership` reports.

There is one mutant per property of the passing run:

* `ByteToSectorSkipsIndirect` rebases a doubly indirect offset by the
  direct range only, forgetting the indirect block's share. Only an offset
  past the first doubly indirect child tells the two apart, which the
  synthetic full file reaches at the initial state.
* `ExtendFromDiff` grows by `offset + size` without subtracting the length.

### RWLock.tla and AbstractRW.tla

`rwlock.c` has one global `rw_lock`. `read` takes it shared and `write`
takes it exclusive (`syscall.c:447`, `syscall.c:476`). Each function body
runs under `lock->mutex`, and the mutex is given up only inside `cond_wait`.
So each stretch between two waits is one atomic step:

| Action | Code |
|---|---|
| `AcquireRead`, `AcquireWrite` | the whole call, up to the first `cond_wait` or the return |
| `WakeRead`, `WakeWrite` | back from `cond_wait`: `waiting_* -= 1`, then the `while` test again |
| `ReleaseRead` | `active_readers -= 1`; signal `OK_write` if it was the last reader and a writer is counted |
| `ReleaseWrite` | signal one writer if any is counted, else broadcast to the readers |

`pc` records where each thread is. `okRead` and `okWrite` are the waiter sets
of the two condition variables. A thread woken by a signal stays counted in
`waiting_*` until its `Wake` step. That gap is where a releaser and a new
caller read a count that includes a thread already woken. `synch.c` is not in
`src`, so `SignalOKWrite` and `BroadcastOKRead` are modelled from Pintos'
interface. Which waiter `cond_signal` wakes is left open.

`AbstractRW` is the promise: any number of readers, or one writer. The
threads in `reading` and `writing` are mapped onto it.

### SyscallRW.tla

SyscallRW extends RWLock with what a `write` does while it holds `rw_lock`:

* `WriteInPlace`: the write does not pass EOF, or returns early on
  `deny_write_cnt`.
* `WriteExtend`: the `diff > 0` test passes. Whether a write extends is
  fixed by its arguments at call time, so it is a choice the thread makes
  from its `start` state, alongside `WriteInPlace`.
* `WriteLockInode`: `lock_acquire(&inode->lock)`. Pintos asserts that the
  caller does not hold it already, so that case is a panic.
* `WriteGrow`: `inode_growth`, then the write-back and `lock_release`. When
  no sector is free it returns 0 and keeps the lock, as `inode.c:556` does.
* `WriteReturn`: `rwlock_release_write`.

`space` counts the free sectors. Growth takes one of them, and growth fails
when none is left. The layout of the growth is InodeIndex's business.

### Runs (MCSyscallRW)

There are three threads. Each can issue reads and writes without end. That is
enough for a writer to wait behind two readers, for a reader to queue behind
a waiting writer, and for a woken writer to race a newly arriving one.
`FreeSectors = 2` lets growth succeed before it fails.

| Run | Expect | Properties | What it shows |
|---|---|---|---|
| `syscall_rw` | pass (2202 states) | SysTypeOK, CountersAccurate, RWLockRefinement, NoLostWakeup | The counters match the threads. The lock implements AbstractRW. While someone waits, someone eventually holds the lock. |
| `rw_write_hang` | violation | WriteCompletes | Every write that starts eventually returns, unless the kernel panicked. TLC: t2's growth fails and leaks `inode->lock`; t1 takes `rw_lock` for an extending write and blocks on `inode->lock`; t2 and t3 then queue on `rw_lock` for good. |

RWLock's properties are checked on the composed system, not on RWLock's own
`Spec`. `NoLostWakeup` says someone holds the lock, not who. After the leak,
the writer blocked on `inode->lock` still holds `rw_lock`, so the property
holds. The hang shows up only in the per-write property `WriteCompletes`.

A different path ends the same way. If the thread whose growth failed extends
the file again, it calls `lock_acquire` on a lock it still holds. Pintos
ASSERTs against this, and the model halts with `panicked`.
`WriteGrowReleasesOnFailure` is `WriteGrow` with the missing `lock_release`.
Substituted for `WriteGrow`, `WriteCompletes` holds and no panic is reachable,
so the leak alone is the cause.

Each property of the passing runs has a mutant:

| Mutant | What it does |
|---|---|
| `WakeWriteKeepsCount` | drops `waiting_writers -= 1` (breaks CountersAccurate) |
| `WriteLoopIgnoresReaders` | the writer waits only for writers (breaks RWLockRefinement) |
| `ReleaseReadStaleCount` | tests `active_readers` before the decrement, which loses the signal (breaks NoLostWakeup) |
| `WriteGrowNoSpaceCheck` | growth ignores a full free map (breaks SysTypeOK) |

Fairness: once inside a call, a thread keeps running, so its in-call steps
are weakly fair as one action per thread. That makes the thread take some
step, never a particular one: from `start` it may extend or write in place,
as its arguments decide, and the hang is a behaviour in which the writes
extend. Starting a call is never fair. The mutex is free between steps,
so weak fairness serves the mutex too. Only the write that holds `rw_lock`
wants `inode->lock`, so weak fairness serves `lock_acquire` as well. Threads
can really all end up blocked because of the leak, so `MCSyscallRW` says
`CHECK_DEADLOCK FALSE`.

### VMFrames.tla

This module models `vm/frame.c`, `vm/page.c` and `vm/swap.c`, plus their
callers in `src`: the `read`/`write` buffer handling in `syscall.c`
(`page_load_buffer_pages`, `page_pin_pages`) and `exit` through `page_exit`.
Each process has one thread. A step is the code between two blocking
`lock_acquire`s. `lock_try_acquire` is a test inside a step. The scan keeps
`frame_lock` across frames. So between two frames of one scan, other threads
can pin pages, set accessed bits and take page locks.

State:

* `table`: the `frame_table` list, as a sequence of kaddrs.
* `fpage`, `flock`: each frame's `page` and `lock`.
* `hand`: `last_frame`. It is a kaddr, `End` (NULL or `list_end`), or
  `Dangling` (a freed frame).
* Per page: `pframe`, `pd` (the pagedir maps it), `accessed`, `dirty`,
  `pinned`, `swapped`, `slot` and `plock`.
* `swapUsed`: the set bits of `swap_map`.
* `loc`: each thread's pc and locals.
* `crash`: how the kernel died, or `"none"`.

| Action | Code |
|---|---|
| `Fault`, `LoadLock` | page fault into `page_load`, `lock_acquire(&p->lock)` |
| `Palloc` | `frame_get_frame`: `palloc_get_page`, or eviction when the pool is empty |
| `PushFrame` | `frame_init_frame`: push a frame whose `page` is NULL |
| `EvictLock` | `frame_get_evicted_frame`: take `frame_lock`, start at `last_frame` or `list_front` |
| `Scan` (`ScanSkip`, `ScanFound`) | one frame of the clock loop: the try-locks, `pinned`, the accessed bit, and `last_frame = list_next(e)` |
| `Evict1`, `Evict2` | the victim's dirty bit, unmap, pin, `swap_out` when `NeedsSwap`, unlink, unpin, release both locks |
| `SetPage` | `page_load` after `frame_get_frame`: link `p->frame` and `frame->page`, then `pagedir_set_page`, which may fail (to `mapfail`) or map and set accessed (to `load`) |
| `MapFail` | `frame_free_frame` and `return false` with `p->lock` still held (page.c:116-120) |
| `LoadData` | the data branch: swapped (to `swapreset`), a file page, or a zero page (release `p->lock`) |
| `ShortFree` | a short `file_read_at` in `page_load_file`: `frame_free_frame`, `p->frame = NULL`, the page stays mapped, `p->lock` released |
| `SwapReset`, `SwapDone` | `swap_in`'s `bitmap_reset` without `swap_lock`, then `p->swapped = false`, `p->swap_id = BLOCK_SECTOR_NULL` and the release |
| `Relock` | `lock_acquire` of a `p->lock` the thread still holds from a failed `page_load`: Pintos' ASSERT (`relock`) |
| `SysStart`, `SysPin`, `SysIO`, `SysUnpin` | `SYS_READ`/`SYS_WRITE`: load the buffer (`exit(-1)` when a read targets a read-only page), pin, transfer, unpin |
| `Exit`, `ExitNext`, `ExitLock`, `ExitFree` | `exit` then `page_exit`: `page_destroy` on each page, with `frame_free_frame` (`FrameFree`) when the page has a frame |

Two inputs come from code that is not in `src`, and are modelled from how
Pintos hardware and `exception.c` behave:

* `Touch`: the MMU sets the accessed bit, and the dirty bit on a store.
* `Fault`: the page-fault handler calls `page_load`.

Four undefined behaviours stop the model:

* a use of the freed `last_frame` (`dangling_hand`);
* `list_front` on an empty table (`empty_table`);
* the NULL page of a frame that was just pushed (`null_page`);
* the `SWAP SPACE FULL` PANIC (`swap_full`);
* a second `lock_acquire` of a page lock kept by `MapFail` (`relock`).

Whether a file read comes up short and whether `pagedir_set_page` fails
are inputs from code outside `src` (the file system's bytes, `palloc` for
page tables), so each is a nondeterministic choice.

### Runs (MCVMFrames)

The model has two processes and three pages. A has the read-only executable
page `a1`. B has the writable executable page `b1` and the anonymous page
`b2`. There are two kaddrs and one swap slot. With these bounds:

* pages compete for frames across processes;
* every victim kind is reached: a clean read-only page that is not swapped,
  and pages that must be swapped;
* the single slot fills up.

All 21 pcs, and every crash kind, are reached: 1.64M distinct states in
about 46 s. `CHECK_DEADLOCK FALSE` is needed because both processes can exit,
and a crash stops all steps.

| Run | Result |
|---|---|
| `vm_frames` | `TypeOK`; `FrameOwnership` (a live page's frame is in the table and names it back, a table frame names a live page or none, no kaddr twice) through eviction handoff, `page_destroy`, `MapFail` and `ShortFree`; and `SwapSlotsExclusive` (a page whose only copy is in swap owns a set slot no other such page shares), across the window between `swap_in`'s unlocked reset and the flag clear |
| `vm_eviction_fault` | `NoEvictionFault` is violated in 15 states. B's scan reaches the frame A pushed with `page == NULL` before A's `page_load` sets it (frame.c:108) |

Mutants:

| Mutant | Breaks |
|---|---|
| `SwapSlotOffByOne` | `TypeOK`: `swap_out` takes a bit past the map |
| `FrameFreeKeepsEntry` | `FrameOwnership`: a freed frame stays in `frame_table` |
| `SwapOutNoFlip` | `SwapSlotsExclusive`: `swap_out` scans for a clear bit without flipping it, so two evictions pick the same slot |

Two defects are listed as hazards and are not checked separately:

* `page_destroy` never frees a swapped page's slot. This is why one slot
  fills.
* `frame_free_frame` leaves `last_frame` dangling.

Both are reached in `vm_frames` as `swap_full` and `dangling_hand` stops.
So are the two failure paths of `page_load`. After a short read the page
stays mapped with `p->frame == NULL`, and after a failed
`pagedir_set_page` the page lock is kept (the `relock` stop). Neither has a
run of its own; `FrameOwnership` checks that the frame links are still
undone consistently on both paths.

### FileSys.tla

The file-system front end and the references it holds. Every syscall it
models (`create`, `mkdir`, `open`, `close`, `remove`, `chdir`) runs under
`filesys_lock`, so each is one action. Inside an action, a record
`st = [cnt, removed, used, freed, uaf]` is threaded through the inode calls
the syscall makes, in the code's order. `st` is committed at the end.

Variables:

* `cnt[s]`, `removed`: the `open_cnt` and `removed` of the in-memory inode of
  sector `s`, with `cnt = 0` meaning not in `open_inodes`.
* `used`: the inode sectors the free map has set.
* `dirents`, `isDir`: what the directories hold. The directory layer is not
  in `src`, so `dir_*` and `file_*` are modelled from the Pintos interface,
  and only through the references they take and drop. `dir_lookup` opens the
  entry it finds, `dir_get_inode` takes no reference, `file_open` and
  `dir_open` take over the caller's, and `dir_remove` refuses a directory
  that is not empty or whose `open_cnt` shows another opener.
* `fdt[p][fd]` and `cwd[p]`: a process's `fd_table` and `cwd`, as a handle
  `[ino, live]`. `live` turns false when the inode it points to is freed by
  an `inode_close` whose count did not include this handle.
* `crash`: `"use_after_free"` when an inode call touches freed memory.
  `"null_dir"` when `dir_lookup` gets a NULL directory (its `ASSERT`).

Operators and actions:

* `InodeOpen` and `InodeClose` are `inode_open` and `inode_close`. The last
  closer frees the inode and releases its sector if it was removed.
* `Walk` is the loop of `filesys_lookup`, as a recursive operator over the
  components. `Lookup` starts it at the root or at `dir_reopen(cwd)`.
* `Open` is `filesys_open` plus `allocate_fd`. `Close` is `close_openfile`.
  `Create` is `filesys_create` (for mkdir too), with `inode_create` and
  `dir_add` failing nondeterministically. `Remove` is `filesys_remove` with
  `dir_remove`. `Chdir` is `chdir`, with the `"/"` special case.
* `QueryFd` is `filesize`, `isdir`, `inumber` and `readdir`. Each reads the
  inode behind an fd and keeps nothing the model tracks. On an fd whose inode
  was freed, each is a use after free.

### Runs (MCFileSys)

The instance has:

* two processes, symmetric;
* one fd slot each;
* sectors `{1, 2, 3}` with root 1;
* one name, `"a"`;
* the paths `/`, `a` and `a/a`;
* `open_cnt` at most 1 between syscalls (inside one, counts reach 3).

With one name, `a` can be a file or a directory, `a/a` can be a file inside
it, and a removed sector can be reused by the next create. A relative path
walks from a cwd, and a process with no cwd walks from the root. `a/a` with
`a` a file gives the NULL-directory case. One fd slot makes a full fd table
reachable. The bound on `open_cnt` still lets one process remove a file or
directory that another process holds, because `dir_remove`'s own open is the
second opener. It rules out two processes holding one inode between
syscalls. With a bound of 2, the leaked root references multiply the states,
and the run no longer finishes in minutes.

| Run | Expect | Checks |
|---|---|---|
| `fs_refs` | pass (8.3k states, ~15 s) | `TypeOK`. `HeldAllocated`: every sector reachable from an fd, a cwd or a live directory is still allocated, so a removed file's sector is released only by its last closer. `OpenDirNotRemoved`: a directory that is some process's cwd or open through an fd is never removed under it. |
| `fs_open_uaf` | violation | `NoUseAfterFree`, in 3 states. With no process holding the root, `open("/")` opens the root, finds no entry `""`, and takes the root's inode with `dir_get_inode`. `dir_close` then frees that inode (its count drops to 0), and `file_open` wraps the freed inode. `close` of that fd calls `inode_close` on freed memory. |

Mutants of `fs_refs`:

* `InodeCloseNoCheck` decrements `open_cnt` without looking at it, which
  breaks `TypeOK`.
* `InodeCloseReleasesEarly` releases a removed sector on any close, not only
  the last, which breaks `HeldAllocated`.
* `DirRemoveRefusedNoCount` drops `dir_remove`'s open-count check, which
  breaks `OpenDirNotRemoved`.

TLC also reaches three leaks and a panic in `fs_refs`. None is checked by a
run of its own, and each is in the hazard list:

* `filesys_open` returns NULL on a failed lookup without `dir_close`.
* `open` with a full fd table drops the file.
* `chdir` to a file leaves the inode open.
* `chdir("a/a")` with `a` a file reaches `dir_lookup(NULL, ...)`.

### ProCon.tla and BoundedFIFO.tla

`procon.c` is a bounded buffer. Any number of threads call `procon_produce`
and `procon_consume` on one `struct procon`. Nothing else in `src` calls it.
Both functions hold `pc->lock` from `lock_acquire` to `lock_release`, and
give it up only inside `cond_wait`. So each stretch of code between taking
the lock (or returning from `cond_wait`) and the next `cond_wait` or
`lock_release` is one step, as in RWLock.

Variables:

* `buffer`, `in`, `out`, `current`: the struct's fields. `procon_init`
  mallocs the buffer without clearing it, so the initial bytes are any chars.
* `notFull` and `notEmpty`: the waiters of the two conditions.
* `pc[t]`: `"idle"`, `"wait"` (inside `cond_wait`) or `"woken"`.
* `item[p]`: the char a waiting producer is putting.
* `taken[c]`: the char consumer `c`'s last call returned.

`synch.c` is not in `src`, so `cond_signal` (`SignalNotFull`,
`SignalNotEmpty`) wakes any one waiter. A woken thread re-tests its `while`
condition when it gets the lock back (`WakeProducer`, `WakeConsumer`), and a
newly arriving thread may get the lock first. These are Mesa semantics.

BoundedFIFO is what the buffer promises:

* a queue of at most `Capacity` items;
* a put only while there is room;
* a take that hands the oldest item to the taking consumer.

ProCon maps to it with `queue <- RingContents`, which is the `current` chars
from `out` on.

### Runs (MCProCon)

The instance has two producers, two consumers, a two-slot buffer and two
chars. Two slots are the fewest in which the ring wraps and `in` and `out`
differ while the buffer is neither empty nor full. Two threads of each kind
let one woken thread be overtaken by a new one of its kind. They also let a
sleeper of each kind exist at once.

| Run | Expect | Checks |
|---|---|---|
| `procon` | pass (24k states, 3 s) | `TypeOK` (`current` stays within `0..size`, so no put overruns the ring). `NoLostWakeup`: while a producer sleeps on `not_full`, every free slot has a woken producer coming for it, and likewise for consumers and stored chars. `ProConRefinement`: ProCon implements BoundedFIFO. |

Mutants:

* `WakeProducerNoRecheck`: the `while` becomes an `if`, so a producer
  overtaken after its wakeup stores into a full buffer. This breaks
  `TypeOK`.
* `TakeSignalsNotEmpty`: consume signals the wrong condition. This breaks
  `NoLostWakeup`.
* `TakeKeepsOut`: `out` is not advanced. This breaks the refinement.

No liveness is checked for one thread. A woken thread can lose the lock to
newly arriving threads every time, and neither the code nor the spec
promises otherwise.

### Fairness (BufferCache)

Inside a call, a thread keeps running, so its steps are weakly fair. Pintos
locks hand themselves to waiters in turn, and the write-behind thread takes
the cache lock only now and then. So the lock-taking steps (load, retry,
release) are strongly fair. Both daemons run for the life of the kernel and
are weakly fair, as long as the machine runs: every fairness condition is
conjoined with `Running`, because after the power-off or a panic no thread
runs. Clients are never obliged to start a call, and nothing obliges a halt. The waiter woken
by `cond_signal` is chosen nondeterministically. Pintos wakes the waiter at
the front of its list, so the model allows more behaviours than the code.

`CHECK_DEADLOCK FALSE` appears only because a panic or the power-off halts
the model. Without
a panic, the write-behind thread can always take a step.

## 4. Not modelled (yet)

* The contents of sectors as bytes, and the copies at an offset and length.
  Only which value a sector holds matters to the properties.
* `free_map_close` in `filesys_done`: `free-map.c` is not in `src`.
* The composition of FileSys with InodeIndex (the last close freeing the
  tree) and deny/allow write (plan step 3).
* The syscalls exec, wait and exit, and with them the closing of a
  process's fds at exit: they go to `process.c` and `thread.c`, which are not
  in `src`. `seek` and `tell` change only the file position. `mmap` is not modelled either.
* In VM: page contents, the `frame_io_wait` semaphore (it only serialises block
  I/O), and the page-fault handler's reaction to `page_load` returning false
  (`exception.c` is not in `src`).
* The scheduling between a spinning eviction scan and the other threads. The race between `read`/`write` (under `rw_lock`) and
  `remove` (under `filesys_lock`) is covered by FileSys only through the
  reference a reader holds: fd tables are per process and each process has
  one thread.
* The free map, the block device, directories, `file.c` and `process.c`.
  They are not in `src`.
