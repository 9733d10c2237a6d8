---------------------------- MODULE InodeIndex ----------------------------
(***************************************************************************)
(* The multilevel index of src/src/filesys/inode.c: the direct, indirect   *)
(* and doubly indirect sector numbers of an inode, the index blocks on the *)
(* device, and the free map they are allocated from.  It covers            *)
(* inode_growth (filesys_create -> inode_create, and the extension in      *)
(* inode_write_at), byte_to_sector, and inode_close -> inode_free of a     *)
(* removed inode.  Each call runs to completion under filesys_lock or      *)
(* rw_lock, so each is one step.                                           *)
(*                                                                         *)
(* The device is seen through blk: the content of every sector read as an *)
(* array of NIndex sector numbers, which is how the code reads an index    *)
(* block.  A sector holds zeros when growth zero-fills it, the array the   *)
(* code wrote when it is an index block, and the first words of the        *)
(* struct inode_disk when it holds an inode.  User data is not modelled:   *)
(* data sectors keep the zeros growth wrote.                               *)
(***************************************************************************)
EXTENDS Naturals, FiniteSets, Sequences, TLC

CONSTANTS
    NDirect,     \* DIRECT_BLOCKS
    NIndex,      \* BLOCK_INDEX_AMOUNT
    SectorSize,  \* BLOCK_SECTOR_SIZE, in bytes
    DevSize,     \* sectors of fs_device
    CreateLens,  \* initial_size arguments of filesys_create
    WriteEnds,   \* offset + size of the writes of inode_write_at
    MaxFiles     \* bound on the files in directories at once (a state constraint)

FREE_MAP_SECTOR == 0
ROOT_DIR_SECTOR == 1
System == {FREE_MAP_SECTOR, ROOT_DIR_SECTOR}
Sectors == 0 .. (DevSize - 1)
Idx == 0 .. (NIndex - 1)
Zeros == [k \in Idx |-> 0]

DirectSize == NDirect * SectorSize           \* DIRECT_BLOCK_SIZE
IndirectSize == NIndex * SectorSize          \* INDIRECT_BLOCK_SIZE
DoubleSize == NIndex * IndirectSize          \* DOUBLE_DIRECT_BLOCK_SIZE
MaxLength == DirectSize + IndirectSize + DoubleSize

ASSUME /\ NDirect \in Nat \ {0}
       /\ NIndex \in Nat \ {0, 1}
       /\ SectorSize \in Nat \ {0}
       \* Lengths are stored in index blocks when an inode sector is reused,
       \* so they must not name sectors off the device.
       /\ \A n \in CreateLens \cup WriteEnds : n <= MaxLength /\ n < DevSize

\* bytes_to_sectors: DIV_ROUND_UP(size, BLOCK_SECTOR_SIZE).
BytesToSectors(size) == (size + SectorSize - 1) \div SectorSize

\* The inode_data mirror (the fields of struct inode_disk the index uses).
NoInode == [length |-> 0, direct |-> [k \in 0 .. (NDirect - 1) |-> 0],
            indirect |-> 0, dindirect |-> 0]

\* The first NIndex 32-bit words of the struct inode_disk that
\* inode_write_data_to_disk builds from a calloc'd buffer: start (0),
\* length, direct_block[], indirect_block, doubly_indirect_block.
InodeWords(ino) ==
    LET w == <<0, ino.length>> \o [j \in 1 .. NDirect |-> ino.direct[j - 1]]
             \o <<ino.indirect, ino.dindirect>>
    IN  [k \in Idx |-> IF k + 1 <= Len(w) THEN w[k + 1] ELSE 0]

VARIABLES
    inodes,    \* inode sector -> inode_data of every file in a directory
    blk,       \* sector -> its content read as an index block
    free,      \* sectors the free map has clear
    panicked   \* an ASSERT in free_map_release failed

vars == <<inodes, blk, free, panicked>>

-----------------------------------------------------------------------------
(* The free map (free-map.c, not in src): free_map_allocate(1) flips the  *)
(* first clear bit of the bitmap; free_map_release asserts that the bits  *)
(* it clears are set.                                                      *)
FirstFree(fr) == CHOOSE s \in fr : \A t \in fr : s <= t

\* r = [free, rem, panic]: release sector s.
FreeMapRelease(r, s) ==
    IF r.panic THEN r
    ELSE IF s \in r.free \/ s \notin Sectors THEN [r EXCEPT !.panic = TRUE]
    ELSE [r EXCEPT !.free = @ \cup {s}]

-----------------------------------------------------------------------------
(* inode_growth_block(arr, &remaining, n) from index i: every zero entry  *)
(* gets a fresh sector, zero-filled on the device, until remaining is 0.  *)
(* Non-zero entries are taken as allocated and not counted.               *)
RECURSIVE GrowthBlock(_, _)
GrowthBlock(st, i) ==
    IF i \notin DOMAIN st.arr \/ st.rem = 0 THEN st
    ELSE IF st.arr[i] # 0 THEN GrowthBlock(st, i + 1)
    ELSE IF st.free = {} THEN [st EXCEPT !.ok = FALSE]
    ELSE LET s == FirstFree(st.free)
         IN  GrowthBlock([st EXCEPT !.arr[i] = s, !.free = @ \ {s},
                                    !.rem = @ - 1, !.blk[s] = Zeros], i + 1)

(* inode_alloc_indir_block: a zero pointer gets a fresh sector, which is  *)
(* not zero-filled; the caller then reads whatever the sector holds.      *)
AllocIndir(ptr, fr) ==
    IF ptr # 0 THEN [ptr |-> ptr, free |-> fr, ok |-> TRUE]
    ELSE IF fr = {} THEN [ptr |-> 0, free |-> fr, ok |-> FALSE]
    ELSE [ptr |-> FirstFree(fr), free |-> fr \ {FirstFree(fr)}, ok |-> TRUE]

(* g = [ino, blk, free, rem, failed] is the state of one inode_growth.    *)
(* Read index block ptr, grow its entries, write it back.                  *)
GrowIndexBlock(g, ptr) ==
    LET st == GrowthBlock([arr |-> g.blk[ptr], blk |-> g.blk, free |-> g.free,
                           rem |-> g.rem, ok |-> TRUE], 0)
    IN  [g EXCEPT !.blk = [st.blk EXCEPT ![ptr] = st.arr], !.free = st.free,
                  !.rem = st.rem]

\* The direct blocks; the result of inode_growth_block is ignored.
GrowDirect(g) ==
    LET st == GrowthBlock([arr |-> g.ino.direct, blk |-> g.blk, free |-> g.free,
                           rem |-> g.rem, ok |-> TRUE], 0)
    IN  [g EXCEPT !.ino.direct = st.arr, !.blk = st.blk, !.free = st.free,
                  !.rem = st.rem]

GrowIndirect(g) ==
    LET a == AllocIndir(g.ino.indirect, g.free) IN
    IF g.rem = 0 THEN g
    ELSE IF ~a.ok THEN [g EXCEPT !.failed = TRUE]
    ELSE GrowIndexBlock([g EXCEPT !.ino.indirect = a.ptr, !.free = a.free], a.ptr)

(* The for loop over doubly_indirect_block[i]; d = [g, buf] with buf the  *)
(* local copy of the doubly indirect block.                               *)
RECURSIVE GrowChildren(_, _)
GrowChildren(d, i) ==
    LET a == AllocIndir(d.buf[i], d.g.free) IN
    IF i \notin Idx \/ d.g.rem = 0 THEN d
    ELSE IF ~a.ok THEN [d EXCEPT !.g.failed = TRUE]
    ELSE GrowChildren([g |-> GrowIndexBlock([d.g EXCEPT !.free = a.free], a.ptr),
                       buf |-> [d.buf EXCEPT ![i] = a.ptr]], i + 1)

\* A failure in the loop returns before the doubly indirect block is written.
GrowDoubly(g) ==
    LET a == AllocIndir(g.ino.dindirect, g.free)
        g1 == [g EXCEPT !.ino.dindirect = a.ptr, !.free = a.free]
        d == GrowChildren([g |-> g1, buf |-> g1.blk[a.ptr]], 0)
    IN  IF g.failed \/ g.rem = 0 THEN g
        ELSE IF ~a.ok THEN [g EXCEPT !.failed = TRUE]
        ELSE IF d.g.failed THEN d.g
        ELSE [d.g EXCEPT !.blk[a.ptr] = d.buf]

(* inode_growth(ino, old, new): bytes_to_sectors(new - old) sectors, then *)
(* the length is set if all were found.  Allocations made before a        *)
(* failure stay in ino, blk and free.                                     *)
InodeGrowth(ino, b, fr, old, new) ==
    LET g == GrowDoubly(GrowIndirect(GrowDirect(
                [ino |-> ino, blk |-> b, free |-> fr,
                 rem |-> BytesToSectors(new - old), failed |-> FALSE])))
    IN  IF ~g.failed /\ g.rem = 0 THEN [g EXCEPT !.ino.length = new] ELSE g

GrowthOk(g) == ~g.failed /\ g.rem = 0

-----------------------------------------------------------------------------
\* Mutant of ByteToSector: the doubly indirect offset is rebased past the
\* direct blocks only ("pos -= DIRECT_BLOCK_SIZE").
ByteToSectorSkipsIndirect(ino, b, pos) ==
    IF pos < DirectSize THEN ino.direct[pos \div SectorSize]
    ELSE IF pos < DirectSize + IndirectSize
    THEN b[ino.indirect][(pos - DirectSize) \div SectorSize]
    ELSE LET p == pos - DirectSize
             outer == b[ino.dindirect][p \div IndirectSize]
         IN  b[outer][(p % IndirectSize) \div SectorSize]

(* byte_to_sector(inode, pos) for 0 <= pos < MaxLength. *)
ByteToSector(ino, b, pos) ==
    IF pos < DirectSize THEN ino.direct[pos \div SectorSize]
    ELSE IF pos < DirectSize + IndirectSize
    THEN b[ino.indirect][(pos - DirectSize) \div SectorSize]
    ELSE LET p == pos - DirectSize - IndirectSize
             outer == b[ino.dindirect][p \div IndirectSize]
         IN  b[outer][(p % IndirectSize) \div SectorSize]

-----------------------------------------------------------------------------
(* inode_free_block(arr, &remaining, n) from index i. *)
RECURSIVE FreeBlock(_, _, _)
FreeBlock(r, arr, i) ==
    IF i \notin DOMAIN arr \/ r.rem = 0 THEN r
    ELSE FreeBlock([FreeMapRelease(r, arr[i]) EXCEPT !.rem = @ - 1], arr, i + 1)

(* The doubly indirect loop of inode_free, which loads                    *)
(* disk_inode->indirect_block in every iteration.                          *)
RECURSIVE FreeChildren(_, _, _, _)
FreeChildren(r, ino, dbuf, i) ==
    IF i \notin Idx \/ r.rem = 0 THEN r
    ELSE FreeChildren(FreeMapRelease(FreeBlock(r, blk[ino.indirect], 0), dbuf[i]),
                      ino, dbuf, i + 1)

(* inode_free: bytes_to_sectors(length) data sectors, walking the direct, *)
(* indirect and doubly indirect blocks, and the index blocks on the way.  *)
InodeFree(ino, r0) ==
    LET r1 == FreeBlock([r0 EXCEPT !.rem = BytesToSectors(ino.length)],
                        ino.direct, 0)
        r2 == IF r1.rem # 0
              THEN FreeMapRelease(FreeBlock(r1, blk[ino.indirect], 0), ino.indirect)
              ELSE r1
    IN  IF r2.rem # 0
        THEN FreeMapRelease(FreeChildren(r2, ino, blk[ino.dindirect], 0),
                            ino.dindirect)
        ELSE r2

-----------------------------------------------------------------------------
Init ==
    /\ inodes = [s \in {} |-> NoInode]
    /\ blk = [s \in Sectors |-> Zeros]
    /\ free = Sectors \ System
    /\ panicked = FALSE

(* filesys_create(name, len): free_map_allocate for the inode sector,     *)
(* inode_create (growth from 0, then the inode written to its sector),    *)
(* dir_add.  When inode_create or dir_add fails, only the inode sector is *)
(* released.  The directory layer is not in src: dir_add may fail.        *)
Create(len) ==
    LET sec == FirstFree(free)
        g == InodeGrowth([NoInode EXCEPT !.length = len], blk, free \ {sec},
                         0, len)
    IN
    /\ free # {}
    /\ \/ /\ GrowthOk(g)
          /\ blk' = [g.blk EXCEPT ![sec] = InodeWords(g.ino)]
          /\ \/ /\ inodes' = inodes @@ (sec :> g.ino)
                /\ free' = g.free
             \/ /\ free' = g.free \cup {sec}
                /\ UNCHANGED inodes
       \/ /\ ~GrowthOk(g)
          /\ blk' = g.blk
          /\ free' = g.free \cup {sec}
          /\ UNCHANGED inodes
    /\ UNCHANGED panicked

\* Mutant of Extend: diff taken as offset + size, without subtracting the length.
ExtendFromDiff(f, end) ==
    LET g == InodeGrowth(inodes[f], blk, free, inodes[f].length,
                         inodes[f].length + end) IN
    /\ end > inodes[f].length
    /\ inodes' = [inodes EXCEPT ![f] = g.ino]
    /\ free' = g.free
    /\ blk' = IF GrowthOk(g) THEN [g.blk EXCEPT ![f] = InodeWords(g.ino)]
              ELSE g.blk
    /\ UNCHANGED panicked

(* inode_write_at(f, buf, size, offset) with offset + size = end past the *)
(* length: inode_growth on the in-memory inode_data, then                 *)
(* inode_write_data_to_disk if it succeeded.  A failed growth returns 0   *)
(* and leaves what it allocated in the inode_data.  The byte copy that     *)
(* follows changes no index state.                                         *)
Extend(f, end) ==
    LET g == InodeGrowth(inodes[f], blk, free, inodes[f].length, end) IN
    /\ end > inodes[f].length
    /\ inodes' = [inodes EXCEPT ![f] = g.ino]
    /\ free' = g.free
    /\ blk' = IF GrowthOk(g) THEN [g.blk EXCEPT ![f] = InodeWords(g.ino)]
              ELSE g.blk
    /\ UNCHANGED panicked

(* filesys_remove -> dir_remove -> inode_remove, then the last            *)
(* inode_close: the inode is written back, its sector released, and       *)
(* inode_free releases its blocks.                                         *)
Delete(f) ==
    LET r == InodeFree(inodes[f],
                       FreeMapRelease([free |-> free, rem |-> 0, panic |-> FALSE], f))
    IN
    /\ inodes' = [s \in DOMAIN inodes \ {f} |-> inodes[s]]
    /\ blk' = [blk EXCEPT ![f] = InodeWords(inodes[f])]
    /\ free' = r.free
    /\ panicked' = r.panic

Next ==
    /\ ~panicked
    /\ \/ \E len \in CreateLens : Create(len)
       \/ \E f \in DOMAIN inodes, e \in WriteEnds : Extend(f, e)
       \/ \E f \in DOMAIN inodes : Delete(f)

Spec == Init /\ [][Next]_vars

\* The state constraint of the model-checking runs.
FilesBound == Cardinality(DOMAIN inodes) <= MaxFiles

-----------------------------------------------------------------------------
(* What a file maps to: the sector of each of its sectors' worth of bytes *)
(* below its length, and the index blocks byte_to_sector reads for them.  *)
SectorsOf(f) ==
    [k \in 1 .. BytesToSectors(inodes[f].length) |->
        ByteToSector(inodes[f], blk, (k - 1) * SectorSize)]

IndexOf(f) ==
    LET ino == inodes[f]
        n == BytesToSectors(ino.length)
        nd == (n - NDirect - NIndex + NIndex - 1) \div NIndex
    IN  (IF n > NDirect THEN {ino.indirect} ELSE {})
        \cup (IF n > NDirect + NIndex
              THEN {ino.dindirect} \cup {blk[ino.dindirect][i] : i \in 0 .. (nd - 1)}
              ELSE {})

\* The sector numbers stored in sector s when it is read as an index block.
Entries(s) == {blk[s][i] : i \in Idx}

\* Every sector the tree of f points to: the non-zero direct entries, the
\* indirect block and its entries, the doubly indirect block, its children
\* and their entries.
Refs(f) ==
    LET ino == inodes[f]
        kids == IF ino.dindirect = 0 THEN {} ELSE Entries(ino.dindirect) \ {0}
        ind == IF ino.indirect = 0 THEN {} ELSE {ino.indirect} \cup Entries(ino.indirect)
        dbl == IF ino.dindirect = 0 THEN {}
               ELSE {ino.dindirect} \cup kids \cup UNION {Entries(c) : c \in kids}
    IN  ({ino.direct[i] : i \in DOMAIN ino.direct} \cup ind \cup dbl) \ {0}

Used(f) == {f} \cup {SectorsOf(f)[k] : k \in DOMAIN SectorsOf(f)} \cup IndexOf(f)

(* The length of a file is one its callers asked for: an initial_size or *)
(* the end offset + size of a write.                                      *)
TypeOK ==
    /\ DOMAIN inodes \subseteq Sectors
    /\ \A f \in DOMAIN inodes :
          inodes[f] \in [length: CreateLens \cup WriteEnds,
                         direct: [0 .. (NDirect - 1) -> Sectors],
                         indirect: Sectors, dindirect: Sectors]
    /\ blk \in [Sectors -> [Idx -> Nat]]
    /\ free \subseteq Sectors
    /\ panicked \in BOOLEAN

(* Every sector a live file reads or writes through byte_to_sector, and   *)
(* every index block on the way, is allocated in the free map, is not the *)
(* free map or root directory sector, and belongs to no other file.        *)
ExclusiveOwnership ==
    \A f \in DOMAIN inodes :
        /\ Used(f) \cap (free \cup System) = {}
        /\ \A h \in DOMAIN inodes \ {f} : Used(f) \cap Used(h) = {}

(* The index as a tree, the way spec section 9 describes the walk: sector *)
(* k of a file is reached from the root of its region by descending one   *)
(* level per index block of b, NIndex^(depth-1) sectors per entry.        *)
RECURSIVE TreeWalk(_, _, _, _)
TreeWalk(b, ptr, depth, k) ==
    IF depth = 0 THEN ptr
    ELSE LET span == NIndex ^ (depth - 1)
         IN  TreeWalk(b, b[ptr][k \div span], depth - 1, k % span)

\* Sector k of the file whose inode_data is ino, by region.
SectorByWalk(ino, b, k) ==
    IF k < NDirect THEN TreeWalk(b, ino.direct[k], 0, 0)
    ELSE IF k < NDirect + NIndex THEN TreeWalk(b, ino.indirect, 1, k - NDirect)
    ELSE TreeWalk(b, ino.dindirect, 2, k - NDirect - NIndex)

(* A file of MaxLength bytes whose index blocks and data sectors all have *)
(* distinct numbers: index blocks 1 .. NIndex + 2, data sectors from 100. *)
(* Any slip in the offset arithmetic lands on a different sector.         *)
FullIno == [length |-> MaxLength,
            direct |-> [k \in 0 .. (NDirect - 1) |-> 100 + k],
            indirect |-> 1, dindirect |-> 2]
FullBlk ==
    [s \in 1 .. (NIndex + 2) |->
        CASE s = 1 -> [i \in Idx |-> 100 + NDirect + i]
          [] s = 2 -> [i \in Idx |-> 3 + i]
          [] OTHER -> [i \in Idx |-> 100 + NDirect + NIndex
                                     + (s - 3) * NIndex + i]]

(* byte_to_sector's offset arithmetic (the three ranges, the subtraction  *)
(* of the ranges before, the outer and inner index of the doubly indirect *)
(* block) agrees with the tree walk, for every byte offset of a file of   *)
(* the largest size (every outer and inner index of the doubly indirect   *)
(* block), and for every offset 0 <= pos <= length of every file the      *)
(* model reaches, over whatever its index blocks hold.                    *)
TranslateMatchesWalk ==
    /\ \A pos \in 0 .. (MaxLength - 1) :
          ByteToSector(FullIno, FullBlk, pos)
              = SectorByWalk(FullIno, FullBlk, pos \div SectorSize)
    /\ \A f \in DOMAIN inodes :
          \A pos \in 0 .. inodes[f].length :
              pos < MaxLength =>
                  ByteToSector(inodes[f], blk, pos)
                      = SectorByWalk(inodes[f], blk, pos \div SectorSize)

====
