-------------------------------- MODULE Sfs ----------------------------------
(***************************************************************************)
(* The simple file system (kern/fs/sfs) over its block device.             *)
(*                                                                         *)
(* The kernel is not preempted and the device answers at once, so a call   *)
(* of the file system is one step; it is written here as an operator from  *)
(* file system state to file system state.  The state k is a record:       *)
(*   disk         what each block of the device holds                      *)
(*   freemap      the blocks whose bit is set (free), super.unused_blocks  *)
(*                in unused and super_dirty                                *)
(*   sin          the inodes in memory: a function on the loaded inode     *)
(*                numbers (din, dirty, reclaim_count)                      *)
(*   ref, open    ref_count and open_count of every inode, devices too     *)
(*   ret, val     return code of the last call and what it handed back     *)
(*   panic        the assertion or panic that stopped the kernel, if any   *)
(* Semaphores of the file system are never contended here (module Lock     *)
(* models them); calls of the device do not fail, because its blocks are   *)
(* in range (panic "rwblock" is the assertion that says so).               *)
(***************************************************************************)
EXTENDS Integers, Sequences, FiniteSets, FiniteSetsExt

CONSTANTS
    NBlocks,     \* super.blocks
    BlkSize,     \* SFS_BLKSIZE
    NDirect,     \* SFS_NDIRECT
    NEntry,      \* SFS_BLK_NENTRY
    MaxFileSize, \* SFS_MAX_FILE_SIZE
    Writable     \* does the device keep what is written to it

ASSUME SfsAssumption ==
    /\ NBlocks \in Nat /\ BlkSize \in Nat \ {0}
    /\ NDirect \in Nat \ {0} /\ NEntry \in Nat \ {0}
    /\ MaxFileSize \in Nat /\ Writable \in BOOLEAN

SFS_BLKN_SUPER == 0
SFS_BLKN_ROOT == 1
SFS_BLKN_FREEMAP == 2

Blocks == 0..(NBlocks - 1)

Running(k) == k.panic = "none"

(* assert(cond): the kernel stops at the first one that fails. *)
Check(k, cond, why) ==
    IF cond \/ ~Running(k) THEN k ELSE [k EXCEPT !.panic = why]

Fail(k, err) == [k EXCEPT !.ret = err]

(* The next statement runs if the kernel runs and the call before it returned 0. *)
Then(k, Op(_)) == IF Running(k) /\ k.ret = "ok" THEN Op(k) ELSE k

(* The next statement runs whatever the call before it returned. *)
Anyway(k, Op(_)) == IF Running(k) THEN Op(k) ELSE k

-----------------------------------------------------------------------------
(* The device.  A cleared block reads as zeros whatever it is read as.     *)

Zeros == [t |-> "zero"]
AsData(b) == IF b.t = "data" THEN b.bytes ELSE [i \in 0..(BlkSize - 1) |-> 0]
AsIndex(b) == IF b.t = "index" THEN b.ent
              ELSE IF b.t = "data" THEN [i \in 0..(NEntry - 1) |-> b.bytes[i % BlkSize]]
              ELSE [i \in 0..(NEntry - 1) |-> 0]

(* sfs_rwblock_nolock asserts the block number *)
sfs_rwblock_nolock(k, b, check) == Check(k, (b # 0 \/ ~check) /\ b < NBlocks, "rwblock")

(* disk0 only warns; the device that sfs is written for stores the block. *)
disk0_write_blks_nolock(k, b, content) ==
    IF Writable THEN [k EXCEPT !.disk[b] = content] ELSE k

sfs_wbuf(k, b, content) ==
    Then(sfs_rwblock_nolock(k, b, TRUE), LAMBDA x : disk0_write_blks_nolock(x, b, content))

sfs_clear_block(k, b) == sfs_wbuf(k, b, Zeros)

sfs_sync_super(k) ==
    disk0_write_blks_nolock(k, SFS_BLKN_SUPER, [t |-> "super", unused |-> k.unused])

sfs_sync_freemap(k) ==
    disk0_write_blks_nolock(k, SFS_BLKN_FREEMAP, [t |-> "freemap", free |-> k.freemap])

-----------------------------------------------------------------------------
(* Free blocks *)

bitmap_test(k, b) == b \in k.freemap

(* sfs_block_inuse panics out of its range, as an assertion on it does. *)
sfs_block_inuse(k, b) == b # 0 /\ b < NBlocks /\ ~bitmap_test(k, b)

(* the lowest free block *)
bitmap_alloc(k) ==
    IF k.freemap = {} THEN Fail(k, "E_NO_MEM")
    ELSE LET b == Min(k.freemap) IN [k EXCEPT !.freemap = @ \ {b}, !.val = b]

(* Mutant of sfs_block_alloc: the block keeps what it held. *)
block_alloc_uncleared(k) ==
    Then(bitmap_alloc(k), LAMBDA x : [x EXCEPT !.unused = @ - 1, !.super_dirty = TRUE])

sfs_block_alloc(k) ==
    Then(bitmap_alloc(k), LAMBDA x :
    Then([Check(x, x.unused > 0, "unused_blocks") EXCEPT !.unused = @ - 1, !.super_dirty = TRUE],
         LAMBDA y : sfs_clear_block(y, y.val)))

bitmap_free(k, b) == [k EXCEPT !.freemap = @ \cup {b}]

sfs_block_free(k, b) ==
    Then(Check(k, sfs_block_inuse(k, b), "block_free"), LAMBDA x :
         [bitmap_free(x, b) EXCEPT !.unused = @ + 1, !.super_dirty = TRUE])

-----------------------------------------------------------------------------
(* The block map of an inode.  The block goes to val.                      *)

(* Mutant of SubEntry: a new index block is kept when no block is left for the data. *)
sub_entry_leaks(k, n, e, index, new) ==
    IF k.ret # "ok" THEN k
    ELSE [sfs_wbuf(k, e, [t |-> "index", ent |-> [AsIndex(k.disk[e]) EXCEPT ![index] = k.val]]) EXCEPT
            !.sin[n].din.indirect = IF new THEN e ELSE @,
            !.sin[n].dirty = @ \/ new]

(* k.val, if the allocation of it succeeded, becomes the entry index of the *)
(* index block e, which is itself new or not.                               *)
SubEntry(k, n, e, index, new) ==
    IF k.ret # "ok"
    THEN IF new THEN Fail(sfs_block_free([k EXCEPT !.ret = "ok"], e), k.ret) ELSE k
    ELSE [sfs_wbuf(k, e, [t |-> "index", ent |-> [AsIndex(k.disk[e]) EXCEPT ![index] = k.val]]) EXCEPT
            !.sin[n].din.indirect = IF new THEN e ELSE @,
            !.sin[n].dirty = @ \/ new]

(* In the indirect block ent (0 if there is none yet, then a new one is    *)
(* allocated and freed again if no block is left for the data).            *)
sfs_bmap_get_sub_nolock(k, n, ent, index, create) ==
    IF ent # 0 /\ (~create \/ AsIndex(k.disk[ent])[index] # 0)
    THEN [k EXCEPT !.val = AsIndex(k.disk[ent])[index]]
    ELSE IF ~create THEN [k EXCEPT !.val = 0]
    ELSE IF ent # 0 THEN SubEntry(sfs_block_alloc(k), n, ent, index, FALSE)
    ELSE Then(sfs_block_alloc(k), LAMBDA x : SubEntry(sfs_block_alloc(x), n, x.val, index, TRUE))

sfs_bmap_get_nolock(k, n, index, create) ==
    LET din == k.sin[n].din
        got == IF index < NDirect
               THEN IF din.direct[index] = 0 /\ create
                    THEN Then(sfs_block_alloc(k), LAMBDA x :
                              [x EXCEPT !.sin[n].din.direct[index] = x.val,
                                        !.sin[n].dirty = TRUE])
                    ELSE [k EXCEPT !.val = din.direct[index]]
               ELSE IF index - NDirect < NEntry
               THEN sfs_bmap_get_sub_nolock(k, n, din.indirect, index - NDirect, create)
               ELSE [k EXCEPT !.panic = "index out of range"]
    IN  Then(got, LAMBDA x : Check(x, x.val = 0 \/ sfs_block_inuse(x, x.val), "bmap_get"))

sfs_bmap_free_sub_nolock(k, ent, index) ==
    LET x   == Check(k, sfs_block_inuse(k, ent), "bmap_free_sub")
        idx == AsIndex(k.disk[ent])
    IN  IF ~Running(x) \/ idx[index] = 0 THEN x
        ELSE sfs_block_free(sfs_wbuf(x, ent, [t |-> "index", ent |-> [idx EXCEPT ![index] = 0]]),
                            idx[index])

sfs_bmap_free_nolock(k, n, index) ==
    LET din == k.sin[n].din
    IN  IF index < NDirect
        THEN IF din.direct[index] = 0 THEN k
             ELSE [sfs_block_free(k, din.direct[index]) EXCEPT
                     !.sin[n].din.direct[index] = 0, !.sin[n].dirty = TRUE]
        ELSE IF index - NDirect < NEntry /\ din.indirect # 0
        THEN sfs_bmap_free_sub_nolock(k, din.indirect, index - NDirect)
        ELSE k

(* The block with this index, a new one if the index is the next one. *)
sfs_bmap_load_nolock(k, n, index) ==
    LET din    == k.sin[n].din
        create == index = din.blocks
    IN  Then(Check(k, index <= din.blocks, "index <= din->blocks"), LAMBDA x :
        Then(sfs_bmap_get_nolock(x, n, index, create), LAMBDA y :
        Then(Check(y, sfs_block_inuse(y, y.val), "bmap_load"), LAMBDA z :
             IF create THEN [z EXCEPT !.sin[n].din.blocks = @ + 1] ELSE z)))

sfs_bmap_truncate_nolock(k, n) ==
    LET din == k.sin[n].din
    IN  Then(Check(k, din.blocks # 0, "bmap_truncate"), LAMBDA x :
        Then(sfs_bmap_free_nolock(x, n, din.blocks - 1), LAMBDA y :
             [y EXCEPT !.sin[n].din.blocks = @ - 1, !.sin[n].dirty = TRUE]))

-----------------------------------------------------------------------------
(* Inodes in memory *)

(* Mutant of sfs_fsync: it clears dirty and writes nothing. *)
fsync_forgets(k, n) == IF k.sin[n].dirty THEN [k EXCEPT !.sin[n].dirty = FALSE] ELSE k

sfs_fsync(k, n) ==
    IF k.sin[n].dirty
    THEN sfs_wbuf([k EXCEPT !.sin[n].dirty = FALSE], n, [t |-> "inode", din |-> k.sin[n].din])
    ELSE k

(* sfs_get_ops knows directories and files only *)
sfs_get_ops(k, din) == Check(k, din.type \in {"dir", "file"}, "sfs_get_ops")

sfs_create_inode(k, din, ino) ==
    Then(sfs_get_ops(k, din), LAMBDA x :
         [x EXCEPT !.sin = [i \in DOMAIN x.sin \cup {ino} |->
                              IF i = ino THEN [din |-> din, dirty |-> FALSE, reclaim_count |-> 1]
                                         ELSE x.sin[i]],
                   !.ref[ino] = 1, !.open[ino] = 0, !.val = ino])

lookup_sfs_nolock(k, ino) ==
    [k EXCEPT !.ref[ino] = @ + 1, !.val = ino,
              !.sin[ino].reclaim_count = IF k.ref[ino] = 0 THEN @ + 1 ELSE @]

sfs_load_inode(k, ino) ==
    IF ino \in DOMAIN k.sin THEN lookup_sfs_nolock(k, ino)
    ELSE Then(Check(k, sfs_block_inuse(k, ino), "load_inode"), LAMBDA x :
              LET din == k.disk[ino].din
              IN  Then(Check(x, din.nlinks # 0, "nlinks"), LAMBDA y :
                       sfs_create_inode(y, din, ino)))

sfs_get_root(k) == sfs_load_inode(k, SFS_BLKN_ROOT)

(* No call lowers nlinks, so the branches for nlinks = 0 are not taken     *)
(* (sfs_load_inode asserts it).  Called when ref_count has become 0.       *)
inode_kill(k, n) ==
    [Check(k, k.open[n] = 0, "inode_kill") EXCEPT !.sin = [i \in DOMAIN @ \ {n} |-> @[i]]]

Reclaimed(k, n) ==
    IF k.sin[n].reclaim_count # 0 \/ k.ref[n] # 0 THEN k ELSE inode_kill(sfs_fsync(k, n), n)

sfs_reclaim(k, n) ==
    Reclaimed([Check(k, k.sin[n].reclaim_count > 0, "reclaim") EXCEPT !.sin[n].reclaim_count = @ - 1], n)

(* Mutant of sfs_sync: the freemap is not written. *)
sync_super_only(k) ==
    IF k.super_dirty THEN sfs_sync_super([k EXCEPT !.super_dirty = FALSE]) ELSE k

SyncInodes(k) ==
    LET flush[s \in SUBSET DOMAIN k.sin] ==
            IF s = {} THEN k ELSE LET n == Min(s) IN sfs_fsync(flush[s \ {n}], n)
    IN  flush[DOMAIN k.sin]

SyncSuper(k) ==
    IF k.super_dirty THEN sfs_sync_freemap(sfs_sync_super([k EXCEPT !.super_dirty = FALSE])) ELSE k

sfs_sync(k) == SyncSuper(SyncInodes(k))

sfs_unmount(k) == IF DOMAIN k.sin # {} THEN Fail(k, "E_BUSY")
                                       ELSE Check(k, ~k.super_dirty, "unmount")

-----------------------------------------------------------------------------
(* Files *)

Min2(a, b) == IF a < b THEN a ELSE b
RoundUpDiv(a, n) == (a + n - 1) \div n

(* Mutant of BufOp: a read starts at the start of the block. *)
buf_op_from_start(k, b, off, len, write, v) ==
    [k EXCEPT !.out = @ \o [i \in 1..len |-> AsData(k.disk[b])[i - 1]]]

(* Read or write len bytes of one block, from byte off on. *)
BufOp(k, b, off, len, write, v) ==
    IF ~write THEN [k EXCEPT !.out = @ \o [i \in 1..len |-> AsData(k.disk[b])[off + i - 1]]]
    ELSE sfs_wbuf(k, b, [t |-> "data",
                         bytes |-> [i \in 0..(BlkSize - 1) |->
                                      IF i \in off..(off + len - 1) THEN v ELSE AsData(k.disk[b])[i]]])

(* sfs_rwblock: the nblks blocks of the device from b on *)
sfs_rwblock(k, b, nblks, write, v) ==
    LET io[j \in 0..nblks] ==
            IF j = 0 THEN k
            ELSE Then(sfs_rwblock_nolock(io[j - 1], b + j - 1, TRUE),
                      LAMBDA x : BufOp(x, b + j - 1, 0, BlkSize, write, v))
    IN  io[nblks]

(* len bytes of the block with the index blkno, or nblks blocks from it on *)
IoPart(k, n, blkno, off, len, write, v) ==
    IF len = 0 THEN k
    ELSE Then(k, LAMBDA x : Then(sfs_bmap_load_nolock(x, n, blkno), LAMBDA y :
              BufOp(y, y.val, off, len, write, v)))

IoWhole(k, n, blkno, nblks, write, v) ==
    IF nblks = 0 THEN k
    ELSE Then(k, LAMBDA x : Then(sfs_bmap_load_nolock(x, n, blkno), LAMBDA y :
              sfs_rwblock(y, y.val, nblks, write, v)))

(* The bytes from offset to endpos: the end of a block, whole blocks, the  *)
(* start of a block.  A read puts them into out, a write stores the byte   *)
(* v; each part is inside an assert: the kernel stops if it fails.         *)
IoBlocks(k, n, offset, endpos, write, v) ==
    LET blkno  == offset \div BlkSize
        nblks  == endpos \div BlkSize - blkno
        blkoff == offset % BlkSize
        head   == IoPart(k, n, blkno, blkoff,
                         IF blkoff = 0 THEN 0 ELSE IF nblks > 0 THEN BlkSize - blkoff ELSE endpos - offset,
                         write, v)
        body   == IoWhole(head, n, IF blkoff > 0 THEN blkno + 1 ELSE blkno,
                          IF blkoff > 0 /\ nblks > 0 THEN nblks - 1 ELSE nblks, write, v)
    IN  IoPart(body, n, endpos \div BlkSize, 0,
               IF blkoff > 0 /\ nblks = 0 THEN 0 ELSE endpos % BlkSize, write, v)

(* The length moved goes to val; a write past the end has made the file longer. *)
IoDone(k, n, moved, endpos) ==
    Anyway(Check(k, k.ret = "ok", "sfs_io"), LAMBDA x :
           IF endpos > x.sin[n].din.size
           THEN [x EXCEPT !.sin[n].din.size = endpos, !.sin[n].dirty = TRUE, !.val = moved]
           ELSE [x EXCEPT !.val = moved])

IoTo(k, n, offset, endpos, write, v) ==
    IoDone(IoBlocks(k, n, offset, endpos, write, v), n, endpos - offset, endpos)

sfs_io_nolock(k, n, offset, len, write, v) ==
    LET none == [k EXCEPT !.val = 0, !.out = << >>]
        end  == Min2(offset + len, MaxFileSize)
    IN  IF offset < 0 \/ offset >= MaxFileSize \/ len < 0 THEN Fail(none, "E_INVAL")
        ELSE IF len = 0 \/ (~write /\ offset >= k.sin[n].din.size) THEN none
        ELSE IoTo(none, n, offset, IF write THEN end ELSE Min2(end, k.sin[n].din.size), write, v)

sfs_truncfile(k, n, len) ==
    LET din   == k.sin[n].din
        tblks == RoundUpDiv(len, BlkSize)
        grow[i \in din.blocks..(IF tblks > din.blocks THEN tblks ELSE din.blocks)] ==
            IF i = din.blocks THEN k
            ELSE Then(grow[i - 1], LAMBDA x : sfs_bmap_load_nolock(x, n, i - 1))
        shrink[i \in 0..din.blocks] ==
            IF i = 0 THEN k
            ELSE Then(shrink[i - 1], LAMBDA x : sfs_bmap_truncate_nolock(x, n))
        new == IF tblks > din.blocks THEN grow[tblks] ELSE shrink[din.blocks - tblks]
    IN  IF len < 0 \/ len > MaxFileSize THEN Fail(k, "E_INVAL")
        ELSE IF din.size = len THEN Check(k, tblks = din.blocks, "tblks == din->blocks")
        ELSE Then(new, LAMBDA x :
                  [Check(x, x.sin[n].din.blocks = tblks, "truncfile") EXCEPT
                     !.sin[n].din.size = len, !.sin[n].dirty = TRUE])

sfs_tryseek(k, n, pos) ==
    IF pos < 0 \/ pos >= MaxFileSize THEN Fail(k, "E_INVAL")
    ELSE IF pos > k.sin[n].din.size THEN sfs_truncfile(k, n, pos) ELSE k

-----------------------------------------------------------------------------
(* Directories are never changed.  Their blocks are read through the block *)
(* map like those of a file, one entry in each.                            *)

sfs_dirent_read_nolock(k, n, slot) == k.disk[sfs_bmap_load_nolock(k, n, slot).val]

(* The slots of a directory whose entry satisfies P, and what a search     *)
(* that finds none ends with: the block map ends before a long directory.  *)
Slots(k, n, P(_)) ==
    {i \in 0..(Min2(k.sin[n].din.blocks, NDirect + NEntry) - 1) : P(sfs_dirent_read_nolock(k, n, i))}

InUse(e) == e.ino # 0

NotFound(k, n) ==
    Fail(Check(k, k.sin[n].din.blocks <= NDirect + NEntry, "index out of range"), "E_NOENT")

FirstSlot(k, n, s) ==
    IF s = {} THEN NotFound(k, n) ELSE [k EXCEPT !.val = sfs_dirent_read_nolock(k, n, Min(s)).ino]

sfs_dirent_search_nolock(k, n, name) ==
    FirstSlot(k, n, Slots(k, n, LAMBDA e : InUse(e) /\ e.name = name))

sfs_dirent_findino_nolock(k, n, ino) ==
    IF Slots(k, n, LAMBDA e : InUse(e) /\ e.ino = ino) = {} THEN NotFound(k, n) ELSE k

sfs_lookup_once(k, n, name) ==
    Then(sfs_dirent_search_nolock(k, n, name), LAMBDA x : sfs_load_inode(x, x.val))

(* The entry with the number slot, counted without the empty ones. *)
SlotNumber(s, slot) == {i \in s : Cardinality({j \in s : j < i}) = slot}

sfs_getdirentry(k, n, slot) ==
    IF SlotNumber(Slots(k, n, InUse), slot) # {} THEN k ELSE NotFound(k, n)
=============================================================================
