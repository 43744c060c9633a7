------------------------------ MODULE SfsStore -------------------------------
(***************************************************************************)
(* The file system of Files seen as a store of files (FileStore), and what *)
(* its blocks and its two copies of an inode owe each other.               *)
(***************************************************************************)
EXTENDS Files

Mounted == boot # "off" /\ Running(fs)

(* The inode as the kernel sees it: in memory, else on the disk. *)
Din(n) == IF n \in DOMAIN fs.sin THEN fs.sin[n].din ELSE fs.disk[n].din

Inodes == {n \in Blocks \ {0} : n \in DOMAIN fs.sin \/ fs.disk[n].t = "inode"}

(* The blocks that an inode owns, by logical index; the reference for sfs_bmap_get_nolock. *)
BlockOf(din, i) ==
    IF i < NDirect THEN din.direct[i]
    ELSE IF i - NDirect < NEntry THEN AsIndex(fs.disk[din.indirect])[i - NDirect]
    ELSE LET j == i - NDirect - NEntry
         IN  AsIndex(fs.disk[AsIndex(fs.disk[din.db_indirect])[j \div NEntry]])[j % NEntry]

Content(n) ==
    LET din == Din(n)
    IN  [i \in 1..din.size |->
           AsData(fs.disk[BlockOf(din, (i - 1) \div BlkSize)])[(i - 1) % BlkSize]]

(* The node that a path leads to: a device, the root directory or an entry of it *)
Entries == {fs.disk[BlockOf(Din(SFS_BLKN_ROOT), i)] : i \in 0..(Din(SFS_BLKN_ROOT).blocks - 1)}
Named(path) ==
    LET hits == {e \in Entries : InUse(e) /\ e.name = path.name}
    IN  CASE path.dev = "stdin"  -> Stdin
          [] path.dev = "stdout" -> Stdout
          [] path.name = ""      -> SFS_BLKN_ROOT
          [] OTHER -> IF hits = {} THEN 0 ELSE (CHOOSE e \in hits : TRUE).ino

(* A descriptor as its process sees it *)
Shown(file) ==
    LET f == IF file.status = "FD_OPENED" THEN file ELSE FdNone
    IN  [node |-> f.node, pos |-> f.pos, readable |-> f.readable, writable |-> f.writable]

store == INSTANCE FileStore WITH
    PieceSize <- IobufSize,
    alive   <- Mounted,
    names   <- IF Mounted THEN [path \in {o[1] : o \in Opens} |-> Named(path)] ELSE << >>,
    content <- IF Mounted THEN [n \in {i \in Inodes : Din(i).type = "file"} |-> Content(n)]
                          ELSE << >>,
    fds     <- [p \in Procs |-> [i \in Fds |-> Shown(filesp[p].fd[i])]]

(* Whatever the block map, the cache of inodes and the order of writes do, *)
(* programs see files as byte sequences: a write stores its bytes at the   *)
(* position of its descriptor and in its file, wherever the blocks are     *)
(* cut; a seek grows the file with zeros although freed blocks are used    *)
(* again; a call that fails half way, a close and an inode that is evicted *)
(* and loaded again change nothing (sfs_io_nolock, sfs_truncfile,          *)
(* sfs_reclaim, file_seek, fd_array_dup).                                  *)
StoreSpec == store!Spec

-----------------------------------------------------------------------------

(* The entries of an inode that are not 0.  A growth through the index     *)
(* block that fails half way leaves its entries there, counted or not: the *)
(* next growth finds and uses them.                                        *)
InMap(din) == {i \in 0..(NDirect + NEntry - 1) : BlockOf(din, i) # 0}

(* The blocks of an inode: itself, its data and its index block *)
Owned(n, din) == {n} \cup {BlockOf(din, i) : i \in InMap(din)} \cup ({din.indirect} \ {0})

Meta == {SFS_BLKN_SUPER} \cup SFS_BLKN_FREEMAP..(SFS_BLKN_FREEMAP + RoundUpDiv(NBlocks, BlkBits) - 1)

(* The inodes, as DinOf has them, and the free blocks share the device *)
OwnedOnce(DinOf(_), free) ==
    /\ UNION {Owned(n, DinOf(n)) : n \in Inodes} = (Blocks \ free) \ Meta
    /\ \A n, m \in Inodes : n # m => Owned(n, DinOf(n)) \cap Owned(m, DinOf(m)) = {}
    /\ \A n \in Inodes :
         LET din == DinOf(n)
         IN  /\ Cardinality(Owned(n, din)) =
                  1 + Cardinality(InMap(din)) + (IF din.indirect = 0 THEN 0 ELSE 1)
             /\ 0..(din.blocks - 1) \subseteq InMap(din)
             /\ \A i \in InMap(din) : i < NDirect => i < din.blocks

(* mksfs also makes files with a double indirect block: the kernel does    *)
(* not know it and loses its blocks when it truncates such a file.         *)
NoDoubleIndirect == \A n \in Inodes : Din(n).db_indirect = 0

(* Every block in use belongs to one inode in one role, a free block to    *)
(* none, every block that an inode counts is in its map, and unused_blocks *)
(* counts the free ones, after every sequence of writes, truncations,      *)
(* evictions and calls that fail for want of blocks half way.              *)
BlocksOwnedOnce ==
    Mounted /\ NoDoubleIndirect =>
      OwnedOnce(Din, fs.freemap) /\ fs.unused = Cardinality(fs.freemap)

(* Reads of the inode n, from every offset, return parts of content *)
Returned(x, part) == Running(x) /\ x.out = part
ReadsReturn(n, content) ==
    \A off \in 0..Len(content), len \in 1..IobufSize :
      Returned(sfs_io_nolock(fs, n, off, len, FALSE, 0),
               SubSeq(content, off + 1, Min2(off + len, Len(content))))

(* A read of any length that fits the kernel's buffer returns the bytes of *)
(* the file, wherever block boundaries fall and whether its last part is   *)
(* whole (the three cases of sfs_io_nolock).                               *)
ReadsExact ==
    Mounted =>
      \A n \in DOMAIN fs.sin :
        fs.sin[n].din.type = "file" /\ fs.sin[n].din.blocks <= NDirect + NEntry
          => ReadsReturn(n, Content(n))

(* An inode that sfs_fsync, sfs_close and sfs_reclaim take for clean is on *)
(* the disk, but for one thing.  sfs_bmap_load_nolock counts a block that  *)
(* it has got through an index block that was there before and does not    *)
(* set dirty, so after a growth that failed half way the copy on the disk  *)
(* counts fewer blocks: not fewer than the size needs, and what it does    *)
(* not count is in the index block.                                        *)
CleanIsStored ==
    Mounted =>
      \A n \in DOMAIN fs.sin : ~fs.sin[n].dirty =>
        LET s == fs.sin[n].din
            d == fs.disk[n].din
        IN  /\ d = [s EXCEPT !.blocks = d.blocks]
            /\ RoundUpDiv(s.size, BlkSize) <= d.blocks /\ d.blocks <= s.blocks
            /\ d.blocks < s.blocks => d.indirect # 0 /\ d.blocks >= NDirect

(* After fs_cleanup the image can be mounted again: freemap and superblock *)
(* agree with each other and with memory, and the inodes as they are on    *)
(* the disk own the blocks in use, each once.                              *)
CleanupStores ==
    boot = "end" /\ Running(fs) /\ NoDoubleIndirect =>
      /\ fs.disk[SFS_BLKN_FREEMAP].free = fs.freemap
      /\ fs.disk[SFS_BLKN_SUPER].unused = Cardinality(fs.freemap)
      /\ OwnedOnce(LAMBDA n : fs.disk[n].din, fs.freemap)
=============================================================================
