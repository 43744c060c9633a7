-------------------------------- MODULE Mksfs --------------------------------
(***************************************************************************)
(* tools/mksfs.c: the image that the host program writes from a directory. *)
(* A host directory is a sequence of entries (in readdir order), each with *)
(* name, kind ("file", "dir", "link" or "other"), real (the host's inode   *)
(* number, equal for hard links) and size in bytes.  Subdirectories are    *)
(* taken to be empty: the kernel's lookup cannot reach into them.          *)
(*                                                                         *)
(* The state m is a record: disk, next_ino, unused (super.unused_blocks),  *)
(* ci (the cached inodes, by host inode number), ino (their block) and     *)
(* bug, set where the program gives up without an image.                   *)
(***************************************************************************)
EXTENDS Sfs

CONSTANTS
    DentrySize,  \* sizeof(entry->name), what an entry adds to a directory's size
    BlkBits      \* SFS_BLKBITS, the bits of a freemap block

ASSUME MksfsAssumption == DentrySize \in 1..BlkSize /\ BlkBits \in Nat \ {0}

NoDin == [type |-> "none", size |-> 0, nlinks |-> 0, blocks |-> 0,
          direct |-> [i \in 0..(NDirect - 1) |-> 0], indirect |-> 0, db_indirect |-> 0]

Do(m, Op(_)) == IF m.bug THEN m ELSE Op(m)

(* The new block goes to val. *)
sfs_alloc_ino(m) ==
    IF m.next_ino < NBlocks
    THEN [m EXCEPT !.unused = @ - 1, !.next_ino = @ + 1, !.val = m.next_ino]
    ELSE [m EXCEPT !.bug = TRUE]

write_block(m, content, b) == Do(m, LAMBDA x : [x EXCEPT !.disk[b] = content])

alloc_cache_inode(m, real, ino, type) ==
    LET x == IF ino # 0 THEN [m EXCEPT !.val = ino] ELSE sfs_alloc_ino(m)
    IN  Do(x, LAMBDA y :
           [y EXCEPT !.ci  = [r \in DOMAIN y.ci \cup {real} |->
                                IF r = real THEN [NoDin EXCEPT !.type = type] ELSE y.ci[r]],
                     !.ino = [r \in DOMAIN y.ino \cup {real} |->
                                IF r = real THEN y.val ELSE y.ino[r]]])

search_cache_inode(m, real) == real \in DOMAIN m.ci

create_sfs ==
    LET next_ino == SFS_BLKN_FREEMAP + RoundUpDiv(NBlocks, BlkBits)
        m == [disk |-> [b \in Blocks |-> Zeros], next_ino |-> next_ino,
              unused |-> NBlocks - next_ino, ci |-> << >>, ino |-> << >>, val |-> 0,
              bug |-> next_ino >= NBlocks]
    IN  Do(m, LAMBDA x : alloc_cache_inode(x, 0, SFS_BLKN_ROOT, "dir"))

(* The index block *inop, a new one if it is 0, gets the entry i; val is the index block. *)
update_cache(m, inop, i, ino) ==
    LET x == IF inop = 0 THEN sfs_alloc_ino(m) ELSE [m EXCEPT !.val = inop]
    IN  Do(x, LAMBDA y :
           [y EXCEPT !.disk[y.val] = [t |-> "index", ent |-> [AsIndex(@) EXCEPT ![i] = ino]]])

append_block(m, file, size, ino) ==
    LET d  == m.ci[file]
        n  == d.blocks
        i1 == n - NDirect
        i2 == i1 - NEntry
        m1 == update_cache(m, d.indirect, i1, ino)
        \* double indirect: the second level's index block first, as its entry is known then
        l2 == IF d.db_indirect = 0 THEN sfs_alloc_ino(m) ELSE [m EXCEPT !.val = d.db_indirect]
        e  == AsIndex(l2.disk[l2.val])[i2 \div NEntry]
        m2 == Do(l2, LAMBDA x : update_cache(x, e, i2 % NEntry, ino))
        m3 == Do(m2, LAMBDA x : [update_cache(x, l2.val, i2 \div NEntry, x.val) EXCEPT
                                   !.ci[file].db_indirect = l2.val])
        stored == IF n < NDirect THEN [m EXCEPT !.ci[file].direct[n] = ino]
                  ELSE IF i1 < NEntry THEN Do(m1, LAMBDA x : [x EXCEPT !.ci[file].indirect = x.val])
                  ELSE m3
    IN  IF n * BlkSize >= MaxFileSize THEN [m EXCEPT !.bug = TRUE]
        ELSE Do(stored, LAMBDA x :
                [x EXCEPT !.ci[file].size = @ + size, !.ci[file].blocks = @ + 1])

add_entry(m, current, file, name) ==
    Do(sfs_alloc_ino(m), LAMBDA x :
    Do(append_block(write_block(x, [t |-> "dirent", ino |-> x.ino[file], name |-> name], x.val),
                    current, DentrySize, x.val), LAMBDA y :
       [y EXCEPT !.ci[file].nlinks = @ + 1]))

(* One block per read of the host file; val of the result does not matter. *)
open_file(m, file, size) ==
    LET last(i) == Min2(BlkSize, size - i * BlkSize)
        rd[i \in 0..RoundUpDiv(size, BlkSize)] ==
          IF i = 0 THEN m
          ELSE Do(rd[i - 1], LAMBDA x : Do(sfs_alloc_ino(x), LAMBDA y :
               LET n == last(i - 1)
               IN  append_block(write_block(y, [t |-> "data", bytes |->
                                    [j \in 0..(BlkSize - 1) |-> IF j < n THEN 1 ELSE 0]], y.val),
                                file, n, y.val)))
    IN  rd[RoundUpDiv(size, BlkSize)]

open_link(m, file, size) ==
    Do(sfs_alloc_ino(m), LAMBDA x :
       append_block(write_block(x, [t |-> "data", bytes |->
                        [j \in 0..(BlkSize - 1) |-> IF j < size THEN 1 ELSE 0]], x.val),
                    file, size, x.val))

add_file(m, e) ==
    Do(IF search_cache_inode(m, e.real) THEN m
       ELSE Do(alloc_cache_inode(m, e.real, 0, "file"), LAMBDA x : open_file(x, e.real, e.size)),
       LAMBDA y : add_entry(y, 0, e.real, e.name))

(* open_dir of an empty directory *)
DotEntries(m, current, parent) ==
    Do(add_entry(m, current, current, "."), LAMBDA x : add_entry(x, current, parent, ".."))

add_dir(m, e) ==
    Do(alloc_cache_inode(m, e.real, 0, "dir"), LAMBDA x :
    Do(DotEntries(x, e.real, 0), LAMBDA y : add_entry(y, 0, e.real, e.name)))

add_link(m, e) ==
    Do(alloc_cache_inode(m, e.real, 0, "link"), LAMBDA x :
    Do(open_link(x, e.real, e.size), LAMBDA y : add_entry(y, 0, e.real, e.name)))

(* The root directory *)
open_dir(m, host) ==
    LET add(x, e) == CASE e.kind = "file" -> add_file(x, e)
                       [] e.kind = "dir"  -> add_dir(x, e)
                       [] e.kind = "link" -> add_link(x, e)
                       [] OTHER -> x
        rd[i \in 0..Len(host)] ==
          IF i = 0 THEN DotEntries(m, 0, 0)
          ELSE Do(rd[i - 1], LAMBDA x : add(x, host[i]))
    IN  rd[Len(host)]

(* The freemap, the superblock and the inodes are written last. *)
close_sfs(m) ==
    Do(m, LAMBDA x :
       [x EXCEPT !.disk = [b \in Blocks |->
          IF b = SFS_BLKN_SUPER THEN [t |-> "super", unused |-> x.unused]
          ELSE IF b = SFS_BLKN_FREEMAP THEN [t |-> "freemap", free |-> x.next_ino..(NBlocks - 1)]
          ELSE IF \E r \in DOMAIN x.ino : x.ino[r] = b
          THEN [t |-> "inode", din |-> x.ci[CHOOSE r \in DOMAIN x.ino : x.ino[r] = b]]
          ELSE x.disk[b]]])

create_img(host) == close_sfs(Do(create_sfs, LAMBDA m : open_dir(m, host)))

-----------------------------------------------------------------------------

(* sfs_do_mount of the image: the freemap is counted against the superblock. *)
sfs_do_mount(disk, ref, open) ==
    LET k == [disk |-> disk, freemap |-> disk[SFS_BLKN_FREEMAP].free,
              unused |-> disk[SFS_BLKN_SUPER].unused, super_dirty |-> FALSE,
              sin |-> << >>, ref |-> ref, open |-> open, leak |-> [n \in DOMAIN ref |-> 0],
              ret |-> "ok", val |-> 0, out |-> << >>, panic |-> "none"]
    IN  Check(k, Cardinality(k.freemap) = k.unused, "mount")
=============================================================================
