--------------------------------- MODULE Vfs ---------------------------------
(***************************************************************************)
(* The virtual file system layer (kern/fs/vfs) and the device inodes       *)
(* (kern/fs/devs/dev.c): counted inodes, name lookup, open and close.      *)
(* An inode is a number: the block of an sfs inode, or Stdin or Stdout.    *)
(* A path is a record: dev (the device before the colon, "rel" for a       *)
(* relative path, "/" and ":" for the paths that start so) and name (what  *)
(* follows, "" if nothing does).  Open flags are a record: acc, creat,     *)
(* excl, trunc, append.  Operators take and return the record k of Sfs.    *)
(* k.leak counts references that no code can give back; it is a history    *)
(* variable.                                                               *)
(***************************************************************************)
EXTENDS Mksfs

Stdin == -1
Stdout == -2
Devs == {Stdin, Stdout}
Nodes == Blocks \cup Devs
NULL == 0            \* block 0 is no inode

in_type(k, node) == IF node \in Devs THEN "device" ELSE k.sin[node].din.type

(* The operations of dev_node_ops, sfs_node_dirops and sfs_node_fileops *)
in_ops(type) ==
    CASE type = "device" -> {"open", "close", "read", "write", "fstat", "ioctl", "gettype",
                             "tryseek", "lookup"}
      [] type = "dir"  -> {"open", "close", "fstat", "fsync", "namefile", "getdirentry",
                           "reclaim", "gettype", "lookup"}
      [] type = "file" -> {"open", "close", "read", "write", "fstat", "fsync", "reclaim",
                           "gettype", "tryseek", "truncate"}

(* ref_count >= open_count >= 0, asserted before every vop_ call *)
inode_check(k, node) == Check(k, k.ref[node] >= k.open[node] /\ k.open[node] >= 0, "inode_check")

(* __vop_op: an operation that the inode lacks fails an assertion. *)
vop(k, node, op) == inode_check(Check(k, op \in in_ops(in_type(k, node)), "vop"), node)

inode_ref_inc(k, node) == [k EXCEPT !.ref[node] = @ + 1]
inode_open_inc(k, node) == [k EXCEPT !.open[node] = @ + 1]

(* The last reference reclaims the inode.  The return code is the caller's. *)
inode_ref_dec(k, node) ==
    Anyway(Check(k, k.ref[node] > 0, "ref_count"), LAMBDA x :
           IF x.ref[node] > 1 THEN [x EXCEPT !.ref[node] = @ - 1]
           ELSE Anyway(vop([x EXCEPT !.ref[node] = 0], node, "reclaim"), LAMBDA y :
                       Fail(sfs_reclaim([y EXCEPT !.ret = "ok"], node), k.ret)))

(* Mutant of inode_open_dec: the last close does not call vop_close. *)
open_dec_silent(k, node) == [k EXCEPT !.open[node] = @ - 1]

(* The last close of an sfs inode is an fsync (sfs_close). *)
inode_open_dec(k, node) ==
    Anyway(Check(k, k.open[node] > 0, "open_count"), LAMBDA x :
           IF x.open[node] > 1 \/ node \in Devs THEN [x EXCEPT !.open[node] = @ - 1]
           ELSE Fail(sfs_fsync([x EXCEPT !.open[node] = 0, !.ret = "ok"], node), k.ret))

-----------------------------------------------------------------------------

vfs_get_curdir(k, pwd) ==
    IF pwd = NULL THEN Fail(k, "E_NOENT") ELSE [inode_ref_inc(k, pwd) EXCEPT !.val = pwd]

(* A mounted device gives the root of its file system, a device that is    *)
(* not mountable itself.                                                   *)
vfs_get_root(k, dev) ==
    CASE dev = "stdin"  -> [inode_ref_inc(k, Stdin) EXCEPT !.val = Stdin]
      [] dev = "stdout" -> [inode_ref_inc(k, Stdout) EXCEPT !.val = Stdout]
      [] dev = "disk0"  -> sfs_get_root(k)
      [] OTHER -> Fail(k, "E_NO_DEV")

vfs_get_bootfs(k, bootfs) ==
    IF bootfs = NULL THEN Fail(k, "E_NOENT")
                     ELSE [inode_ref_inc(k, bootfs) EXCEPT !.val = bootfs]

(* The inode that the lookup of a path starts from. *)
get_device(k, path, pwd, bootfs) ==
    CASE path.dev = "rel" -> vfs_get_curdir(k, pwd)
      [] path.dev = "/"   -> vfs_get_bootfs(k, bootfs)
      [] path.dev = ":"   -> Then(vfs_get_curdir(k, pwd), LAMBDA x :
                             Then(sfs_get_root(x), LAMBDA y : inode_ref_dec(y, pwd)))
      [] OTHER -> vfs_get_root(k, path.dev)

(* Give the reference to node back; what was found stays in val. *)
PutNode(k, node) == Anyway(k, LAMBDA x : [inode_ref_dec(x, node) EXCEPT !.val = x.val])

(* dev_lookup knows no names; sfs_lookup searches the one directory. *)
vop_lookup(k, node, name) ==
    IF node \in Devs THEN Fail(k, "E_NOENT")
    ELSE IF in_type(k, node) # "dir" THEN Fail(k, "E_NOTDIR")
    ELSE PutNode(sfs_lookup_once(inode_ref_inc(k, node), node, name), node)

vfs_lookup(k, path, pwd, bootfs) ==
    Then(get_device(k, path, pwd, bootfs), LAMBDA x :
         IF path.name = "" THEN x ELSE PutNode(vop_lookup(x, x.val, path.name), x.val))

(* dev_open with stdin_open or stdout_open, sfs_opendir, sfs_openfile *)
dev_open(k, node, flags) ==
    IF flags.creat \/ flags.trunc \/ flags.excl \/ flags.append
       \/ flags.acc # (IF node = Stdin THEN "RDONLY" ELSE "WRONLY")
    THEN Fail(k, "E_INVAL") ELSE k

sfs_opendir(k, flags) ==
    IF flags.acc # "RDONLY" \/ flags.append THEN Fail(k, "E_ISDIR") ELSE k

vop_open(k, node, flags) ==
    CASE in_type(k, node) = "device" -> dev_open(k, node, flags)
      [] in_type(k, node) = "dir"    -> sfs_opendir(k, flags)
      [] OTHER -> k

vop_truncate(k, node, len) ==
    Then(vop(k, node, "truncate"), LAMBDA x : sfs_truncfile(x, node, len))

(* vfs_open after a lookup that found the inode, after vop_open, after vop_truncate *)
Truncated(k, node) ==
    IF ~Running(k) \/ k.ret = "ok" THEN [k EXCEPT !.val = node]
    ELSE inode_ref_dec(inode_open_dec(k, node), node)

Opened(k, node, flags) ==
    IF k.ret # "ok" THEN inode_ref_dec(k, node)
    ELSE IF ~(flags.trunc \/ flags.creat) THEN [inode_open_inc(k, node) EXCEPT !.val = node]
    ELSE Truncated(vop_truncate(inode_open_inc(k, node), node, 0), node)

OpenFound(k, node, flags) ==
    IF flags.excl /\ flags.creat                    \* the reference of the lookup stays
    THEN Fail([k EXCEPT !.leak[node] = @ + 1], "E_EXISTS")
    ELSE Opened(vop_open(k, node, flags), node, flags)

(* vfs_lookup_parent, then vop_create, which no inode has *)
Create(k, path, pwd, bootfs) ==
    Then(get_device([k EXCEPT !.ret = "ok"], path, pwd, bootfs), LAMBDA x : vop(x, x.val, "create"))

vfs_open(k, path, flags, pwd, bootfs) ==
    IF flags.trunc /\ flags.acc = "RDONLY" THEN Fail(k, "E_INVAL")
    ELSE Anyway(vfs_lookup(k, path, pwd, bootfs), LAMBDA x :
                IF x.ret = "ok" THEN OpenFound(x, x.val, flags)
                ELSE IF x.ret = "E_NOENT" /\ flags.creat THEN Create(x, path, pwd, bootfs)
                ELSE x)

vfs_close(k, node) == Anyway(inode_open_dec(k, node), LAMBDA x : inode_ref_dec(x, node))

(* The new directory, in val, replaces pwd. *)
vfs_set_curdir(k, pwd, dir) ==
    IF pwd = dir THEN [k EXCEPT !.val = pwd]
    ELSE IF in_type(k, dir) # "dir" THEN Fail([k EXCEPT !.val = pwd], "E_NOTDIR")
    ELSE LET x == inode_ref_inc(k, dir)
         IN  [(IF pwd = NULL THEN x ELSE inode_ref_dec(x, pwd)) EXCEPT !.val = dir]

vfs_chdir(k, path, pwd, bootfs) ==
    Then(vfs_lookup(k, path, pwd, bootfs), LAMBDA x : PutNode(vfs_set_curdir(x, pwd, x.val), x.val))

(* sfs_namefile: up from node, one directory for each "..", which it holds *)
(* a reference to (in val, NULL at the root), until the root; Depth bounds *)
(* the walk.                                                               *)
Depth == NBlocks

NamedIn(k, n, parent) ==     \* after the search for n in its parent
    IF k.ret # "ok" THEN inode_ref_dec(inode_ref_dec(k, n), parent)
    ELSE [inode_ref_dec(k, n) EXCEPT !.val = parent]

ParentFound(k, n) ==         \* after the search for "..", which val is
    IF k.ret # "ok" THEN inode_ref_dec(k, n)
    ELSE IF k.val = n THEN [inode_ref_dec(inode_ref_dec(k, n), n) EXCEPT !.val = NULL]
    ELSE NamedIn(sfs_dirent_findino_nolock(k, k.val, n), n, k.val)

sfs_namefile(k, node) ==
    LET up[d \in 0..Depth] ==
          IF d = 0 THEN [inode_ref_inc(k, node) EXCEPT !.val = node]
          ELSE Then(up[d - 1], LAMBDA x :
                    IF x.val = NULL THEN x ELSE ParentFound(sfs_lookup_once(x, x.val, ".."), x.val))
    IN  up[Depth]

vfs_getcwd(k, pwd) ==
    Then(vfs_get_curdir(k, pwd), LAMBDA x :
         Anyway(sfs_namefile(x, x.val), LAMBDA y : inode_ref_dec(y, pwd)))
=============================================================================
