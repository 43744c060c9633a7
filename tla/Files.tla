-------------------------------- MODULE Files --------------------------------
(***************************************************************************)
(* The open files of processes: kern/fs/file.c, fs.c and sysfile.c, and    *)
(* what process creation, exec and exit do to them (process/proc.c), over  *)
(* Vfs and Sfs.  The kernel is not preempted: a system call is one step,   *)
(* but for a read of stdin, which sleeps.                                  *)
(***************************************************************************)
EXTENDS Vfs, SequencesExt

CONSTANTS
    Procs,       \* process slots
    initproc,    \* the kernel thread init_main
    NFd,         \* FILES_STRUCT_NENTRY
    IobufSize,   \* IOBUF_SIZE
    Hosts,       \* host directories that an image may have been made from
    Opens,       \* <<path, open flags>> that programs pass
    Programs,    \* names of the files that hold programs
    Lengths,     \* lengths of reads and writes
    Seeks,       \* <<pos, whence>> of seeks
    MaxLeak,     \* bound of the calls of open that lose a reference
    MaxOpen      \* bound of the open descriptors of all processes together

ASSUME FilesAssumption ==
    /\ initproc \in Procs /\ NFd \in Nat \ {0} /\ IobufSize \in Nat \ {0}
    /\ Lengths \subseteq Nat /\ MaxLeak \in Nat /\ MaxOpen \in Nat

VARIABLES
    boot,        \* "off", "mounted" after fs_init, "up" after vfs_set_bootfs, "user" once
                 \* init_main has created user_main, "end" after fs_cleanup
    fs,          \* the file system state, record k of Sfs
    bootfs,      \* bootfs_node
    filesp,      \* filesp[p]: files_count, pwd and fd_array; count 0: no process
    reading      \* the descriptor whose read of stdin a process sleeps in, or NoFd

vars == <<boot, fs, bootfs, filesp, reading>>

Fds == 0..(NFd - 1)
NoFd == -1

FdNone == [status |-> "FD_NONE", node |-> NULL, pos |-> 0, readable |-> FALSE,
           writable |-> FALSE, open_count |-> 0]

(* files_create with fd_array_init *)
files_create == [count |-> 0, pwd |-> NULL, fd |-> [i \in Fds |-> FdNone]]

NoFs == [disk |-> << >>, freemap |-> {}, unused |-> 0, super_dirty |-> FALSE, sin |-> << >>,
         ref |-> [n \in Nodes |-> 0], open |-> [n \in Nodes |-> 0],
         leak |-> [n \in Nodes |-> 0], ret |-> "ok", val |-> 0, out |-> << >>, panic |-> "none"]

Init ==
    /\ boot = "off"
    /\ fs = NoFs
    /\ bootfs = NULL
    /\ filesp = [p \in Procs |-> IF p = initproc THEN [files_create EXCEPT !.count = 1]
                                                 ELSE files_create]
    /\ reading = [p \in Procs |-> NoFd]

-----------------------------------------------------------------------------
(* Descriptors.  These operators work on s: k, the file system state, and  *)
(* f, the files_struct of the process; result is what the call returns.    *)

fd2file(f, fd) == fd \in Fds /\ f.fd[fd].status = "FD_OPENED"

(* the lowest free entry *)
fd_array_alloc(f) == {i \in Fds : f.fd[i].status = "FD_NONE" /\ f.fd[i].open_count = 0 /\
                                  \A j \in Fds : f.fd[j].status = "FD_NONE" => i <= j}

fd_array_open(s, fd, node, pos, readable, writable) ==
    [s EXCEPT !.f.fd[fd] = [status |-> "FD_OPENED", node |-> node, pos |-> pos,
                            readable |-> readable, writable |-> writable, open_count |-> 1]]

(* An entry whose count falls to 0 is freed; a closed one closes its inode. *)
fd_array_free(s, fd) ==
    [k |-> IF s.f.fd[fd].status = "FD_CLOSED" THEN vfs_close(s.k, s.f.fd[fd].node) ELSE s.k,
     f |-> [s.f EXCEPT !.fd[fd] = FdNone]]

fd_array_release(s, fd) ==
    LET t == [s EXCEPT !.f.fd[fd].open_count = @ - 1]
    IN  IF t.f.fd[fd].open_count = 0 THEN fd_array_free(t, fd) ELSE t

fd_array_acquire(s, fd) == [s EXCEPT !.f.fd[fd].open_count = @ + 1]

fd_array_close(s, fd) == fd_array_release([s EXCEPT !.f.fd[fd].status = "FD_CLOSED"], fd)

(* Mutant of fd_array_dup: the inode is not counted again. *)
fd_array_dup_uncounted(s, to, file) ==
    fd_array_open(s, to, file.node, file.pos, file.readable, file.writable)

(* The copy has a reference, an open and a position of its own. *)
fd_array_dup(s, to, file) ==
    fd_array_open([s EXCEPT !.k = inode_open_inc(inode_ref_inc(@, file.node), file.node)],
                  to, file.node, file.pos, file.readable, file.writable)

(* Close all of these descriptors that are open. *)
CloseAll(s, fds) ==
    LET close[i \in 0..NFd] ==
          IF i = 0 THEN s
          ELSE LET t == close[i - 1]
               IN  IF i - 1 \in fds /\ fd2file(t.f, i - 1) /\ Running(t.k)
                   THEN fd_array_close(t, i - 1) ELSE t
    IN  close[NFd]

files_closeall(s) == CloseAll(s, Fds \ {0, 1})

(* Mutant of files_destroy: the working directory is not given back. *)
files_destroy_keeps_pwd(s) == [CloseAll(s, Fds) EXCEPT !.f = files_create]

Destroyed(s) ==
    [k |-> Check(s.k, \A i \in Fds : s.f.fd[i].status = "FD_NONE", "files_destroy"), f |-> files_create]

files_destroy(s) ==
    Destroyed(CloseAll(IF s.f.pwd = NULL THEN s ELSE [s EXCEPT !.k = inode_ref_dec(@, s.f.pwd)], Fds))

(* The files_struct of a new process *)
dup_files(k, from) ==
    LET s0 == [k |-> IF from.pwd = NULL THEN k ELSE inode_ref_inc(k, from.pwd),
               f |-> [files_create EXCEPT !.pwd = from.pwd, !.count = 1]]
        dup[i \in 0..NFd] ==
          IF i = 0 THEN s0
          ELSE IF fd2file(from, i - 1) THEN fd_array_dup(dup[i - 1], i - 1, from.fd[i - 1])
          ELSE dup[i - 1]
    IN  dup[NFd]

-----------------------------------------------------------------------------
(* Operations on open files: return code in s.k.ret *)

NodeOpened(s, k, flags) ==     \* k: after vfs_open; the position of an append is st_size
    IF ~Running(k) \/ k.ret # "ok" THEN [s EXCEPT !.k = k]
    ELSE fd_array_open([s EXCEPT !.k = k], Min(fd_array_alloc(s.f)), k.val,
                       IF flags.append THEN k.sin[k.val].din.size ELSE 0,
                       flags.acc # "WRONLY", flags.acc # "RDONLY")

file_open(s, path, flags) ==
    IF flags.acc \notin {"RDONLY", "WRONLY", "RDWR"} THEN [s EXCEPT !.k = Fail(@, "E_INVAL")]
    ELSE IF fd_array_alloc(s.f) = {} THEN [s EXCEPT !.k = Fail(@, "E_MAX_OPEN")]
    ELSE NodeOpened(s, vfs_open(s.k, path, flags, s.f.pwd, bootfs), flags)

(* One transfer at the position of the descriptor, which moves by what was *)
(* transferred (k.val).  A device (cputchar) does not look at the position.*)
Transferred(s, fd, k) ==
    [s EXCEPT !.k = k, !.f.fd[fd].pos = @ + (IF Running(k) THEN k.val ELSE 0)]

file_io(s, fd, len, write, v) ==
    LET file == s.f.fd[fd]
    IN  IF file.node \in Devs THEN [s EXCEPT !.k = vop(@, file.node, IF write THEN "write" ELSE "read")]
        ELSE Transferred(s, fd, Anyway(vop(s.k, file.node, IF write THEN "write" ELSE "read"),
                                       LAMBDA x : sfs_io_nolock(x, file.node, file.pos, len, write, v)))

Sought(s, fd, k, to) ==
    IF Running(k) /\ k.ret = "ok" THEN [s EXCEPT !.k = k, !.f.fd[fd].pos = to] ELSE [s EXCEPT !.k = k]

SeekTo(s, fd, to) ==
    LET node == s.f.fd[fd].node
    IN  Sought(s, fd, Then(vop(s.k, node, "tryseek"), LAMBDA x :
                           IF node \in Devs THEN Fail(x, "E_INVAL") ELSE sfs_tryseek(x, node, to)), to)

file_seek(s, fd, pos, whence) ==
    LET file == s.f.fd[fd]
    IN  CASE whence = "SET" -> SeekTo(s, fd, pos)
          [] whence = "CUR" -> SeekTo(s, fd, file.pos + pos)
          [] whence = "END" -> SeekTo(s, fd, pos + (IF file.node \in Devs THEN 0
                                                    ELSE s.k.sin[file.node].din.size))
          [] OTHER -> [s EXCEPT !.k = Fail(@, "E_INVAL")]

(* sysfile_read and sysfile_write: pieces of at most IOBUF_SIZE until the  *)
(* length is done or nothing more comes.  A piece that cannot be copied to *)
(* the user (bad) ends the call; a read has consumed it by then.           *)
PieceDone(x, t, fd, len, bad) ==     \* t: after the transfer of a piece
    LET a == t.f.fd[fd].pos - x.s.f.fd[fd].pos
    IN  [s |-> t, done |-> x.done + a,
         more |-> Running(t.k) /\ t.k.ret = "ok" /\ a # 0 /\ ~bad /\ x.done + a < len]

sysfile_io(s, fd, len, write, bad) ==
    LET pieces == [i \in 1..RoundUpDiv(len, IobufSize) |-> i]
        piece(x, i) ==
          IF x.more
          THEN PieceDone(x, file_io(x.s, fd, Min2(len - x.done, IobufSize), write, 2), fd, len, bad)
          ELSE x
    IN  IF bad /\ write THEN s          \* copy_from_user comes before the write
        ELSE FoldLeft(piece, [s |-> s, done |-> 0, more |-> len > 0], pieces).s

-----------------------------------------------------------------------------
(* Steps *)

Up(p) == boot \in {"up", "user"} /\ Running(fs) /\ filesp[p].count > 0 /\ reading[p] = NoFd
User(p) == Up(p) /\ p # initproc

(* The bound lets this many descriptors more be opened. *)
Room(n) ==
    Cardinality({<<p, i>> \in Procs \X Fds : filesp[p].fd[i].status # "FD_NONE"}) + n <= MaxOpen

State(p) == [k |-> [fs EXCEPT !.ret = "ok", !.out = << >>], f |-> filesp[p]]

(* The new state after a call; what it returned is not kept, and of a      *)
(* kernel that has stopped only why.                                       *)
Return(p, s) ==
    IF Running(s.k)
    THEN /\ fs' = [s.k EXCEPT !.ret = "ok", !.val = 0, !.out = << >>]
         /\ filesp' = [filesp EXCEPT ![p] = s.f]
    ELSE /\ fs' = [NoFs EXCEPT !.panic = s.k.panic]
         /\ filesp' = [q \in Procs |-> files_create]

(* dev_init and sfs_init: device inodes hold the reference of their        *)
(* creation; the image is mounted.                                         *)
fs_init ==
    /\ boot = "off"
    /\ \E host \in Hosts :
         \E m \in {create_img(host)} :
           /\ ~m.bug
           /\ fs' = sfs_do_mount(m.disk, [n \in Nodes |-> IF n \in Devs THEN 1 ELSE 0],
                                 [n \in Nodes |-> 0])
    /\ boot' = "mounted"
    /\ UNCHANGED <<bootfs, filesp, reading>>

(* init_main: vfs_set_bootfs("disk0:") changes its directory too. *)
vfs_set_bootfs ==
    /\ boot = "mounted" /\ Running(fs)
    /\ \E x \in {vfs_chdir(State(initproc).k, [dev |-> "disk0", name |-> ""],
                            filesp[initproc].pwd, bootfs)} :
         \E y \in {vfs_get_curdir(x, x.val)} :
           /\ fs' = [y EXCEPT !.val = 0]
           /\ filesp' = [filesp EXCEPT ![initproc].pwd = x.val]
           /\ bootfs' = y.val
    /\ boot' = "up"
    /\ UNCHANGED reading

sys_open(p) ==
    /\ User(p) /\ Room(1)
    /\ \E <<path, flags>> \in Opens :
         /\ flags.excl /\ flags.creat => \A n \in Nodes : fs.leak[n] < MaxLeak
         /\ Return(p, file_open(State(p), path, flags))
    /\ UNCHANGED <<boot, bootfs, reading>>

sys_close(p) ==
    /\ User(p)
    /\ \E fd \in Fds : fd2file(filesp[p], fd) /\ Return(p, fd_array_close(State(p), fd))
    /\ UNCHANGED <<boot, bootfs, reading>>

(* A read of stdin sleeps with the descriptor acquired (Serial wakes it). *)
sys_read(p) ==
    /\ User(p)
    /\ \E fd \in Fds, len \in Lengths, bad \in BOOLEAN :
         /\ fd2file(filesp[p], fd) /\ filesp[p].fd[fd].readable /\ len > 0
         /\ IF filesp[p].fd[fd].node = Stdin
            THEN /\ Return(p, fd_array_acquire(State(p), fd))
                 /\ reading' = [reading EXCEPT ![p] = fd]
            ELSE /\ Return(p, sysfile_io(State(p), fd, len, FALSE, bad))
                 /\ UNCHANGED reading
    /\ UNCHANGED <<boot, bootfs>>

(* dev_stdin_read returns, with characters or because of a kill. *)
stdin_returns(p) ==
    /\ Running(fs) /\ reading[p] # NoFd
    /\ Return(p, fd_array_release(State(p), reading[p]))
    /\ reading' = [reading EXCEPT ![p] = NoFd]
    /\ UNCHANGED <<boot, bootfs>>

sys_write(p) ==
    /\ User(p)
    /\ \E fd \in Fds, len \in Lengths, bad \in BOOLEAN :
         /\ fd2file(filesp[p], fd) /\ filesp[p].fd[fd].writable /\ len > 0
         /\ Return(p, sysfile_io(State(p), fd, len, TRUE, bad))
    /\ UNCHANGED <<boot, bootfs, reading>>

sys_seek(p) ==
    /\ User(p)
    /\ \E fd \in Fds, sk \in Seeks :
         fd2file(filesp[p], fd) /\ Return(p, file_seek(State(p), fd, sk[1], sk[2]))
    /\ UNCHANGED <<boot, bootfs, reading>>

sys_fsync(p) ==
    /\ User(p)
    /\ \E fd \in Fds :
         /\ fd2file(filesp[p], fd)
         /\ LET n == filesp[p].fd[fd].node
            IN  Return(p, [State(p) EXCEPT !.k = Then(vop(@, n, "fsync"),
                                                      LAMBDA x : sfs_fsync(x, n))])
    /\ UNCHANGED <<boot, bootfs, reading>>

(* Only the operation that the inode lacks changes anything. *)
sys_getdirentry(p) ==
    /\ User(p)
    /\ \E fd \in Fds :
         /\ fd2file(filesp[p], fd)
         /\ LET n == filesp[p].fd[fd].node
            IN  Return(p, [State(p) EXCEPT !.k = Then(vop(@, n, "getdirentry"),
                                                      LAMBDA x : sfs_getdirentry(x, n, 0))])
    /\ UNCHANGED <<boot, bootfs, reading>>

sys_getcwd(p) ==
    /\ User(p)
    /\ Return(p, [State(p) EXCEPT !.k = vfs_getcwd(@, filesp[p].pwd)])
    /\ UNCHANGED <<boot, bootfs, reading>>

(* file_dup; E_BUSY if fd2 is in use *)
sys_dup(p) ==
    /\ User(p) /\ Room(1)
    /\ \E fd1, fd2 \in Fds :
         /\ fd2file(filesp[p], fd1) /\ filesp[p].fd[fd2].status = "FD_NONE"
         /\ Return(p, fd_array_dup(State(p), fd2, filesp[p].fd[fd1]))
    /\ UNCHANGED <<boot, bootfs, reading>>

(* copy_files of do_fork.  When it finds no memory, put_files works on the *)
(* files_struct that alloc_proc has made, whose count becomes -1, and      *)
(* destroys nothing: no step of this model.                                *)
do_fork(p) ==
    /\ Up(p) /\ Room(Cardinality({i \in Fds : fd2file(filesp[p], i)}))
    /\ \E q \in Procs :
         /\ filesp[q].count = 0
         /\ \E s \in {dup_files(State(p).k, filesp[p])} :
              fs' = s.k /\ filesp' = [filesp EXCEPT ![q] = s.f]
    /\ boot' = "user"
    /\ UNCHANGED <<bootfs, reading>>

put_files(s) == IF s.f.count = 1 THEN files_destroy([s EXCEPT !.f.count = 0])
                                 ELSE [s EXCEPT !.f.count = @ - 1]

do_exit(p) ==
    /\ User(p)
    /\ Return(p, put_files(State(p)))
    /\ UNCHANGED <<boot, bootfs, reading>>

(* The program is opened once the other descriptors are closed, and stays  *)
(* open; load_icode leaves the position somewhere in it.  A program that   *)
(* cannot be opened ends the process, one that cannot be loaded the kernel.*)
ReadOnly == [acc |-> "RDONLY", creat |-> FALSE, excl |-> FALSE, trunc |-> FALSE, append |-> FALSE]

LoadIcode(p, s, fd, name) ==
    LET n == s.f.fd[fd].node
    IN  IF name \notin Programs \/ n \in Devs \/ in_type(s.k, n) # "file" \/ s.k.sin[n].din.size = 0
        THEN Return(p, [s EXCEPT !.k.panic = "load_icode"])
        ELSE \E pos \in 1..s.k.sin[n].din.size : Return(p, [s EXCEPT !.f.fd[fd].pos = pos])

do_execve(p) ==
    /\ User(p) /\ Room(1)
    /\ \E path \in {o[1] : o \in Opens} :
         \E s \in {files_closeall(State(p))} : \E t \in {file_open(s, path, ReadOnly)} :
           IF ~Running(t.k) THEN Return(p, t)
           ELSE IF t.k.ret # "ok" THEN Return(p, put_files([t EXCEPT !.k.ret = "ok"]))
           ELSE LoadIcode(p, t, CHOOSE i \in Fds : fd2file(t.f, i) /\ ~fd2file(s.f, i), path.name)
    /\ UNCHANGED <<boot, bootfs, reading>>

(* init_main, when all other processes have exited *)
fs_cleanup ==
    /\ boot = "user" /\ Running(fs)
    /\ \A p \in Procs \ {initproc} : filesp[p].count = 0
    /\ fs' = sfs_sync(State(initproc).k)
    /\ boot' = "end"
    /\ UNCHANGED <<bootfs, filesp, reading>>

Next ==
    \/ fs_init \/ vfs_set_bootfs \/ fs_cleanup
    \/ \E p \in Procs :
         \/ sys_open(p) \/ sys_close(p) \/ sys_read(p) \/ stdin_returns(p) \/ sys_write(p)
         \/ sys_seek(p) \/ sys_fsync(p) \/ sys_getdirentry(p) \/ sys_getcwd(p) \/ sys_dup(p)
         \/ do_fork(p) \/ do_execve(p) \/ do_exit(p)

Spec == Init /\ [][Next]_vars

-----------------------------------------------------------------------------
(* Properties *)

(* The descriptors that stand for an inode *)
Holders(n) == {<<p, i>> \in Procs \X Fds : filesp[p].fd[i].status # "FD_NONE"
                                           /\ filesp[p].fd[i].node = n}

(* ref_count and open_count of every inode are exactly what the            *)
(* descriptors, the working directories, the boot file system and the      *)
(* creation of the devices hold, and what vfs_open has lost (leak):        *)
(* through every open, dup, fork, exec, exit, failed call and kill, an     *)
(* inode in use is never reclaimed and one out of use never stays.         *)
RefsExact ==
    Running(fs) /\ boot # "off" =>
      \A n \in Nodes \ {NULL} :
        /\ fs.open[n] = Cardinality(Holders(n))
        /\ fs.ref[n] = fs.open[n] + Cardinality({p \in Procs : filesp[p].pwd = n})
                       + (IF bootfs = n THEN 1 ELSE 0) + (IF n \in Devs THEN 1 ELSE 0)
                       + fs.leak[n]
        /\ n \in Blocks => (fs.ref[n] > 0 <=> n \in DOMAIN fs.sin)

(* The panics that programs and images can cause, each by what the code    *)
(* does not support; no other assertion of file.c, inode.c and sfs fails.  *)
ReachablePanics ==
    {"none", "vop", "sfs_get_ops", "index <= din->blocks", "tblks == din->blocks",
     "index out of range", "sfs_io", "load_icode"}

AssertionsHold == fs.panic \in ReachablePanics

(* An inode that is in memory and not open has nothing to write: the last  *)
(* close and not the eviction is where it was stored.                      *)
ClosedIsClean ==
    Running(fs) => \A n \in DOMAIN fs.sin : fs.open[n] = 0 => ~fs.sin[n].dirty
=============================================================================
