# A TLA+ development of ThuMips32

ThuMips32 is a student project that builds a whole computer: a multi-cycle
MIPS CPU with its devices in VHDL (`src/CPU/CPU_project`), a port of the
teaching kernel ucore to it (`src/ucore/lab8_decaf`), and a compiler for the
language decaf (`src/Compiler/decaf`). This directory holds TLA+ modules of the
parts in which something can go wrong that a test would hardly show, TLC
configurations that check them on small instances, and TLAPS proofs of the
properties that matter most for every size. `PROJECT.json` lists the components,
the runs, the correspondence of definitions and source lines, the hazards and
the findings in machine-readable form.

Paths below are relative to `src/ucore/lab8_decaf/kern` unless they end in
`.vhd` (then `src/CPU/CPU_project`).

## 1. The system

### Execution model

There is one CPU. The controller tests for interrupts when it fetches an
instruction, and only with IE set and EXL clear (Controller.vhd:129-131). The
trap entry clears IE (trapentry.S:65-67) and the return from the exception
restores it. Consequences that all modules share:

* a trap from user mode (system call or interrupt) runs with interrupts masked
  until it returns to user mode; it is suspended only where it calls
  `schedule()`;
* the kernel is not preempted: `trap()` calls `schedule()` at its end only for
  a trap from user mode (trap.c:206-213);
* the two kernel threads, `idleproc` and `initproc`, run with interrupts
  enabled, so the clock handler runs between any two of their steps, except
  inside `local_intr_save`;
* devices run in parallel with all of it: the receiver of the serial line puts
  characters into its buffer while the kernel empties it;
* the CPU clears the timer's line while interrupts are masked (CPU.vhd:547-549),
  so a tick that falls into kernel code is dropped.

### Inventory

| component | state | operations | interacts with | what makes it correct |
|---|---|---|---|---|
| process management (`process/proc.c`) | process table: state, wait_state, flags, parent, need_resched | fork, exit, wait, kill, sleep, yield; init_main, user_main, cpu_idle | scheduler, timers, trap | no exit is lost, zombies stay dead, what is freed is not in use, a kill leads to an exit |
| pid allocation (`get_pid`) | last_pid, next_safe, proc_list | get_pid; set_links and remove_links change its input | process management | pids are unique, the walk ends |
| relation links (`set_links`, `remove_links`, `do_exit`) | cptr, optr, yptr, parent, nr_process | link, unlink, hand children to initproc | process management | the lists hold exactly the children, no link dangles |
| scheduler (`schedule/`) | run_list, time_slice, current | wakeup_proc, schedule, RR_enqueue/dequeue/pick_next/proc_tick | all | every runnable process is queued once and gets the CPU |
| timers (`schedule/sched.c`) | timer_list with relative expiry | add_timer, del_timer, run_timer_list | do_sleep, clock interrupt | every timer ends after its own number of ticks |
| semaphores, wait queues (`sync/sem.c`, `sync/wait.c`) | value, wait_queue, wakeup_flags | sem_init, up, down, try_down | scheduler, do_kill | exclusion, no lost wake-up, down is not interrupted |
| monitors and their check (`sync/monitor.c`, `sync/check_sync.c`) | next_count, count per condition, philosopher states | cond_signal, cond_wait, take and put forks | semaphores | one thread in the monitor, neighbours exclude one another, all finish |
| trap path (`trap/`) | pending interrupts in Cause, trap frame | trap_dispatch, trap | CPU, clock, console, system calls | every interrupt is served |
| console and stdin (`driver/console.c`, `fs/devs/dev_stdin.c`) | console ring, stdin ring, wait queue | cons_intr, cons_getc, dev_stdin_write, dev_stdin_read | serial port, trap, scheduler | characters arrive once and in order, a sleeping reader is woken |
| serial port (Device_COM.vhd) | header, tailer, comBuffer, sender state | receive, send, register reads | CPU bus, interrupt line | the buffer never looks empty when full |
| CPU (CPU.vhd, Controller.vhd) | PC, CP0, controller state, timer | instruction cycle, exceptions, interrupts | bus, devices | an interrupt is taken with the right cause |
| files and VFS (`fs/file.c`, `fs/vfs/`) | fd arrays, reference and open counts of inodes, working directories | open, close, dup, read, write, seek, fsync; fork, exec, exit | processes, SFS, devices | counts equal the references, the last close stores the inode |
| SFS (`fs/sfs/`) and its image builder (`tools/mksfs.c`) | disk blocks, freemap, inodes in memory with dirty flags | block map, transfer, truncate, sync, reclaim; build and mount of an image | VFS, disk0 | every block has one owner, files hold the bytes written, what is clean is stored |
| frames and heap (`mm/default_pmm.c`, `mm/kmalloc.c`) | free runs of frames, the SLOB ring, big blocks | alloc_pages, free_pages, kmalloc, kfree | everything that allocates | free and used parts partition the memory |
| address spaces (`mm/pmm.c`, `vmm.c`, `tlb.c`, `swap.c`; `load_icode`) | page tables, frame counts, vmas, TLB, FIFO list | map, fault, refill, copy, swap, load, exit | processes, CPU TLB, frames | no frame is free and mapped or leaks, processes have a memory of their own |
| bus, TLB, RAM, flash (mm_manager.vhd and devices) | bus state, TLB entries | read, write, translate | CPU | a request gets its own answer |
| decaf compiler, TAC machine, boot loader, host tools, user programs | - | batch programs | - | see section 7 |

Hard behaviours: an exit that meets a parent about to sleep; a kill that meets
its target runnable, sleeping or preempted; timers that end for processes
already woken; a cached pid gap that outlives the processes it was computed
from; links that are temporarily wrong while children change their parent; the
hand-over of a monitor; a device that fills a buffer while a handler empties it;
two interrupts at once. `PROJECT.json` lists each with its source line.

## 2. Plan

1. Process core: `Proc`, with `TimerSpec`/`Timer`, `GetPid` and `ProcLinks` for
   the data structures `Proc` abstracts (composed in `ProcTable`). *Done.*
2. Synchronisation: `Sem`, `Lock`, the philosophers. Proof of `Lock`. *Done.*
3. Input path from the wire to the reader: `Serial`. *Done.*
4. Files: `Files` over `Vfs` over `Sfs`, images from `Mksfs`; the abstract store
   of bytes `FileStore`, implemented by the file system (`SfsStore`). *Done.*
5. Memory: `PageAlloc`, `Kmalloc`, `Paging`, `Vm`, `Memory`, and the abstract
   `AddressSpaces` that it implements. *Done.*
6. Proofs for `ProcTable`, `Timer`, `CheckSync`, `Serial` and `PageAlloc` (what an
   allocation and a free do to the set of free frames) and for the SLOB heap
   (`HeapExact`), section 5. *Done.*
7. Hardware: the controller's instruction cycle with exceptions, CP0, the bus
   dispatch of `mm_manager`, the flash and RAM handshakes and the sender of the
   serial port; and the kernel libraries as pure operators.

## 3. Modules

`Proc` is the centre. Its header says what it takes from others: that pids are
unique (`GetPid`), that the children lists hold the children (`ProcLinks`) and
that the timer list is a countdown per process (`Timer`, by refinement of
`TimerSpec`). `ProcTable` composes `GetPid` and `ProcLinks` into the process
table that fork, exit and wait change. `Serial` and `Lock` contain the part of the kernel's sleep and
wake-up they need. `PhiSema` and `PhiCondvar` share `Philosophers`, and all
semaphore users share `Sem`; `CheckSync` extends both and puts the two
philosophers programs side by side as `check_sync` does.

The file system is written in layers that follow the code, `Sfs` < `Mksfs` <
`Vfs` < `Files`, and the memory likewise, `PageAlloc` < `Paging` < `Vm` <
`Memory`, with `Kmalloc` beside it on `PageAlloc`. The kernel is not preempted
and neither disk0 nor the memory makes it wait, so a call of these parts is one
step. The functions below the system calls are operators from state to state
with the names of the C functions; the failure of an assertion is a value of
`panic`, after which nothing happens any more. `SfsStore` and `MCMemory` hold the
refinement mappings to `FileStore` and `AddressSpaces`.

A definition directly before `X` under the comment "Mutant of X" or "A fault" is
a plausible mistake in that code; it is not part of the specification and is used
to see that a property notices it.

| module | source | state | actions |
|---|---|---|---|
| `Proc` | proc.c, sched.c, default_sched.c, trap.c, syscall.c | one record field of `proc_struct` per variable; `pc` is where a process executes or resumes, `at_schedule` that current stands at a call of `schedule()`, `in_tick` that the clock handler runs | `schedule`, `cpu_idle`; `clock_begin`, `clock_expire`, `clock_end`; `trap_tail`; the system calls; `do_wait_*`, `do_exit*` split where the code can be suspended or where a loop turns; `init_main`, `user_main`, `init_end` |
| `Timer` | sched.c:102-175 | `timer_list`, each entry with the ticks after its predecessor | `add_timer`, `del_timer`, the two halves and the loop of `run_timer_list` |
| `TimerSpec` | abstract | ticks left per process | `Add`, `Delete`, `Tick`, `Expire`, `EndTick` |
| `GetPid` | proc.c:164-213 | `last_pid`, `next_safe`, the pids in use, what the walk has still to visit | call within the gap, start of the walk, a visit, the return, removal of a process |
| `ProcLinks` | proc.c:152-178, 534-549 | `cptr`, `optr`, `yptr`, `parent`, `nr_process` | fork, exit with one step per child handed over, wait |
| `ProcTable` | do_fork, do_exit, do_wait in proc.c | the states of `GetPid` and `ProcLinks`, `pid` | `walk_begin`, `walk_step`, `fork`, `exit`, `exit_loop`, `wait`, each a step of both or of one |
| `Serial` | Device_COM.vhd, CPU.vhd, Controller.vhd, trap.c, console.c, dev_stdin.c | the three rings, the interrupt lines, what the CPU executes, the readers and the wait queue | receiver, timer, interrupt, dispatch, the two loops of the handler, the read, kill |
| `Sem` | sem.c, wait.c | operators on a semaphore value | - |
| `Lock` | sem.c, wait.c, do_kill | a semaphore and its users | `down`, `down_wait`, `down_end`, `up`, `do_kill` |
| `Philosophers`, `PhiSema`, `PhiCondvar` | check_sync.c, monitor.c | philosopher states, semaphores, monitor counters, labels | one action per semaphore operation |
| `CheckSync` | check_sync.c:177-204 | the above and `solution`, the group that runs | the steps of either group |
| `Sfs` | sfs_inode.c, sfs_io.c, sfs_fs.c, bitmap.c, dev_disk0.c | a record: disk, freemap, unused blocks, inodes in memory, counts, return value, panic | operators only |
| `Mksfs` | tools/mksfs.c, sfs_do_mount | the image under construction | operators only |
| `Vfs` | vfs/*.c, devs/dev.c, parts of sfs_inode.c | the record of `Sfs` | operators only |
| `Files` | file.c, fs.c, sysfile.c, proc.c | `fs` (the record), `bootfs`, `filesp` per process, `reading` | `fs_init`, `vfs_set_bootfs`, one action per file call, `stdin_returns`, `do_fork`, `do_execve`, `do_exit`, `fs_cleanup` |
| `FileStore`, `SfsStore` | abstract; the mapping | the node of every name, the bytes of every file, descriptors with their positions | read and write at the position of a descriptor, in its file; seek, open, close, dup, fork, exec, exit, mount, stop |
| `PageAlloc` | default_pmm.c, page_init | a record: free list of runs, nr_free, flags | operators only |
| `Kmalloc` | kmalloc.c | the frames, the SLOB ring, big blocks, objects in use | `Kmalloc`, `Kfree`, `KfreeAlias`, `AllocPages`, `FreePages` |
| `Paging` | pmm.c, tlb.c, swap.c, swap_fifo.c, TLB.vhd | a record: frames with counts and bytes, page tables, TLB, FIFO list | operators only |
| `Vm` | vmm.c, swap.c, load_icode, the boot checks | the record and an mm: page directory and vmas | operators only |
| `Memory` | proc.c, trap.c | `m` (the record), `current`, `proc` | boot in four steps, `proc_run`, `do_fork`, `do_exit`, `do_wait`, `do_execve`, accesses of programs and of the kernel |
| `AddressSpaces` | abstract | the process that runs; of each process the addresses it may use and the bytes it sees there | an access, a store, a system call's store and a wait of the process that runs, at an address; switch, fork, exec, exit, stop |
| `MC*` | - | - | instances for TLC |
| `ProcProofs`, `ProcTableProofs`, `TimerProofs`, `LockProofs`, `CheckSyncProofs`, `SerialProofs`, `KmallocProofs` | - | - | theorems and their lemmas |
| `DataFacts` | - | - | lemmas on loops, queues, remainders and sequences |

Abstractions worth knowing:

* `Proc` identifies a process with its slot. `sys_other` stands for all system
  calls that leave this state alone, successful or not. Whether a tick is the
  one in TICK_NUM that sets `need_resched` is left open.
* `GetPid` leaves the order in which the walk meets the processes open, so the
  results hold for every order of `proc_list`.
* `Serial` numbers the letters that are sent, so that a lost, repeated or
  reordered one is visible; NUL and DEL are sent as well because the driver
  drops the one and translates the other. `sent`, `accepted`, `got` and `lost`
  record history and no action's guard but `receive`'s bound reads them.
* The philosophers interleave at every semaphore operation. The code switches
  threads only where they sleep, so the model has more behaviours than the
  code, and the properties hold in all of them.

* `Files` and `Memory` keep of a process what these parts need; when it runs is
  the business of `Proc`, and any process that is not asleep may make any call.
  In `Memory` a process that sleeps in the kernel is simply not scheduled.
* `Sfs`: the constant `Writable` says whether the device keeps what is written.
  SFS is written for one that does, and the properties are about that; disk0 of
  this board (dev_disk0.c:48-52) warns and drops the data. `sfs_flash` checks
  what becomes of the assertions there. A directory entry is one block, as in the
  code; names are atoms and the directories below the root are empty.
* `RefsExact` counts references that nobody can give back in `leak`, a history
  variable with one source: the E_EXISTS return of vfs_open.
* `AssertionsHold` names the panics that programs and images can cause because
  the code does not support what they ask for (section 6); every other assertion of
  the file system is shown to hold.
* `Paging` keeps the bytes of frames; a frame that is freed and used again has
  unknown bytes, as nothing clears it. `PTE_U`, `mmap_cache`, `mm_sem` and
  `mm_count` are left out: the CPU does not test the first, the second only
  shortens a search, and no mm is shared. A page with execute permission only is
  taken as readable. The kernel heap is outside the frames of `Memory`: it is
  what `Kmalloc` is about.

## 4. Runs

Passing runs:

| run | instance | distinct states | shows |
|---|---|---|---|
| `proc_safety` | idleproc, initproc, 3 user slots; slice 1, sleep 1 | 4 664 668 (with symmetry) | exact run queue, no lost child exit, timers owned by sleepers, everyone reapable, init_main's final assertions, zombies stay dead |
| `proc_liveness` | 2 user slots | 39 821 | no starvation, sleeps end, a killed process exits or enters do_wait |
| `timer` | 4 timers, sleeps up to 4 | 2 914 | the delta list refines `TimerSpec` |
| `proc_table` | initproc and 3 user structures, MAX_PROCESS = 5, 9 pids | 451 043 | children lists, back links and counts are exact, pids are unique, the walk of get_pid ends |
| `serial` | 2 readers, rings of 3, 3 and 2, 3 characters | 513 420 | sleeping readers miss nothing, characters in order, input wakes a reader |
| `lock` | 4 processes, value 1 | 7 552 | exclusion, no lost wake-up, no interrupted down, every down returns |
| `check_sync` | both programs, 4 philosophers with one meal | 292 822 | neighbours exclude one another, no lost right to eat, monitor exclusion, all quit |
| `files` | 3 processes, 3 descriptors each (3 open at once), an image with a file of two names, a directory, a symbolic link and no free block, or one with a double indirect block | 99 929 (with symmetry) | counts of inodes are exact, only the named panics are reached, closed inodes are clean |
| `sfs` | initproc and a process with 2 descriptors, 15 blocks of 2 bytes, 2 direct and 3 indirect blocks, files up to 10 bytes | 92 005 | blocks have one owner, reads are exact, clean inodes are stored, the final sync stores all, the file system implements `FileStore` |
| `memory` | 3 process slots, 24 frames of 2 bytes, tables of 6 entries, a TLB of 2 entries, 4 calls of fork and exec | 29 089 (with symmetry) | frames are exact, the memory management implements `AddressSpaces` |
| `alloc` | 5 frames of 4 units, 7 sizes around every boundary, 3 objects at once | 922 662 | heap and frames are partitioned exactly |

The run that must find a violation is in section 6.

Why the bounds are enough. `Proc`: with three user slots there are a parent, a
child and a third process that kills or inherits, and a grandchild whose parent
dies first; a slice of one tick makes every tick a possible preemption; a sleep
of one tick is enough for an end that races a kill, and longer sleeps are the
subject of `Timer`, where four timers give every position (before, between, equal,
after, at the head) relative to two others. `ProcTable`: five processes and nine
pids wrap around several times and reach a full table; three user structures
give an exiting parent with two children, and siblings on both sides of a
process. It takes always the same free structure for a fork, since alloc_proc
clears it. `Serial`: every ring is filled and wrapped by three characters, and
two readers can wait at once; the console ring is no larger than the receive
buffer, as in reality (512 and 1024), which is why it can overflow.
`CheckSync`: with four seats a philosopher has a non-neighbour and two can eat.
With three philosophers and two meals each (not kept as a run) the results are
the same. `Files`: three processes are a parent, a child and a grandchild; three
descriptors leave one beside stdin and stdout, so that a dup meets a full table;
in `sfs`, with two descriptors, an open and an exec do; `MaxOpen` bounds the
descriptors open at once and `MaxLeak` the references lost by E_EXISTS. `Sfs`: with blocks of two bytes and transfers of
three every cut into head, whole block and tail occurs, with two direct blocks
the third needs the index block, and 15 blocks are too few for two full files,
so that the disk fills up; a seek of four bytes behind the end asks for two blocks at
once, and with three indirect blocks the second may fail where the first was had through an
index block that exists, before the file is closed, evicted and loaded again; O_TRUNC frees
blocks through the index block too. `Memory`: one program has a read-only segment, one
that starts inside a page and has zeros behind its file bytes, and a header that
is not loaded; the stack is two pages of which one is allocated; two TLB entries
for five pages are replaced all the time; 24 frames are enough for the boot check
of the swap manager and too few for three programs, so that memory also runs out.
`MaxCalls` bounds forks and execs. `Kmalloc`: nothing, one byte, a size whose header
fails the assertion of `slob_alloc`, a page less a header, two pages, four, and more
than the largest int; `MaxLive` bounds the objects in use.
`CHECK_DEADLOCK FALSE` is used for the philosophers, who quit, and for `Serial`, `Files`, `Memory` and `Kmalloc`, whose kernel may panic and then stops.

### Fairness

* `Proc`: weak fairness of the clock handler, strong fairness of kernel code as
  a whole (clock interrupts of the kernel threads come between its steps; the
  handler is shorter than the period) and strong fairness of the clock
  interrupt. The last is an assumption: since ticks in masked code are dropped,
  it says that not all ticks fall there; the counter runs independently of the
  program. Nothing is assumed of user processes, which may compute for ever or
  never exit.
* `Serial`: the receiver completes what it began; a pending interrupt is taken
  and served when user code runs again and again; the scheduler runs woken
  readers (round robin, `NoStarvation` of `Proc`). Nobody has to send, read or
  kill.
* `Lock`: a woken process runs, a critical section ends. Nobody has to call
  `down`.
* `CheckSync`: a thread that is not asleep runs (weak fairness per
  thread). `ProcTable`: the walk is kernel code that nothing suspends.

## 5. Proofs

All proofs are checked by TLAPS for every value of the constants, from the named
assumptions of the modules only. Those are: `ProcsAssumption` and `LinksAssumption`
(two distinct kernel threads, NULL is no process), `TimeAssumption` (the slice is
positive), `MaxProcessAssumption` (MAX_PROCESS > 1), `SleepAssumption` (sleeps
are natural numbers), `LockAssumption` (a finite set of processes, a positive
initial value), `PhiAssumption` (more than one philosopher, at least one meal),
`SizeAssumption` and `ReadersAssumption` of `Serial` (rings of positive size; a
reader is not one of the labels of other code), `PageAllocAssumption` (at least
five frames, because default_check takes five) and `KmallocAssumption` (a page
has at least three units, sizes are natural numbers, and the record of a big block
is larger than a unit: `bigblock_t` has three words, `slob_t` two).

| module | theorems | inductive invariant |
|---|---|---|
| `ProcProofs` | `TypeCorrectness`, `RunQueueCorrect`, `NoExitLost`, `TimersOwned`, `AlwaysReapable`, `FreedNotInUse`, `NoZombieWoken` (an action property), `InitEndsClean` | `IInv`; `RootedOK` for the last |
| `ProcTableProofs` | `GapAlwaysFree`, `UniquePids` of `GetPid`; `TableYptrExact`, `TableWalkMeetsChildren`, `TableCountsAgree`, `TablePidIsUnique` of the composition | `PidInv`; `TableInv` = `PidInv`, `LinkInv`, `CountInv` |
| `TimerProofs` | `TimerListSound`; `TimersCountDown`: the list implements `TimerSpec` | `ListInv` |
| `LockProofs` | `LockExclusion`, `LockNoLostWakeup`, `LockDownAssertion` | `LockInv` |
| `CheckSyncProofs` | `CheckNeighboursExclude`, `CheckRightToEat`, `CheckMonitorExclusion` | `CheckInv`: `SemaInv` and `CondInv`, one for each group |
| `SerialProofs` | `SerialTypeOK`, `SerialNoLostWakeup`, `SerialInOrder` | `SerialInv`, with `InOrder` itself |
| `KmallocProofs` | `FreeListExact`, `HeapIsExact` | `PagesInv`; `HeapInv` with it for the second |

* `ProcProofs`. None of the properties is inductive alone: that a wake-up enqueues
  a process once needs to know that a process with a wait state is asleep and not
  current, which needs to know at which label a process can have which state; that
  no exit is lost needs, in addition, that a process between scan and sleep is
  current, so that no other can exit meanwhile; and that freed structures are
  unused needs the parent relation. There is one lemma per action, and three on
  the queue (enqueue, dequeue, wake-up). `ZombieStaysDead` comes out of the same
  step lemma. `InitEndClean` needs a global fact, that init_main has waited for
  everybody once it has no children: from every process the parents lead to
  initproc. `RootedOK` says so without a path, as a statement on sets: no
  non-empty set of user processes contains the parents of all its members. A
  step changes at most one parent (`FamilyStep`), and each of the three ways
  preserves it.
* `ProcTableProofs`. `PidInv` says, in addition to the property, that during a
  walk no process met so far lies between candidate and `next_safe`: this is what
  the restart of the walk re-establishes. `LinkInv` describes the links locally
  (what cptr and optr may point to, that yptr leads back, except for the youngest
  child of an exiting process) and reachability by closed sets (`ReachInv`): every
  set that contains `cptr[p]` and is closed under optr contains all children of
  p and NULL. That form needs no induction over the list, so each action keeps it
  by exhibiting the set. The walk of `WalkMeetsChildren` is a loop of as many
  turns as there are structures; that it gets to NULL follows from `ReachInv` by
  counting, since a loop that visited no new process before NULL would stay in a
  closed set without it. `CountInv` relates nr_process, the pids in use and the
  structures in use, so that the two parts that are separate in the code agree.
* `TimerProofs`. `EndsAfter`, the sum of a prefix of the delta list, is shown to
  be what the recursion says, and then what an insertion, a removal and a tick do
  to it at every position: an insertion gives the new timer its own number and
  leaves all others alone, a removal likewise, a tick takes one from all. With the
  mapping of `Timer` each action is then one of `TimerSpec`:
  `Add`, `Delete`, and for the parts of `run_timer_list` `Tick`, `Expire`, `EndTick`.
* `LockProofs`. The core is conservation of units: value, processes in the
  critical section and processes woken but not yet running add up to the initial
  value. It needs that the queue has no duplicates and holds exactly the sleepers.
* `CheckSyncProofs`. `SemaInv`: the mutex has at most one owner, and for every
  philosopher the label determines state, value and queue of his semaphore;
  neighbours do not both eat, and a hungry philosopher has an eating neighbour or
  a left neighbour who is about to test him. `CondInv`: the monitor has one owner,
  where a thread that was woken owns it before it runs; while a signaller waits
  on `next`, the thread it woke is on its way out, which is why there is never more
  than one signaller and `next_count` is at most one.
* `SerialProofs`. `SleeperMissesNothing` needs that a reader who sleeps is in the
  queue and the stdin ring empty, across wake-ups and kills. `InOrder` says that what the
  readers got, followed by the contents of the three rings, is what the driver makes of the
  characters accepted. Rings are read as sequences; each action moves one
  character from the front of one ring to the back of the next, translated
  in between, and the sum does not change by the algebra of concatenation. That
  positions run modulo the size of a ring needs the lemmas on remainders. It
  holds, as the property says, until the console ring overflows.
* `KmallocProofs`. `PagesInv` says that the free list is sorted, merged and
  counted, and that the frames of callers and of big blocks are apart from it and
  from each other: `kfree` of a big block gives frames back that only this
  shows to be nobody else's. The merging pass of default_free_pages is a loop
  with an invariant of its own (`PassInv`: what has been left on the list does not
  touch the grown block, and frames are apart from both exactly if they were apart
  from the freed block and the part of the list that was passed). From it come exact
  statements of what an allocation and a free do to the set of free frames. The
  self test of pmm_init is followed call by call: it runs on lists of at
  most two blocks, and each of its assertions is shown to hold for any number of
  frames. SLOB operations take frames only through `alloc_pages`, and a step that fails
  midway (no frames for a big object) leaves the frames as they were.
  `HeapInv` says of the heap what `HeapExact` cannot keep by itself. The property
  speaks of the blocks a walk from `slobfree` meets; the invariant describes the
  ring without a walk, by addresses: the next of a free block is the free block
  with the next higher address, and that of the highest is the arena. That a
  walk then meets every free block, so that `slob_free` finds the place of
  a block and the search of `slob_alloc` leaves none out, follows by counting: a walk that came back early would stay in a set of blocks
  closed under next, and there is only one. The units of the taken frames are
  covered once by the blocks that have a header (free or held by a caller) and the
  records; a set of blocks "held in the middle of a call" lets the statement be
  carried through `__kmalloc`, which takes a record before it knows whether it gets
  frames, and through the page that `slob_alloc` adds to the list with `slob_free`.
  Both routines are taken apart into elementary changes (put a block on the
  ring, join two neighbours, split a block, take one off, forget the header of a
  held one, add a frame), each with its lemmas. Last, the small objects are told from the large ones by their
  size, not by their address: every header in use is that of one small object, and every
  large object is a big block of its own. `kfree` decides by the address alone. For a
  large object it decides right, because a big block starts a page; for a small
  one because no big block begins at its address, which is what the guard of `Kfree` says: an object of 0 bytes whose header is the last unit
  of a page is the exception, and `KfreeAlias` stops the model there. The other
  stop is in `Cut`: all lemmas on taking a block off the ring need that it is not
  the arena, and a request of one unit, `kmalloc(0)`, is the only one the arena fits.
* `DataFacts` holds the lemmas these modules share: induction over an interval of
  numbers stated for a set instead of a predicate, what a recursive function over
  an interval computes step by step, what the operations of `Sem` do to a queue,
  remainders, insertion into and removal from a sequence, the minimum of a set.

Only model-checked: everything that is live (`NoStarvation`, `SleepEnds`,
`KilledExitsOrWaits`, `WalkEnds`, `DownReturns`, `AllQuit`, `InputWakesReader`:
liveness under fairness is outside the prover's reach), the files and the file
system (`RefsExact`, `AssertionsHold`, `ClosedIsClean`, the invariants of
`SfsStore` and the refinement of `FileStore`) and the address spaces
(`FramesExact` and the refinement of `AddressSpaces`). No proof has been written
for the last two groups. Nothing in them is out of the prover's reach in principle, but a step there is a whole
system call (path lookup, block map, loader, swap check), so that each needs a
theory of its own of the size of `KmallocProofs`; and what they
say depends on the host image and on the programs that are loaded, for
which assumptions on the constants would have to be found first.

## 6. Findings and observations

| run | property | what TLC shows |
|---|---|---|
| `sfs_flash` | `AssertionsHold` | over disk0, which drops writes, `sfs_fsync` clears dirty for an inode that is not stored. Open with O_TRUNC, close, open with O_TRUNC again: the old inode is read back and its blocks are freed a second time, `assert(sfs_block_inuse(sfs, ino))` (sfs_inode.c:106). |

`PROJECT.json` quotes the lines of the repository it disagrees with. The
following are behaviours of the models, and of the code, without a run of their
own.

Processes and input:

* trap.c:208 tests PF_EXITING before `schedule()`. A process killed while
  preempted there returns to user mode; if it calls `wait` it sleeps with the flag
  set and no later kill wakes it. `KilledExitsOrWaits` is what holds.
* `cons_intr` has no overflow test (console.c:67): a full console ring looks empty
  and its characters are lost. `InOrder` holds until then.
* a tick and a character pending together match no case of trap_dispatch, which
  panics with "unknown int." (trap.c:118, 159-161).
* a character that arrives before a killed reader has run replaces its wake-up
  reason (dev_stdin.c:59); the reader goes on waiting with PF_EXITING set.
* with the stdin ring full, the newest character replaces the oldest unread one
  before the fill level is tested (dev_stdin.c:27).
* `kill(1)` takes initproc out of do_wait into do_exit, which panics while user
  processes live (proc.c:508; `do_exit_panic` of `Proc`).
* `alloc_proc` creates a files_struct that `copy_files` replaces, so that each fork
  leaks one (proc.c:132 and 404); when copy_files fails, put_files brings its count
  from 0 to -1 and destroys nothing.

Files (the panics are the members of `ReachablePanics`):

* O_CREAT of a missing file calls `vop_create`, and O_CREAT of a directory
  `vop_truncate`, which the inode lacks: the assertion of `__vop_op` fails. So do
  read, write and seek of a directory and fsync and getdirentry of a device.
* an open with O_CREAT and O_EXCL of an existing file keeps the reference of its
  lookup (vfsfile.c:46).
* a write that finds the disk full is inside an assertion (sfs_inode.c:610-629);
  a growth by seek that finds it full keeps the blocks it got, and a later
  truncation to the unchanged size fails `assert(tblks == din->blocks)`.
* a position beyond the end, after another descriptor has truncated the file,
  fails `assert(index <= din->blocks)`.
* mksfs writes symbolic links and double indirect blocks, the kernel supports
  neither: a look-up of a link panics in `sfs_get_ops`, a block beyond 12 + 1024
  in `sfs_bmap_get_nolock`.
* a growth through an index block that exists raises `blocks` without setting dirty
  (sfs_inode.c:365); the caller sets it only after the whole growth has succeeded. A
  growth that fails half way leaves an inode that is changed and not dirty, which
  sfs.h:72 ("true if inode modified") excludes. It does no harm on its own: the data block
  is in the index block, which is written at once, so that the inode that is loaded later has
  a smaller `blocks` and an index block with an entry beyond it, which the next growth
  takes as its block. Until that growth the block stays allocated: a truncation frees
  counted blocks only. `CleanIsStored` states the difference exactly and
  `BlocksOwnedOnce` counts entries of index blocks as owners.
* O_APPEND sets the position at open only; copies by dup and fork have positions
  of their own.

Memory:

* `sys_alloc` passes any size of a program to `kmalloc`. Sizes from 4080 to 4087
  bytes fail the assertion of `slob_alloc`, and `find_order` rounds down, so that
  8193 bytes get two pages. Its parameter is an int, so that sizes from 2^31 on get one.
* `kmalloc(0)` asks `slob_alloc` for one unit, a header alone. Two things follow.
  The arena, the block of one unit that keeps the ring from becoming empty
  (kmalloc.c:76), fits exactly and may be handed out; from then on an exact fit of the last block leaves
  a block on the ring that is in use (`prev` and `cur` are the same at
  kmalloc.c:121), and the next request gets it again. And an object of 0 bytes
  whose header is the last unit of a page has the address of the next page: when a
  big block begins there, `kfree` of the object frees the big block (kmalloc.c:263-275),
  against the comment at kmalloc.c:28-29 that big blocks "are detected in kfree() by
  their page alignment". `Kmalloc` reaches both steps and stops there (`panic` is "arena" or
  "alias"); until then objects of 0 bytes are followed like all others.
* pages that a fault allocates, and the parts of loaded pages that neither file nor
  zeros fill, keep what the frame held before.
* a page that comes back from swap keeps the `pra_vaddr` of the frame's last page
  (do_pgfault sets none); the sequence of `check_swap` ends one fault before that
  would swap out the wrong page. Swap reads and writes move no data on this board.
* with swapping on, a single frame that cannot be had makes `alloc_pages` call
  `swap_out` with a null mm once the checks are over: the kernel stops ("no memory"
  of `AddressSpaces`).
* TLB indices in page table entries outlive `load_pgdir`, which clears the TLB. That
  they do no harm is part of `SpacesSpec`, whose view of the process that runs is what
  the TLB translates to: a stale index makes two tags share an entry at worst, and the
  entry that is lost is refilled.

## 7. Not modelled

Planned: the CPU's instruction cycle, bus and devices (section 2). `Proc` treats
fork as succeeding or leaving no trace, and `Serial` the timer's handler as
the business of `Proc`. The failure of `kmalloc` inside fork and exec, unmount and
chdir (which no system call reaches), `lab6_set_priority`, the emulation of
reserved instructions in trap.c and character output are left out.

Left out: ALU, multiplier, register file and ROM (combinational data paths over
32 bits, out of TLC's reach); formatting, string and list helpers, kernel
monitor (no state of their own); the user programs (a user process may make any
call); boot loader and flash tools (straight-line code); the decaf compiler and
the TAC machine (batch programs over syntax trees); generated and vendored files
(netlists, Xilinx cores, object files, IDE metadata).
