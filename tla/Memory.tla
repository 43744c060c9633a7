------------------------------- MODULE Memory --------------------------------
(***************************************************************************)
(* The memory of processes: boot of the memory management, fork, exec,     *)
(* exit and wait (kern/process/proc.c), context switches, and the accesses *)
(* of programs and of the kernel, over Vm.  The kernel is not preempted    *)
(* and no mm is shared (CLONE_VM is passed for kernel threads only), so a  *)
(* call is one step, and mm_sem and mm_count have nothing to decide.       *)
(***************************************************************************)
EXTENDS Vm

CONSTANTS
    Procs,       \* process slots
    initproc,    \* the kernel thread init_main
    Programs,    \* programs that exec may load: sequences of headers
    Accesses,    \* <<address, whether it is a store>> of programs
    Args,        \* addresses of arguments that programs pass to exec
    Buffers,     \* addresses of buffers that programs pass to other calls
    Written,     \* the byte that programs write
    ArgByte,     \* the byte that exec puts on the stack
    KSTACKPAGE,  \* frames of a kernel stack
    MaxCalls     \* bound of the calls of fork and exec

ASSUME MemoryAssumption ==
    /\ initproc \in Procs /\ Accesses \subseteq Nat \X BOOLEAN /\ Args \subseteq Nat /\ Buffers \subseteq Nat
    /\ KSTACKPAGE \in Nat \ {0} /\ MaxCalls \in Nat

VARIABLES
    stage,       \* boot: "pmm", "vmm", "proc", "swap", then "up"
    m,           \* the memory state, record m of Paging
    boot_pgdir,
    current,
    proc,        \* proc[p]: state, kstack, mm, parent
    calls        \* calls of fork and exec so far

vars == <<stage, m, boot_pgdir, current, proc, calls>>

NoProc == [state |-> "none", kstack |-> NoFrame, mm |-> NoMm, parent |-> initproc]

Init ==
    /\ stage = "pmm"
    /\ m = tlb_init([pm |-> page_init, ref |-> [f \in Frames |-> 0], mem |-> [f \in Frames |-> FreshPage],
                     pgdir |-> << >>, pt |-> << >>, cur |-> NoFrame,
                     tlb |-> [e |-> << >>, empty |-> << >>, hi |-> << >>, ptr |-> 0],
                     fifo |-> << >>, vaddr |-> [f \in Frames |-> 0], faults |-> 0, swap_init_ok |-> FALSE,
                     check |-> NoMm, ret |-> NoFrame, panic |-> "none"])
    /\ boot_pgdir = NoFrame
    /\ current = initproc
    /\ proc = [p \in Procs |-> NoProc]
    /\ calls = 0

(* The result of a call: ret is for callers within the call; a kernel that has stopped keeps nothing. *)
Stopped(why) == [panic |-> why]
Return(x) == m' = IF Ok(x) THEN [x EXCEPT !.ret = NoFrame] ELSE Stopped(x.panic)

Alive == stage = "up" /\ Ok(m)

-----------------------------------------------------------------------------
(* Boot *)

BootPgdir(x) ==     \* x.ret: the frame of boot_pgdir
    [x EXCEPT !.pgdir = x.ret :> [d \in 0..(PDN - 1) |-> NoFrame]]

(* The last step is enable_paging's *)
PagingOn(x, pg) == Return(check_boot_pgdir(load_pgdir(check_pgdir(x, pg), pg), pg)) /\ boot_pgdir' = pg

PmmInit ==
    /\ stage = "pmm"
    /\ \E x \in {BootPgdir(alloc_page([m EXCEPT !.pm = default_check(@)]))} : PagingOn(x, x.ret)
    /\ stage' = "vmm"
    /\ UNCHANGED <<current, proc, calls>>

VmmInit ==
    /\ stage = "vmm" /\ Ok(m)
    /\ Return(check_pgfault(Demand(m, check_vma_struct(2)), boot_pgdir))
    /\ stage' = "proc"
    /\ UNCHANGED <<boot_pgdir, current, proc, calls>>

(* kernel_thread(init_main): idleproc runs on the boot stack *)
ProcInit ==
    /\ stage = "proc" /\ Ok(m)
    /\ \E a \in {alloc_pages(m, KSTACKPAGE)} :
         /\ Return(Demand(a, a.ret # NoFrame))
         /\ proc' = [proc EXCEPT ![initproc] = [NoProc EXCEPT !.state = "runnable", !.kstack = a.ret]]
    /\ stage' = "swap"
    /\ UNCHANGED <<boot_pgdir, current, calls>>

(* swap_init, and cpu_idle's first switch *)
SwapInit ==
    /\ stage = "swap" /\ Ok(m)
    /\ Return(Then(check_swap([m EXCEPT !.swap_init_ok = TRUE], boot_pgdir),
                   LAMBDA x : load_pgdir(x, boot_pgdir)))
    /\ stage' = "up"
    /\ UNCHANGED <<boot_pgdir, current, proc, calls>>

-----------------------------------------------------------------------------
(* Processes *)

PgdirOf(p) == IF proc[p].mm = NoMm THEN boot_pgdir ELSE proc[p].mm.pgdir

(* A fault: the TLB keeps the entries of the last process. *)
proc_run_keeps_tlb(p) ==
    /\ Alive /\ p # current /\ proc[p].state = "runnable"
    /\ current' = p
    /\ Return([m EXCEPT !.cur = PgdirOf(p)])
    /\ UNCHANGED <<stage, boot_pgdir, proc, calls>>

proc_run(p) ==
    /\ Alive /\ p # current /\ proc[p].state = "runnable"
    /\ current' = p
    /\ Return(load_pgdir(m, PgdirOf(p)))
    /\ UNCHANGED <<stage, boot_pgdir, proc, calls>>

(* x.ret: the new page directory *)
DupMm(x, old) ==
    IF ~Ok(x) THEN [x |-> x, mm |-> NoMm]
    ELSE [x |-> dup_mmap(x, x.ret, old), mm |-> [old EXCEPT !.pgdir = x.ret]]

copy_mm(x, old) ==
    IF old = NoMm THEN [x |-> x, mm |-> NoMm] ELSE DupMm(setup_pgdir(mm_create(x)), old)

(* A kernel stack needs frames side by side and may be refused; init_main creates user_main, once. *)
Fork(c, k) ==
    IF k.ret = NoFrame THEN UNCHANGED <<m, proc>>
    ELSE \E r \in {copy_mm(k, proc[current].mm)} :
           /\ Return(r.x)
           /\ proc' = [proc EXCEPT ![c] = [state |-> "runnable", kstack |-> k.ret, mm |-> r.mm,
                                           parent |-> current]]

do_fork(c) ==
    /\ Alive /\ calls < MaxCalls /\ proc[c].state = "none"
    /\ current = initproc => calls = 0
    /\ \E k \in {alloc_pages(m, KSTACKPAGE)} : Fork(c, k)
    /\ calls' = calls + 1
    /\ UNCHANGED <<stage, boot_pgdir, current>>

(* The end of the address space of current *)
ReleaseMm(x) ==
    LET mm == proc[current].mm
    IN  IF mm = NoMm THEN x ELSE put_pgdir(exit_mmap(load_pgdir(x, boot_pgdir), mm), mm.pgdir)

(* do_exit up to schedule, which runs some other process *)
do_exit(x) ==
    \E p \in Procs \ {current} :
      /\ proc[p].state = "runnable"
      /\ Return(load_pgdir(ReleaseMm(x), PgdirOf(p)))
      /\ current' = p
      /\ proc' = [q \in Procs |->
                    IF q = current THEN [proc[q] EXCEPT !.state = "zombie", !.mm = NoMm]
                    ELSE IF proc[q].parent = current THEN [proc[q] EXCEPT !.parent = initproc]
                    ELSE proc[q]]
      /\ UNCHANGED <<stage, boot_pgdir, calls>>

Exit == Alive /\ current # initproc /\ do_exit(m)

(* The exit code of c, the byte Written, is stored at a, unless a is NULL; *)
(* then put_kstack.  An a that the process may not write to is -E_INVAL.   *)
NULL == 0
Reaped(x, c) == Then(x, LAMBDA y : free_pages(y, proc[c].kstack, KSTACKPAGE))

do_wait(c, a) ==
    /\ Alive /\ proc[c].state = "zombie" /\ proc[c].parent = current
    /\ a # NULL => proc[current].mm # NoMm /\ user_mem_check(proc[current].mm, a, 1, TRUE)
    /\ Return(Reaped(IF a = NULL THEN m ELSE KernelStore(m, proc[current].mm, a, Written), c))
    /\ proc' = [proc EXCEPT ![c] = NoProc]
    /\ UNCHANGED <<stage, boot_pgdir, current, calls>>

(* The name is copied in (a kernel thread passes its own), else -E_INVAL; the file opens or not. *)
NameCopied(a) ==
    IF proc[current].mm = NoMm THEN [m EXCEPT !.ret = TRUE] ELSE copy_from_user(m, proc[current].mm, a, 1)

do_execve(a, program) ==
    /\ Alive /\ calls < MaxCalls /\ current # initproc
    /\ \E c \in {NameCopied(a)} :
         /\ Ok(c) => c.ret
         /\ \E r \in {IF Ok(c) THEN load_icode(ReleaseMm(c), program, ArgByte) ELSE Loaded(c, NoMm)} :
              Return(r.m) /\ proc' = [proc EXCEPT ![current].mm = r.mm]
    /\ calls' = calls + 1
    /\ UNCHANGED <<stage, boot_pgdir, current>>

ExecFails(a) ==
    /\ Alive /\ current # initproc
    /\ \E c \in {NameCopied(a)} : Ok(c) /\ c.ret /\ do_exit(c)

-----------------------------------------------------------------------------
(* Accesses *)

(* A program's access: a store through the TLB, a miss, a store to a page without D *)
Store(a) ==
    /\ TlbHits(m, PageOf(a)) # {} /\ TlbLo(m, PageOf(a)).d
    /\ Return(Put(m, a, Written))
    /\ UNCHANGED <<stage, boot_pgdir, current, proc, calls>>

Miss(a, write) ==
    /\ TlbHits(m, PageOf(a)) = {}
    /\ \E x \in {tlb_miss_handler(m, proc[current].mm, PageOf(a), write)} :
         IF Ok(x) /\ ~x.ret THEN do_exit(x)
         ELSE Return(x) /\ UNCHANGED <<stage, boot_pgdir, current, proc, calls>>

StoreRefused(a) ==
    /\ TlbHits(m, PageOf(a)) # {} /\ ~TlbLo(m, PageOf(a)).d
    /\ do_exit(m)

User(a, write) ==
    /\ Alive /\ proc[current].mm # NoMm
    /\ Miss(a, write) \/ (write /\ (Store(a) \/ StoreRefused(a)))

(* A system call that writes two bytes for the program *)
CopyOut(a) ==
    /\ Alive /\ proc[current].mm # NoMm
    /\ Return(copy_to_user(m, proc[current].mm, a, 2, Written))
    /\ UNCHANGED <<stage, boot_pgdir, current, proc, calls>>

Next ==
    \/ PmmInit \/ VmmInit \/ ProcInit \/ SwapInit
    \/ \E p \in Procs : proc_run(p) \/ do_fork(p) \/ \E a \in Buffers \cup {NULL} : do_wait(p, a)
    \/ Exit
    \/ \E a \in Args, program \in Programs : do_execve(a, program)
    \/ \E a \in Args : ExecFails(a)
    \/ \E a \in Buffers : CopyOut(a)
    \/ \E x \in Accesses : User(x[1], x[2])

Spec == Init /\ [][Next]_vars

-----------------------------------------------------------------------------

(* Who holds which frame: directories, page tables, pages, kernel stacks *)
Mms == {p \in Procs : proc[p].mm # NoMm}
PageTables(pg) == {<<"pt", pg, d>> : d \in {d \in 0..(PDN - 1) : m.pgdir[pg][d] # NoFrame}}
MappedPages(pg) == {<<"page", pg, v>> : v \in {v \in Vpns : Present(m, pg, v)}}
Holders ==
    {<<"pgdir", pg, 0>> : pg \in DOMAIN m.pgdir}
      \cup UNION {PageTables(pg) \cup MappedPages(pg) : pg \in DOMAIN m.pgdir}
      \cup {<<"kstack", p, i>> : p \in {p \in Procs : proc[p].state # "none"}, i \in 0..(KSTACKPAGE - 1)}
FrameOf(h) ==
    CASE h[1] = "pgdir" -> h[2]
      [] h[1] = "pt" -> m.pgdir[h[2]][h[3]]
      [] h[1] = "page" -> Pte(m, h[2], h[3]).f
      [] OTHER -> proc[h[2]].kstack + h[3]
UsedFrames == Frames \ UNION {Span(m.pm.list[i]) : i \in 1..Len(m.pm.list)}

(* hs hold the frames of used, each its own, and the reference counts say so. *)
HeldOnce(hs, used) ==
    /\ {FrameOf(h) : h \in hs} = used
    /\ Cardinality(hs) = Cardinality(used)
    /\ \A h \in hs : m.ref[FrameOf(h)] = IF h[1] \in {"pt", "page"} THEN 1 ELSE 0

(* After any sequence of fork, exec, faults, kills, exit and wait, and     *)
(* after the checks at boot, every frame that is not free has exactly one  *)
(* holder and its reference count says so: nothing leaks, nothing is freed *)
(* twice or while it is mapped, and the page directories are those of the  *)
(* living processes.  (page_remove_pte, exit_range, put_pgdir, put_kstack, *)
(* copy_range, load_icode)                                                 *)
FramesExact ==
    Alive =>
      /\ DOMAIN m.pgdir = {boot_pgdir} \cup {proc[p].mm.pgdir : p \in Mms}
      /\ HeldOnce(Holders, UsedFrames)
      /\ m.pm.ok
=============================================================================
