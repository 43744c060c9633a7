-------------------------------- MODULE Proc --------------------------------
(***************************************************************************)
(* Process life cycle, round-robin run queue and kernel waits of ucore     *)
(* (kern/process/proc.c, kern/schedule/*.c, kern/trap/trap.c).             *)
(*                                                                         *)
(* One CPU runs `current'.  A trap from user mode masks interrupts until   *)
(* the return to user mode, so a system call is only ever suspended inside *)
(* schedule().  The kernel threads idleproc and initproc run with          *)
(* interrupts enabled: the clock interrupt may hit between any two of      *)
(* their steps.  pc[p] is the kernel code p executes or, when p is not     *)
(* current, resumes at; at_schedule says that current stands at a call of  *)
(* schedule(), with pc[current] already the point after that call.         *)
(*                                                                         *)
(* A process is identified with its pid (GetPid shows that pids of live    *)
(* processes are distinct) and a slot outside the process table is FREE.   *)
(* The children of p are the processes whose parent is p (ProcLinks shows  *)
(* that the cptr/optr/yptr lists hold exactly those), and pending timers   *)
(* are ticks left per process (Timer shows that the delta list implements  *)
(* this).                                                                  *)
(***************************************************************************)
EXTENDS Integers, Sequences

CONSTANTS
    Procs,           \* the slots of the process table, MAX_PROCESS of them
    idleproc,        \* pid 0
    initproc,        \* pid 1
    NULL,            \* the null process pointer
    MAX_TIME_SLICE,  \* ticks a process may run before it is rescheduled
    MaxSleep         \* bound on the argument of sleep()

ASSUME ProcsAssumption ==
    /\ idleproc \in Procs
    /\ initproc \in Procs
    /\ idleproc # initproc
    /\ NULL \notin Procs

ASSUME TimeAssumption ==
    /\ MAX_TIME_SLICE \in Nat \ {0}
    /\ MaxSleep \in Nat

VARIABLES
    current,       \* the process on the CPU
    state,         \* proc->state, FREE outside the process table
    wait_state,    \* proc->wait_state, "none" for 0
    exiting,       \* proc->flags & PF_EXITING
    need_resched,  \* proc->need_resched
    time_slice,    \* proc->time_slice
    parent,        \* proc->parent
    run_list,      \* rq->run_list, the head first
    expires,       \* ticks left of the timer of do_sleep, NoTimer without one
    wait_pid,      \* the pid argument of the do_wait a process executes
    pc,            \* where a process executes or resumes
    at_schedule,   \* current is about to call schedule()
    in_tick,       \* the clock interrupt handler is running
    panicked       \* the kernel has called panic()

vars == <<current, state, wait_state, exiting, need_resched, time_slice, parent,
          run_list, expires, wait_pid, pc, at_schedule, in_tick, panicked>>

(* What wakeup_proc changes, what schedule and panic change, the rest. *)
queue_vars == <<state, wait_state, time_slice, run_list>>
cpu_vars == <<current, in_tick, panicked>>
proc_vars == <<exiting, need_resched, parent, expires, wait_pid>>

States == {"FREE", "SLEEPING", "RUNNABLE", "ZOMBIE"}
WaitStates == {"none", "WT_CHILD", "WT_TIMER"}
Labels == {"cpu_idle", "init_main", "user_main", "user", "trap", "wait",
           "wait_sleep", "wait_check", "sleep", "exit", "reparent", "dead",
           "init_end"}

NoTimer == -1
AnyPid == NULL

User == Procs \ {idleproc, initproc}
Children(p) == {c \in Procs : parent[c] = p}

(* The children do_wait(wait_pid[p]) looks at: all, or the one with that pid. *)
Waited(p) == {c \in Children(p) : wait_pid[p] \in {AnyPid, c}}

-----------------------------------------------------------------------------

(* proc_init: idleproc runs and has created initproc, which is runnable. *)
Init ==
    /\ current = idleproc
    /\ state = [p \in Procs |-> IF p \in {idleproc, initproc} THEN "RUNNABLE" ELSE "FREE"]
    /\ wait_state = [p \in Procs |-> "none"]
    /\ exiting = [p \in Procs |-> FALSE]
    /\ need_resched = [p \in Procs |-> p = idleproc]
    /\ time_slice = [p \in Procs |-> IF p = initproc THEN MAX_TIME_SLICE ELSE 0]
    /\ parent = [p \in Procs |-> IF p = initproc THEN idleproc ELSE NULL]
    /\ run_list = <<initproc>>
    /\ expires = [p \in Procs |-> NoTimer]
    /\ wait_pid = [p \in Procs |-> AnyPid]
    /\ pc = [p \in Procs |-> CASE p = idleproc -> "cpu_idle"
                               [] p = initproc -> "init_main"
                               [] OTHER -> "dead"]
    /\ at_schedule = FALSE
    /\ in_tick = FALSE
    /\ panicked = FALSE

(* RR_enqueue refills the slice of a process that has used it up. *)
Refill(p) ==
    IF time_slice[p] = 0 \/ time_slice[p] > MAX_TIME_SLICE
    THEN MAX_TIME_SLICE ELSE time_slice[p]

(* wakeup_proc(p) for a sleeping or new p, given the other states st. *)
wakeup_proc(p, st) ==
    /\ state' = [st EXCEPT ![p] = "RUNNABLE"]
    /\ wait_state' = [wait_state EXCEPT ![p] = "none"]
    /\ IF p = current
       THEN UNCHANGED <<run_list, time_slice>>
       ELSE /\ run_list' = Append(run_list, p)
            /\ time_slice' = [time_slice EXCEPT ![p] = Refill(p)]

(* No process is woken. *)
no_wakeup(st) ==
    /\ state' = st
    /\ UNCHANGED <<wait_state, run_list, time_slice>>

(* current executes kernel code at label l, no interrupt being served. *)
At(l) ==
    /\ ~panicked
    /\ ~in_tick
    /\ ~at_schedule
    /\ pc[current] = l

Goto(l) == pc' = [pc EXCEPT ![current] = l]

CallSchedule(resume) ==
    /\ at_schedule' = TRUE
    /\ Goto(resume)

(* Mutant of kill_pending: the flag is never looked at. *)
kill_pending_ignored == FALSE

(* do_kill has flagged current. *)
kill_pending == exiting[current]

(* Mutant of del_timer: the timer stays in the list. *)
del_timer_forgotten(p) == expires

(* del_timer: the timers without that of p. *)
del_timer(p) == [expires EXCEPT ![p] = NoTimer]

-----------------------------------------------------------------------------
(* The scheduler. *)

(* schedule(): a runnable current goes to the tail, the head runs. *)
schedule ==
    LET requeue == state[current] = "RUNNABLE" /\ current # idleproc
        queue == IF requeue THEN Append(run_list, current) ELSE run_list
    IN /\ ~panicked
       /\ ~in_tick
       /\ at_schedule
       /\ at_schedule' = FALSE
       /\ need_resched' = [need_resched EXCEPT ![current] = FALSE]
       /\ time_slice' = IF requeue
                        THEN [time_slice EXCEPT ![current] = Refill(current)]
                        ELSE time_slice
       /\ IF queue = <<>>
          THEN current' = idleproc /\ run_list' = queue
          ELSE current' = Head(queue) /\ run_list' = Tail(queue)
       /\ UNCHANGED <<state, wait_state, exiting, parent, expires, wait_pid,
                      pc, in_tick, panicked>>

(* cpu_idle: schedule once the clock interrupt has asked for it. *)
cpu_idle ==
    /\ At("cpu_idle")
    /\ need_resched[current]
    /\ CallSchedule("cpu_idle")
    /\ UNCHANGED <<queue_vars, cpu_vars, proc_vars>>

-----------------------------------------------------------------------------
(* The clock interrupt: trap_dispatch and run_timer_list, with interrupts  *)
(* masked until clock_end.                                                 *)

(* Interrupts are enabled in user mode and in the kernel threads. *)
IntrEnabled ==
    \/ current \in {idleproc, initproc}
    \/ ~at_schedule /\ pc[current] \in {"user", "user_main"}

(* A tick: every TICK_NUM ticks need_resched is set; all timers advance. *)
clock_begin ==
    /\ ~panicked
    /\ ~in_tick
    /\ IntrEnabled
    /\ in_tick' = TRUE
    /\ \E tick_num \in BOOLEAN :
         need_resched' = [need_resched EXCEPT ![current] = @ \/ tick_num]
    /\ expires' = [p \in Procs |-> IF expires[p] = NoTimer THEN NoTimer
                                   ELSE expires[p] - 1]
    /\ UNCHANGED <<queue_vars, current, exiting, parent, wait_pid, pc,
                   at_schedule, panicked>>

(* Mutant of timer_wakes: the timer is dropped silently. *)
timer_wakes_nobody(p) == FALSE

(* wakeup_proc leaves a process alone that is runnable already. *)
timer_wakes(p) == state[p] # "RUNNABLE"

(* An expired timer is deleted and its process woken; a process that       *)
(* do_kill woke before is already runnable.                                *)
clock_expire(p) ==
    /\ in_tick
    /\ expires[p] = 0
    /\ IF timer_wakes(p) THEN wakeup_proc(p, state) ELSE no_wakeup(state)
    /\ expires' = del_timer(p)
    /\ UNCHANGED <<cpu_vars, exiting, need_resched, parent, wait_pid, pc,
                   at_schedule>>

(* Mutant of RR_proc_tick: no test for zero. *)
RR_proc_tick_unguarded(p) == time_slice[p] - 1

(* The slice of p after a tick. *)
RR_proc_tick(p) == IF time_slice[p] > 0 THEN time_slice[p] - 1 ELSE 0

(* Mutant of slice_used: a used-up slice asks for no reschedule. *)
slice_used_ignored(p) == FALSE

slice_used(p) == RR_proc_tick(p) = 0

(* sched_class_proc_tick(current) with RR_proc_tick, and the end of trap():*)
(* only a trap from user mode goes on to its tail.                         *)
clock_end ==
    /\ in_tick
    /\ \A p \in Procs : expires[p] # 0
    /\ in_tick' = FALSE
    /\ IF current = idleproc
       THEN /\ need_resched' = [need_resched EXCEPT ![current] = TRUE]
            /\ UNCHANGED time_slice
       ELSE /\ time_slice' = [time_slice EXCEPT ![current] = RR_proc_tick(current)]
            /\ need_resched' = [need_resched EXCEPT ![current] = @ \/ slice_used(current)]
    /\ pc' = IF pc[current] = "user" THEN [pc EXCEPT ![current] = "trap"] ELSE pc
    /\ UNCHANGED <<current, state, wait_state, exiting, parent, run_list,
                   expires, wait_pid, at_schedule, panicked>>

(* The tail of trap() for a trap from user mode. *)
trap_tail ==
    /\ At("trap")
    /\ \/ /\ kill_pending
          /\ Goto("exit")
          /\ UNCHANGED at_schedule
       \/ /\ ~kill_pending
          /\ need_resched[current]
          /\ CallSchedule("user")
       \/ /\ ~kill_pending
          /\ ~need_resched[current]
          /\ Goto("user")
          /\ UNCHANGED at_schedule
    /\ UNCHANGED <<queue_vars, cpu_vars, proc_vars>>

-----------------------------------------------------------------------------
(* System calls of a user process, entered from user mode. *)

(* A call that leaves all of this state alone: the others, exec, and fork, *)
(* kill and sleep(0) when they return at once, with or without an error.   *)
sys_other ==
    /\ At("user")
    /\ Goto("trap")
    /\ UNCHANGED <<queue_vars, cpu_vars, proc_vars, at_schedule>>

(* do_fork: alloc_proc, set_links and wakeup_proc of child, which starts   *)
(* at label l.                                                             *)
do_fork(child, l, next) ==
    /\ state[child] = "FREE"
    /\ parent' = [parent EXCEPT ![child] = current]
    /\ pc' = [pc EXCEPT ![child] = l, ![current] = next]
    /\ wakeup_proc(child, state)
    /\ UNCHANGED <<cpu_vars, exiting, need_resched, expires, wait_pid,
                   at_schedule>>

sys_fork(child) ==
    /\ At("user")
    /\ do_fork(child, "user", "trap")

(* do_yield *)
sys_yield ==
    /\ At("user")
    /\ need_resched' = [need_resched EXCEPT ![current] = TRUE]
    /\ Goto("trap")
    /\ UNCHANGED <<queue_vars, cpu_vars, exiting, parent, expires, wait_pid,
                   at_schedule>>

(* exit, or an exec that fails once the old image is gone. *)
sys_exit ==
    /\ At("user")
    /\ Goto("exit")
    /\ UNCHANGED <<queue_vars, cpu_vars, proc_vars, at_schedule>>

sys_wait(pid) ==
    /\ At("user")
    /\ wait_pid' = [wait_pid EXCEPT ![current] = pid]
    /\ Goto("wait")
    /\ UNCHANGED <<queue_vars, cpu_vars, exiting, need_resched, parent,
                   expires, at_schedule>>

(* Mutant of interruptible: a kill wakes whatever the process does. *)
interruptible_always(p) == TRUE

(* proc->wait_state & WT_INTERRUPTED *)
interruptible(p) == wait_state[p] \in {"WT_CHILD", "WT_TIMER"}

(* do_kill of a process in the table (find_proc never returns idleproc):   *)
(* it is flagged and, if its wait can be interrupted, woken.               *)
do_kill(p) ==
    /\ At("user")
    /\ p # idleproc
    /\ state[p] # "FREE"
    /\ ~exiting[p]
    /\ exiting' = [exiting EXCEPT ![p] = TRUE]
    /\ IF interruptible(p)
       THEN wakeup_proc(p, state) ELSE no_wakeup(state)
    /\ Goto("trap")
    /\ UNCHANGED <<cpu_vars, need_resched, parent, expires, wait_pid,
                   at_schedule>>

(* do_sleep up to its call of schedule. *)
do_sleep(time) ==
    /\ At("user")
    /\ state' = [state EXCEPT ![current] = "SLEEPING"]
    /\ wait_state' = [wait_state EXCEPT ![current] = "WT_TIMER"]
    /\ expires' = [expires EXCEPT ![current] = time]
    /\ CallSchedule("sleep")
    /\ UNCHANGED <<cpu_vars, exiting, need_resched, time_slice, parent,
                   run_list, wait_pid>>

(* do_sleep after schedule: del_timer, which a kill may have left pending. *)
do_sleep_resume ==
    /\ At("sleep")
    /\ expires' = del_timer(current)
    /\ Goto("trap")
    /\ UNCHANGED <<queue_vars, cpu_vars, exiting, need_resched, parent,
                   wait_pid, at_schedule>>

-----------------------------------------------------------------------------
(* do_wait. *)

(* Mutant of haskid: only zombies count. *)
haskid_zombie == \E c \in Waited(current) : state[c] = "ZOMBIE"

(* do_wait has met a child. *)
haskid == Waited(current) # {}

(* The caller goes on: system call return, or the loop of init_main. *)
WaitReturn ==
    /\ wait_pid' = [wait_pid EXCEPT ![current] = AnyPid]
    /\ IF current = initproc THEN CallSchedule("wait")
       ELSE Goto("trap") /\ UNCHANGED at_schedule

(* A zombie child is found: its process structure and stack are freed. *)
do_wait_found(child) ==
    /\ At("wait")
    /\ child \in Waited(current)
    /\ state[child] = "ZOMBIE"
    /\ state' = [state EXCEPT ![child] = "FREE"]
    /\ parent' = [parent EXCEPT ![child] = NULL]
    /\ exiting' = [exiting EXCEPT ![child] = FALSE]
    /\ need_resched' = [need_resched EXCEPT ![child] = FALSE]
    /\ time_slice' = [time_slice EXCEPT ![child] = 0]
    /\ WaitReturn
    /\ UNCHANGED <<cpu_vars, wait_state, run_list, expires>>

(* No such child: -E_BAD_PROC, on which init_main leaves its loop. *)
do_wait_bad_proc ==
    /\ At("wait")
    /\ ~haskid
    /\ wait_pid' = [wait_pid EXCEPT ![current] = AnyPid]
    /\ Goto(IF current = initproc THEN "init_end" ELSE "trap")
    /\ UNCHANGED <<queue_vars, cpu_vars, exiting, need_resched, parent,
                   expires, at_schedule>>

(* Children, but no zombie among them: the scan ends and the wait begins.  *)
do_wait_scan ==
    /\ At("wait")
    /\ haskid
    /\ \A c \in Waited(current) : state[c] # "ZOMBIE"
    /\ Goto("wait_sleep")
    /\ UNCHANGED <<queue_vars, cpu_vars, proc_vars, at_schedule>>

do_wait_sleep ==
    /\ At("wait_sleep")
    /\ state' = [state EXCEPT ![current] = "SLEEPING"]
    /\ wait_state' = [wait_state EXCEPT ![current] = "WT_CHILD"]
    /\ CallSchedule("wait_check")
    /\ UNCHANGED <<cpu_vars, proc_vars, time_slice, run_list>>

(* Woken by a child that exits, or by do_kill. *)
do_wait_resume ==
    /\ At("wait_check")
    /\ Goto(IF kill_pending THEN "exit" ELSE "wait")
    /\ UNCHANGED <<queue_vars, cpu_vars, proc_vars, at_schedule>>

-----------------------------------------------------------------------------
(* do_exit. *)

(* do_exit of initproc panics. *)
do_exit_panic ==
    /\ At("exit")
    /\ current = initproc
    /\ panicked' = TRUE
    /\ UNCHANGED <<queue_vars, proc_vars, current, pc, at_schedule, in_tick>>

(* current becomes a zombie and wakes a parent that waits for children. *)
do_exit ==
    LET zombie == [state EXCEPT ![current] = "ZOMBIE"]
    IN /\ At("exit")
       /\ current # initproc
       /\ IF wait_state[parent[current]] = "WT_CHILD"
          THEN wakeup_proc(parent[current], zombie) ELSE no_wakeup(zombie)
       /\ Goto("reparent")
       /\ UNCHANGED <<cpu_vars, proc_vars, at_schedule>>

(* Mutant of orphan_wakes: initproc is not told of a zombie. *)
orphan_wakes_nobody(child) == FALSE

(* A zombie that passes to initproc ends the wait of initproc. *)
orphan_wakes(child) == state[child] = "ZOMBIE" /\ wait_state[initproc] = "WT_CHILD"

(* One turn of the loop of do_exit: a child passes to initproc, which is   *)
(* woken when the child is a zombie.                                       *)
do_exit_reparent(child) ==
    /\ At("reparent")
    /\ child \in Children(current)
    /\ parent' = [parent EXCEPT ![child] = initproc]
    /\ IF orphan_wakes(child) THEN wakeup_proc(initproc, state) ELSE no_wakeup(state)
    /\ UNCHANGED <<cpu_vars, exiting, need_resched, expires, wait_pid, pc,
                   at_schedule>>

(* Mutant of childless: the loop ends at once. *)
childless_assumed == TRUE

(* current->cptr == NULL *)
childless == Children(current) = {}

(* No child is left: the zombie gives up the CPU for good. *)
do_exit_schedule ==
    /\ At("reparent")
    /\ childless
    /\ CallSchedule("dead")
    /\ UNCHANGED <<queue_vars, cpu_vars, proc_vars>>

-----------------------------------------------------------------------------
(* The kernel threads. *)

(* init_main creates user_main and starts its loop of do_wait(0). *)
init_main(child) ==
    /\ At("init_main")
    /\ do_fork(child, "user_main", "wait")

(* user_main executes the shell, or exits when that cannot be loaded. *)
user_main ==
    /\ At("user_main")
    /\ \/ Goto("user")
       \/ Goto("exit")
    /\ UNCHANGED <<queue_vars, cpu_vars, proc_vars, at_schedule>>

(* init_main has checked that all is gone and returns: do_exit panics. *)
init_end ==
    /\ At("init_end")
    /\ Goto("exit")
    /\ UNCHANGED <<queue_vars, cpu_vars, proc_vars, at_schedule>>

(* panic() never returns. *)
halted ==
    /\ panicked
    /\ UNCHANGED vars

-----------------------------------------------------------------------------

Syscall ==
    \/ sys_other
    \/ sys_yield
    \/ sys_exit
    \/ \E p \in User : sys_fork(p)
    \/ \E p \in User \cup {initproc, AnyPid} : sys_wait(p)
    \/ \E p \in Procs : do_kill(p)
    \/ \E t \in 1..MaxSleep : do_sleep(t)

ClockHandler ==
    \/ \E p \in Procs : clock_expire(p)
    \/ clock_end

Kernel ==
    \/ schedule
    \/ cpu_idle
    \/ trap_tail
    \/ do_sleep_resume
    \/ \E p \in Procs : do_wait_found(p)
    \/ do_wait_bad_proc
    \/ do_wait_scan
    \/ do_wait_sleep
    \/ do_wait_resume
    \/ do_exit_panic
    \/ do_exit
    \/ \E p \in Procs : do_exit_reparent(p)
    \/ do_exit_schedule
    \/ \E p \in User : init_main(p)
    \/ user_main
    \/ init_end

Next == Syscall \/ clock_begin \/ ClockHandler \/ Kernel \/ halted

Spec == Init /\ [][Next]_vars

(* Kernel code runs on, between two clock interrupts too (the handler is   *)
(* shorter than the clock period), and the clock keeps interrupting.  The  *)
(* CPU drops a tick that falls into masked code (CPU.vhd clears timer_Int  *)
(* there), so strong fairness of clock_begin assumes that the ticks do not *)
(* fall there for ever: the counter runs free, whatever the kernel does.   *)
(* Nothing is assumed of the system calls a user process makes.            *)
FairSpec ==
    /\ Spec
    /\ WF_vars(ClockHandler)
    /\ SF_vars(Kernel)
    /\ SF_vars(clock_begin)

-----------------------------------------------------------------------------
(* Properties. *)

(* Every variable holds a value its C counterpart can hold. *)
TypeOK ==
    /\ current \in Procs
    /\ state \in [Procs -> States]
    /\ wait_state \in [Procs -> WaitStates]
    /\ exiting \in [Procs -> BOOLEAN]
    /\ need_resched \in [Procs -> BOOLEAN]
    /\ time_slice \in [Procs -> 0..MAX_TIME_SLICE]
    /\ parent \in [Procs -> Procs \cup {NULL}]
    /\ run_list \in Seq(Procs)
    /\ expires \in [Procs -> NoTimer..MaxSleep]
    /\ wait_pid \in [Procs -> Procs \cup {AnyPid}]
    /\ pc \in [Procs -> Labels]
    /\ at_schedule \in BOOLEAN
    /\ in_tick \in BOOLEAN
    /\ panicked \in BOOLEAN

InRunQueue(p) == \E i \in 1..Len(run_list) : run_list[i] = p

(* The run queue holds each runnable process but current and idleproc      *)
(* exactly once: no wake-up loses a process or enqueues it twice (the      *)
(* assertion on run_link in RR_enqueue).                                   *)
RunQueueExact ==
    /\ \A i, j \in 1..Len(run_list) : run_list[i] = run_list[j] => i = j
    /\ \A p \in Procs : InRunQueue(p) <=> /\ state[p] = "RUNNABLE"
                                         /\ p \notin {current, idleproc}

(* No exit is missed: a process asleep in do_wait has no zombie child that *)
(* its do_wait would have returned, although the scan and the sleep of     *)
(* do_wait are separate steps and do_exit passes children to initproc.     *)
NoLostChildExit ==
    \A p \in Procs : wait_state[p] = "WT_CHILD" =>
        \A c \in Waited(p) : state[c] # "ZOMBIE"

(* A pending timer lives in the do_sleep frame of a process that has not   *)
(* left do_sleep: run_timer_list never reaches a timer on a dead stack.    *)
TimerOwnerInSleep ==
    \A p \in Procs : expires[p] # NoTimer =>
        pc[p] = "sleep" /\ state[p] \in {"SLEEPING", "RUNNABLE"}

(* The stack and process structure that do_wait frees are out of use: the  *)
(* process is not on the CPU, not queued, and nobody's parent.             *)
FreedIsUnused ==
    \A p \in Procs : state[p] = "FREE" =>
        p # current /\ ~InRunQueue(p) /\ Children(p) = {}

(* A live process always has somebody to reap it: its parent is neither    *)
(* dead nor freed, unless it is in the loop of do_exit that passes its     *)
(* children on.                                                            *)
ParentCanReap ==
    \A c \in Procs \ {idleproc} : state[c] # "FREE" =>
        /\ parent[c] \in Procs
        /\ \/ state[parent[c]] \in {"SLEEPING", "RUNNABLE"}
           \/ parent[c] = current /\ pc[current] = "reparent"

(* The assertions at the end of init_main: when its last do_wait fails, no *)
(* process but idleproc and initproc exists.                               *)
InitEndClean ==
    pc[initproc] = "init_end" => \A p \in User : state[p] = "FREE"

(* The assertion of wakeup_proc: a zombie never becomes runnable again, by *)
(* a timer, a kill or an exit; it only leaves the table.                   *)
ZombieStaysDead ==
    [][\A p \in Procs : state[p] = "ZOMBIE" => state'[p] \in {"ZOMBIE", "FREE"}]_vars

(* Round robin starves nobody: a queued process gets the CPU.              *)
NoStarvation ==
    \A p \in Procs : InRunQueue(p) ~> (current = p \/ panicked)

(* What the code achieves: a killed process exits unless it enters do_wait *)
(* first.  The tail of trap() tests PF_EXITING before schedule(), so a     *)
(* process killed while it is preempted there returns to user mode once    *)
(* more, and do_wait tests the flag only after it has slept.               *)
KilledExitsOrWaits ==
    \A p \in User : exiting[p] ~> \/ state[p] \in {"ZOMBIE", "FREE"}
                                  \/ wait_state[p] = "WT_CHILD"
                                  \/ panicked

(* sleep() ends: the clock wakes the sleeper. *)
SleepEnds ==
    \A p \in User : wait_state[p] = "WT_TIMER" ~> (wait_state[p] # "WT_TIMER" \/ panicked)
=============================================================================
