-------------------------------- MODULE Lock ---------------------------------
(***************************************************************************)
(* A kernel semaphore as the kernel uses it: down before a critical        *)
(* section and up after it (lock_mm, lock_files, lock_sfs_fs, lock_sfs_io, *)
(* lock_sin, lock_bootfs, lock_vdev_list, lock_disk0, all with value 1).   *)
(* do_kill may come at any time and does not wake a process in down.       *)
(***************************************************************************)
EXTENDS Sem, FiniteSets

CONSTANTS
    Procs,
    InitValue     \* the argument of sem_init

ASSUME LockAssumption == IsFiniteSet(Procs) /\ InitValue \in Nat \ {0}

VARIABLES
    sem,
    pc,            \* "out", "wait" in down, or "in" the critical section
    wakeup_flags,  \* wait->wakeup_flags of a process in down
    wait_state,    \* proc->wait_state, 0 once wakeup_proc has run
    killed         \* PF_EXITING

vars == <<sem, pc, wakeup_flags, wait_state, killed>>

Init ==
    /\ sem = sem_init(InitValue)
    /\ pc = [p \in Procs |-> "out"]
    /\ wakeup_flags = [p \in Procs |-> "WT_INTERRUPTED"]
    /\ wait_state = [p \in Procs |-> "none"]
    /\ killed = [p \in Procs |-> FALSE]

(* __down with a positive value, or try_down that succeeds *)
down(p) ==
    /\ pc[p] = "out"
    /\ sem.value > 0
    /\ sem' = sem_take(sem)
    /\ pc' = [pc EXCEPT ![p] = "in"]
    /\ UNCHANGED <<wakeup_flags, wait_state, killed>>

(* __down up to schedule *)
down_wait(p) ==
    /\ pc[p] = "out"
    /\ sem.value = 0
    /\ sem' = sem_wait(sem, p)
    /\ pc' = [pc EXCEPT ![p] = "wait"]
    /\ wakeup_flags' = [wakeup_flags EXCEPT ![p] = "WT_INTERRUPTED"]
    /\ wait_state' = [wait_state EXCEPT ![p] = "WT_KSEM"]
    /\ UNCHANGED killed

(* The process leaves the queue if it is still in it. *)
wait_current_del(p) ==
    IF SleepsIn(sem, p)
    THEN [sem EXCEPT !.wait_queue = SelectSeq(@, LAMBDA q : q # p)]
    ELSE sem

(* __down after schedule, which runs a woken process *)
down_end(p) ==
    /\ pc[p] = "wait"
    /\ wait_state[p] = "none"
    /\ sem' = wait_current_del(p)
    /\ pc' = [pc EXCEPT ![p] = "in"]
    /\ UNCHANGED <<wakeup_flags, wait_state, killed>>

(* __up wakes with the flags that __down waits for *)
up(p) ==
    /\ pc[p] = "in"
    /\ sem' = sem_up(sem)
    /\ pc' = [pc EXCEPT ![p] = "out"]
    /\ IF sem.wait_queue = <<>>
       THEN UNCHANGED <<wakeup_flags, wait_state>>
       ELSE /\ wakeup_flags' = [wakeup_flags EXCEPT ![Head(sem.wait_queue)] = "WT_KSEM"]
            /\ wait_state' = [wait_state EXCEPT ![Head(sem.wait_queue)] = "none"]
    /\ UNCHANGED killed

(* Mutant of interruptible: do_kill wakes every sleeper. *)
interruptible_any(p) == wait_state[p] # "none"

(* wait_state & WT_INTERRUPTED: WT_CHILD, WT_TIMER and WT_KBD, not WT_KSEM *)
interruptible(p) == wait_state[p] \in {"WT_CHILD", "WT_TIMER", "WT_KBD"}

do_kill(p) ==
    /\ ~killed[p]
    /\ killed' = [killed EXCEPT ![p] = TRUE]
    /\ wait_state' = IF interruptible(p) THEN [wait_state EXCEPT ![p] = "none"]
                                         ELSE wait_state
    /\ UNCHANGED <<sem, pc, wakeup_flags>>

Next == \E p \in Procs : down(p) \/ down_wait(p) \/ down_end(p) \/ up(p) \/ do_kill(p)

Spec == Init /\ [][Next]_vars

(* The scheduler runs woken processes, and critical sections end. *)
FairSpec == Spec /\ \A p \in Procs : WF_vars(down_end(p)) /\ WF_vars(up(p))

-----------------------------------------------------------------------------

(* The value is never negative and never exceeds the initial one: an up    *)
(* gives back what a down took.                                            *)
TypeOK ==
    /\ sem \in [value : 0..InitValue, wait_queue : Seq(Procs)]
    /\ pc \in [Procs -> {"out", "wait", "in"}]
    /\ wakeup_flags \in [Procs -> {"WT_INTERRUPTED", "WT_KSEM"}]
    /\ wait_state \in [Procs -> {"none", "WT_KSEM"}]
    /\ killed \in [Procs -> BOOLEAN]

(* The processes that hold a unit: in the critical section, or woken by up. *)
Owners == {p \in Procs : pc[p] = "in" \/ (pc[p] = "wait" /\ wait_state[p] = "none")}

(* __up and __down neither lose nor create a unit: each is in the value,   *)
(* with a process in the critical section, or on its way to a woken one.   *)
UnitsConserved == sem.value + Cardinality(Owners) = InitValue

(* Mutual exclusion, which the value 1 is meant for. *)
Exclusion == Cardinality({p \in Procs : pc[p] = "in"}) <= InitValue

(* No lost wake-up: a process asleep in __down is in the queue in which    *)
(* __up looks for it, and a process in that queue is asleep.               *)
SleeperIsQueued ==
    \A p \in Procs :
       (pc[p] = "wait" /\ wait_state[p] # "none") <=> SleepsIn(sem, p)

(* Nobody sleeps in __down while a unit is free. *)
NoIdleUnit == sem.value > 0 => sem.wait_queue = <<>>

(* assert(flags == 0) in down: it returns only because of an up. *)
DownNotInterrupted ==
    \A p \in Procs : pc[p] = "wait" /\ wait_state[p] = "none" => wakeup_flags[p] = "WT_KSEM"

(* No process is in the queue twice. *)
QueueDistinct ==
    \A i, j \in DOMAIN sem.wait_queue : sem.wait_queue[i] = sem.wait_queue[j] => i = j

(* The inductive invariant. *)
LockInv ==
    /\ TypeOK
    /\ SleeperIsQueued
    /\ QueueDistinct
    /\ NoIdleUnit
    /\ DownNotInterrupted
    /\ UnitsConserved

(* The queue is first in, first out: every down returns. *)
DownReturns == \A p \in Procs : pc[p] = "wait" ~> pc[p] = "in"
=============================================================================
