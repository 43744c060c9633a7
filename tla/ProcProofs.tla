----------------------------- MODULE ProcProofs -----------------------------
(***************************************************************************)
(* Proofs about Proc for every process table, time slice and sleep bound.  *)
(* The properties are not inductive by themselves: the invariant IInv adds *)
(* what the control points say about the processes that stand at them.     *)
(***************************************************************************)
EXTENDS Proc, TLAPS, SequenceTheorems

(* A process is in a wait exactly when it sleeps, and stands behind the    *)
(* schedule() of the function that put it to sleep.                        *)
WaitOK ==
    \A p \in Procs :
        /\ state[p] = "SLEEPING" <=> wait_state[p] # "none"
        /\ wait_state[p] = "WT_CHILD" => pc[p] = "wait_check"
        /\ wait_state[p] = "WT_TIMER" => pc[p] = "sleep"

(* What the control point of current says of its state. *)
CurrentOK ==
    /\ state[current] # "FREE"
    /\ ~at_schedule =>
         state[current] = IF pc[current] = "reparent" THEN "ZOMBIE" ELSE "RUNNABLE"
    /\ at_schedule => pc[current] \in {"cpu_idle", "user", "wait", "wait_check",
                                       "sleep", "dead"}
    /\ pc[current] = "dead" => at_schedule /\ state[current] = "ZOMBIE"
    /\ state[current] = "ZOMBIE" => pc[current] \in {"reparent", "dead"}
    /\ in_tick => IntrEnabled

(* Where the other processes resume. *)
OthersOK ==
    \A p \in Procs \ {current} :
        IF state[p] \in {"FREE", "ZOMBIE"} THEN pc[p] = "dead"
        ELSE pc[p] \in {"cpu_idle", "init_main", "user_main", "user", "wait",
                        "wait_check", "sleep"}

(* idleproc is always runnable, initproc never dies; both stay in their    *)
(* own code.                                                               *)
KernelThreadsOK ==
    /\ state[idleproc] = "RUNNABLE"
    /\ \A p \in Procs : pc[p] = "cpu_idle" <=> p = idleproc
    /\ state[initproc] \in {"RUNNABLE", "SLEEPING"}
    /\ pc[initproc] \in {"init_main", "wait", "wait_sleep", "wait_check", "exit",
                         "init_end"}
    /\ wait_pid[initproc] = AnyPid
    /\ parent[idleproc] = NULL
    /\ parent[initproc] = idleproc

(* Between the scan and the sleep of do_wait no child becomes a zombie. *)
ScanOK ==
    pc[current] = "wait_sleep" =>
        \A c \in Waited(current) : state[c] # "ZOMBIE"

(* Family: only processes in the table have or are parents. *)
FamilyOK ==
    /\ \A p \in Procs : state[p] = "FREE" => parent[p] = NULL
    /\ \A p \in Procs : parent[p] # p
    /\ ParentCanReap
    /\ pc[current] = "dead" => Children(current) = {}

IInv ==
    /\ TypeOK
    /\ RunQueueExact
    /\ WaitOK
    /\ CurrentOK
    /\ OthersOK
    /\ KernelThreadsOK
    /\ ScanOK
    /\ FamilyOK
    /\ NoLostChildExit
    /\ TimerOwnerInSleep

(* A step of ZombieStaysDead. *)
ZombieStep ==
    \A p \in Procs : state[p] = "ZOMBIE" => state'[p] \in {"ZOMBIE", "FREE"}

-----------------------------------------------------------------------------
(* Sequences without duplicates. *)

Distinct(q) == \A i, j \in 1..Len(q) : q[i] = q[j] => i = j
Occurs(p, q) == \E i \in 1..Len(q) : q[i] = p

(* RR_enqueue adds one occurrence at the tail. *)
LEMMA EnqueueLemma ==
    ASSUME NEW S, NEW q \in Seq(S), NEW p \in S, Distinct(q), ~Occurs(p, q)
    PROVE  /\ Append(q, p) \in Seq(S)
           /\ Distinct(Append(q, p))
           /\ \A x \in S : Occurs(x, Append(q, p)) <=> Occurs(x, q) \/ x = p
<1>1. Append(q, p) \in Seq(S) /\ Len(Append(q, p)) = Len(q) + 1
  OBVIOUS
<1>2. \A i \in 1..Len(q) : Append(q, p)[i] = q[i]
  OBVIOUS
<1>3. Append(q, p)[Len(q) + 1] = p
  OBVIOUS
<1>4. Distinct(Append(q, p))
  BY <1>1, <1>2, <1>3 DEF Distinct, Occurs
<1>5. \A x \in S : Occurs(x, Append(q, p)) <=> Occurs(x, q) \/ x = p
  BY <1>1, <1>2, <1>3 DEF Occurs
<1>6. QED
  BY <1>1, <1>4, <1>5

(* RR_pick_next and RR_dequeue remove the only occurrence of the head. *)
LEMMA DequeueLemma ==
    ASSUME NEW S, NEW q \in Seq(S), q # <<>>, Distinct(q)
    PROVE  /\ Head(q) \in S
           /\ Occurs(Head(q), q)
           /\ Tail(q) \in Seq(S)
           /\ Distinct(Tail(q))
           /\ \A x \in S : Occurs(x, Tail(q)) <=> Occurs(x, q) /\ x # Head(q)
<1>1. Len(q) \in Nat /\ Len(q) > 0 /\ Head(q) = q[1]
  OBVIOUS
<1>2. Tail(q) \in Seq(S) /\ Len(Tail(q)) = Len(q) - 1
  BY <1>1
<1>3. \A i \in 1..Len(q) - 1 : Tail(q)[i] = q[i + 1]
  BY <1>1
<1>4. Distinct(Tail(q))
  BY <1>1, <1>2, <1>3 DEF Distinct
<1>5. \A x \in S : Occurs(x, Tail(q)) => Occurs(x, q) /\ x # Head(q)
  BY <1>1, <1>2, <1>3 DEF Occurs, Distinct
<1>6. \A x \in S : Occurs(x, q) /\ x # Head(q) => Occurs(x, Tail(q))
  <2>1. SUFFICES ASSUME NEW x \in S, NEW i \in 1..Len(q), q[i] = x, x # Head(q)
                 PROVE  \E k \in 1..Len(Tail(q)) : Tail(q)[k] = x
    BY DEF Occurs
  <2>2. i # 1 /\ i - 1 \in 1..Len(q) - 1 /\ (i - 1) + 1 = i
    BY <1>1, <2>1
  <2>3. Tail(q)[i - 1] = x
    BY <1>3, <2>1, <2>2
  <2>4. QED
    BY <1>2, <2>2, <2>3
<1>7. QED
  BY <1>1, <1>2, <1>4, <1>5, <1>6 DEF Occurs

(* wakeup_proc of a process other than current and idleproc enqueues it;   *)
(* st may differ from state at current only, which is not queued.          *)
LEMMA WakeupLemma ==
    ASSUME TypeOK, RunQueueExact,
           NEW p \in Procs \ {idleproc, current}, state[p] # "RUNNABLE",
           NEW st \in [Procs -> States],
           \A x \in Procs \ {current} : st[x] = state[x],
           wakeup_proc(p, st), current' = current
    PROVE  /\ RunQueueExact'
           /\ run_list' \in Seq(Procs)
           /\ time_slice' \in [Procs -> 0..MAX_TIME_SLICE]
           /\ state' = [st EXCEPT ![p] = "RUNNABLE"]
           /\ wait_state' = [wait_state EXCEPT ![p] = "none"]
<1>1. run_list \in Seq(Procs) /\ Distinct(run_list) /\ ~Occurs(p, run_list)
  BY DEF TypeOK, RunQueueExact, InRunQueue, Distinct, Occurs
<1>2. /\ run_list' = Append(run_list, p)
      /\ state' = [st EXCEPT ![p] = "RUNNABLE"]
      /\ wait_state' = [wait_state EXCEPT ![p] = "none"]
      /\ time_slice' = [time_slice EXCEPT ![p] = Refill(p)]
  BY DEF wakeup_proc
<1>3. /\ run_list' \in Seq(Procs)
      /\ Distinct(run_list')
      /\ \A x \in Procs : Occurs(x, run_list') <=> Occurs(x, run_list) \/ x = p
  BY <1>1, <1>2, EnqueueLemma
<1>4. \A x \in Procs : Occurs(x, run_list) <=> /\ state[x] = "RUNNABLE"
                                             /\ x \notin {current, idleproc}
  BY DEF RunQueueExact, InRunQueue, Occurs
<1>5. \A x \in Procs : Occurs(x, run_list') <=> /\ state'[x] = "RUNNABLE"
                                              /\ x \notin {current', idleproc}
  BY <1>2, <1>3, <1>4
<1>6. RunQueueExact'
  BY <1>3, <1>5 DEF RunQueueExact, InRunQueue, Distinct, Occurs
<1>7. Refill(p) \in 0..MAX_TIME_SLICE
  BY TimeAssumption DEF Refill, TypeOK
<1>8. QED
  BY <1>2, <1>3, <1>6, <1>7 DEF TypeOK

-----------------------------------------------------------------------------
(* The inductive step: one lemma per action, one step per conjunct. *)

(* cpu_idle preserves the inductive invariant. *)
LEMMA cpu_idle_IInv ==
    ASSUME IInv, cpu_idle
    PROVE  IInv' /\ ZombieStep
<1> USE ProcsAssumption, TimeAssumption DEF IInv, cpu_idle, At, CallSchedule,
      Goto, queue_vars, cpu_vars, proc_vars
<1>1. TypeOK'
  BY DEF TypeOK, States, WaitStates, Labels, NoTimer, AnyPid
<1>2. RunQueueExact'
  BY DEF TypeOK, RunQueueExact, InRunQueue, CurrentOK
<1>3. WaitOK'
  BY DEF TypeOK, WaitOK, CurrentOK, KernelThreadsOK, NoTimer, OthersOK, AnyPid
<1>4. CurrentOK'
  BY DEF TypeOK, CurrentOK, KernelThreadsOK, WaitOK, NoTimer, OthersOK, AnyPid
<1>5. OthersOK'
  BY DEF TypeOK, OthersOK, CurrentOK, KernelThreadsOK, WaitOK, NoTimer, AnyPid
<1>6. KernelThreadsOK'
  BY DEF TypeOK, KernelThreadsOK, CurrentOK, WaitOK, NoTimer, OthersOK, AnyPid
<1>7. ScanOK'
  BY DEF TypeOK, ScanOK, CurrentOK, KernelThreadsOK, WaitOK, OthersOK, Waited,
         Children, AnyPid
<1>8. FamilyOK'
  BY DEF TypeOK, FamilyOK, ParentCanReap, Children, CurrentOK, KernelThreadsOK
<1>9. NoLostChildExit'
  BY DEF TypeOK, NoLostChildExit, CurrentOK, KernelThreadsOK, WaitOK, OthersOK,
         ScanOK, Waited, Children, AnyPid
<1>10. TimerOwnerInSleep'
  BY DEF TypeOK, TimerOwnerInSleep, CurrentOK, KernelThreadsOK, WaitOK,
         NoTimer, OthersOK, AnyPid
<1>11. ZombieStep
  BY DEF TypeOK, ZombieStep, CurrentOK, KernelThreadsOK
<1>12. QED
  BY <1>1, <1>2, <1>3, <1>4, <1>5, <1>6, <1>7, <1>8, <1>9, <1>10, <1>11

(* trap_tail preserves the inductive invariant. *)
LEMMA trap_tail_IInv ==
    ASSUME IInv, trap_tail
    PROVE  IInv' /\ ZombieStep
<1> USE ProcsAssumption, TimeAssumption DEF IInv, trap_tail, At, Goto,
      CallSchedule, queue_vars, cpu_vars, proc_vars, kill_pending
<1>1. TypeOK'
  BY DEF TypeOK, States, WaitStates, Labels, NoTimer, AnyPid
<1>2. RunQueueExact'
  BY DEF TypeOK, RunQueueExact, InRunQueue, CurrentOK
<1>3. WaitOK'
  BY DEF TypeOK, WaitOK, CurrentOK, KernelThreadsOK, NoTimer, OthersOK, AnyPid
<1>4. CurrentOK'
  BY DEF TypeOK, CurrentOK, KernelThreadsOK, WaitOK, NoTimer, OthersOK, AnyPid
<1>5. OthersOK'
  BY DEF TypeOK, OthersOK, CurrentOK, KernelThreadsOK, WaitOK, NoTimer, AnyPid
<1>6. KernelThreadsOK'
  BY DEF TypeOK, KernelThreadsOK, CurrentOK, WaitOK, NoTimer, OthersOK, AnyPid
<1>7. ScanOK'
  BY DEF TypeOK, ScanOK, CurrentOK, KernelThreadsOK, WaitOK, OthersOK, Waited,
         Children, AnyPid
<1>8. FamilyOK'
  BY DEF TypeOK, FamilyOK, ParentCanReap, Children, CurrentOK, KernelThreadsOK
<1>9. NoLostChildExit'
  BY DEF TypeOK, NoLostChildExit, CurrentOK, KernelThreadsOK, WaitOK, OthersOK,
         ScanOK, Waited, Children, AnyPid
<1>10. TimerOwnerInSleep'
  BY DEF TypeOK, TimerOwnerInSleep, CurrentOK, KernelThreadsOK, WaitOK,
         NoTimer, OthersOK, AnyPid
<1>11. ZombieStep
  BY DEF TypeOK, ZombieStep, CurrentOK, KernelThreadsOK
<1>12. QED
  BY <1>1, <1>2, <1>3, <1>4, <1>5, <1>6, <1>7, <1>8, <1>9, <1>10, <1>11

(* sys_other preserves the inductive invariant. *)
LEMMA sys_other_IInv ==
    ASSUME IInv, sys_other
    PROVE  IInv' /\ ZombieStep
<1> USE ProcsAssumption, TimeAssumption DEF IInv, sys_other, At, Goto,
      queue_vars, cpu_vars, proc_vars
<1>1. TypeOK'
  BY DEF TypeOK, States, WaitStates, Labels, NoTimer, AnyPid
<1>2. RunQueueExact'
  BY DEF TypeOK, RunQueueExact, InRunQueue, CurrentOK
<1>3. WaitOK'
  BY DEF TypeOK, WaitOK, CurrentOK, KernelThreadsOK, NoTimer, OthersOK, AnyPid
<1>4. CurrentOK'
  BY DEF TypeOK, CurrentOK, KernelThreadsOK, WaitOK, NoTimer, OthersOK, AnyPid
<1>5. OthersOK'
  BY DEF TypeOK, OthersOK, CurrentOK, KernelThreadsOK, WaitOK, NoTimer, AnyPid
<1>6. KernelThreadsOK'
  BY DEF TypeOK, KernelThreadsOK, CurrentOK, WaitOK, NoTimer, OthersOK, AnyPid
<1>7. ScanOK'
  BY DEF TypeOK, ScanOK, CurrentOK, KernelThreadsOK, WaitOK, OthersOK, Waited,
         Children, AnyPid
<1>8. FamilyOK'
  BY DEF TypeOK, FamilyOK, ParentCanReap, Children, CurrentOK, KernelThreadsOK
<1>9. NoLostChildExit'
  BY DEF TypeOK, NoLostChildExit, CurrentOK, KernelThreadsOK, WaitOK, OthersOK,
         ScanOK, Waited, Children, AnyPid
<1>10. TimerOwnerInSleep'
  BY DEF TypeOK, TimerOwnerInSleep, CurrentOK, KernelThreadsOK, WaitOK,
         NoTimer, OthersOK, AnyPid
<1>11. ZombieStep
  BY DEF TypeOK, ZombieStep, CurrentOK, KernelThreadsOK
<1>12. QED
  BY <1>1, <1>2, <1>3, <1>4, <1>5, <1>6, <1>7, <1>8, <1>9, <1>10, <1>11

(* sys_yield preserves the inductive invariant. *)
LEMMA sys_yield_IInv ==
    ASSUME IInv, sys_yield
    PROVE  IInv' /\ ZombieStep
<1> USE ProcsAssumption, TimeAssumption DEF IInv, sys_yield, At, Goto,
      queue_vars, cpu_vars, proc_vars
<1>1. TypeOK'
  BY DEF TypeOK, States, WaitStates, Labels, NoTimer, AnyPid
<1>2. RunQueueExact'
  BY DEF TypeOK, RunQueueExact, InRunQueue, CurrentOK
<1>3. WaitOK'
  BY DEF TypeOK, WaitOK, CurrentOK, KernelThreadsOK, NoTimer, OthersOK, AnyPid
<1>4. CurrentOK'
  BY DEF TypeOK, CurrentOK, KernelThreadsOK, WaitOK, NoTimer, OthersOK, AnyPid
<1>5. OthersOK'
  BY DEF TypeOK, OthersOK, CurrentOK, KernelThreadsOK, WaitOK, NoTimer, AnyPid
<1>6. KernelThreadsOK'
  BY DEF TypeOK, KernelThreadsOK, CurrentOK, WaitOK, NoTimer, OthersOK, AnyPid
<1>7. ScanOK'
  BY DEF TypeOK, ScanOK, CurrentOK, KernelThreadsOK, WaitOK, OthersOK, Waited,
         Children, AnyPid
<1>8. FamilyOK'
  BY DEF TypeOK, FamilyOK, ParentCanReap, Children, CurrentOK, KernelThreadsOK
<1>9. NoLostChildExit'
  BY DEF TypeOK, NoLostChildExit, CurrentOK, KernelThreadsOK, WaitOK, OthersOK,
         ScanOK, Waited, Children, AnyPid
<1>10. TimerOwnerInSleep'
  BY DEF TypeOK, TimerOwnerInSleep, CurrentOK, KernelThreadsOK, WaitOK,
         NoTimer, OthersOK, AnyPid
<1>11. ZombieStep
  BY DEF TypeOK, ZombieStep, CurrentOK, KernelThreadsOK
<1>12. QED
  BY <1>1, <1>2, <1>3, <1>4, <1>5, <1>6, <1>7, <1>8, <1>9, <1>10, <1>11

(* sys_exit preserves the inductive invariant. *)
LEMMA sys_exit_IInv ==
    ASSUME IInv, sys_exit
    PROVE  IInv' /\ ZombieStep
<1> USE ProcsAssumption, TimeAssumption DEF IInv, sys_exit, At, Goto,
      queue_vars, cpu_vars, proc_vars
<1>1. TypeOK'
  BY DEF TypeOK, States, WaitStates, Labels, NoTimer, AnyPid
<1>2. RunQueueExact'
  BY DEF TypeOK, RunQueueExact, InRunQueue, CurrentOK
<1>3. WaitOK'
  BY DEF TypeOK, WaitOK, CurrentOK, KernelThreadsOK, NoTimer, OthersOK, AnyPid
<1>4. CurrentOK'
  BY DEF TypeOK, CurrentOK, KernelThreadsOK, WaitOK, NoTimer, OthersOK, AnyPid
<1>5. OthersOK'
  BY DEF TypeOK, OthersOK, CurrentOK, KernelThreadsOK, WaitOK, NoTimer, AnyPid
<1>6. KernelThreadsOK'
  BY DEF TypeOK, KernelThreadsOK, CurrentOK, WaitOK, NoTimer, OthersOK, AnyPid
<1>7. ScanOK'
  BY DEF TypeOK, ScanOK, CurrentOK, KernelThreadsOK, WaitOK, OthersOK, Waited,
         Children, AnyPid
<1>8. FamilyOK'
  BY DEF TypeOK, FamilyOK, ParentCanReap, Children, CurrentOK, KernelThreadsOK
<1>9. NoLostChildExit'
  BY DEF TypeOK, NoLostChildExit, CurrentOK, KernelThreadsOK, WaitOK, OthersOK,
         ScanOK, Waited, Children, AnyPid
<1>10. TimerOwnerInSleep'
  BY DEF TypeOK, TimerOwnerInSleep, CurrentOK, KernelThreadsOK, WaitOK,
         NoTimer, OthersOK, AnyPid
<1>11. ZombieStep
  BY DEF TypeOK, ZombieStep, CurrentOK, KernelThreadsOK
<1>12. QED
  BY <1>1, <1>2, <1>3, <1>4, <1>5, <1>6, <1>7, <1>8, <1>9, <1>10, <1>11

(* do_sleep_resume preserves the inductive invariant. *)
LEMMA do_sleep_resume_IInv ==
    ASSUME IInv, do_sleep_resume
    PROVE  IInv' /\ ZombieStep
<1> USE ProcsAssumption, TimeAssumption DEF IInv, do_sleep_resume, At, Goto,
      queue_vars, cpu_vars, proc_vars, del_timer
<1>1. TypeOK'
  BY DEF TypeOK, States, WaitStates, Labels, NoTimer, AnyPid
<1>2. RunQueueExact'
  BY DEF TypeOK, RunQueueExact, InRunQueue, CurrentOK
<1>3. WaitOK'
  BY DEF TypeOK, WaitOK, CurrentOK, KernelThreadsOK, NoTimer, OthersOK, AnyPid
<1>4. CurrentOK'
  BY DEF TypeOK, CurrentOK, KernelThreadsOK, WaitOK, NoTimer, OthersOK, AnyPid
<1>5. OthersOK'
  BY DEF TypeOK, OthersOK, CurrentOK, KernelThreadsOK, WaitOK, NoTimer, AnyPid
<1>6. KernelThreadsOK'
  BY DEF TypeOK, KernelThreadsOK, CurrentOK, WaitOK, NoTimer, OthersOK, AnyPid
<1>7. ScanOK'
  BY DEF TypeOK, ScanOK, CurrentOK, KernelThreadsOK, WaitOK, OthersOK, Waited,
         Children, AnyPid
<1>8. FamilyOK'
  BY DEF TypeOK, FamilyOK, ParentCanReap, Children, CurrentOK, KernelThreadsOK
<1>9. NoLostChildExit'
  BY DEF TypeOK, NoLostChildExit, CurrentOK, KernelThreadsOK, WaitOK, OthersOK,
         ScanOK, Waited, Children, AnyPid
<1>10. TimerOwnerInSleep'
  BY DEF TypeOK, TimerOwnerInSleep, CurrentOK, KernelThreadsOK, WaitOK,
         NoTimer, OthersOK, AnyPid
<1>11. ZombieStep
  BY DEF TypeOK, ZombieStep, CurrentOK, KernelThreadsOK
<1>12. QED
  BY <1>1, <1>2, <1>3, <1>4, <1>5, <1>6, <1>7, <1>8, <1>9, <1>10, <1>11

(* do_wait_bad_proc preserves the inductive invariant. *)
LEMMA do_wait_bad_proc_IInv ==
    ASSUME IInv, do_wait_bad_proc
    PROVE  IInv' /\ ZombieStep
<1> USE ProcsAssumption, TimeAssumption DEF IInv, do_wait_bad_proc, At, Goto,
      queue_vars, cpu_vars, proc_vars, haskid, Waited, Children
<1>1. TypeOK'
  BY DEF TypeOK, States, WaitStates, Labels, NoTimer, AnyPid
<1>2. RunQueueExact'
  BY DEF TypeOK, RunQueueExact, InRunQueue, CurrentOK
<1>3. WaitOK'
  BY DEF TypeOK, WaitOK, CurrentOK, KernelThreadsOK, NoTimer, OthersOK, AnyPid
<1>4. CurrentOK'
  BY DEF TypeOK, CurrentOK, KernelThreadsOK, WaitOK, NoTimer, OthersOK, AnyPid
<1>5. OthersOK'
  BY DEF TypeOK, OthersOK, CurrentOK, KernelThreadsOK, WaitOK, NoTimer, AnyPid
<1>6. KernelThreadsOK'
  BY DEF TypeOK, KernelThreadsOK, CurrentOK, WaitOK, NoTimer, OthersOK, AnyPid
<1>7. ScanOK'
  BY DEF TypeOK, ScanOK, CurrentOK, KernelThreadsOK, WaitOK, OthersOK, Waited,
         Children, AnyPid
<1>8. FamilyOK'
  BY DEF TypeOK, FamilyOK, ParentCanReap, Children, CurrentOK, KernelThreadsOK
<1>9. NoLostChildExit'
  BY DEF TypeOK, NoLostChildExit, CurrentOK, KernelThreadsOK, WaitOK, OthersOK,
         ScanOK, Waited, Children, AnyPid
<1>10. TimerOwnerInSleep'
  BY DEF TypeOK, TimerOwnerInSleep, CurrentOK, KernelThreadsOK, WaitOK,
         NoTimer, OthersOK, AnyPid
<1>11. ZombieStep
  BY DEF TypeOK, ZombieStep, CurrentOK, KernelThreadsOK
<1>12. QED
  BY <1>1, <1>2, <1>3, <1>4, <1>5, <1>6, <1>7, <1>8, <1>9, <1>10, <1>11

(* do_wait_scan preserves the inductive invariant. *)
LEMMA do_wait_scan_IInv ==
    ASSUME IInv, do_wait_scan
    PROVE  IInv' /\ ZombieStep
<1> USE ProcsAssumption, TimeAssumption DEF IInv, do_wait_scan, At, Goto,
      queue_vars, cpu_vars, proc_vars, haskid, Waited, Children
<1>1. TypeOK'
  BY DEF TypeOK, States, WaitStates, Labels, NoTimer, AnyPid
<1>2. RunQueueExact'
  BY DEF TypeOK, RunQueueExact, InRunQueue, CurrentOK
<1>3. WaitOK'
  BY DEF TypeOK, WaitOK, CurrentOK, KernelThreadsOK, NoTimer, OthersOK, AnyPid
<1>4. CurrentOK'
  BY DEF TypeOK, CurrentOK, KernelThreadsOK, WaitOK, NoTimer, OthersOK, AnyPid
<1>5. OthersOK'
  BY DEF TypeOK, OthersOK, CurrentOK, KernelThreadsOK, WaitOK, NoTimer, AnyPid
<1>6. KernelThreadsOK'
  BY DEF TypeOK, KernelThreadsOK, CurrentOK, WaitOK, NoTimer, OthersOK, AnyPid
<1>7. ScanOK'
  BY DEF TypeOK, ScanOK, CurrentOK, KernelThreadsOK, WaitOK, OthersOK, Waited,
         Children, AnyPid
<1>8. FamilyOK'
  BY DEF TypeOK, FamilyOK, ParentCanReap, Children, CurrentOK, KernelThreadsOK
<1>9. NoLostChildExit'
  BY DEF TypeOK, NoLostChildExit, CurrentOK, KernelThreadsOK, WaitOK, OthersOK,
         ScanOK, Waited, Children, AnyPid
<1>10. TimerOwnerInSleep'
  BY DEF TypeOK, TimerOwnerInSleep, CurrentOK, KernelThreadsOK, WaitOK,
         NoTimer, OthersOK, AnyPid
<1>11. ZombieStep
  BY DEF TypeOK, ZombieStep, CurrentOK, KernelThreadsOK
<1>12. QED
  BY <1>1, <1>2, <1>3, <1>4, <1>5, <1>6, <1>7, <1>8, <1>9, <1>10, <1>11

(* do_wait_resume preserves the inductive invariant. *)
LEMMA do_wait_resume_IInv ==
    ASSUME IInv, do_wait_resume
    PROVE  IInv' /\ ZombieStep
<1> USE ProcsAssumption, TimeAssumption DEF IInv, do_wait_resume, At, Goto,
      queue_vars, cpu_vars, proc_vars, kill_pending
<1>1. TypeOK'
  BY DEF TypeOK, States, WaitStates, Labels, NoTimer, AnyPid
<1>2. RunQueueExact'
  BY DEF TypeOK, RunQueueExact, InRunQueue, CurrentOK
<1>3. WaitOK'
  BY DEF TypeOK, WaitOK, CurrentOK, KernelThreadsOK, NoTimer, OthersOK, AnyPid
<1>4. CurrentOK'
  BY DEF TypeOK, CurrentOK, KernelThreadsOK, WaitOK, NoTimer, OthersOK, AnyPid
<1>5. OthersOK'
  BY DEF TypeOK, OthersOK, CurrentOK, KernelThreadsOK, WaitOK, NoTimer, AnyPid
<1>6. KernelThreadsOK'
  BY DEF TypeOK, KernelThreadsOK, CurrentOK, WaitOK, NoTimer, OthersOK, AnyPid
<1>7. ScanOK'
  BY DEF TypeOK, ScanOK, CurrentOK, KernelThreadsOK, WaitOK, OthersOK, Waited,
         Children, AnyPid
<1>8. FamilyOK'
  BY DEF TypeOK, FamilyOK, ParentCanReap, Children, CurrentOK, KernelThreadsOK
<1>9. NoLostChildExit'
  BY DEF TypeOK, NoLostChildExit, CurrentOK, KernelThreadsOK, WaitOK, OthersOK,
         ScanOK, Waited, Children, AnyPid
<1>10. TimerOwnerInSleep'
  BY DEF TypeOK, TimerOwnerInSleep, CurrentOK, KernelThreadsOK, WaitOK,
         NoTimer, OthersOK, AnyPid
<1>11. ZombieStep
  BY DEF TypeOK, ZombieStep, CurrentOK, KernelThreadsOK
<1>12. QED
  BY <1>1, <1>2, <1>3, <1>4, <1>5, <1>6, <1>7, <1>8, <1>9, <1>10, <1>11

(* do_exit_panic preserves the inductive invariant. *)
LEMMA do_exit_panic_IInv ==
    ASSUME IInv, do_exit_panic
    PROVE  IInv' /\ ZombieStep
<1> USE ProcsAssumption, TimeAssumption DEF IInv, do_exit_panic, At,
      queue_vars, cpu_vars, proc_vars
<1>1. TypeOK'
  BY DEF TypeOK, States, WaitStates, Labels, NoTimer, AnyPid
<1>2. RunQueueExact'
  BY DEF TypeOK, RunQueueExact, InRunQueue, CurrentOK
<1>3. WaitOK'
  BY DEF TypeOK, WaitOK, CurrentOK, KernelThreadsOK, NoTimer, OthersOK, AnyPid
<1>4. CurrentOK'
  BY DEF TypeOK, CurrentOK, KernelThreadsOK, WaitOK, NoTimer, OthersOK, AnyPid
<1>5. OthersOK'
  BY DEF TypeOK, OthersOK, CurrentOK, KernelThreadsOK, WaitOK, NoTimer, AnyPid
<1>6. KernelThreadsOK'
  BY DEF TypeOK, KernelThreadsOK, CurrentOK, WaitOK, NoTimer, OthersOK, AnyPid
<1>7. ScanOK'
  BY DEF TypeOK, ScanOK, CurrentOK, KernelThreadsOK, WaitOK, OthersOK, Waited,
         Children, AnyPid
<1>8. FamilyOK'
  BY DEF TypeOK, FamilyOK, ParentCanReap, Children, CurrentOK, KernelThreadsOK
<1>9. NoLostChildExit'
  BY DEF TypeOK, NoLostChildExit, CurrentOK, KernelThreadsOK, WaitOK, OthersOK,
         ScanOK, Waited, Children, AnyPid
<1>10. TimerOwnerInSleep'
  BY DEF TypeOK, TimerOwnerInSleep, CurrentOK, KernelThreadsOK, WaitOK,
         NoTimer, OthersOK, AnyPid
<1>11. ZombieStep
  BY DEF TypeOK, ZombieStep, CurrentOK, KernelThreadsOK
<1>12. QED
  BY <1>1, <1>2, <1>3, <1>4, <1>5, <1>6, <1>7, <1>8, <1>9, <1>10, <1>11

(* do_exit_schedule preserves the inductive invariant. *)
LEMMA do_exit_schedule_IInv ==
    ASSUME IInv, do_exit_schedule
    PROVE  IInv' /\ ZombieStep
<1> USE ProcsAssumption, TimeAssumption DEF IInv, do_exit_schedule, At,
      CallSchedule, Goto, queue_vars, cpu_vars, proc_vars, childless, Children
<1>1. TypeOK'
  BY DEF TypeOK, States, WaitStates, Labels, NoTimer, AnyPid
<1>2. RunQueueExact'
  BY DEF TypeOK, RunQueueExact, InRunQueue, CurrentOK
<1>3. WaitOK'
  BY DEF TypeOK, WaitOK, CurrentOK, KernelThreadsOK, NoTimer, OthersOK, AnyPid
<1>4. CurrentOK'
  BY DEF TypeOK, CurrentOK, KernelThreadsOK, WaitOK, NoTimer, OthersOK, AnyPid
<1>5. OthersOK'
  BY DEF TypeOK, OthersOK, CurrentOK, KernelThreadsOK, WaitOK, NoTimer, AnyPid
<1>6. KernelThreadsOK'
  BY DEF TypeOK, KernelThreadsOK, CurrentOK, WaitOK, NoTimer, OthersOK, AnyPid
<1>7. ScanOK'
  BY DEF TypeOK, ScanOK, CurrentOK, KernelThreadsOK, WaitOK, OthersOK, Waited,
         Children, AnyPid
<1>8. FamilyOK'
  BY DEF TypeOK, FamilyOK, ParentCanReap, Children, CurrentOK, KernelThreadsOK
<1>9. NoLostChildExit'
  BY DEF TypeOK, NoLostChildExit, CurrentOK, KernelThreadsOK, WaitOK, OthersOK,
         ScanOK, Waited, Children, AnyPid
<1>10. TimerOwnerInSleep'
  BY DEF TypeOK, TimerOwnerInSleep, CurrentOK, KernelThreadsOK, WaitOK,
         NoTimer, OthersOK, AnyPid
<1>11. ZombieStep
  BY DEF TypeOK, ZombieStep, CurrentOK, KernelThreadsOK
<1>12. QED
  BY <1>1, <1>2, <1>3, <1>4, <1>5, <1>6, <1>7, <1>8, <1>9, <1>10, <1>11

(* user_main preserves the inductive invariant. *)
LEMMA user_main_IInv ==
    ASSUME IInv, user_main
    PROVE  IInv' /\ ZombieStep
<1> USE ProcsAssumption, TimeAssumption DEF IInv, user_main, At, Goto,
      queue_vars, cpu_vars, proc_vars
<1>1. TypeOK'
  BY DEF TypeOK, States, WaitStates, Labels, NoTimer, AnyPid
<1>2. RunQueueExact'
  BY DEF TypeOK, RunQueueExact, InRunQueue, CurrentOK
<1>3. WaitOK'
  BY DEF TypeOK, WaitOK, CurrentOK, KernelThreadsOK, NoTimer, OthersOK, AnyPid
<1>4. CurrentOK'
  BY DEF TypeOK, CurrentOK, KernelThreadsOK, WaitOK, NoTimer, OthersOK, AnyPid
<1>5. OthersOK'
  BY DEF TypeOK, OthersOK, CurrentOK, KernelThreadsOK, WaitOK, NoTimer, AnyPid
<1>6. KernelThreadsOK'
  BY DEF TypeOK, KernelThreadsOK, CurrentOK, WaitOK, NoTimer, OthersOK, AnyPid
<1>7. ScanOK'
  BY DEF TypeOK, ScanOK, CurrentOK, KernelThreadsOK, WaitOK, OthersOK, Waited,
         Children, AnyPid
<1>8. FamilyOK'
  BY DEF TypeOK, FamilyOK, ParentCanReap, Children, CurrentOK, KernelThreadsOK
<1>9. NoLostChildExit'
  BY DEF TypeOK, NoLostChildExit, CurrentOK, KernelThreadsOK, WaitOK, OthersOK,
         ScanOK, Waited, Children, AnyPid
<1>10. TimerOwnerInSleep'
  BY DEF TypeOK, TimerOwnerInSleep, CurrentOK, KernelThreadsOK, WaitOK,
         NoTimer, OthersOK, AnyPid
<1>11. ZombieStep
  BY DEF TypeOK, ZombieStep, CurrentOK, KernelThreadsOK
<1>12. QED
  BY <1>1, <1>2, <1>3, <1>4, <1>5, <1>6, <1>7, <1>8, <1>9, <1>10, <1>11

(* init_end preserves the inductive invariant. *)
LEMMA init_end_IInv ==
    ASSUME IInv, init_end
    PROVE  IInv' /\ ZombieStep
<1> USE ProcsAssumption, TimeAssumption DEF IInv, init_end, At, Goto,
      queue_vars, cpu_vars, proc_vars
<1>1. TypeOK'
  BY DEF TypeOK, States, WaitStates, Labels, NoTimer, AnyPid
<1>2. RunQueueExact'
  BY DEF TypeOK, RunQueueExact, InRunQueue, CurrentOK
<1>3. WaitOK'
  BY DEF TypeOK, WaitOK, CurrentOK, KernelThreadsOK, NoTimer, OthersOK, AnyPid
<1>4. CurrentOK'
  BY DEF TypeOK, CurrentOK, KernelThreadsOK, WaitOK, NoTimer, OthersOK, AnyPid
<1>5. OthersOK'
  BY DEF TypeOK, OthersOK, CurrentOK, KernelThreadsOK, WaitOK, NoTimer, AnyPid
<1>6. KernelThreadsOK'
  BY DEF TypeOK, KernelThreadsOK, CurrentOK, WaitOK, NoTimer, OthersOK, AnyPid
<1>7. ScanOK'
  BY DEF TypeOK, ScanOK, CurrentOK, KernelThreadsOK, WaitOK, OthersOK, Waited,
         Children, AnyPid
<1>8. FamilyOK'
  BY DEF TypeOK, FamilyOK, ParentCanReap, Children, CurrentOK, KernelThreadsOK
<1>9. NoLostChildExit'
  BY DEF TypeOK, NoLostChildExit, CurrentOK, KernelThreadsOK, WaitOK, OthersOK,
         ScanOK, Waited, Children, AnyPid
<1>10. TimerOwnerInSleep'
  BY DEF TypeOK, TimerOwnerInSleep, CurrentOK, KernelThreadsOK, WaitOK,
         NoTimer, OthersOK, AnyPid
<1>11. ZombieStep
  BY DEF TypeOK, ZombieStep, CurrentOK, KernelThreadsOK
<1>12. QED
  BY <1>1, <1>2, <1>3, <1>4, <1>5, <1>6, <1>7, <1>8, <1>9, <1>10, <1>11

(* clock_begin preserves the inductive invariant. *)
LEMMA clock_begin_IInv ==
    ASSUME IInv, clock_begin
    PROVE  IInv' /\ ZombieStep
<1> USE ProcsAssumption, TimeAssumption DEF IInv, clock_begin, queue_vars,
      cpu_vars, proc_vars, IntrEnabled
<1>1. TypeOK'
  BY SMTT(60) DEF TypeOK, States, WaitStates, Labels, NoTimer, AnyPid
<1>2. RunQueueExact'
  BY DEF TypeOK, RunQueueExact, InRunQueue, CurrentOK
<1>3. WaitOK'
  BY DEF TypeOK, WaitOK, CurrentOK, KernelThreadsOK, NoTimer, OthersOK, AnyPid
<1>4. CurrentOK'
  BY DEF TypeOK, CurrentOK, KernelThreadsOK, WaitOK, NoTimer, OthersOK, AnyPid
<1>5. OthersOK'
  BY DEF TypeOK, OthersOK, CurrentOK, KernelThreadsOK, WaitOK, NoTimer, AnyPid
<1>6. KernelThreadsOK'
  BY DEF TypeOK, KernelThreadsOK, CurrentOK, WaitOK, NoTimer, OthersOK, AnyPid
<1>7. ScanOK'
  BY DEF TypeOK, ScanOK, CurrentOK, KernelThreadsOK, WaitOK, OthersOK, Waited,
         Children, AnyPid
<1>8. FamilyOK'
  BY DEF TypeOK, FamilyOK, ParentCanReap, Children, CurrentOK, KernelThreadsOK
<1>9. NoLostChildExit'
  BY DEF TypeOK, NoLostChildExit, CurrentOK, KernelThreadsOK, WaitOK, OthersOK,
         ScanOK, Waited, Children, AnyPid
<1>10. TimerOwnerInSleep'
  BY DEF TypeOK, TimerOwnerInSleep, CurrentOK, KernelThreadsOK, WaitOK,
         NoTimer, OthersOK, AnyPid
<1>11. ZombieStep
  BY DEF TypeOK, ZombieStep, CurrentOK, KernelThreadsOK
<1>12. QED
  BY <1>1, <1>2, <1>3, <1>4, <1>5, <1>6, <1>7, <1>8, <1>9, <1>10, <1>11

(* clock_end preserves the inductive invariant. *)
LEMMA clock_end_IInv ==
    ASSUME IInv, clock_end
    PROVE  IInv' /\ ZombieStep
<1> USE ProcsAssumption, TimeAssumption DEF IInv
<1>1. /\ in_tick' = FALSE /\ in_tick
      /\ pc' = IF pc[current] = "user" THEN [pc EXCEPT ![current] = "trap"] ELSE pc
      /\ UNCHANGED <<current, state, wait_state, exiting, parent, run_list,
                     expires, wait_pid, at_schedule, panicked>>
  BY Zenon DEF clock_end
<1>2. need_resched' \in [Procs -> BOOLEAN]
  <2>1. slice_used(current) \in BOOLEAN
    BY DEF slice_used
  <2>2. need_resched[current] \in BOOLEAN
    BY DEF TypeOK
  <2>3. \E b \in BOOLEAN : need_resched' = [need_resched EXCEPT ![current] = b]
    BY <2>1, <2>2, Zenon DEF clock_end
  <2>4. QED
    BY <2>3 DEF TypeOK
<1>3. time_slice' \in [Procs -> 0..MAX_TIME_SLICE]
  <2>1. \/ time_slice' = time_slice
        \/ time_slice' = [time_slice EXCEPT ![current] = RR_proc_tick(current)]
    BY Zenon DEF clock_end
  <2>2. time_slice[current] \in 0..MAX_TIME_SLICE
    BY DEF TypeOK
  <2>3. RR_proc_tick(current) \in 0..MAX_TIME_SLICE
    BY <2>2 DEF RR_proc_tick
  <2>4. QED
    BY <2>1, <2>3 DEF TypeOK
<1>4. TypeOK'
  BY <1>1, <1>2, <1>3 DEF TypeOK, Labels
<1>5. RunQueueExact'
  BY <1>1, <1>3 DEF TypeOK, RunQueueExact, InRunQueue, CurrentOK
<1>6. WaitOK'
  BY <1>1, <1>3 DEF TypeOK, WaitOK, CurrentOK, KernelThreadsOK, NoTimer,
         OthersOK, AnyPid
<1>7. CurrentOK'
  BY <1>1 DEF TypeOK, CurrentOK, KernelThreadsOK, IntrEnabled
<1>8. OthersOK'
  BY <1>1, <1>3 DEF TypeOK, OthersOK, CurrentOK, KernelThreadsOK, WaitOK,
         NoTimer, AnyPid
<1>9. KernelThreadsOK'
  BY <1>1, <1>3 DEF TypeOK, KernelThreadsOK, CurrentOK, WaitOK, NoTimer,
         OthersOK, AnyPid
<1>10. ScanOK'
  BY <1>1, <1>3 DEF TypeOK, ScanOK, CurrentOK, KernelThreadsOK, WaitOK,
         OthersOK, Waited, Children, AnyPid
<1>11. FamilyOK'
  BY <1>1, <1>3 DEF TypeOK, FamilyOK, ParentCanReap, Children, CurrentOK,
         KernelThreadsOK
<1>12. NoLostChildExit'
  BY <1>1, <1>3 DEF TypeOK, NoLostChildExit, CurrentOK, KernelThreadsOK,
         WaitOK, OthersOK, ScanOK, Waited, Children, AnyPid
<1>13. TimerOwnerInSleep'
  BY <1>1, <1>3 DEF TypeOK, TimerOwnerInSleep, CurrentOK, KernelThreadsOK,
         WaitOK, NoTimer, OthersOK, AnyPid
<1>14. ZombieStep
  BY <1>1, <1>3 DEF TypeOK, ZombieStep, CurrentOK, KernelThreadsOK
<1>15. QED
  BY <1>4, <1>5, <1>6, <1>7, <1>8, <1>9, <1>10, <1>11, <1>12, <1>13, <1>14

(* sys_wait preserves the inductive invariant. *)
LEMMA sys_wait_IInv ==
    ASSUME IInv, NEW p \in User \cup {initproc, AnyPid}, sys_wait(p)
    PROVE  IInv' /\ ZombieStep
<1> USE ProcsAssumption, TimeAssumption DEF IInv, sys_wait, At, Goto,
      queue_vars, cpu_vars, proc_vars, User
<1>1. TypeOK'
  BY DEF TypeOK, States, WaitStates, Labels, NoTimer, AnyPid
<1>2. RunQueueExact'
  BY DEF TypeOK, RunQueueExact, InRunQueue, CurrentOK
<1>3. WaitOK'
  BY DEF TypeOK, WaitOK, CurrentOK, KernelThreadsOK, NoTimer, OthersOK, AnyPid
<1>4. CurrentOK'
  BY DEF TypeOK, CurrentOK, KernelThreadsOK, WaitOK, NoTimer, OthersOK, AnyPid
<1>5. OthersOK'
  BY DEF TypeOK, OthersOK, CurrentOK, KernelThreadsOK, WaitOK, NoTimer, AnyPid
<1>6. KernelThreadsOK'
  BY DEF TypeOK, KernelThreadsOK, CurrentOK, WaitOK, NoTimer, OthersOK, AnyPid
<1>7. ScanOK'
  BY DEF TypeOK, ScanOK, CurrentOK, KernelThreadsOK, WaitOK, OthersOK, Waited,
         Children, AnyPid
<1>8. FamilyOK'
  BY DEF TypeOK, FamilyOK, ParentCanReap, Children, CurrentOK, KernelThreadsOK
<1>9. NoLostChildExit'
  BY DEF TypeOK, NoLostChildExit, CurrentOK, KernelThreadsOK, WaitOK, OthersOK,
         ScanOK, Waited, Children, AnyPid
<1>10. TimerOwnerInSleep'
  BY DEF TypeOK, TimerOwnerInSleep, CurrentOK, KernelThreadsOK, WaitOK,
         NoTimer, OthersOK, AnyPid
<1>11. ZombieStep
  BY DEF TypeOK, ZombieStep, CurrentOK, KernelThreadsOK
<1>12. QED
  BY <1>1, <1>2, <1>3, <1>4, <1>5, <1>6, <1>7, <1>8, <1>9, <1>10, <1>11

(* do_sleep preserves the inductive invariant. *)
LEMMA do_sleep_IInv ==
    ASSUME IInv, NEW t \in 1..MaxSleep, do_sleep(t)
    PROVE  IInv' /\ ZombieStep
<1> USE ProcsAssumption, TimeAssumption DEF IInv, do_sleep, At, CallSchedule,
      Goto, cpu_vars, proc_vars
<1>1. TypeOK'
  BY DEF TypeOK, States, WaitStates, Labels, NoTimer, AnyPid
<1>2. RunQueueExact'
  BY DEF TypeOK, RunQueueExact, InRunQueue, CurrentOK
<1>3. WaitOK'
  BY DEF TypeOK, WaitOK, CurrentOK, KernelThreadsOK, NoTimer, OthersOK, AnyPid
<1>4. CurrentOK'
  BY DEF TypeOK, CurrentOK, KernelThreadsOK, WaitOK, NoTimer, OthersOK, AnyPid
<1>5. OthersOK'
  BY DEF TypeOK, OthersOK, CurrentOK, KernelThreadsOK, WaitOK, NoTimer, AnyPid
<1>6. KernelThreadsOK'
  BY DEF TypeOK, KernelThreadsOK, CurrentOK, WaitOK, NoTimer, OthersOK, AnyPid
<1>7. ScanOK'
  BY DEF TypeOK, ScanOK, CurrentOK, KernelThreadsOK, WaitOK, OthersOK, Waited,
         Children, AnyPid
<1>8. FamilyOK'
  BY DEF TypeOK, FamilyOK, ParentCanReap, Children, CurrentOK, KernelThreadsOK
<1>9. NoLostChildExit'
  BY DEF TypeOK, NoLostChildExit, CurrentOK, KernelThreadsOK, WaitOK, OthersOK,
         ScanOK, Waited, Children, AnyPid
<1>10. TimerOwnerInSleep'
  BY DEF TypeOK, TimerOwnerInSleep, CurrentOK, KernelThreadsOK, WaitOK,
         NoTimer, OthersOK, AnyPid
<1>11. ZombieStep
  BY DEF TypeOK, ZombieStep, CurrentOK, KernelThreadsOK
<1>12. QED
  BY <1>1, <1>2, <1>3, <1>4, <1>5, <1>6, <1>7, <1>8, <1>9, <1>10, <1>11

(* do_wait_sleep preserves the inductive invariant. *)
LEMMA do_wait_sleep_IInv ==
    ASSUME IInv, do_wait_sleep
    PROVE  IInv' /\ ZombieStep
<1> USE ProcsAssumption, TimeAssumption DEF IInv, do_wait_sleep, At,
      CallSchedule, Goto, cpu_vars, proc_vars
<1>1. TypeOK'
  BY DEF TypeOK, States, WaitStates, Labels, NoTimer, AnyPid
<1>2. RunQueueExact'
  BY DEF TypeOK, RunQueueExact, InRunQueue, CurrentOK
<1>3. WaitOK'
  BY DEF TypeOK, WaitOK, CurrentOK, KernelThreadsOK, NoTimer, OthersOK, AnyPid
<1>4. CurrentOK'
  BY DEF TypeOK, CurrentOK, KernelThreadsOK, WaitOK, NoTimer, OthersOK, AnyPid
<1>5. OthersOK'
  BY DEF TypeOK, OthersOK, CurrentOK, KernelThreadsOK, WaitOK, NoTimer, AnyPid
<1>6. KernelThreadsOK'
  BY DEF TypeOK, KernelThreadsOK, CurrentOK, WaitOK, NoTimer, OthersOK, AnyPid
<1>7. ScanOK'
  BY DEF TypeOK, ScanOK, CurrentOK, KernelThreadsOK, WaitOK, OthersOK, Waited,
         Children, AnyPid
<1>8. FamilyOK'
  BY DEF TypeOK, FamilyOK, ParentCanReap, Children, CurrentOK, KernelThreadsOK
<1>9. NoLostChildExit'
  BY DEF TypeOK, NoLostChildExit, CurrentOK, KernelThreadsOK, WaitOK, OthersOK,
         ScanOK, Waited, Children, AnyPid
<1>10. TimerOwnerInSleep'
  BY DEF TypeOK, TimerOwnerInSleep, CurrentOK, KernelThreadsOK, WaitOK,
         NoTimer, OthersOK, AnyPid
<1>11. ZombieStep
  BY DEF TypeOK, ZombieStep, CurrentOK, KernelThreadsOK
<1>12. QED
  BY <1>1, <1>2, <1>3, <1>4, <1>5, <1>6, <1>7, <1>8, <1>9, <1>10, <1>11

(* do_wait_found preserves the inductive invariant. *)
LEMMA do_wait_found_IInv ==
    ASSUME IInv, NEW c \in Procs, do_wait_found(c)
    PROVE  IInv' /\ ZombieStep
<1> USE ProcsAssumption, TimeAssumption DEF IInv, do_wait_found, At, cpu_vars,
      proc_vars, WaitReturn, Goto, CallSchedule, Waited, Children
<1>1. TypeOK'
  <2>1. /\ state' \in [Procs -> States]
        /\ parent' \in [Procs -> Procs \cup {NULL}]
        /\ exiting' \in [Procs -> BOOLEAN]
        /\ need_resched' \in [Procs -> BOOLEAN]
    BY DEF TypeOK, States
  <2>2. /\ time_slice' \in [Procs -> 0..MAX_TIME_SLICE]
        /\ wait_pid' \in [Procs -> Procs \cup {AnyPid}]
    BY DEF TypeOK, AnyPid
  <2>3. pc' \in [Procs -> Labels] /\ at_schedule' \in BOOLEAN
    BY DEF TypeOK, Labels
  <2>4. QED
    BY <2>1, <2>2, <2>3 DEF TypeOK
<1>2. RunQueueExact'
  BY DEF TypeOK, RunQueueExact, InRunQueue, CurrentOK
<1>3. WaitOK'
  BY DEF TypeOK, WaitOK, CurrentOK, KernelThreadsOK, NoTimer, OthersOK, AnyPid
<1>4. CurrentOK'
  BY DEF TypeOK, CurrentOK, KernelThreadsOK, WaitOK, NoTimer, OthersOK, AnyPid
<1>5. OthersOK'
  BY DEF TypeOK, OthersOK, CurrentOK, KernelThreadsOK, WaitOK, NoTimer, AnyPid
<1>6. KernelThreadsOK'
  BY DEF TypeOK, KernelThreadsOK, CurrentOK, WaitOK, NoTimer, OthersOK, AnyPid
<1>7. ScanOK'
  BY DEF TypeOK, ScanOK, CurrentOK, KernelThreadsOK, WaitOK, OthersOK, Waited,
         Children, AnyPid
<1>8. FamilyOK'
  BY DEF TypeOK, FamilyOK, ParentCanReap, Children, CurrentOK, KernelThreadsOK
<1>9. NoLostChildExit'
  BY DEF TypeOK, NoLostChildExit, CurrentOK, KernelThreadsOK, WaitOK, OthersOK,
         ScanOK, Waited, Children, AnyPid
<1>10. TimerOwnerInSleep'
  BY DEF TypeOK, TimerOwnerInSleep, CurrentOK, KernelThreadsOK, WaitOK,
         NoTimer, OthersOK, AnyPid
<1>11. ZombieStep
  BY DEF TypeOK, ZombieStep, CurrentOK, KernelThreadsOK
<1>12. QED
  BY <1>1, <1>2, <1>3, <1>4, <1>5, <1>6, <1>7, <1>8, <1>9, <1>10, <1>11

(* clock_expire preserves the inductive invariant. *)
LEMMA clock_expire_IInv ==
    ASSUME IInv, NEW p \in Procs, clock_expire(p)
    PROVE  IInv' /\ ZombieStep
<1> USE ProcsAssumption, TimeAssumption DEF IInv
<1>1. /\ in_tick
      /\ expires[p] = 0
      /\ expires' = [expires EXCEPT ![p] = NoTimer]
      /\ UNCHANGED <<current, exiting, need_resched, parent, wait_pid, pc,
                     at_schedule, in_tick, panicked>>
  BY DEF clock_expire, cpu_vars, proc_vars, del_timer
<1>2. /\ p \in Procs \ {idleproc, current}
      /\ pc[p] = "sleep"
      /\ state[p] \in {"SLEEPING", "RUNNABLE"}
      /\ timer_wakes(p) => state[p] # "RUNNABLE"
  BY <1>1 DEF TypeOK, TimerOwnerInSleep, CurrentOK, KernelThreadsOK, IntrEnabled,
              NoTimer, timer_wakes
<1>3. /\ RunQueueExact'
      /\ run_list' \in Seq(Procs)
      /\ time_slice' \in [Procs -> 0..MAX_TIME_SLICE]
      /\ \/ /\ timer_wakes(p)
            /\ state' = [state EXCEPT ![p] = "RUNNABLE"]
            /\ wait_state' = [wait_state EXCEPT ![p] = "none"]
         \/ /\ ~(timer_wakes(p))
            /\ state' = state
            /\ wait_state' = wait_state
  <2>1. CASE timer_wakes(p)
    <3>1. wakeup_proc(p, state)
      BY <2>1, Zenon DEF clock_expire
    <3>2. QED
      BY <1>1, <1>2, <2>1, <3>1, WakeupLemma DEF States, TypeOK
  <2>2. CASE ~(timer_wakes(p))
    <3>1. no_wakeup(state)
      BY <2>2, Zenon DEF clock_expire
    <3>2. QED
      BY <1>1, <1>2, <2>2, <3>1, SMTT(60) DEF no_wakeup, TypeOK, RunQueueExact, InRunQueue
  <2>3. QED
    BY <2>1, <2>2
<1>4. /\ state' \in [Procs -> States]
      /\ wait_state' \in [Procs -> WaitStates]
  BY <1>2, <1>3 DEF TypeOK, States, WaitStates
<1>5. /\ \A x \in Procs :
           \/ state'[x] = state[x] /\ wait_state'[x] = wait_state[x]
           \/ /\ x = p /\ state[x] = "SLEEPING"
              /\ state'[x] = "RUNNABLE" /\ wait_state'[x] = "none"
  BY <1>2, <1>3 DEF TypeOK, WaitOK, timer_wakes
<1>6. TypeOK'
  <2>1. expires' \in [Procs -> NoTimer..MaxSleep]
    BY <1>1 DEF TypeOK, NoTimer
  <2>2. QED
    BY <1>1, <1>3, <1>4, <2>1 DEF TypeOK
<1>7. RunQueueExact'
  BY <1>3
<1>8. WaitOK'
  BY <1>1, <1>2, <1>5 DEF TypeOK, WaitOK, CurrentOK, KernelThreadsOK, NoTimer,
         OthersOK, AnyPid
<1>9. CurrentOK'
  BY <1>1, <1>2, <1>5 DEF TypeOK, CurrentOK, KernelThreadsOK, WaitOK, OthersOK,
                           IntrEnabled
<1>10. OthersOK'
  BY <1>1, <1>2, <1>5, ZenonT(60) DEF TypeOK, OthersOK, CurrentOK, KernelThreadsOK, WaitOK,
         NoTimer, AnyPid
<1>11. KernelThreadsOK'
  BY <1>1, <1>2, <1>5 DEF TypeOK, KernelThreadsOK, CurrentOK, WaitOK, NoTimer,
         OthersOK, AnyPid
<1>12. ScanOK'
  BY <1>1, <1>2, <1>5 DEF TypeOK, ScanOK, CurrentOK, KernelThreadsOK, WaitOK,
         OthersOK, Waited, Children, AnyPid
<1>13. FamilyOK'
  <2>1. /\ \A x \in Procs : state'[x] = "FREE" => parent'[x] = NULL
        /\ \A x \in Procs : parent'[x] # x
    BY <1>1, <1>2, <1>5 DEF TypeOK, FamilyOK, KernelThreadsOK
  <2>2. ParentCanReap'
    <3>1. SUFFICES ASSUME NEW x \in Procs \ {idleproc}, state'[x] # "FREE"
                   PROVE  /\ parent'[x] \in Procs
                          /\ \/ state'[parent'[x]] \in {"SLEEPING", "RUNNABLE"}
                             \/ parent'[x] = current' /\ pc'[current'] = "reparent"
      BY DEF ParentCanReap
    <3>2. state[x] # "FREE"
      BY <1>2, <1>5, <3>1
    <3>3. /\ parent[x] \in Procs
          /\ \/ state[parent[x]] \in {"SLEEPING", "RUNNABLE"}
             \/ parent[x] = current /\ pc[current] = "reparent"
      BY <3>1, <3>2 DEF FamilyOK, ParentCanReap
    <3>4. QED
      BY <1>1, <1>2, <1>5, <3>1, <3>3 DEF TypeOK, KernelThreadsOK
  <2>3. pc'[current'] # "dead"
    BY <1>1, <1>2 DEF TypeOK, CurrentOK, KernelThreadsOK, IntrEnabled
  <2>4. QED
    BY <2>1, <2>2, <2>3 DEF FamilyOK
<1>14. NoLostChildExit'
  BY <1>1, <1>2, <1>5 DEF TypeOK, NoLostChildExit, CurrentOK, KernelThreadsOK,
         WaitOK, OthersOK, ScanOK, Waited, Children, AnyPid
<1>15. TimerOwnerInSleep'
  BY <1>1, <1>2, <1>5 DEF TypeOK, TimerOwnerInSleep, CurrentOK,
         KernelThreadsOK, WaitOK, NoTimer, OthersOK, AnyPid
<1>16. ZombieStep
  BY <1>1, <1>2, <1>5 DEF TypeOK, ZombieStep, CurrentOK, KernelThreadsOK
<1>17. QED
  BY <1>6, <1>7, <1>8, <1>9, <1>10, <1>11, <1>12, <1>13, <1>14, <1>15, <1>16

(* do_kill preserves the inductive invariant. *)
LEMMA do_kill_IInv ==
    ASSUME IInv, NEW p \in Procs, do_kill(p)
    PROVE  IInv' /\ ZombieStep
<1> USE ProcsAssumption, TimeAssumption DEF IInv
<1>1. /\ ~panicked /\ ~in_tick /\ ~at_schedule /\ pc[current] = "user"
      /\ p # idleproc /\ state[p] # "FREE"
      /\ exiting' = [exiting EXCEPT ![p] = TRUE]
      /\ pc' = [pc EXCEPT ![current] = "trap"]
      /\ UNCHANGED <<current, need_resched, parent, expires, wait_pid, at_schedule,
                     in_tick, panicked>>
  BY DEF do_kill, At, Goto, cpu_vars, proc_vars
<1>2. /\ current \notin {idleproc, initproc}
      /\ interruptible(p) => p # current /\ state[p] = "SLEEPING"
  BY <1>1 DEF TypeOK, CurrentOK, KernelThreadsOK, WaitOK, interruptible
<1>3. /\ RunQueueExact'
      /\ run_list' \in Seq(Procs)
      /\ time_slice' \in [Procs -> 0..MAX_TIME_SLICE]
      /\ \/ /\ interruptible(p)
            /\ state' = [state EXCEPT ![p] = "RUNNABLE"]
            /\ wait_state' = [wait_state EXCEPT ![p] = "none"]
         \/ /\ ~(interruptible(p))
            /\ state' = state
            /\ wait_state' = wait_state
  <2>1. CASE interruptible(p)
    <3>1. wakeup_proc(p, state)
      BY <2>1, Zenon DEF do_kill
    <3>2. QED
      BY <1>1, <1>2, <2>1, <3>1, WakeupLemma DEF States, TypeOK
  <2>2. CASE ~(interruptible(p))
    <3>1. no_wakeup(state)
      BY <2>2, Zenon DEF do_kill
    <3>2. QED
      BY <1>1, <1>2, <2>2, <3>1 DEF no_wakeup, TypeOK, RunQueueExact, InRunQueue
  <2>3. QED
    BY <2>1, <2>2
<1>4. /\ state' \in [Procs -> States]
      /\ wait_state' \in [Procs -> WaitStates]
  BY <1>2, <1>3 DEF TypeOK, States, WaitStates
<1>5. /\ \A x \in Procs :
           \/ state'[x] = state[x] /\ wait_state'[x] = wait_state[x]
           \/ /\ x = p /\ state[x] = "SLEEPING"
              /\ state'[x] = "RUNNABLE" /\ wait_state'[x] = "none"
  BY <1>2, <1>3 DEF TypeOK, WaitOK
<1>6. TypeOK'
  BY <1>1, <1>3, <1>4 DEF TypeOK, Labels, NoTimer, AnyPid
<1>7. RunQueueExact'
  BY <1>3
<1>8. WaitOK'
  BY <1>1, <1>2, <1>5 DEF TypeOK, WaitOK, CurrentOK, KernelThreadsOK, NoTimer,
         OthersOK, AnyPid
<1>9. CurrentOK'
  BY <1>1, <1>2, <1>5 DEF TypeOK, CurrentOK, KernelThreadsOK, WaitOK, OthersOK,
                           IntrEnabled
<1>10. OthersOK'
  BY <1>1, <1>2, <1>5 DEF TypeOK, OthersOK, CurrentOK, KernelThreadsOK, WaitOK,
         NoTimer, AnyPid
<1>11. KernelThreadsOK'
  BY <1>1, <1>2, <1>5 DEF TypeOK, KernelThreadsOK, CurrentOK, WaitOK, NoTimer,
         OthersOK, AnyPid
<1>12. ScanOK'
  BY <1>1, <1>2, <1>5 DEF TypeOK, ScanOK, CurrentOK, KernelThreadsOK, WaitOK,
         OthersOK, Waited, Children, AnyPid
<1>13. FamilyOK'
  <2>1. /\ \A x \in Procs : state'[x] = "FREE" => parent'[x] = NULL
        /\ \A x \in Procs : parent'[x] # x
    BY <1>1, <1>2, <1>5 DEF TypeOK, FamilyOK, KernelThreadsOK
  <2>2. ParentCanReap'
    <3>1. SUFFICES ASSUME NEW x \in Procs \ {idleproc}, state'[x] # "FREE"
                   PROVE  /\ parent'[x] \in Procs
                          /\ \/ state'[parent'[x]] \in {"SLEEPING", "RUNNABLE"}
                             \/ parent'[x] = current' /\ pc'[current'] = "reparent"
      BY DEF ParentCanReap
    <3>2. state[x] # "FREE"
      BY <1>2, <1>5, <3>1
    <3>3. /\ parent[x] \in Procs
          /\ \/ state[parent[x]] \in {"SLEEPING", "RUNNABLE"}
             \/ parent[x] = current /\ pc[current] = "reparent"
      BY <3>1, <3>2 DEF FamilyOK, ParentCanReap
    <3>4. QED
      BY <1>1, <1>2, <1>5, <3>1, <3>3 DEF TypeOK, KernelThreadsOK
  <2>3. pc'[current'] # "dead"
    BY <1>1, <1>2 DEF TypeOK, CurrentOK, KernelThreadsOK, IntrEnabled
  <2>4. QED
    BY <2>1, <2>2, <2>3 DEF FamilyOK
<1>14. NoLostChildExit'
  BY <1>1, <1>2, <1>5 DEF TypeOK, NoLostChildExit, CurrentOK, KernelThreadsOK,
         WaitOK, OthersOK, ScanOK, Waited, Children, AnyPid
<1>15. TimerOwnerInSleep'
  BY <1>1, <1>2, <1>5 DEF TypeOK, TimerOwnerInSleep, CurrentOK,
         KernelThreadsOK, WaitOK, NoTimer, OthersOK, AnyPid
<1>16. ZombieStep
  BY <1>1, <1>2, <1>5 DEF TypeOK, ZombieStep, CurrentOK, KernelThreadsOK
<1>17. QED
  BY <1>6, <1>7, <1>8, <1>9, <1>10, <1>11, <1>12, <1>13, <1>14, <1>15, <1>16

(* sys_fork preserves the inductive invariant. *)
LEMMA sys_fork_IInv ==
    ASSUME IInv, NEW c \in User, sys_fork(c)
    PROVE  IInv' /\ ZombieStep
<1> USE ProcsAssumption, TimeAssumption DEF IInv, sys_fork, At, do_fork,
      cpu_vars, proc_vars, User
<1>1. /\ c \in Procs \ {idleproc, initproc, current}
      /\ state[c] = "FREE"
      /\ current # c
  BY DEF TypeOK, CurrentOK, User
<1>2. /\ RunQueueExact'
      /\ run_list' \in Seq(Procs)
      /\ time_slice' \in [Procs -> 0..MAX_TIME_SLICE]
      /\ state' = [state EXCEPT ![c] = "RUNNABLE"]
      /\ wait_state' = [wait_state EXCEPT ![c] = "none"]
  BY <1>1, WakeupLemma DEF TypeOK
<1>3. TypeOK'
  BY <1>1, <1>2 DEF TypeOK, States, WaitStates, Labels, NoTimer, AnyPid
<1>4. RunQueueExact'
  BY <1>2
<1>5. WaitOK'
  BY <1>1, <1>2 DEF TypeOK, WaitOK, CurrentOK, KernelThreadsOK, NoTimer,
         OthersOK, AnyPid
<1>6. CurrentOK'
  BY <1>1, <1>2 DEF TypeOK, CurrentOK, KernelThreadsOK, WaitOK, NoTimer,
         OthersOK, AnyPid
<1>7. OthersOK'
  BY <1>1, <1>2 DEF TypeOK, OthersOK, CurrentOK, KernelThreadsOK, WaitOK,
         NoTimer, AnyPid
<1>8. KernelThreadsOK'
  BY <1>1, <1>2 DEF TypeOK, KernelThreadsOK, CurrentOK, WaitOK, NoTimer,
         OthersOK, AnyPid
<1>9. ScanOK'
  BY <1>1, <1>2 DEF TypeOK, ScanOK, CurrentOK, KernelThreadsOK, WaitOK,
         OthersOK, Waited, Children, AnyPid
<1>10. FamilyOK'
  BY <1>1, <1>2, SMTT(60) DEF TypeOK, FamilyOK, ParentCanReap, Children, CurrentOK,
         KernelThreadsOK
<1>11. NoLostChildExit'
  BY <1>1, <1>2 DEF TypeOK, NoLostChildExit, CurrentOK, KernelThreadsOK,
         WaitOK, OthersOK, ScanOK, Waited, Children, AnyPid
<1>12. TimerOwnerInSleep'
  BY <1>1, <1>2 DEF TypeOK, TimerOwnerInSleep, CurrentOK, KernelThreadsOK,
         WaitOK, NoTimer, OthersOK, AnyPid
<1>13. ZombieStep
  BY <1>1, <1>2 DEF TypeOK, ZombieStep, CurrentOK, KernelThreadsOK
<1>14. QED
  BY <1>3, <1>4, <1>5, <1>6, <1>7, <1>8, <1>9, <1>10, <1>11, <1>12, <1>13

(* init_main preserves the inductive invariant. *)
LEMMA init_main_IInv ==
    ASSUME IInv, NEW c \in User, init_main(c)
    PROVE  IInv' /\ ZombieStep
<1> USE ProcsAssumption, TimeAssumption DEF IInv, init_main, At, do_fork,
      cpu_vars, proc_vars, User
<1>1. /\ c \in Procs \ {idleproc, initproc, current}
      /\ state[c] = "FREE"
      /\ current # c
  BY DEF TypeOK, CurrentOK, User
<1>2. /\ RunQueueExact'
      /\ run_list' \in Seq(Procs)
      /\ time_slice' \in [Procs -> 0..MAX_TIME_SLICE]
      /\ state' = [state EXCEPT ![c] = "RUNNABLE"]
      /\ wait_state' = [wait_state EXCEPT ![c] = "none"]
  BY <1>1, WakeupLemma DEF TypeOK
<1>3. TypeOK'
  BY <1>1, <1>2 DEF TypeOK, States, WaitStates, Labels, NoTimer, AnyPid
<1>4. RunQueueExact'
  BY <1>2
<1>5. WaitOK'
  BY <1>1, <1>2 DEF TypeOK, WaitOK, CurrentOK, KernelThreadsOK, NoTimer,
         OthersOK, AnyPid
<1>6. CurrentOK'
  BY <1>1, <1>2 DEF TypeOK, CurrentOK, KernelThreadsOK, WaitOK, NoTimer,
         OthersOK, AnyPid
<1>7. OthersOK'
  BY <1>1, <1>2 DEF TypeOK, OthersOK, CurrentOK, KernelThreadsOK, WaitOK,
         NoTimer, AnyPid
<1>8. KernelThreadsOK'
  BY <1>1, <1>2 DEF TypeOK, KernelThreadsOK, CurrentOK, WaitOK, NoTimer,
         OthersOK, AnyPid
<1>9. ScanOK'
  BY <1>1, <1>2 DEF TypeOK, ScanOK, CurrentOK, KernelThreadsOK, WaitOK,
         OthersOK, Waited, Children, AnyPid
<1>10. FamilyOK'
  BY <1>1, <1>2, SMTT(60) DEF TypeOK, FamilyOK, ParentCanReap, Children, CurrentOK,
         KernelThreadsOK
<1>11. NoLostChildExit'
  BY <1>1, <1>2 DEF TypeOK, NoLostChildExit, CurrentOK, KernelThreadsOK,
         WaitOK, OthersOK, ScanOK, Waited, Children, AnyPid
<1>12. TimerOwnerInSleep'
  BY <1>1, <1>2 DEF TypeOK, TimerOwnerInSleep, CurrentOK, KernelThreadsOK,
         WaitOK, NoTimer, OthersOK, AnyPid
<1>13. ZombieStep
  BY <1>1, <1>2 DEF TypeOK, ZombieStep, CurrentOK, KernelThreadsOK
<1>14. QED
  BY <1>3, <1>4, <1>5, <1>6, <1>7, <1>8, <1>9, <1>10, <1>11, <1>12, <1>13

(* do_exit preserves the inductive invariant. *)
LEMMA do_exit_IInv ==
    ASSUME IInv, do_exit
    PROVE  IInv' /\ ZombieStep
<1> USE ProcsAssumption, TimeAssumption DEF IInv
<1>1. /\ ~panicked /\ ~in_tick /\ ~at_schedule /\ pc[current] = "exit"
      /\ current # initproc
      /\ pc' = [pc EXCEPT ![current] = "reparent"]
      /\ UNCHANGED <<current, exiting, need_resched, parent, expires, wait_pid,
                     at_schedule, in_tick, panicked>>
  BY DEF do_exit, At, Goto, cpu_vars, proc_vars
<1>2. /\ current # idleproc
      /\ state[current] = "RUNNABLE"
      /\ parent[current] \in Procs \ {current}
      /\ wait_state[parent[current]] = "WT_CHILD" =>
           parent[current] # idleproc /\ state[parent[current]] = "SLEEPING"
  BY <1>1 DEF TypeOK, CurrentOK, KernelThreadsOK, WaitOK, FamilyOK,
              ParentCanReap
<1>3. /\ RunQueueExact'
      /\ run_list' \in Seq(Procs)
      /\ time_slice' \in [Procs -> 0..MAX_TIME_SLICE]
      /\ \/ /\ wait_state[parent[current]] = "WT_CHILD"
            /\ state' = [[state EXCEPT ![current] = "ZOMBIE"] EXCEPT ![parent[current]] = "RUNNABLE"]
            /\ wait_state' = [wait_state EXCEPT ![parent[current]] = "none"]
         \/ /\ ~(wait_state[parent[current]] = "WT_CHILD")
            /\ state' = [state EXCEPT ![current] = "ZOMBIE"]
            /\ wait_state' = wait_state
  <2>1. CASE wait_state[parent[current]] = "WT_CHILD"
    <3>1. wakeup_proc(parent[current], [state EXCEPT ![current] = "ZOMBIE"])
      BY <2>1, Zenon DEF do_exit
    <3>2. QED
      BY <1>1, <1>2, <2>1, <3>1, WakeupLemma DEF States, TypeOK
  <2>2. CASE ~(wait_state[parent[current]] = "WT_CHILD")
    <3>1. no_wakeup([state EXCEPT ![current] = "ZOMBIE"])
      BY <2>2, Zenon DEF do_exit
    <3>2. QED
      BY <1>1, <1>2, <2>2, <3>1 DEF no_wakeup, TypeOK, RunQueueExact, InRunQueue
  <2>3. QED
    BY <2>1, <2>2
<1>4. /\ state' \in [Procs -> States]
      /\ wait_state' \in [Procs -> WaitStates]
  BY <1>2, <1>3 DEF TypeOK, States, WaitStates
<1>5. /\ \A x \in Procs \ {current} :
           \/ state'[x] = state[x] /\ wait_state'[x] = wait_state[x]
           \/ /\ x = parent[current] /\ state[x] = "SLEEPING"
              /\ state'[x] = "RUNNABLE" /\ wait_state'[x] = "none"
      /\ state'[current] = "ZOMBIE" /\ wait_state'[current] = wait_state[current]
      /\ wait_state'[parent[current]] # "WT_CHILD"
  BY <1>2, <1>3, SMTT(60) DEF TypeOK, WaitOK
<1>6. TypeOK'
  BY <1>1, <1>3, <1>4 DEF TypeOK, Labels, NoTimer, AnyPid
<1>7. RunQueueExact'
  BY <1>3
<1>8. WaitOK'
  BY <1>1, <1>2, <1>5 DEF TypeOK, WaitOK, CurrentOK, KernelThreadsOK, NoTimer,
         OthersOK, AnyPid
<1>9. CurrentOK'
  BY <1>1, <1>2, <1>5 DEF TypeOK, CurrentOK, KernelThreadsOK, WaitOK, OthersOK,
                           IntrEnabled
<1>10. OthersOK'
  BY <1>1, <1>2, <1>5 DEF TypeOK, OthersOK, CurrentOK, KernelThreadsOK, WaitOK,
         NoTimer, AnyPid
<1>11. KernelThreadsOK'
  BY <1>1, <1>2, <1>5 DEF TypeOK, KernelThreadsOK, CurrentOK, WaitOK, NoTimer,
         OthersOK, AnyPid
<1>12. ScanOK'
  BY <1>1, <1>2, <1>5 DEF TypeOK, ScanOK, CurrentOK, KernelThreadsOK, WaitOK,
         OthersOK, Waited, Children, AnyPid
<1>13. FamilyOK'
  <2>1. /\ \A x \in Procs : state'[x] = "FREE" => parent'[x] = NULL
        /\ \A x \in Procs : parent'[x] # x
    BY <1>1, <1>2, <1>5 DEF TypeOK, FamilyOK, KernelThreadsOK
  <2>2. ParentCanReap'
    <3>1. SUFFICES ASSUME NEW x \in Procs \ {idleproc}, state'[x] # "FREE"
                   PROVE  /\ parent'[x] \in Procs
                          /\ \/ state'[parent'[x]] \in {"SLEEPING", "RUNNABLE"}
                             \/ parent'[x] = current' /\ pc'[current'] = "reparent"
      BY DEF ParentCanReap
    <3>2. state[x] # "FREE"
      BY <1>2, <1>5, <3>1
    <3>3. /\ parent[x] \in Procs
          /\ \/ state[parent[x]] \in {"SLEEPING", "RUNNABLE"}
             \/ parent[x] = current /\ pc[current] = "reparent"
      BY <3>1, <3>2 DEF FamilyOK, ParentCanReap
    <3>4. QED
      BY <1>1, <1>2, <1>5, <3>1, <3>3 DEF TypeOK, KernelThreadsOK
  <2>3. pc'[current'] # "dead"
    BY <1>1, <1>2 DEF TypeOK, CurrentOK, KernelThreadsOK, IntrEnabled
  <2>4. QED
    BY <2>1, <2>2, <2>3 DEF FamilyOK
<1>14. NoLostChildExit'
  <2>1. SUFFICES ASSUME NEW x \in Procs, wait_state'[x] = "WT_CHILD",
                        NEW k \in Procs, parent[k] = x, wait_pid[x] \in {AnyPid, k}
                 PROVE  state'[k] # "ZOMBIE"
    BY <1>1 DEF NoLostChildExit, Waited, Children
  <2>2. x # current /\ k # current
    BY <1>2, <1>5, <2>1 DEF WaitOK, TypeOK
  <2>3. wait_state[x] = "WT_CHILD"
    BY <1>5, <2>1, <2>2
  <2>4. state[k] # "ZOMBIE"
    BY <2>1, <2>3 DEF NoLostChildExit, Waited, Children
  <2>5. QED
    BY <1>5, <2>2, <2>4
<1>15. TimerOwnerInSleep'
  BY <1>1, <1>2, <1>5 DEF TypeOK, TimerOwnerInSleep, CurrentOK,
         KernelThreadsOK, WaitOK, NoTimer, OthersOK, AnyPid
<1>16. ZombieStep
  BY <1>1, <1>2, <1>5 DEF TypeOK, ZombieStep, CurrentOK, KernelThreadsOK
<1>17. QED
  BY <1>6, <1>7, <1>8, <1>9, <1>10, <1>11, <1>12, <1>13, <1>14, <1>15, <1>16

(* do_exit_reparent preserves the inductive invariant. *)
LEMMA do_exit_reparent_IInv ==
    ASSUME IInv, NEW c \in Procs, do_exit_reparent(c)
    PROVE  IInv' /\ ZombieStep
<1> USE ProcsAssumption, TimeAssumption DEF IInv, Children
<1>1. /\ ~panicked /\ ~in_tick /\ ~at_schedule /\ pc[current] = "reparent"
      /\ parent[c] = current
      /\ parent' = [parent EXCEPT ![c] = initproc]
      /\ UNCHANGED <<current, exiting, need_resched, expires, wait_pid, pc,
                     at_schedule, in_tick, panicked>>
  BY DEF do_exit_reparent, At, cpu_vars, proc_vars, Children
<1>2. /\ current \notin {idleproc, initproc}
      /\ state[current] = "ZOMBIE"
      /\ c # idleproc
      /\ c # initproc
      /\ orphan_wakes(c) => state[initproc] = "SLEEPING"
      /\ ~orphan_wakes(c) => ~(state[c] = "ZOMBIE" /\ wait_state[initproc] = "WT_CHILD")
  BY <1>1 DEF TypeOK, CurrentOK, KernelThreadsOK, WaitOK, orphan_wakes
<1>3. /\ RunQueueExact'
      /\ run_list' \in Seq(Procs)
      /\ time_slice' \in [Procs -> 0..MAX_TIME_SLICE]
      /\ \/ /\ orphan_wakes(c)
            /\ state' = [state EXCEPT ![initproc] = "RUNNABLE"]
            /\ wait_state' = [wait_state EXCEPT ![initproc] = "none"]
         \/ /\ ~(orphan_wakes(c))
            /\ state' = state
            /\ wait_state' = wait_state
  <2>1. CASE orphan_wakes(c)
    <3>1. wakeup_proc(initproc, state)
      BY <2>1, Zenon DEF do_exit_reparent
    <3>2. QED
      BY <1>1, <1>2, <2>1, <3>1, WakeupLemma DEF States, TypeOK
  <2>2. CASE ~(orphan_wakes(c))
    <3>1. no_wakeup(state)
      BY <2>2, Zenon DEF do_exit_reparent
    <3>2. QED
      BY <1>1, <1>2, <2>2, <3>1 DEF no_wakeup, TypeOK, RunQueueExact, InRunQueue
  <2>3. QED
    BY <2>1, <2>2
<1>4. /\ state' \in [Procs -> States]
      /\ wait_state' \in [Procs -> WaitStates]
  BY <1>2, <1>3 DEF TypeOK, States, WaitStates
<1>5. /\ \A x \in Procs :
           \/ state'[x] = state[x] /\ wait_state'[x] = wait_state[x]
           \/ /\ x = initproc /\ state[x] = "SLEEPING"
              /\ state'[x] = "RUNNABLE" /\ wait_state'[x] = "none"
      /\ state[c] = "ZOMBIE" => wait_state'[initproc] # "WT_CHILD"
  BY <1>2, <1>3 DEF TypeOK, WaitOK
<1>6. TypeOK'
  BY <1>1, <1>3, <1>4 DEF TypeOK, Labels, NoTimer, AnyPid
<1>7. RunQueueExact'
  BY <1>3
<1>8. WaitOK'
  BY <1>1, <1>2, <1>5 DEF TypeOK, WaitOK, CurrentOK, KernelThreadsOK, NoTimer,
         OthersOK, AnyPid
<1>9. CurrentOK'
  BY <1>1, <1>2, <1>5 DEF TypeOK, CurrentOK, KernelThreadsOK, WaitOK, OthersOK,
                           IntrEnabled
<1>10. OthersOK'
  BY <1>1, <1>2, <1>5 DEF TypeOK, OthersOK, CurrentOK, KernelThreadsOK, WaitOK,
         NoTimer, AnyPid
<1>11. KernelThreadsOK'
  BY <1>1, <1>2, <1>5 DEF TypeOK, KernelThreadsOK, CurrentOK, WaitOK, NoTimer,
         OthersOK, AnyPid
<1>12. ScanOK'
  BY <1>1, <1>2, <1>5 DEF TypeOK, ScanOK, CurrentOK, KernelThreadsOK, WaitOK,
         OthersOK, Waited, Children, AnyPid
<1>13. FamilyOK'
  <2>1. /\ \A x \in Procs : state'[x] = "FREE" => parent'[x] = NULL
        /\ \A x \in Procs : parent'[x] # x
    BY <1>1, <1>2, <1>5 DEF TypeOK, FamilyOK, KernelThreadsOK
  <2>2. ParentCanReap'
    <3>1. SUFFICES ASSUME NEW x \in Procs \ {idleproc}, state'[x] # "FREE"
                   PROVE  /\ parent'[x] \in Procs
                          /\ \/ state'[parent'[x]] \in {"SLEEPING", "RUNNABLE"}
                             \/ parent'[x] = current' /\ pc'[current'] = "reparent"
      BY DEF ParentCanReap
    <3>2. state[x] # "FREE"
      BY <1>2, <1>5, <3>1
    <3>3. /\ parent[x] \in Procs
          /\ \/ state[parent[x]] \in {"SLEEPING", "RUNNABLE"}
             \/ parent[x] = current /\ pc[current] = "reparent"
      BY <3>1, <3>2 DEF FamilyOK, ParentCanReap
    <3>4. QED
      BY <1>1, <1>2, <1>5, <3>1, <3>3 DEF TypeOK, KernelThreadsOK
  <2>3. pc'[current'] # "dead"
    BY <1>1, <1>2 DEF TypeOK, CurrentOK, KernelThreadsOK, IntrEnabled
  <2>4. QED
    BY <2>1, <2>2, <2>3 DEF FamilyOK
<1>14. NoLostChildExit'
  BY <1>1, <1>2, <1>5 DEF TypeOK, NoLostChildExit, CurrentOK, KernelThreadsOK,
         WaitOK, OthersOK, ScanOK, Waited, Children, AnyPid
<1>15. TimerOwnerInSleep'
  BY <1>1, <1>2, <1>5 DEF TypeOK, TimerOwnerInSleep, CurrentOK,
         KernelThreadsOK, WaitOK, NoTimer, OthersOK, AnyPid
<1>16. ZombieStep
  BY <1>1, <1>2, <1>5 DEF TypeOK, ZombieStep, CurrentOK, KernelThreadsOK
<1>17. QED
  BY <1>6, <1>7, <1>8, <1>9, <1>10, <1>11, <1>12, <1>13, <1>14, <1>15, <1>16

(* schedule preserves the inductive invariant. *)
LEMMA schedule_IInv ==
    ASSUME IInv, schedule
    PROVE  IInv' /\ ZombieStep
<1> USE ProcsAssumption, TimeAssumption DEF IInv
<1> DEFINE requeue == state[current] = "RUNNABLE" /\ current # idleproc
<1> DEFINE queue == IF requeue THEN Append(run_list, current) ELSE run_list
<1>1. /\ ~panicked /\ ~in_tick /\ at_schedule /\ at_schedule' = FALSE
      /\ need_resched' = [need_resched EXCEPT ![current] = FALSE]
      /\ \/ time_slice' = time_slice
         \/ time_slice' = [time_slice EXCEPT ![current] = Refill(current)]
      /\ \/ queue = <<>> /\ current' = idleproc /\ run_list' = queue
         \/ queue # <<>> /\ current' = Head(queue) /\ run_list' = Tail(queue)
      /\ UNCHANGED <<state, wait_state, exiting, parent, expires, wait_pid, pc,
                     in_tick, panicked>>
  BY DEF schedule
<1>2. /\ queue \in Seq(Procs)
      /\ Distinct(queue)
      /\ \A x \in Procs : Occurs(x, queue) <=> state[x] = "RUNNABLE" /\ x # idleproc
  <2>1. /\ run_list \in Seq(Procs)
        /\ Distinct(run_list)
        /\ \A x \in Procs : Occurs(x, run_list) <=> /\ state[x] = "RUNNABLE"
                                                  /\ x \notin {current, idleproc}
    BY DEF TypeOK, RunQueueExact, InRunQueue, Distinct, Occurs
  <2>2. CASE requeue
    <3>1. /\ Append(run_list, current) \in Seq(Procs)
          /\ Distinct(Append(run_list, current))
          /\ \A x \in Procs : Occurs(x, Append(run_list, current)) <=>
                              Occurs(x, run_list) \/ x = current
      BY <2>1, EnqueueLemma DEF TypeOK
    <3>2. QED
      BY <2>1, <2>2, <3>1
  <2>3. CASE ~requeue
    BY <2>1, <2>3
  <2>4. QED
    BY <2>2, <2>3
<1>3. /\ current' \in Procs
      /\ state[current'] = "RUNNABLE"
      /\ run_list' \in Seq(Procs)
      /\ Distinct(run_list')
      /\ \A x \in Procs : Occurs(x, run_list') <=> /\ state[x] = "RUNNABLE"
                                                 /\ x \notin {current', idleproc}
  <2> HIDE DEF queue
  <2>1. CASE queue = <<>>
    <3>1. \A x \in Procs : ~Occurs(x, queue)
      BY <2>1 DEF Occurs
    <3>2. QED
      BY <1>1, <1>2, <2>1, <3>1 DEF KernelThreadsOK
  <2>2. CASE queue # <<>>
    <3>1. /\ Head(queue) \in Procs
          /\ Occurs(Head(queue), queue)
          /\ Tail(queue) \in Seq(Procs)
          /\ Distinct(Tail(queue))
          /\ \A x \in Procs : Occurs(x, Tail(queue)) <=> Occurs(x, queue) /\ x # Head(queue)
      BY <1>2, <2>2, DequeueLemma
    <3>2. QED
      BY <1>1, <1>2, <2>2, <3>1
  <2>3. QED
    BY <2>1, <2>2
<1> HIDE DEF queue, requeue
<1>4. TypeOK'
  <2>1. Refill(current) \in 0..MAX_TIME_SLICE
    BY DEF Refill, TypeOK
  <2>2. time_slice' \in [Procs -> 0..MAX_TIME_SLICE]
    BY <1>1, <2>1 DEF TypeOK
  <2>3. QED
    BY <1>1, <1>3, <2>2 DEF TypeOK
<1>5. RunQueueExact'
  <2>1. UNCHANGED state
    BY <1>1
  <2>2. QED
    BY <1>3, <2>1 DEF RunQueueExact, InRunQueue, Distinct, Occurs
<1>6. WaitOK'
  BY <1>1, <1>3 DEF TypeOK, WaitOK, CurrentOK, KernelThreadsOK, NoTimer,
         OthersOK, AnyPid
<1>7. CurrentOK'
  BY <1>1, <1>3 DEF TypeOK, CurrentOK, KernelThreadsOK, WaitOK, NoTimer,
         OthersOK, AnyPid
<1>8. OthersOK'
  BY <1>1, <1>3 DEF TypeOK, OthersOK, CurrentOK, KernelThreadsOK, WaitOK,
         NoTimer, AnyPid
<1>9. KernelThreadsOK'
  BY <1>1, <1>3 DEF TypeOK, KernelThreadsOK, CurrentOK, WaitOK, NoTimer,
         OthersOK, AnyPid
<1>10. ScanOK'
  BY <1>1, <1>3 DEF TypeOK, ScanOK, CurrentOK, KernelThreadsOK, WaitOK,
         OthersOK, Waited, Children, AnyPid
<1>11. FamilyOK'
  <2>1. ParentCanReap'
    BY <1>1 DEF FamilyOK, ParentCanReap, CurrentOK
  <2>2. pc[current'] # "dead"
    BY <1>1, <1>3 DEF CurrentOK, OthersOK
  <2>3. QED
    BY <1>1, <2>1, <2>2 DEF FamilyOK
<1>12. NoLostChildExit'
  BY <1>1, <1>3 DEF TypeOK, NoLostChildExit, CurrentOK, KernelThreadsOK,
         WaitOK, OthersOK, ScanOK, Waited, Children, AnyPid
<1>13. TimerOwnerInSleep'
  BY <1>1, <1>3 DEF TypeOK, TimerOwnerInSleep, CurrentOK, KernelThreadsOK,
         WaitOK, NoTimer, OthersOK, AnyPid
<1>14. ZombieStep
  BY <1>1, <1>3 DEF TypeOK, ZombieStep, CurrentOK, KernelThreadsOK
<1>15. QED
  BY <1>4, <1>5, <1>6, <1>7, <1>8, <1>9, <1>10, <1>11, <1>12, <1>13, <1>14

-----------------------------------------------------------------------------
(* The invariant, and the properties it implies. *)

(* After proc_init the invariant holds. *)
LEMMA Init_IInv == Init => IInv
<1> SUFFICES ASSUME Init PROVE IInv
  OBVIOUS
<1> USE ProcsAssumption, TimeAssumption DEF Init
<1>1. TypeOK
  <2>1. need_resched \in [Procs -> BOOLEAN] /\ exiting \in [Procs -> BOOLEAN]
    BY Zenon
  <2>2. /\ current \in Procs /\ state \in [Procs -> States]
        /\ wait_state \in [Procs -> WaitStates]
        /\ parent \in [Procs -> Procs \cup {NULL}]
        /\ pc \in [Procs -> Labels]
    BY DEF States, WaitStates, Labels
  <2>3. /\ time_slice \in [Procs -> 0..MAX_TIME_SLICE]
        /\ expires \in [Procs -> NoTimer..MaxSleep]
        /\ wait_pid \in [Procs -> Procs \cup {AnyPid}]
        /\ run_list \in Seq(Procs)
    BY DEF NoTimer
  <2>4. QED
    BY <2>1, <2>2, <2>3 DEF TypeOK
<1>2. RunQueueExact
  BY DEF RunQueueExact, InRunQueue
<1>3. WaitOK /\ CurrentOK /\ OthersOK /\ KernelThreadsOK
  BY DEF WaitOK, CurrentOK, OthersOK, KernelThreadsOK, IntrEnabled, AnyPid
<1>4. ScanOK /\ NoLostChildExit /\ TimerOwnerInSleep
  BY DEF ScanOK, NoLostChildExit, TimerOwnerInSleep, NoTimer
<1>5. FamilyOK
  <2>1. /\ current = idleproc /\ pc[idleproc] = "cpu_idle"
        /\ parent = [p \in Procs |-> IF p = initproc THEN idleproc ELSE NULL]
        /\ \A p \in Procs : state[p] = IF p \in {idleproc, initproc}
                                       THEN "RUNNABLE" ELSE "FREE"
    BY Zenon
  <2>2. QED
    BY <2>1 DEF FamilyOK, ParentCanReap
<1>6. QED
  BY <1>1, <1>2, <1>3, <1>4, <1>5 DEF IInv

(* Every step preserves the invariant and revives no zombie. *)
LEMMA Next_IInv == IInv /\ [Next]_vars => IInv' /\ [ZombieStep]_vars
<1> SUFFICES ASSUME IInv, [Next]_vars PROVE IInv' /\ [ZombieStep]_vars
  OBVIOUS
<1>1. CASE Syscall
  BY <1>1, sys_other_IInv, sys_yield_IInv, sys_exit_IInv, sys_fork_IInv,
     sys_wait_IInv, do_kill_IInv, do_sleep_IInv DEF Syscall
<1>2. CASE clock_begin
  BY <1>2, clock_begin_IInv
<1>3. CASE ClockHandler
  BY <1>3, clock_expire_IInv, clock_end_IInv DEF ClockHandler
<1>4. CASE Kernel
  BY <1>4, schedule_IInv, cpu_idle_IInv, trap_tail_IInv, do_sleep_resume_IInv,
     do_wait_found_IInv, do_wait_bad_proc_IInv, do_wait_scan_IInv,
     do_wait_sleep_IInv, do_wait_resume_IInv, do_exit_panic_IInv, do_exit_IInv,
     do_exit_reparent_IInv, do_exit_schedule_IInv, init_main_IInv,
     user_main_IInv, init_end_IInv DEF Kernel
<1>5. CASE halted \/ UNCHANGED vars
  <2>1. UNCHANGED vars
    BY <1>5 DEF halted
  <2>2. QED
    BY <2>1, SMTT(60) DEF IInv, vars, TypeOK, RunQueueExact, InRunQueue, WaitOK, CurrentOK,
                IntrEnabled, OthersOK, KernelThreadsOK, ScanOK, Waited, Children,
                FamilyOK, ParentCanReap, NoLostChildExit, TimerOwnerInSleep
<1>6. QED
  BY <1>1, <1>2, <1>3, <1>4, <1>5 DEF Next

(* The inductive invariant holds in every reachable state. *)
THEOREM Invariance == Spec => []IInv
<1>1. Init => IInv
  BY Init_IInv
<1>2. IInv /\ [Next]_vars => IInv'
  BY Next_IInv
<1>3. QED
  BY <1>1, <1>2, PTL DEF Spec

(* The variables keep their types: pointers point to processes, the time   *)
(* slice stays within its bounds.                                          *)
THEOREM TypeCorrectness == Spec => []TypeOK
<1>1. IInv => TypeOK
  BY DEF IInv
<1>2. QED
  BY <1>1, Invariance, PTL

(* wakeup_proc, schedule and do_exit keep the run queue exact. *)
THEOREM RunQueueCorrect == Spec => []RunQueueExact
<1>1. IInv => RunQueueExact
  BY DEF IInv
<1>2. QED
  BY <1>1, Invariance, PTL

(* do_wait never sleeps through the exit it waits for. *)
THEOREM NoExitLost == Spec => []NoLostChildExit
<1>1. IInv => NoLostChildExit
  BY DEF IInv
<1>2. QED
  BY <1>1, Invariance, PTL

(* The timer list holds only timers of processes inside do_sleep. *)
THEOREM TimersOwned == Spec => []TimerOwnerInSleep
<1>1. IInv => TimerOwnerInSleep
  BY DEF IInv
<1>2. QED
  BY <1>1, Invariance, PTL

(* Every live process has a parent that can reap it. *)
THEOREM AlwaysReapable == Spec => []ParentCanReap
<1>1. IInv => ParentCanReap
  BY DEF IInv, FamilyOK
<1>2. QED
  BY <1>1, Invariance, PTL

(* What do_wait frees is not in use. *)
THEOREM FreedNotInUse == Spec => []FreedIsUnused
<1>1. IInv => FreedIsUnused
  <2>1. SUFFICES ASSUME IInv, NEW p \in Procs, state[p] = "FREE"
                 PROVE  p # current /\ ~InRunQueue(p) /\ Children(p) = {}
    BY DEF FreedIsUnused
  <2>2. p # current
    BY <2>1 DEF IInv, CurrentOK
  <2>3. ~InRunQueue(p)
    BY <2>1 DEF IInv, RunQueueExact
  <2>4. \A c \in Procs : parent[c] # p
    BY <2>1, <2>2, ProcsAssumption DEF IInv, FamilyOK, ParentCanReap, KernelThreadsOK
  <2>5. QED
    BY <2>2, <2>3, <2>4 DEF Children
<1>2. QED
  BY <1>1, Invariance, PTL

(* A zombie is never woken (the assertion of wakeup_proc). *)
THEOREM NoZombieWoken == Spec => ZombieStaysDead
<1>1. IInv /\ [Next]_vars => [ZombieStep]_vars
  BY Next_IInv
<1>2. QED
  BY <1>1, Invariance, PTL DEF Spec, ZombieStaysDead, ZombieStep

-----------------------------------------------------------------------------
(* The end of init_main: the family tree has initproc as its root. *)

(* initproc is the only child of idleproc, and from every other process    *)
(* the parents lead to initproc: no set of user processes contains the     *)
(* parents of all its members.                                             *)
RootedOK ==
    /\ \A c \in Procs : parent[c] = idleproc => c = initproc
    /\ \A X \in SUBSET User : (\A c \in X : parent[c] \in X) => X = {}

(* What a step may do to the family: do_fork, the end of do_wait and one   *)
(* turn of the loop of do_exit change one parent.                          *)
FamilyStep ==
    \/ parent' = parent
    \/ \E c \in User : /\ state[c] = "FREE" /\ current # idleproc
                       /\ parent' = [parent EXCEPT ![c] = current]
    \/ \E c \in User : parent' = [parent EXCEPT ![c] = NULL]
    \/ \E c \in User : parent' = [parent EXCEPT ![c] = initproc]

(* Every step of the processes is one that FamilyStep allows. *)
LEMMA FamilySteps == IInv /\ Next => FamilyStep
<1> SUFFICES ASSUME IInv, Next PROVE FamilyStep
  OBVIOUS
<1> USE ProcsAssumption DEF At
<1>1. current \in Procs /\ \A p \in Procs : pc[p] = "cpu_idle" <=> p = idleproc
  BY DEF IInv, TypeOK, KernelThreadsOK
<1>2. ASSUME NEW c \in User, sys_fork(c) \/ init_main(c) PROVE FamilyStep
  <2>1. state[c] = "FREE" /\ parent' = [parent EXCEPT ![c] = current] /\ pc[current] # "cpu_idle"
    BY <1>2 DEF sys_fork, init_main, do_fork
  <2> QED
    BY <1>1, <2>1 DEF FamilyStep
<1>3. ASSUME NEW c \in Procs, do_wait_found(c) PROVE FamilyStep
  <2>1. parent' = [parent EXCEPT ![c] = NULL] /\ state[c] = "ZOMBIE"
    BY <1>3 DEF do_wait_found
  <2>2. c \in User
    BY <2>1 DEF IInv, KernelThreadsOK, User
  <2> QED
    BY <2>1, <2>2 DEF FamilyStep
<1>4. ASSUME NEW c \in Procs, do_exit_reparent(c) PROVE FamilyStep
  <2>1. parent' = [parent EXCEPT ![c] = initproc] /\ parent[c] = current /\ pc[current] = "reparent"
    BY <1>4 DEF do_exit_reparent, Children
  <2>2. c \in User
    BY <1>1, <2>1 DEF IInv, KernelThreadsOK, User
  <2> QED
    BY <2>1, <2>2 DEF FamilyStep
<1>5. CASE Syscall
  <2>1. CASE \E c \in User : sys_fork(c)
    BY <1>2, <2>1
  <2>2. CASE ~\E c \in User : sys_fork(c)
    <3>1. parent' = parent
      BY <1>5, <2>2 DEF Syscall, sys_other, sys_yield, sys_exit, sys_wait, do_kill, do_sleep, proc_vars
    <3> QED
      BY <3>1 DEF FamilyStep
  <2> QED
    BY <2>1, <2>2
<1>6. CASE clock_begin \/ ClockHandler \/ halted
  <2>1. parent' = parent
    BY <1>6 DEF clock_begin, ClockHandler, clock_expire, clock_end, halted, vars
  <2> QED
    BY <2>1 DEF FamilyStep
<1>7. CASE Kernel
  <2>1. CASE \E c \in User : init_main(c)
    BY <1>2, <2>1
  <2>2. CASE \E c \in Procs : do_wait_found(c)
    BY <1>3, <2>2
  <2>3. CASE \E c \in Procs : do_exit_reparent(c)
    BY <1>4, <2>3
  <2>4. CASE /\ ~\E c \in User : init_main(c)
             /\ ~\E c \in Procs : do_wait_found(c)
             /\ ~\E c \in Procs : do_exit_reparent(c)
    <3>1. parent' = parent
      BY <1>7, <2>4 DEF Kernel, schedule, cpu_idle, trap_tail, do_sleep_resume, do_wait_bad_proc,
         do_wait_scan, do_wait_sleep, do_wait_resume, do_exit_panic, do_exit,
         do_exit_schedule, user_main, init_end, proc_vars
    <3> QED
      BY <3>1 DEF FamilyStep
  <2> QED
    BY <2>1, <2>2, <2>3, <2>4
<1> QED
  BY <1>5, <1>6, <1>7 DEF Next

(* The parents keep leading to initproc. *)
LEMMA RootedStep == IInv /\ RootedOK /\ FamilyStep => RootedOK'
<1> SUFFICES ASSUME IInv, RootedOK, FamilyStep PROVE RootedOK'
  OBVIOUS
<1> USE ProcsAssumption DEF User
<1>0. parent \in [Procs -> Procs \cup {NULL}] /\ current \in Procs
  BY DEF IInv, TypeOK
<1>1. CASE parent' = parent
  BY <1>1 DEF RootedOK
<1>2. ASSUME NEW c \in User, state[c] = "FREE", current # idleproc,
             parent' = [parent EXCEPT ![c] = current]
      PROVE  RootedOK'
  <2>1. c # current /\ \A d \in Procs : parent[d] # c
    <3>1. c # current
      BY <1>2 DEF IInv, CurrentOK
    <3>2. \A d \in Procs : parent[d] # c
      BY <1>2, <3>1 DEF IInv, FamilyOK, ParentCanReap, KernelThreadsOK
    <3> QED
      BY <3>1, <3>2
  <2>2. \A d \in Procs : parent'[d] = IF d = c THEN current ELSE parent[d]
    BY <1>0, <1>2
  <2>3. ASSUME NEW X \in SUBSET User, \A d \in X : parent'[d] \in X
        PROVE  X = {}
    <3> DEFINE Y == X \ {c}
    <3>1. \A d \in Y : parent[d] \in Y
      BY <2>1, <2>2, <2>3
    <3>2. Y = {}
      <4> Y \in SUBSET User
        OBVIOUS
      <4> HIDE DEF Y
      <4> QED
        BY <3>1 DEF RootedOK
    <3> QED
      BY <2>1, <2>2, <2>3, <3>2
  <2> QED
    BY <1>2, <2>2, <2>3 DEF RootedOK
<1>3. ASSUME NEW c \in User, NEW q \in {NULL, initproc}, parent' = [parent EXCEPT ![c] = q]
      PROVE  RootedOK'
  <2>1. \A d \in Procs : parent'[d] = IF d = c THEN q ELSE parent[d]
    BY <1>0, <1>3
  <2>2. ASSUME NEW X \in SUBSET User, \A d \in X : parent'[d] \in X
        PROVE  X = {}
    <3>1. \A d \in X : d # c /\ parent[d] \in X
      BY <2>1, <2>2
    <3> QED
      BY <3>1 DEF RootedOK
  <2> QED
    BY <2>1, <2>2 DEF RootedOK
<1> QED
  BY <1>1, <1>2, <1>3 DEF FamilyStep

(* Without a child of initproc there is no user process. *)
LEMMA NoChildNoUser ==
    ASSUME IInv, RootedOK, Children(initproc) = {}
    PROVE  \A p \in User : state[p] = "FREE"
<1> USE ProcsAssumption DEF User
<1> DEFINE X == {p \in User : state[p] # "FREE"}
<1>1. ASSUME NEW c \in X
      PROVE  parent[c] \in X
  <2>1. /\ parent[c] \in Procs
        /\ \/ state[parent[c]] \in {"SLEEPING", "RUNNABLE"}
           \/ parent[c] = current
    BY DEF IInv, FamilyOK, ParentCanReap
  <2>2. state[parent[c]] # "FREE"
    BY <2>1 DEF IInv, CurrentOK
  <2>3. parent[c] # initproc /\ parent[c] # idleproc
    BY DEF RootedOK, Children
  <2> QED
    BY <2>1, <2>2, <2>3
<1>2. X = {}
  <2> X \in SUBSET User
    OBVIOUS
  <2> HIDE DEF X
  <2> QED
    BY <1>1 DEF RootedOK
<1> QED
  BY <1>2

(* Once init_main has left its loop nothing is created any more. *)
LEMMA InitEndStep == IInv /\ RootedOK /\ InitEndClean /\ Next => InitEndClean'
<1> SUFFICES ASSUME IInv, RootedOK, InitEndClean, Next, pc'[initproc] = "init_end"
             PROVE  \A p \in User : state'[p] = "FREE"
  BY DEF InitEndClean
<1> USE ProcsAssumption DEF At
<1>0. /\ current \in Procs /\ pc \in [Procs -> Labels] /\ pc[idleproc] = "cpu_idle"
      /\ state \in [Procs -> States]
  BY DEF IInv, TypeOK, KernelThreadsOK
<1>1. CASE pc[initproc] = "init_end"
  <2>1. \A p \in User : state[p] = "FREE"
    BY <1>1 DEF InitEndClean
  <2>2. pc[current] \in {"cpu_idle", "init_end"}
    BY <1>0, <1>1, <2>1 DEF IInv, CurrentOK, User
  <2>3. ~Syscall
    BY <2>2 DEF Syscall, sys_other, sys_yield, sys_exit, sys_fork, sys_wait, do_kill, do_sleep
  <2>4. \A p \in Procs : ~clock_expire(p)
    <3>1. \A p \in Procs : expires[p] # NoTimer => pc[p] = "sleep" /\ p \notin User
      BY <2>1 DEF IInv, TimerOwnerInSleep
    <3> QED
      BY <1>0, <1>1, <3>1 DEF clock_expire, NoTimer, User
  <2>5. CASE clock_begin \/ ClockHandler \/ halted
    <3>1. state' = state
      BY <2>4, <2>5 DEF clock_begin, ClockHandler, clock_end, halted, vars, queue_vars
    <3> QED
      BY <2>1, <3>1
  <2>6. CASE Kernel
    <3>1. schedule \/ cpu_idle \/ init_end
      BY <2>2, <2>6 DEF Kernel, trap_tail, do_sleep_resume, do_wait_found, do_wait_bad_proc,
         do_wait_scan, do_wait_sleep, do_wait_resume, do_exit_panic, do_exit, do_exit_reparent,
         do_exit_schedule, init_main, user_main
    <3>2. state' = state
      BY <3>1 DEF schedule, cpu_idle, init_end, queue_vars
    <3> QED
      BY <2>1, <3>2
  <2> QED
    BY <2>3, <2>5, <2>6 DEF Next
<1>2. CASE pc[initproc] # "init_end"
  <2> USE DEF Goto, CallSchedule
  <2>1. ~Syscall
    <3> SUFFICES ASSUME Syscall PROVE FALSE
      OBVIOUS
    <3>1. CASE \E c \in User : sys_fork(c)
      BY <1>0, <1>2, <3>1 DEF sys_fork, do_fork, User
    <3>2. CASE ~\E c \in User : sys_fork(c)
      BY <1>0, <1>2, <3>2 DEF Syscall, sys_other, sys_yield, sys_exit, sys_wait, do_kill, do_sleep
    <3> QED
      BY <3>1, <3>2
  <2>2. ~(clock_begin \/ ClockHandler \/ halted)
    BY <1>0, <1>2 DEF clock_begin, ClockHandler, clock_expire, clock_end, halted, vars
  <2>3. Kernel
    BY <2>1, <2>2 DEF Next
  <2>4. ~(schedule \/ cpu_idle \/ trap_tail \/ do_sleep_resume)
    BY <1>0, <1>2 DEF schedule, cpu_idle, trap_tail, do_sleep_resume
  <2>5. ~(do_wait_scan \/ do_wait_sleep \/ do_wait_resume \/ do_exit_panic \/ do_exit)
    BY <1>0, <1>2 DEF do_wait_scan, do_wait_sleep, do_wait_resume, do_exit_panic, do_exit
  <2>6. ~(do_exit_schedule \/ user_main \/ init_end)
    BY <1>0, <1>2 DEF do_exit_schedule, user_main, init_end
  <2>7. \A c \in Procs : ~do_wait_found(c) /\ ~do_exit_reparent(c)
    BY <1>0, <1>2 DEF do_wait_found, WaitReturn, do_exit_reparent
  <2>8. \A c \in User : ~init_main(c)
    BY <1>0, <1>2 DEF init_main, do_fork, User
  <2>9. do_wait_bad_proc
    BY <2>3, <2>4, <2>5, <2>6, <2>7, <2>8 DEF Kernel
  <2>10. current = initproc /\ ~haskid /\ state' = state
    BY <1>0, <1>2, <2>9 DEF do_wait_bad_proc, queue_vars
  <2>11. Children(initproc) = {}
    BY <2>10 DEF haskid, Waited, IInv, KernelThreadsOK
  <2> QED
    BY <2>10, <2>11, NoChildNoUser
<1> QED
  BY <1>1, <1>2

(* When init_main checks that all is gone, no user process is left: every  *)
(* orphan has passed to initproc, whose do_wait has reaped it.             *)
THEOREM InitEndsClean == Spec => []InitEndClean
<1>1. Init => RootedOK /\ InitEndClean
  <2> SUFFICES ASSUME Init PROVE RootedOK /\ InitEndClean
    OBVIOUS
  <2>1. /\ \A p \in Procs : parent[p] = IF p = initproc THEN idleproc ELSE NULL
        /\ pc[initproc] = "init_main"
    BY ProcsAssumption DEF Init
  <2> QED
    BY <2>1, ProcsAssumption DEF RootedOK, InitEndClean, User
<1>2. IInv /\ RootedOK /\ InitEndClean /\ [Next]_vars => RootedOK' /\ InitEndClean'
  <2>1. IInv /\ RootedOK /\ InitEndClean /\ Next => RootedOK' /\ InitEndClean'
    BY FamilySteps, RootedStep, InitEndStep
  <2>2. RootedOK /\ InitEndClean /\ UNCHANGED vars => RootedOK' /\ InitEndClean'
    BY DEF RootedOK, InitEndClean, vars
  <2> QED
    BY <2>1, <2>2
<1> QED
  BY <1>1, <1>2, Invariance, PTL DEF Spec
=============================================================================
