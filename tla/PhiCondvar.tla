----------------------------- MODULE PhiCondvar ------------------------------
(***************************************************************************)
(* The monitor of kern/sync/monitor.c and the philosophers of              *)
(* kern/sync/check_sync.c that use it.  A thread that signals a condition  *)
(* on which another one waits hands the monitor over and sleeps on `next'  *)
(* until it is handed back; next_count counts these threads.               *)
(***************************************************************************)
EXTENDS Philosophers

VARIABLES
    next_count,   \* mtp->next_count
    count,        \* cv[i].count
    after         \* where a philosopher goes on after cond_signal

vars_condvar == <<state, sem, pc, ret, iter, next_count, count, after>>

NEXT == <<"next">>
CV(i) == <<"cv", i>>
SemNames_condvar == {MUTEX, NEXT} \cup {CV(i) : i \in Phi}

(* monitor_init and check_sync *)
Init_condvar ==
    /\ state = [i \in Phi |-> "THINKING"]
    /\ sem = [name \in SemNames_condvar |-> sem_init(IF name = MUTEX THEN 1 ELSE 0)]
    /\ pc = [i \in Phi |-> "think"]
    /\ ret = [i \in Phi |-> "think"]
    /\ iter = [i \in Phi |-> 0]
    /\ next_count = 0
    /\ count = [i \in Phi |-> 0]
    /\ after = [i \in Phi |-> "think"]

(* Mutant of who_is_next: a thread that signalled is passed over. *)
who_is_next_mutex == MUTEX

(* A thread that leaves the monitor prefers the threads that signalled. *)
who_is_next == IF next_count > 0 THEN NEXT ELSE MUTEX

(* Mutant of cond_signal: the thread that signals does not wait. *)
cond_signal_runs_on(i, j, l) ==
    /\ IF count[j] > 0
       THEN up(i, CV(j), l)
       ELSE pc' = [pc EXCEPT ![i] = l] /\ UNCHANGED <<sem, ret>>
    /\ UNCHANGED <<next_count, after>>

(* cond_signal up to the down on next *)
cond_signal(i, j, l) ==
    IF count[j] > 0
    THEN /\ next_count' = next_count + 1
         /\ up(i, CV(j), "signal_wait")
         /\ after' = [after EXCEPT ![i] = l]
    ELSE /\ pc' = [pc EXCEPT ![i] = l]
         /\ UNCHANGED <<sem, ret, next_count, after>>

signal_wait(i) ==
    /\ pc[i] = "signal_wait"
    /\ down(i, NEXT, "signal_end")
    /\ UNCHANGED <<state, iter, next_count, count, after>>

signal_end(i) ==
    /\ pc[i] = "signal_end"
    /\ next_count' = next_count - 1
    /\ pc' = [pc EXCEPT ![i] = after[i]]
    /\ UNCHANGED <<state, sem, ret, iter, count, after>>

(* cond_wait(cv[i]): the monitor is left before the thread sleeps *)
cond_wait(i) ==
    /\ count' = [count EXCEPT ![i] = @ + 1]
    /\ up(i, who_is_next, "cond_down")

cond_down(i) ==
    /\ pc[i] = "cond_down"
    /\ down(i, CV(i), "cond_end")
    /\ UNCHANGED <<state, iter, next_count, count, after>>

cond_end(i) ==
    /\ pc[i] = "cond_end"
    /\ count' = [count EXCEPT ![i] = @ - 1]
    /\ pc' = [pc EXCEPT ![i] = "take_leave"]
    /\ UNCHANGED <<state, sem, ret, iter, next_count, after>>

-----------------------------------------------------------------------------

(* phi_test_condvar(j), which philosopher i calls in state st. *)
phi_test_condvar(i, j, st, l) ==
    IF can_eat(st, j)
    THEN state' = [st EXCEPT ![j] = "EATING"] /\ cond_signal(i, j, l)
    ELSE /\ state' = st
         /\ pc' = [pc EXCEPT ![i] = l]
         /\ UNCHANGED <<sem, ret, next_count, after>>

(* phi_take_forks_condvar *)
take_enter_condvar(i) ==
    /\ pc[i] = "think"
    /\ down(i, MUTEX, "take_test")
    /\ UNCHANGED <<state, iter, next_count, count, after>>

take_test_condvar(i) ==
    /\ pc[i] = "take_test"
    /\ phi_test_condvar(i, i, [state EXCEPT ![i] = "HUNGRY"], "take_check")
    /\ UNCHANGED <<iter, count>>

take_check_condvar(i) ==
    /\ pc[i] = "take_check"
    /\ IF state[i] # "EATING"
       THEN cond_wait(i)
       ELSE pc' = [pc EXCEPT ![i] = "take_leave"] /\ UNCHANGED <<sem, ret, count>>
    /\ UNCHANGED <<state, iter, next_count, after>>

take_leave_condvar(i) ==
    /\ pc[i] = "take_leave"
    /\ up(i, who_is_next, "eat")
    /\ UNCHANGED <<state, iter, next_count, count, after>>

(* phi_put_forks_condvar *)
put_enter_condvar(i) ==
    /\ pc[i] = "eat"
    /\ down(i, MUTEX, "put_left")
    /\ UNCHANGED <<state, iter, next_count, count, after>>

put_left_condvar(i) ==
    /\ pc[i] = "put_left"
    /\ phi_test_condvar(i, LEFT(i), [state EXCEPT ![i] = "THINKING"], "put_right")
    /\ UNCHANGED <<iter, count>>

put_right_condvar(i) ==
    /\ pc[i] = "put_right"
    /\ phi_test_condvar(i, RIGHT(i), state, "put_leave")
    /\ UNCHANGED <<iter, count>>

(* The end of the loop of philosopher_using_condvar *)
put_leave_condvar(i) ==
    /\ pc[i] = "put_leave"
    /\ iter' = [iter EXCEPT ![i] = @ + 1]
    /\ up(i, who_is_next, IF iter[i] + 1 < TIMES THEN "think" ELSE "quit")
    /\ UNCHANGED <<state, next_count, count, after>>

Step_condvar(i) ==
    \/ take_enter_condvar(i) \/ take_test_condvar(i) \/ take_check_condvar(i) \/ take_leave_condvar(i)
    \/ put_enter_condvar(i) \/ put_left_condvar(i) \/ put_right_condvar(i) \/ put_leave_condvar(i)
    \/ signal_wait(i) \/ signal_end(i) \/ cond_down(i) \/ cond_end(i)
    \/ down_end(i) /\ UNCHANGED <<next_count, count, after>>

-----------------------------------------------------------------------------

InMonitor == {"take_test", "take_check", "take_leave", "put_left", "put_right",
              "put_leave", "signal_end", "cond_end"}

(* "Only one process at a time may be active in a monitor": one thread is  *)
(* inside or has been given the monitor, or the mutex is free.  A thread   *)
(* that signals gives the monitor away together with the signal.           *)
OneInMonitor ==
    LET active == {i \in Phi : Label(i) \in InMonitor}
        given == {i \in Phi : Label(i) = "signal_wait" /\ sem[NEXT].value = 1}
        taking == {i \in Phi : Label(i) = "cond_down" /\ sem[CV(i)].value = 1}
    IN Cardinality(active) + Cardinality(given) + Cardinality(taking)
         + sem[MUTEX].value = 1
=============================================================================
