------------------------------ MODULE PhiSema --------------------------------
(***************************************************************************)
(* The philosophers with semaphores of kern/sync/check_sync.c: a mutex for *)
(* the states and one semaphore per philosopher for the right to eat.      *)
(***************************************************************************)
EXTENDS Philosophers

vars_sema == <<state, sem, pc, ret, iter>>

S(i) == <<"s", i>>
SemNames_sema == {MUTEX} \cup {S(i) : i \in Phi}

(* check_sync *)
Init_sema ==
    /\ state = [i \in Phi |-> "THINKING"]
    /\ sem = [name \in SemNames_sema |-> sem_init(IF name = MUTEX THEN 1 ELSE 0)]
    /\ pc = [i \in Phi |-> "think"]
    /\ ret = [i \in Phi |-> "think"]
    /\ iter = [i \in Phi |-> 0]

(* Mutant of phi_test_sema: the philosopher j is not woken. *)
phi_test_sema_silent(i, j, st, l) ==
    /\ state' = IF can_eat(st, j) THEN [st EXCEPT ![j] = "EATING"] ELSE st
    /\ pc' = [pc EXCEPT ![i] = l]
    /\ UNCHANGED <<sem, ret>>

(* phi_test_sema(j), which philosopher i calls in state st. *)
phi_test_sema(i, j, st, l) ==
    IF can_eat(st, j)
    THEN state' = [st EXCEPT ![j] = "EATING"] /\ up(i, S(j), l)
    ELSE state' = st /\ pc' = [pc EXCEPT ![i] = l] /\ UNCHANGED <<sem, ret>>

(* phi_take_forks_sema *)
take_enter_sema(i) ==
    /\ pc[i] = "think"
    /\ down(i, MUTEX, "take_test")
    /\ UNCHANGED <<state, iter>>

take_test_sema(i) ==
    /\ pc[i] = "take_test"
    /\ phi_test_sema(i, i, [state EXCEPT ![i] = "HUNGRY"], "take_leave")
    /\ UNCHANGED iter

take_leave_sema(i) ==
    /\ pc[i] = "take_leave"
    /\ up(i, MUTEX, "take_wait")
    /\ UNCHANGED <<state, iter>>

take_wait_sema(i) ==
    /\ pc[i] = "take_wait"
    /\ down(i, S(i), "eat")
    /\ UNCHANGED <<state, iter>>

(* phi_put_forks_sema *)
put_enter_sema(i) ==
    /\ pc[i] = "eat"
    /\ down(i, MUTEX, "put_left")
    /\ UNCHANGED <<state, iter>>

put_left_sema(i) ==
    /\ pc[i] = "put_left"
    /\ phi_test_sema(i, LEFT(i), [state EXCEPT ![i] = "THINKING"], "put_right")
    /\ UNCHANGED iter

put_right_sema(i) ==
    /\ pc[i] = "put_right"
    /\ phi_test_sema(i, RIGHT(i), state, "put_leave")
    /\ UNCHANGED iter

(* The end of the loop of philosopher_using_semaphore *)
put_leave_sema(i) ==
    /\ pc[i] = "put_leave"
    /\ iter' = [iter EXCEPT ![i] = @ + 1]
    /\ up(i, MUTEX, IF iter[i] + 1 < TIMES THEN "think" ELSE "quit")
    /\ UNCHANGED state

Step_sema(i) ==
    \/ take_enter_sema(i) \/ take_test_sema(i) \/ take_leave_sema(i) \/ take_wait_sema(i)
    \/ put_enter_sema(i) \/ put_left_sema(i) \/ put_right_sema(i) \/ put_leave_sema(i)
    \/ down_end(i)

-----------------------------------------------------------------------------

(* No wake-up is lost between up(&mutex) and down(&s[i]): whoever got the  *)
(* right to eat in between finds it in the semaphore, and whoever sleeps   *)
(* on it is still hungry and has a neighbour who eats.                     *)
RightIsKept ==
    \A i \in Phi :
       /\ Label(i) \in {"take_leave", "take_wait"} =>
             (state[i] = "EATING" <=> sem[S(i)].value = 1)
       /\ SleepsIn(sem[S(i)], i) /\ sem[MUTEX].value = 1 =>
             /\ state[i] = "HUNGRY"
             /\ "EATING" \in {state[LEFT(i)], state[RIGHT(i)]}
=============================================================================
