--------------------------------- MODULE Sem ---------------------------------
(***************************************************************************)
(* The kernel semaphores of kern/sync/sem.c, over the wait queues of       *)
(* kern/sync/wait.c.  Both operations mask interrupts, so each is one      *)
(* change of the semaphore.  A process in down sleeps while it is in the   *)
(* queue: WT_KSEM has no WT_INTERRUPTED bit, so do_kill leaves it there,   *)
(* and only up, which takes it out of the queue, wakes it.                 *)
(***************************************************************************)
EXTENDS Integers, Sequences

(* sem_init *)
sem_init(value) == [value |-> value, wait_queue |-> <<>>]

(* Mutant of sem_up: the value is raised although the first waiter is woken. *)
sem_up_both(sem) ==
    [value |-> sem.value + 1,
     wait_queue |-> IF sem.wait_queue = <<>> THEN <<>> ELSE Tail(sem.wait_queue)]

(* __up: the first waiter is woken, without waiters the value is raised. *)
sem_up(sem) ==
    IF sem.wait_queue = <<>> THEN [sem EXCEPT !.value = @ + 1]
                             ELSE [sem EXCEPT !.wait_queue = Tail(@)]

(* __down takes a unit of the value if there is one ... *)
sem_take(sem) == [sem EXCEPT !.value = @ - 1]

(* Mutant of sem_wait: the process goes to the head of the queue. *)
sem_wait_first(sem, p) == [sem EXCEPT !.wait_queue = <<p>> \o @]

(* ... and else queues the process. *)
sem_wait(sem, p) == [sem EXCEPT !.wait_queue = Append(@, p)]

(* wait_in_queue: p sleeps in down. *)
SleepsIn(sem, p) == \E i \in DOMAIN sem.wait_queue : sem.wait_queue[i] = p
=============================================================================
