---------------------------- MODULE Philosophers -----------------------------
(***************************************************************************)
(* What the two solutions of the dining philosophers in                    *)
(* kern/sync/check_sync.c share: N kernel threads that think, take both    *)
(* forks, eat and put the forks back, TIMES times.  The threads switch     *)
(* only where they sleep; the model lets them interleave at every          *)
(* semaphore operation, which includes those switches.                     *)
(***************************************************************************)
EXTENDS Sem, FiniteSets

CONSTANTS
    N,       \* number of philosophers
    TIMES    \* meals of each

ASSUME PhiAssumption == N \in Nat /\ N > 1 /\ TIMES \in Nat \ {0}

VARIABLES
    state,   \* state_sema or state_condvar
    sem,     \* the semaphores by name
    pc,      \* where a philosopher executes, "down" while it is in down
    ret,     \* where it goes on after that down
    iter     \* meals it has finished

Phi == 0..(N - 1)
LEFT(i) == (i - 1 + N) % N
RIGHT(i) == (i + 1) % N

MUTEX == <<"mutex">>

(* philosopher i calls down(name) and then goes on at label l. *)
down(i, name, l) ==
    IF sem[name].value > 0
    THEN /\ sem' = [sem EXCEPT ![name] = sem_take(@)]
         /\ pc' = [pc EXCEPT ![i] = l]
         /\ UNCHANGED ret
    ELSE /\ sem' = [sem EXCEPT ![name] = sem_wait(@, i)]
         /\ pc' = [pc EXCEPT ![i] = "down"]
         /\ ret' = [ret EXCEPT ![i] = l]

Asleep(i) == \E name \in DOMAIN sem : SleepsIn(sem[name], i)

(* down returns in a philosopher that up has woken. *)
down_end(i) ==
    /\ pc[i] = "down"
    /\ ~Asleep(i)
    /\ pc' = [pc EXCEPT ![i] = ret[i]]
    /\ UNCHANGED <<state, sem, ret, iter>>

(* philosopher i calls up(name) and goes on at label l. *)
up(i, name, l) ==
    /\ sem' = [sem EXCEPT ![name] = sem_up(@)]
    /\ pc' = [pc EXCEPT ![i] = l]
    /\ UNCHANGED ret

(* Mutant of can_eat: the right neighbour is not looked at. *)
can_eat_left(st, i) == st[i] = "HUNGRY" /\ st[LEFT(i)] # "EATING"

(* The test of phi_test_sema and phi_test_condvar. *)
can_eat(st, i) ==
    /\ st[i] = "HUNGRY"
    /\ st[LEFT(i)] # "EATING"
    /\ st[RIGHT(i)] # "EATING"

(* The label at which the philosopher is or will be once it runs. *)
Label(i) == IF pc[i] = "down" /\ ~Asleep(i) THEN ret[i] ELSE pc[i]

-----------------------------------------------------------------------------

(* Neighbours share a fork and do not eat at the same time: neither their  *)
(* states say so nor are both past phi_take_forks.                         *)
NeighboursExclude ==
    \A i \in Phi :
       /\ ~(state[i] = "EATING" /\ state[RIGHT(i)] = "EATING")
       /\ ~(Label(i) = "eat" /\ Label(RIGHT(i)) = "eat")
       /\ Label(i) = "eat" => state[i] = "EATING"

(* No philosopher is left hungry: all finish their meals and quit. *)
AllQuit == <>(\A i \in Phi : pc[i] = "quit")
=============================================================================
