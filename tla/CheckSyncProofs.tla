---------------------------- MODULE CheckSyncProofs ---------------------------
(***************************************************************************)
(* For every number of philosophers and of meals, both solutions of        *)
(* check_sync.c let no neighbours eat together, the one with semaphores    *)
(* loses no right to eat, and the monitor has one active thread.           *)
(***************************************************************************)
EXTENDS CheckSync, DataFacts, FiniteSetTheorems

-----------------------------------------------------------------------------
(* The solution with semaphores *)

SemaLabels == {"think", "take_test", "take_leave", "take_wait", "eat",
           "put_left", "put_right", "put_leave", "quit"}

(* The labels between down(&mutex) and up(&mutex). *)
Critical == {"take_test", "take_leave", "put_left", "put_right", "put_leave"}

SemaTypeInv ==
    /\ state \in [Phi -> {"THINKING", "HUNGRY", "EATING"}]
    /\ sem \in [SemNames_sema -> SemRec(Phi)]
    /\ pc \in [Phi -> SemaLabels \cup {"down"}]
    /\ ret \in [Phi -> SemaLabels]
    /\ iter \in [Phi -> Nat]

(* The label of a philosopher in down is the one after it. *)
At(i) == IF pc[i] = "down" THEN ret[i] ELSE pc[i]

Queued(i) == SleepsIn(sem[MUTEX], i)

Holds(i) == At(i) \in Critical /\ ~Queued(i)

(* The mutex is held by at most one philosopher, and by none when it is    *)
(* free.                                                                   *)
MutexInv ==
    /\ sem[MUTEX].value > 0 => \A i \in Phi : ~Holds(i) /\ ~Queued(i)
    /\ sem[MUTEX].value <= 1
    /\ \A i, j \in Phi : Holds(i) /\ Holds(j) => i = j
    /\ \A i \in Phi : pc[i] = "down" => ret[i] \in {"take_test", "put_left", "eat"}
    /\ \A i \in Phi : Queued(i) => pc[i] = "down" /\ ret[i] \in {"take_test", "put_left"}

(* What state_sema and s[i] hold while philosopher i is at a label. *)
SemaPlaceInv(i) ==
    /\ sem[S(i)].wait_queue = IF At(i) = "eat" /\ state[i] = "HUNGRY" THEN <<i>> ELSE <<>>
    /\ sem[S(i)].wait_queue # <<>> => pc[i] = "down"
    /\ sem[S(i)].value =
          IF At(i) \in {"take_leave", "take_wait"} /\ state[i] = "EATING" THEN 1 ELSE 0
    /\ At(i) \in {"think", "quit", "take_test", "put_right", "put_leave"} <=> state[i] = "THINKING"
    /\ At(i) = "put_left" => state[i] = "EATING"

(* The forks, and who will see that a philosopher can eat. *)
SemaForkInv ==
    /\ \A i \in Phi : ~(state[i] = "EATING" /\ state[RIGHT(i)] = "EATING")
    /\ \A i \in Phi : state[i] = "HUNGRY" =>
          \/ state[LEFT(i)] = "EATING"
          \/ state[RIGHT(i)] = "EATING"
          \/ pc[LEFT(i)] = "put_right"

SemaInv == SemaTypeInv /\ MutexInv /\ (\A i \in Phi : SemaPlaceInv(i)) /\ SemaForkInv

-----------------------------------------------------------------------------
(* The table and the names *)

(* The two neighbours of a philosopher are others, and he is theirs. *)
LEMMA Ring ==
    ASSUME NEW i \in Phi
    PROVE  /\ LEFT(i) \in Phi /\ RIGHT(i) \in Phi
           /\ LEFT(i) # i /\ RIGHT(i) # i
           /\ LEFT(RIGHT(i)) = i /\ RIGHT(LEFT(i)) = i
<1>1. N \in Nat /\ N > 1 /\ i \in 0..(N - 1)
  BY PhiAssumption DEF Phi
<1>2. RIGHT(i) = IF i = N - 1 THEN 0 ELSE i + 1
  BY <1>1, RingFacts DEF RIGHT
<1>3. LEFT(i) = IF i = 0 THEN N - 1 ELSE i - 1
  BY <1>1, RingFacts DEF LEFT
<1>4. LEFT(RIGHT(i)) = i
  BY <1>1, <1>2 DEF LEFT
<1>5. RIGHT(LEFT(i)) = i
  BY <1>1, <1>3 DEF RIGHT
<1> QED
  BY <1>1, <1>2, <1>3, <1>4, <1>5 DEF Phi

(* The mutex and the semaphores of the philosophers are all different. *)
LEMMA SemaNames ==
    /\ MUTEX \in SemNames_sema
    /\ \A i \in Phi : S(i) \in SemNames_sema /\ S(i) # MUTEX
    /\ \A i, j \in Phi : S(i) = S(j) => i = j
BY DEF MUTEX, S, SemNames_sema

-----------------------------------------------------------------------------
(* The operations on the mutex *)

(* Outside of s[], a step of philosopher i to label l leaves the others    *)
(* where they are.                                                         *)
SemaMoves(i, l) ==
    /\ At(i)' = l
    /\ pc'[i] \in {l, "down"}
    /\ \A j \in Phi : j # i => At(j)' = At(j) /\ pc'[j] = pc[j]

(* A philosopher asks for the mutex: he gets it or sleeps in its queue. *)
LEMMA SemaMutexDown ==
    ASSUME SemaInv, NEW i \in Phi, NEW l \in {"take_test", "put_left"},
           pc[i] \in {"think", "eat"},
           down(i, MUTEX, l), UNCHANGED <<state, iter>>
    PROVE  /\ SemaTypeInv' /\ MutexInv'
           /\ SemaMoves(i, l)
           /\ \A j \in Phi : sem'[S(j)] = sem[S(j)]
<1> DEFINE m == sem[MUTEX]
<1>1. /\ m \in SemRec(Phi) /\ m.value \in Nat /\ pc[i] # "down" /\ l \in SemaLabels /\ l # "down"
      /\ l \in Critical
  BY SemaNames DEF SemaInv, SemaTypeInv, SemaLabels, SemRec, Critical
<1>2. CASE m.value > 0
  <2>1. /\ sem' = [sem EXCEPT ![MUTEX] = sem_take(m)] /\ pc' = [pc EXCEPT ![i] = l] /\ ret' = ret
    BY <1>2 DEF down
  <2>2. /\ sem'[MUTEX] \in SemRec(Phi) /\ sem'[MUTEX].value = m.value - 1
        /\ sem'[MUTEX].wait_queue = m.wait_queue
        /\ \A j \in Phi : sem'[S(j)] = sem[S(j)]
        /\ sem' \in [SemNames_sema -> SemRec(Phi)]
    BY <1>1, <1>2, <2>1, SemTake, SemaNames DEF SemaInv, SemaTypeInv
  <2>3. SemaTypeInv'
    BY <1>1, <2>1, <2>2 DEF SemaInv, SemaTypeInv
  <2>4. SemaMoves(i, l)
    BY <1>1, <2>1 DEF SemaInv, SemaTypeInv, SemaMoves, At
  <2>5. \A j \in Phi : Queued(j)' <=> Queued(j)
    BY <2>2 DEF Queued, SleepsIn
  <2>6. \A j \in Phi : ~Holds(j) /\ ~Queued(j)
    BY <1>2 DEF SemaInv, MutexInv
  <2>7. \A j \in Phi : Holds(j)' => j = i
    BY <2>4, <2>5, <2>6 DEF Holds, SemaMoves
  <2>8. MutexInv'
    <3>1. m.value = 1
      BY <1>1, <1>2 DEF SemaInv, MutexInv
    <3>2. \A j \in Phi : pc'[j] = "down" => ret'[j] \in {"take_test", "put_left", "eat"}
      BY <1>1, <2>1 DEF SemaInv, SemaTypeInv, MutexInv
    <3> QED
      BY <2>2, <2>5, <2>6, <2>7, <3>1, <3>2 DEF MutexInv
  <2> QED
    BY <2>2, <2>3, <2>4, <2>8
<1>3. CASE m.value = 0
  <2>1. /\ sem' = [sem EXCEPT ![MUTEX] = sem_wait(m, i)]
        /\ pc' = [pc EXCEPT ![i] = "down"] /\ ret' = [ret EXCEPT ![i] = l]
    BY <1>3 DEF down
  <2>2. /\ sem'[MUTEX] \in SemRec(Phi) /\ sem'[MUTEX].value = 0
        /\ \A x : SleepsIn(sem'[MUTEX], x) <=> SleepsIn(m, x) \/ x = i
        /\ \A j \in Phi : sem'[S(j)] = sem[S(j)]
        /\ sem' \in [SemNames_sema -> SemRec(Phi)]
    BY <1>1, <1>3, <2>1, SemWait, SemaNames DEF SemaInv, SemaTypeInv
  <2>3. SemaTypeInv'
    BY <1>1, <2>1, <2>2 DEF SemaInv, SemaTypeInv
  <2>4. SemaMoves(i, l)
    BY <1>1, <2>1 DEF SemaInv, SemaTypeInv, SemaMoves, At
  <2>5. \A j \in Phi : Queued(j)' <=> Queued(j) \/ j = i
    BY <2>2 DEF Queued
  <2>6. \A j \in Phi : Holds(j)' => Holds(j)
    BY <2>4, <2>5 DEF Holds, SemaMoves
  <2>7. /\ \A j \in Phi : pc'[j] = "down" => ret'[j] \in {"take_test", "put_left", "eat"}
        /\ \A j \in Phi : Queued(j)' => pc'[j] = "down" /\ ret'[j] \in {"take_test", "put_left"}
    BY <2>1, <2>5 DEF SemaInv, SemaTypeInv, MutexInv
  <2>8. MutexInv'
    BY <2>2, <2>6, <2>7 DEF SemaInv, MutexInv
  <2> QED
    BY <2>2, <2>3, <2>4, <2>8
<1> QED
  BY <1>1, <1>2, <1>3

(* The owner gives the mutex up: it passes to the first sleeper or is      *)
(* free.                                                                   *)
LEMMA MutexUp ==
    ASSUME SemaInv, NEW i \in Phi, NEW l \in SemaLabels \ Critical,
           pc[i] \in Critical,
           up(i, MUTEX, l), state' = state, iter' \in [Phi -> Nat]
    PROVE  /\ SemaTypeInv' /\ MutexInv'
           /\ SemaMoves(i, l)
           /\ \A j \in Phi : sem'[S(j)] = sem[S(j)]
<1> DEFINE m == sem[MUTEX]
<1>1. /\ m \in SemRec(Phi) /\ m.value \in Nat /\ pc[i] # "down" /\ l # "down"
  BY SemaNames DEF SemaInv, SemaTypeInv, SemaLabels, SemRec, Critical
<1>2. Holds(i) /\ m.value = 0
  BY <1>1 DEF SemaInv, MutexInv, Holds, At
<1>3. /\ sem' = [sem EXCEPT ![MUTEX] = sem_up(m)] /\ pc' = [pc EXCEPT ![i] = l] /\ ret' = ret
  BY DEF up
<1>4. /\ sem'[MUTEX] = sem_up(m) /\ sem'[MUTEX] \in SemRec(Phi)
      /\ \A j \in Phi : sem'[S(j)] = sem[S(j)]
      /\ sem' \in [SemNames_sema -> SemRec(Phi)]
  BY <1>1, <1>3, SemUp, SemaNames DEF SemaInv, SemaTypeInv
<1>5. SemaTypeInv'
  BY <1>1, <1>3, <1>4 DEF SemaInv, SemaTypeInv
<1>6. SemaMoves(i, l)
  BY <1>1, <1>3 DEF SemaInv, SemaTypeInv, SemaMoves, At
<1>7. \A j \in Phi : Queued(j)' => Queued(j)
  BY <1>1, <1>4, SemUp DEF Queued
<1>8. \A j \in Phi : Holds(j)' => Queued(j) /\ ~Queued(j)'
  BY <1>2, <1>6 DEF SemaInv, MutexInv, Holds, SemaMoves
<1>9. \A j, k \in Phi : Holds(j)' /\ Holds(k)' => j = k
  BY <1>1, <1>4, <1>8, SemUp DEF Queued
<1>10. /\ \A j \in Phi : pc'[j] = "down" => ret'[j] \in {"take_test", "put_left", "eat"}
       /\ \A j \in Phi : Queued(j)' => pc'[j] = "down" /\ ret'[j] \in {"take_test", "put_left"}
  <2>1. ~Queued(i)
    BY <1>2 DEF Holds
  <2> QED
    BY <1>1, <1>3, <1>7, <2>1 DEF SemaInv, SemaTypeInv, MutexInv
<1>11. CASE m.wait_queue = <<>>
  <2>1. sem'[MUTEX].value = 1
    BY <1>1, <1>2, <1>4, <1>11, SemUp
  <2>2. \A j \in Phi : ~Queued(j)
    BY <1>11 DEF Queued, SleepsIn
  <2> QED
    BY <1>4, <1>5, <1>6, <1>7, <1>8, <1>10, <2>1, <2>2 DEF MutexInv
<1>12. CASE m.wait_queue # <<>>
  <2>1. sem'[MUTEX].value = 0
    BY <1>1, <1>2, <1>4, <1>12, SemUp
  <2> QED
    BY <1>4, <1>5, <1>6, <1>9, <1>10, <2>1 DEF MutexInv
<1> QED
  BY <1>11, <1>12

-----------------------------------------------------------------------------
(* phi_test_sema *)

States == {"THINKING", "HUNGRY", "EATING"}

(* phi_test_sema inside the mutex: one philosopher may start to eat, and   *)
(* his semaphore is raised just then.                                      *)
LEMMA TestMoves ==
    ASSUME SemaInv, NEW i \in Phi, NEW j \in Phi, NEW st \in [Phi -> States],
           NEW l \in Critical, pc[i] \in Critical,
           phi_test_sema(i, j, st, l), iter' = iter
    PROVE  /\ SemaTypeInv' /\ MutexInv'
           /\ SemaMoves(i, l)
           /\ \A k \in Phi : k # j => sem'[S(k)] = sem[S(k)]
           /\ state' = IF can_eat(st, j) THEN [st EXCEPT ![j] = "EATING"] ELSE st
           /\ sem'[S(j)] = IF can_eat(st, j) THEN sem_up(sem[S(j)]) ELSE sem[S(j)]
<1>1. /\ pc' = [pc EXCEPT ![i] = l] /\ ret' = ret
      /\ state' = IF can_eat(st, j) THEN [st EXCEPT ![j] = "EATING"] ELSE st
      /\ sem' = IF can_eat(st, j) THEN [sem EXCEPT ![S(j)] = sem_up(sem[S(j)])] ELSE sem
  BY DEF phi_test_sema, up
<1>2. /\ sem'[MUTEX] = sem[MUTEX]
      /\ \A k \in Phi : k # j => sem'[S(k)] = sem[S(k)]
      /\ sem'[S(j)] = IF can_eat(st, j) THEN sem_up(sem[S(j)]) ELSE sem[S(j)]
      /\ sem' \in [SemNames_sema -> SemRec(Phi)]
  BY <1>1, SemUp, SemaNames DEF SemaInv, SemaTypeInv
<1>3. pc[i] # "down" /\ l # "down" /\ l \in SemaLabels
  BY DEF Critical, SemaLabels
<1>4. SemaTypeInv'
  <2>1. state' \in [Phi -> States]
    BY <1>1 DEF States
  <2> QED
    BY <1>1, <1>2, <1>3, <2>1 DEF SemaInv, SemaTypeInv, States
<1>5. SemaMoves(i, l)
  BY <1>1, <1>3 DEF SemaInv, SemaTypeInv, SemaMoves, At
<1>6. \A k \in Phi : (Queued(k)' <=> Queued(k)) /\ (Holds(k)' <=> Holds(k))
  <2>1. \A k \in Phi : Queued(k)' <=> Queued(k)
    BY <1>2 DEF Queued
  <2>2. \A k \in Phi : At(k)' \in Critical <=> At(k) \in Critical
    BY <1>3, <1>5 DEF SemaMoves, At
  <2> QED
    BY <2>1, <2>2 DEF Holds
<1>7. MutexInv'
  <2>1. ~Queued(i)
    BY <1>3 DEF SemaInv, MutexInv
  <2> QED
    BY <1>1, <1>2, <1>3, <1>6, <2>1 DEF SemaInv, SemaTypeInv, MutexInv
<1> QED
  BY <1>1, <1>2, <1>4, <1>5, <1>7

(* A philosopher whom a step does not concern. *)
LEMMA SemaPlaceFrame ==
    ASSUME NEW k \in Phi, SemaPlaceInv(k),
           At(k)' = At(k), pc'[k] = pc[k], state'[k] = state[k], sem'[S(k)] = sem[S(k)]
    PROVE  SemaPlaceInv(k)'
BY DEF SemaPlaceInv

(* A hungry philosopher whose neighbour gives it the right to eat. *)
LEMMA PlaceWake ==
    ASSUME NEW k \in Phi, SemaPlaceInv(k), SemaTypeInv, state[k] = "HUNGRY",
           At(k)' = At(k), pc'[k] = pc[k], state'[k] = "EATING",
           sem'[S(k)] = sem_up(sem[S(k)])
    PROVE  SemaPlaceInv(k)'
<1>1. sem[S(k)] \in SemRec(Phi) /\ At(k) \in SemaLabels
  BY SemaNames DEF SemaTypeInv, At, SemaLabels
<1>2. At(k) \in {"take_leave", "take_wait", "eat"} /\ sem[S(k)].value = 0
  BY <1>1 DEF SemaPlaceInv, SemaLabels
<1>3. CASE At(k) = "eat"
  <2>1. sem[S(k)].wait_queue = <<k>> /\ <<k>> # <<>> /\ Tail(<<k>>) = <<>>
    BY <1>3 DEF SemaPlaceInv
  <2>2. sem'[S(k)].value = 0 /\ sem'[S(k)].wait_queue = <<>>
    BY <1>1, <1>2, <2>1, SemUp
  <2> QED
    BY <1>3, <2>2 DEF SemaPlaceInv
<1>4. CASE At(k) \in {"take_leave", "take_wait"}
  <2>1. sem[S(k)].wait_queue = <<>>
    BY <1>4 DEF SemaPlaceInv
  <2>2. sem'[S(k)].value = 1 /\ sem'[S(k)].wait_queue = <<>>
    BY <1>1, <1>2, <2>1, SemUp
  <2> QED
    BY <1>4, <2>2 DEF SemaPlaceInv
<1> QED
  BY <1>2, <1>3, <1>4

(* The test leaves the forks right if all but j were right before it. *)
LEMMA SemaForkTest ==
    ASSUME NEW j \in Phi, NEW st \in [Phi -> States],
           state' = IF can_eat(st, j) THEN [st EXCEPT ![j] = "EATING"] ELSE st,
           \A k \in Phi : ~(st[k] = "EATING" /\ st[RIGHT(k)] = "EATING"),
           \A k \in Phi : k # j /\ st[k] = "HUNGRY" =>
              \/ st[LEFT(k)] = "EATING"
              \/ st[RIGHT(k)] = "EATING"
              \/ pc'[LEFT(k)] = "put_right"
    PROVE  SemaForkInv'
<1>1. CASE can_eat(st, j)
  <2>1. st[LEFT(j)] # "EATING" /\ st[RIGHT(j)] # "EATING"
    BY <1>1 DEF can_eat
  <2>2. state' = [st EXCEPT ![j] = "EATING"]
    BY <1>1
  <2>3. ASSUME NEW k \in Phi
        PROVE  ~(state'[k] = "EATING" /\ state'[RIGHT(k)] = "EATING")
    <3>1. CASE k = j
      BY <2>1, <2>2, <3>1, Ring
    <3>2. CASE RIGHT(k) = j
      <4>1. k = LEFT(j) /\ k # j
        BY <3>2, Ring
      <4> QED
        BY <2>1, <2>2, <4>1
    <3>3. CASE k # j /\ RIGHT(k) # j
      BY <2>2, <3>3, Ring
    <3> QED
      BY <3>1, <3>2, <3>3
  <2>4. ASSUME NEW k \in Phi, state'[k] = "HUNGRY"
        PROVE  \/ state'[LEFT(k)] = "EATING"
               \/ state'[RIGHT(k)] = "EATING"
               \/ pc'[LEFT(k)] = "put_right"
    BY <2>2, <2>4, Ring
  <2> QED
    BY <2>3, <2>4 DEF SemaForkInv
<1>2. CASE ~can_eat(st, j)
  BY <1>2 DEF SemaForkInv, can_eat
<1> QED
  BY <1>1, <1>2

-----------------------------------------------------------------------------
(* The steps *)

(* A step that changes neither the states nor a right to eat, and brings   *)
(* philosopher i to a label of the same meaning.                           *)
LEMMA SemaQuietStep ==
    ASSUME SemaInv, NEW i \in Phi, NEW l,
           SemaTypeInv', MutexInv', SemaMoves(i, l), state' = state,
           \A j \in Phi : sem'[S(j)] = sem[S(j)],
           pc[i] # "put_right",
           SemaPlaceInv(i)'
    PROVE  SemaInv'
<1>1. \A k \in Phi : SemaPlaceInv(k)'
  BY SemaPlaceFrame DEF SemaInv, SemaMoves
<1>2. SemaForkInv'
  <2>1. \A k \in Phi : pc[k] = "put_right" => pc'[k] = "put_right"
    BY DEF SemaMoves
  <2> QED
    BY <2>1, Ring DEF SemaInv, SemaForkInv
<1> QED
  BY <1>1, <1>2 DEF SemaInv

(* phi_take_forks_sema, its down(&mutex), keeps the invariant. *)
LEMMA SemaTakeEnter ==
    ASSUME SemaInv, NEW i \in Phi, take_enter_sema(i)
    PROVE  SemaInv'
<1>1. pc[i] = "think" /\ down(i, MUTEX, "take_test") /\ UNCHANGED <<state, iter>>
  BY DEF take_enter_sema
<1>2. /\ SemaTypeInv' /\ MutexInv' /\ SemaMoves(i, "take_test")
      /\ \A j \in Phi : sem'[S(j)] = sem[S(j)]
  BY <1>1, SemaMutexDown
<1>3. SemaPlaceInv(i)'
  BY <1>1, <1>2 DEF SemaInv, SemaPlaceInv, SemaMoves, At
<1> QED
  BY <1>1, <1>2, <1>3, SemaQuietStep

(* phi_take_forks_sema, hungry and the test of oneself, keeps the          *)
(* invariant.                                                              *)
LEMMA TakeTest ==
    ASSUME SemaInv, NEW i \in Phi, take_test_sema(i)
    PROVE  SemaInv'
<1> DEFINE st == [state EXCEPT ![i] = "HUNGRY"]
<1>1. pc[i] = "take_test" /\ phi_test_sema(i, i, st, "take_leave") /\ iter' = iter
  BY DEF take_test_sema
<1>2. st \in [Phi -> States] /\ {"take_test", "take_leave"} \subseteq Critical
  BY DEF SemaInv, SemaTypeInv, States, Critical
<1>3. st[i] = "HUNGRY" /\ \A k \in Phi : k # i => st[k] = state[k]
  BY DEF SemaInv, SemaTypeInv
<1>4. state[i] = "THINKING" /\ sem[S(i)].value = 0 /\ sem[S(i)].wait_queue = <<>>
  BY <1>1 DEF SemaInv, SemaPlaceInv, At
<1> HIDE DEF st
<1>5. /\ SemaTypeInv' /\ MutexInv' /\ SemaMoves(i, "take_leave")
      /\ \A k \in Phi : k # i => sem'[S(k)] = sem[S(k)]
      /\ state' = IF can_eat(st, i) THEN [st EXCEPT ![i] = "EATING"] ELSE st
      /\ sem'[S(i)] = IF can_eat(st, i) THEN sem_up(sem[S(i)]) ELSE sem[S(i)]
  BY <1>1, <1>2, TestMoves
<1>6. \A k \in Phi : k # i => SemaPlaceInv(k)'
  BY <1>2, <1>3, <1>5, SemaPlaceFrame DEF SemaInv, SemaMoves
<1>7. SemaPlaceInv(i)'
  <2>1. CASE can_eat(st, i)
    <3>1. sem[S(i)] \in SemRec(Phi)
      BY SemaNames DEF SemaInv, SemaTypeInv
    <3>2. sem'[S(i)].value = 1 /\ sem'[S(i)].wait_queue = <<>> /\ state'[i] = "EATING"
      BY <1>2, <1>4, <1>5, <2>1, <3>1, SemUp
    <3> QED
      BY <1>5, <3>2 DEF SemaPlaceInv, SemaMoves
  <2>2. CASE ~can_eat(st, i)
    <3>1. sem'[S(i)] = sem[S(i)] /\ state'[i] = "HUNGRY"
      BY <1>3, <1>5, <2>2
    <3> QED
      BY <1>4, <1>5, <3>1 DEF SemaPlaceInv, SemaMoves
  <2> QED
    BY <2>1, <2>2
<1>8. SemaForkInv'
  <2>1. \A k \in Phi : st[k] = "EATING" <=> state[k] = "EATING"
    BY <1>3, <1>4
  <2>2. \A k \in Phi : pc[k] = "put_right" => pc'[k] = "put_right"
    BY <1>1, <1>5 DEF SemaMoves
  <2>3. \A k \in Phi : ~(st[k] = "EATING" /\ st[RIGHT(k)] = "EATING")
    BY <2>1, Ring DEF SemaInv, SemaForkInv
  <2>4. \A k \in Phi : k # i /\ st[k] = "HUNGRY" =>
           \/ st[LEFT(k)] = "EATING"
           \/ st[RIGHT(k)] = "EATING"
           \/ pc'[LEFT(k)] = "put_right"
    BY <1>3, <2>1, <2>2, Ring DEF SemaInv, SemaForkInv
  <2> QED
    BY <1>2, <1>5, <2>3, <2>4, SemaForkTest
<1> QED
  BY <1>5, <1>6, <1>7, <1>8 DEF SemaInv

(* phi_take_forks_sema, its up(&mutex), keeps the invariant. *)
LEMMA SemaTakeLeave ==
    ASSUME SemaInv, NEW i \in Phi, take_leave_sema(i)
    PROVE  SemaInv'
<1>1. pc[i] = "take_leave" /\ up(i, MUTEX, "take_wait") /\ UNCHANGED <<state, iter>>
  BY DEF take_leave_sema
<1>2. /\ SemaTypeInv' /\ MutexInv' /\ SemaMoves(i, "take_wait")
      /\ \A j \in Phi : sem'[S(j)] = sem[S(j)]
  <2>1. "take_wait" \in SemaLabels \ Critical /\ pc[i] \in Critical /\ iter' \in [Phi -> Nat]
    BY <1>1 DEF SemaLabels, Critical, SemaInv, SemaTypeInv
  <2> QED
    BY <1>1, <2>1, MutexUp
<1>3. SemaPlaceInv(i)'
  BY <1>1, <1>2 DEF SemaInv, SemaPlaceInv, SemaMoves, At
<1> QED
  BY <1>1, <1>2, <1>3, SemaQuietStep

(* phi_take_forks_sema, the down of the own semaphore, keeps the           *)
(* invariant.                                                              *)
LEMMA TakeWait ==
    ASSUME SemaInv, NEW i \in Phi, take_wait_sema(i)
    PROVE  SemaInv'
<1> DEFINE s == sem[S(i)]
<1>1. pc[i] = "take_wait" /\ down(i, S(i), "eat") /\ state' = state /\ iter' = iter
  BY DEF take_wait_sema
<1>2. s \in SemRec(Phi) /\ At(i) = "take_wait" /\ s.wait_queue = <<>> /\ state[i] # "THINKING"
  BY <1>1, SemaNames DEF SemaInv, SemaTypeInv, SemaPlaceInv, At
<1>3. s.value = IF state[i] = "EATING" THEN 1 ELSE 0
  BY <1>2 DEF SemaInv, SemaPlaceInv
<1>4. /\ sem' = [sem EXCEPT ![S(i)] = IF state[i] = "EATING" THEN sem_take(s) ELSE sem_wait(s, i)]
      /\ pc' = [pc EXCEPT ![i] = IF state[i] = "EATING" THEN "eat" ELSE "down"]
      /\ ret' = IF state[i] = "EATING" THEN ret ELSE [ret EXCEPT ![i] = "eat"]
  BY <1>1, <1>3 DEF down
<1>5. /\ sem'[S(i)] \in SemRec(Phi) /\ sem'[S(i)].value = 0
      /\ sem'[S(i)].wait_queue = IF state[i] = "EATING" THEN <<>> ELSE <<i>>
      /\ sem'[S(i)] = IF state[i] = "EATING" THEN sem_take(s) ELSE sem_wait(s, i)
  <2>1. CASE state[i] = "EATING"
    BY <1>2, <1>3, <1>4, <2>1, SemaNames, SemTake DEF SemaInv, SemaTypeInv
  <2>2. CASE state[i] # "EATING"
    <3>1. Append(<<>>, i) = <<i>>
      OBVIOUS
    <3> QED
      BY <1>2, <1>3, <1>4, <2>2, <3>1, SemaNames, SemWait DEF SemaInv, SemaTypeInv
  <2> QED
    BY <2>1, <2>2
<1>6. /\ sem' \in [SemNames_sema -> SemRec(Phi)] /\ sem'[MUTEX] = sem[MUTEX]
      /\ \A k \in Phi : k # i => sem'[S(k)] = sem[S(k)]
  BY <1>4, <1>5, SemaNames DEF SemaInv, SemaTypeInv
<1>7. SemaTypeInv'
  BY <1>1, <1>4, <1>6 DEF SemaInv, SemaTypeInv, SemaLabels
<1>8. SemaMoves(i, "eat")
  BY <1>1, <1>4 DEF SemaInv, SemaTypeInv, SemaMoves, At
<1>9. MutexInv'
  <2>1. \A k \in Phi : Queued(k)' <=> Queued(k)
    BY <1>6 DEF Queued
  <2>2. \A k \in Phi : Holds(k)' => Holds(k)
    BY <1>8, <2>1 DEF Holds, SemaMoves, Critical
  <2>3. ~Queued(i)
    BY <1>1 DEF SemaInv, MutexInv
  <2>4. /\ \A j \in Phi : pc'[j] = "down" => ret'[j] \in {"take_test", "put_left", "eat"}
        /\ \A j \in Phi : Queued(j)' => pc'[j] = "down" /\ ret'[j] \in {"take_test", "put_left"}
    BY <1>4, <2>1, <2>3 DEF SemaInv, SemaTypeInv, MutexInv
  <2> QED
    BY <1>6, <2>1, <2>2, <2>4 DEF SemaInv, MutexInv
<1>10. \A k \in Phi : SemaPlaceInv(k)'
  <2>1. \A k \in Phi : k # i => SemaPlaceInv(k)'
    BY <1>1, <1>6, <1>8, SemaPlaceFrame DEF SemaInv, SemaMoves
  <2>2. SemaPlaceInv(i)'
    <3>1. state[i] \in {"HUNGRY", "EATING"} /\ At(i)' = "eat" /\ state'[i] = state[i]
      BY <1>1, <1>2, <1>8 DEF SemaInv, SemaTypeInv, SemaMoves
    <3>2. pc'[i] = IF state[i] = "EATING" THEN "eat" ELSE "down"
      BY <1>4 DEF SemaInv, SemaTypeInv
    <3>3. <<i>> # <<>>
      OBVIOUS
    <3> QED
      BY <1>5, <3>1, <3>2, <3>3 DEF SemaPlaceInv
  <2> QED
    BY <2>1, <2>2
<1>11. SemaForkInv'
  <2>1. \A k \in Phi : pc[k] = "put_right" => pc'[k] = "put_right"
    BY <1>1, <1>8 DEF SemaMoves
  <2> QED
    BY <1>1, <2>1, Ring DEF SemaInv, SemaForkInv
<1> QED
  BY <1>7, <1>9, <1>10, <1>11 DEF SemaInv

(* phi_put_forks_sema, its down(&mutex), keeps the invariant. *)
LEMMA SemaPutEnter ==
    ASSUME SemaInv, NEW i \in Phi, put_enter_sema(i)
    PROVE  SemaInv'
<1>1. pc[i] = "eat" /\ down(i, MUTEX, "put_left") /\ UNCHANGED <<state, iter>>
  BY DEF put_enter_sema
<1>2. /\ SemaTypeInv' /\ MutexInv' /\ SemaMoves(i, "put_left")
      /\ \A j \in Phi : sem'[S(j)] = sem[S(j)]
  BY <1>1, SemaMutexDown
<1>3. state[i] = "EATING"
  <2>1. At(i) = "eat" /\ pc[i] # "down" /\ <<i>> # <<>>
    BY <1>1 DEF At
  <2> QED
    BY <2>1 DEF SemaInv, SemaTypeInv, SemaPlaceInv
<1>4. SemaPlaceInv(i)'
  BY <1>1, <1>2, <1>3 DEF SemaInv, SemaPlaceInv, SemaMoves, At
<1> QED
  BY <1>1, <1>2, <1>4, SemaQuietStep

(* phi_put_forks_sema, thinking and the test of the left, keeps the        *)
(* invariant.                                                              *)
LEMMA PutLeft ==
    ASSUME SemaInv, NEW i \in Phi, put_left_sema(i)
    PROVE  SemaInv'
<1> DEFINE st == [state EXCEPT ![i] = "THINKING"]
           j == LEFT(i)
<1>1. pc[i] = "put_left" /\ phi_test_sema(i, j, st, "put_right") /\ iter' = iter
  BY DEF put_left_sema
<1>2. st \in [Phi -> States] /\ {"put_left", "put_right"} \subseteq Critical
  BY DEF SemaInv, SemaTypeInv, States, Critical
<1>3. st[i] = "THINKING" /\ \A k \in Phi : k # i => st[k] = state[k]
  BY DEF SemaInv, SemaTypeInv
<1>4. sem[S(i)].value = 0 /\ sem[S(i)].wait_queue = <<>>
  BY <1>1 DEF SemaInv, SemaPlaceInv, At
<1>5. j \in Phi /\ j # i /\ RIGHT(j) = i
  BY Ring
<1> HIDE DEF st, j
<1>6. /\ SemaTypeInv' /\ MutexInv' /\ SemaMoves(i, "put_right")
      /\ \A k \in Phi : k # j => sem'[S(k)] = sem[S(k)]
      /\ state' = IF can_eat(st, j) THEN [st EXCEPT ![j] = "EATING"] ELSE st
      /\ sem'[S(j)] = IF can_eat(st, j) THEN sem_up(sem[S(j)]) ELSE sem[S(j)]
  BY <1>1, <1>2, <1>5, TestMoves
<1>7. \A k \in Phi : k \notin {i, j} => SemaPlaceInv(k)'
  BY <1>2, <1>3, <1>6, SemaPlaceFrame DEF SemaInv, SemaMoves
<1>8. SemaPlaceInv(i)'
  <2>1. sem'[S(i)] = sem[S(i)] /\ state'[i] = "THINKING"
    BY <1>2, <1>3, <1>5, <1>6
  <2> QED
    BY <1>4, <1>6, <2>1 DEF SemaPlaceInv, SemaMoves
<1>9. SemaPlaceInv(j)'
  <2>1. CASE can_eat(st, j)
    <3>1. state[j] = "HUNGRY" /\ state'[j] = "EATING"
      BY <1>2, <1>3, <1>5, <1>6, <2>1 DEF can_eat
    <3> QED
      BY <1>5, <1>6, <2>1, <3>1, PlaceWake DEF SemaInv, SemaMoves
  <2>2. CASE ~can_eat(st, j)
    BY <1>3, <1>5, <1>6, <2>2, SemaPlaceFrame DEF SemaInv, SemaMoves
  <2> QED
    BY <2>1, <2>2
<1>10. SemaForkInv'
  <2>1. \A k \in Phi : st[k] = "EATING" => state[k] = "EATING"
    BY <1>3
  <2>2. \A k \in Phi : ~(st[k] = "EATING" /\ st[RIGHT(k)] = "EATING")
    BY <2>1, Ring DEF SemaInv, SemaForkInv
  <2>3. ASSUME NEW k \in Phi, k # j, st[k] = "HUNGRY"
        PROVE  \/ st[LEFT(k)] = "EATING"
               \/ st[RIGHT(k)] = "EATING"
               \/ pc'[LEFT(k)] = "put_right"
    <3>1. k # i /\ state[k] = "HUNGRY"
      BY <1>3, <2>3
    <3>2. LEFT(k) \in Phi /\ RIGHT(k) \in Phi /\ RIGHT(k) # i
      BY <2>3, Ring DEF j
    <3>3. pc'[i] \in {"put_right", "down"} /\ pc'[i] # "down"
      <4>1. pc' = [pc EXCEPT ![i] = "put_right"]
        BY <1>1 DEF phi_test_sema, up
      <4> QED
        BY <4>1 DEF SemaInv, SemaTypeInv
    <3>4. CASE LEFT(k) = i
      BY <3>3, <3>4
    <3>5. CASE LEFT(k) # i
      BY <1>3, <1>6, <3>1, <3>2, <3>5 DEF SemaInv, SemaForkInv, SemaMoves
    <3> QED
      BY <3>4, <3>5
  <2> QED
    BY <1>2, <1>5, <1>6, <2>2, <2>3, SemaForkTest
<1> QED
  BY <1>5, <1>6, <1>7, <1>8, <1>9, <1>10 DEF SemaInv

(* phi_put_forks_sema, the test of the right, keeps the invariant. *)
LEMMA PutRight ==
    ASSUME SemaInv, NEW i \in Phi, put_right_sema(i)
    PROVE  SemaInv'
<1> DEFINE j == RIGHT(i)
<1>1. pc[i] = "put_right" /\ phi_test_sema(i, j, state, "put_leave") /\ iter' = iter
  BY DEF put_right_sema
<1>2. state \in [Phi -> States] /\ {"put_right", "put_leave"} \subseteq Critical
  BY DEF SemaInv, SemaTypeInv, States, Critical
<1>3. sem[S(i)].value = 0 /\ sem[S(i)].wait_queue = <<>> /\ state[i] = "THINKING"
  BY <1>1 DEF SemaInv, SemaPlaceInv, At
<1>4. j \in Phi /\ j # i /\ LEFT(j) = i
  BY Ring
<1> HIDE DEF j
<1>5. /\ SemaTypeInv' /\ MutexInv' /\ SemaMoves(i, "put_leave")
      /\ \A k \in Phi : k # j => sem'[S(k)] = sem[S(k)]
      /\ state' = IF can_eat(state, j) THEN [state EXCEPT ![j] = "EATING"] ELSE state
      /\ sem'[S(j)] = IF can_eat(state, j) THEN sem_up(sem[S(j)]) ELSE sem[S(j)]
  BY <1>1, <1>2, <1>4, TestMoves
<1>6. \A k \in Phi : k \notin {i, j} => SemaPlaceInv(k)'
  BY <1>2, <1>5, SemaPlaceFrame DEF SemaInv, SemaMoves
<1>7. SemaPlaceInv(i)'
  <2>1. sem'[S(i)] = sem[S(i)] /\ state'[i] = "THINKING"
    BY <1>2, <1>3, <1>4, <1>5
  <2> QED
    BY <1>3, <1>5, <2>1 DEF SemaPlaceInv, SemaMoves
<1>8. SemaPlaceInv(j)'
  <2>1. CASE can_eat(state, j)
    <3>1. state[j] = "HUNGRY" /\ state'[j] = "EATING"
      BY <1>2, <1>4, <1>5, <2>1 DEF can_eat
    <3> QED
      BY <1>4, <1>5, <2>1, <3>1, PlaceWake DEF SemaInv, SemaMoves
  <2>2. CASE ~can_eat(state, j)
    BY <1>4, <1>5, <2>2, SemaPlaceFrame DEF SemaInv, SemaMoves
  <2> QED
    BY <2>1, <2>2
<1>9. SemaForkInv'
  <2>1. ASSUME NEW k \in Phi, k # j, state[k] = "HUNGRY"
        PROVE  \/ state[LEFT(k)] = "EATING"
               \/ state[RIGHT(k)] = "EATING"
               \/ pc'[LEFT(k)] = "put_right"
    <3>1. LEFT(k) \in Phi /\ LEFT(k) # i
      BY <2>1, Ring DEF j
    <3> QED
      BY <1>5, <2>1, <3>1 DEF SemaInv, SemaForkInv, SemaMoves
  <2>2. \A k \in Phi : ~(state[k] = "EATING" /\ state[RIGHT(k)] = "EATING")
    BY DEF SemaInv, SemaForkInv
  <2> QED
    BY <1>2, <1>4, <1>5, <2>1, <2>2, SemaForkTest
<1> QED
  BY <1>4, <1>5, <1>6, <1>7, <1>8, <1>9 DEF SemaInv

(* phi_put_forks_sema, its up(&mutex), keeps the invariant. *)
LEMMA SemaPutLeave ==
    ASSUME SemaInv, NEW i \in Phi, put_leave_sema(i)
    PROVE  SemaInv'
<1> DEFINE l == IF iter[i] + 1 < TIMES THEN "think" ELSE "quit"
<1>1. /\ pc[i] = "put_leave" /\ iter' = [iter EXCEPT ![i] = @ + 1]
      /\ up(i, MUTEX, l) /\ state' = state
  BY DEF put_leave_sema
<1>2. l \in SemaLabels \ Critical /\ l \in {"think", "quit"} /\ pc[i] \in Critical /\ iter' \in [Phi -> Nat]
  BY <1>1 DEF SemaLabels, Critical, SemaInv, SemaTypeInv
<1> HIDE DEF l
<1>3. /\ SemaTypeInv' /\ MutexInv' /\ SemaMoves(i, l)
      /\ \A j \in Phi : sem'[S(j)] = sem[S(j)]
  BY <1>1, <1>2, MutexUp
<1>4. SemaPlaceInv(i)'
  BY <1>1, <1>2, <1>3 DEF SemaInv, SemaPlaceInv, SemaMoves, At
<1> QED
  BY <1>1, <1>3, <1>4, SemaQuietStep

(* A woken philosopher returns from down: the invariant is kept. *)
LEMMA SemaDownEnd ==
    ASSUME SemaInv, NEW i \in Phi, down_end(i)
    PROVE  SemaInv'
<1>1. /\ pc[i] = "down" /\ ~Asleep(i) /\ pc' = [pc EXCEPT ![i] = ret[i]]
      /\ UNCHANGED <<state, sem, ret, iter>>
  BY DEF down_end
<1>2. ret[i] \in SemaLabels /\ ret[i] # "down" /\ ret[i] # "put_right" /\ DOMAIN sem = SemNames_sema
  BY <1>1 DEF SemaInv, SemaTypeInv, SemaLabels, MutexInv
<1>3. ~Queued(i) /\ ~SleepsIn(sem[S(i)], i)
  BY <1>1, <1>2, SemaNames DEF Asleep, Queued
<1>4. SemaTypeInv'
  BY <1>1, <1>2 DEF SemaInv, SemaTypeInv
<1>5. \A k \in Phi : At(k)' = At(k)
  BY <1>1, <1>2 DEF SemaInv, SemaTypeInv, At
<1>6. \A k \in Phi : (Queued(k)' <=> Queued(k)) /\ (Holds(k)' <=> Holds(k))
  BY <1>1, <1>5 DEF Queued, Holds
<1>7. MutexInv'
  BY <1>1, <1>2, <1>3, <1>6 DEF SemaInv, SemaTypeInv, MutexInv
<1>8. \A k \in Phi : SemaPlaceInv(k)'
  <2>1. sem[S(i)].wait_queue # <<i>>
    BY <1>3 DEF SleepsIn
  <2>2. sem[S(i)].wait_queue = <<>>
    BY <2>1 DEF SemaInv, SemaPlaceInv
  <2>3. \A k \in Phi : k # i => pc'[k] = pc[k]
    BY <1>1 DEF SemaInv, SemaTypeInv
  <2>4. ASSUME NEW k \in Phi
        PROVE  SemaPlaceInv(k)'
    <3>1. SemaPlaceInv(k) /\ At(k)' = At(k) /\ (k # i => pc'[k] = pc[k])
      BY <1>5, <2>3 DEF SemaInv
    <3>2. sem'[S(k)] = sem[S(k)] /\ state' = state
      BY <1>1
    <3> QED
      BY <2>2, <3>1, <3>2 DEF SemaPlaceInv
  <2> QED
    BY <2>4
<1>9. SemaForkInv'
  <2>1. \A k \in Phi : pc[k] = "put_right" => pc'[k] = "put_right"
    BY <1>1 DEF SemaInv, SemaTypeInv
  <2> QED
    BY <1>1, <2>1, Ring DEF SemaInv, SemaForkInv
<1> QED
  BY <1>4, <1>7, <1>8, <1>9 DEF SemaInv

-----------------------------------------------------------------------------

(* In every state of the solution with semaphores the mutex has at most    *)
(* one holder, state_sema and s[i] agree with where philosopher i is, and  *)
(* a hungry philosopher has a neighbour who will look after it.            *)
LEMMA SemaInvariant ==
    /\ Init_sema => SemaInv
    /\ SemaInv /\ (UNCHANGED vars_sema \/ \E i \in Phi : Step_sema(i)) => SemaInv'
<1>1. Init_sema => SemaInv
  <2> SUFFICES ASSUME Init_sema
               PROVE  SemaInv
    OBVIOUS
  <2>1. /\ state = [i \in Phi |-> "THINKING"] /\ pc = [i \in Phi |-> "think"]
        /\ ret = [i \in Phi |-> "think"] /\ iter = [i \in Phi |-> 0]
    BY DEF Init_sema
  <2>2. /\ sem \in [SemNames_sema -> SemRec(Phi)]
        /\ sem[MUTEX].value = 1 /\ sem[MUTEX].wait_queue = <<>>
        /\ \A i \in Phi : sem[S(i)].value = 0 /\ sem[S(i)].wait_queue = <<>>
    BY SemaNames DEF Init_sema, sem_init, SemRec
  <2>3. SemaTypeInv
    BY <2>1, <2>2 DEF SemaTypeInv, SemaLabels
  <2>4. \A i \in Phi : ~Queued(i) /\ At(i) = "think"
    BY <2>1, <2>2 DEF Queued, SleepsIn, At
  <2>5. MutexInv
    BY <2>1, <2>2, <2>4 DEF MutexInv, Holds, Critical
  <2>6. \A i \in Phi : SemaPlaceInv(i)
    BY <2>1, <2>2, <2>4 DEF SemaPlaceInv
  <2>7. SemaForkInv
    BY <2>1, Ring DEF SemaForkInv
  <2> QED
    BY <2>3, <2>5, <2>6, <2>7 DEF SemaInv
<1>2. SemaInv /\ (UNCHANGED vars_sema \/ \E i \in Phi : Step_sema(i)) => SemaInv'
  <2> SUFFICES ASSUME SemaInv, UNCHANGED vars_sema \/ \E i \in Phi : Step_sema(i)
               PROVE  SemaInv'
    OBVIOUS
  <2>1. ASSUME NEW i \in Phi, Step_sema(i)
        PROVE  SemaInv'
    BY <2>1, SemaTakeEnter, TakeTest, SemaTakeLeave, TakeWait, SemaPutEnter, PutLeft, PutRight,
       SemaPutLeave, SemaDownEnd DEF Step_sema
  <2>2. CASE UNCHANGED vars_sema
    BY <2>2 DEF vars_sema, SemaInv, SemaTypeInv, MutexInv, SemaPlaceInv, SemaForkInv, Holds, Queued, At
  <2> QED
    BY <2>1, <2>2
<1> QED
  BY <1>1, <1>2

(* What Label says of a philosopher that is not asleep. *)
LEMMA LabelIs ==
    ASSUME SemaInv, NEW i \in Phi
    PROVE  /\ Label(i) \in SemaLabels => Label(i) = At(i)
           /\ Label(i) = "eat" => sem[S(i)].wait_queue = <<>>
<1>1. pc[i] = "down" /\ ~Asleep(i) => ~SleepsIn(sem[S(i)], i)
  BY SemaNames DEF Asleep, SemaInv, SemaTypeInv
<1>2. sem[S(i)].wait_queue = <<i>> => SleepsIn(sem[S(i)], i)
  BY DEF SleepsIn
<1>3. "down" \notin SemaLabels
  BY DEF SemaLabels
<1> QED
  BY <1>1, <1>2, <1>3 DEF SemaInv, SemaPlaceInv, Label, At

(* With semaphores, neighbours never eat together, whatever the number of  *)
(* philosophers: neither their states say so nor are both past             *)
(* phi_take_forks_sema.                                                    *)
LEMMA SemaNeighboursExclude == SemaInv => NeighboursExclude
<1>1. SemaInv => NeighboursExclude
  <2> SUFFICES ASSUME SemaInv, NEW i \in Phi
               PROVE  /\ ~(state[i] = "EATING" /\ state[RIGHT(i)] = "EATING")
                      /\ ~(Label(i) = "eat" /\ Label(RIGHT(i)) = "eat")
                      /\ Label(i) = "eat" => state[i] = "EATING"
    BY DEF NeighboursExclude
  <2>1. ASSUME NEW k \in Phi, Label(k) = "eat"
        PROVE  state[k] = "EATING"
    <3>1. At(k) = "eat" /\ sem[S(k)].wait_queue = <<>> /\ <<k>> # <<>>
      BY <2>1, LabelIs DEF SemaLabels
    <3> QED
      BY <3>1 DEF SemaInv, SemaTypeInv, SemaPlaceInv
  <2>2. ~(state[i] = "EATING" /\ state[RIGHT(i)] = "EATING")
    BY DEF SemaInv, SemaForkInv
  <2> QED
    BY <2>1, <2>2, Ring
<1> QED
  BY <1>1

(* With semaphores, no right to eat is lost between up(&mutex) and         *)
(* down(&s[i]): it is in s[i] when philosopher i comes to take it, and a   *)
(* philosopher that sleeps on s[i] is hungry beside one who eats.          *)
LEMMA SemaRightIsKept == SemaInv => RightIsKept
<1>1. SemaInv => RightIsKept
  <2> SUFFICES ASSUME SemaInv, NEW i \in Phi
               PROVE  /\ Label(i) \in {"take_leave", "take_wait"} =>
                            (state[i] = "EATING" <=> sem[S(i)].value = 1)
                      /\ SleepsIn(sem[S(i)], i) /\ sem[MUTEX].value = 1 =>
                            /\ state[i] = "HUNGRY"
                            /\ "EATING" \in {state[LEFT(i)], state[RIGHT(i)]}
    BY DEF RightIsKept
  <2>1. ASSUME Label(i) \in {"take_leave", "take_wait"}
        PROVE  state[i] = "EATING" <=> sem[S(i)].value = 1
    <3>1. At(i) \in {"take_leave", "take_wait"}
      BY <2>1, LabelIs DEF SemaLabels
    <3>2. sem[S(i)].value =
             IF At(i) \in {"take_leave", "take_wait"} /\ state[i] = "EATING" THEN 1 ELSE 0
      BY DEF SemaInv, SemaPlaceInv
    <3> QED
      BY <3>1, <3>2
  <2>2. ASSUME SleepsIn(sem[S(i)], i), sem[MUTEX].value = 1
        PROVE  state[i] = "HUNGRY" /\ "EATING" \in {state[LEFT(i)], state[RIGHT(i)]}
    <3>1. sem[S(i)].wait_queue # <<>>
      BY <2>2 DEF SleepsIn
    <3>2. state[i] = "HUNGRY"
      BY <3>1 DEF SemaInv, SemaPlaceInv
    <3>3. pc[LEFT(i)] # "put_right"
      <4>1. ~Holds(LEFT(i)) /\ ~Queued(LEFT(i))
        BY <2>2, Ring DEF SemaInv, MutexInv
      <4> QED
        BY <4>1 DEF Holds, At, Critical
    <3> QED
      BY <3>2, <3>3 DEF SemaInv, SemaForkInv
  <2> QED
    BY <2>1, <2>2
<1> QED
  BY <1>1

-----------------------------------------------------------------------------
(* The solution with the monitor *)

CondLabels == {"think", "take_test", "take_check", "take_leave", "eat", "put_left",
           "put_right", "put_leave", "quit", "signal_wait", "signal_end",
           "cond_down", "cond_end"}

CondTypeInv ==
    /\ state \in [Phi -> States]
    /\ sem \in [SemNames_condvar -> SemRec(Phi)]
    /\ pc \in [Phi -> CondLabels \cup {"down"}]
    /\ ret \in [Phi -> CondLabels]
    /\ iter \in [Phi -> Nat]
    /\ next_count \in Nat
    /\ count \in [Phi -> Nat]
    /\ after \in [Phi -> CondLabels]

(* A thread between the two sides of cond_signal. *)
Signals(i) == At(i) \in {"signal_wait", "signal_end"}

(* Philosopher i is in the monitor or was given it. *)
Has(i) ==
    \/ At(i) \in {"take_test", "put_left"} /\ ~Queued(i)
    \/ At(i) \in {"take_check", "take_leave", "put_right", "put_leave"}
    \/ At(i) \in {"cond_down", "cond_end"} /\ state[i] = "EATING"
    \/ At(i) = "signal_wait" /\ sem[NEXT].value = 1
    \/ At(i) = "signal_end" /\ sem[NEXT].wait_queue = <<>>

(* The monitor is with one thread or the mutex is free.  While a thread    *)
(* that signalled waits, the one it woke is on its way out.                *)
OwnerInv ==
    /\ sem[MUTEX].value \in {0, 1} /\ Distinct(sem[MUTEX].wait_queue)
    /\ sem[MUTEX].value = 1 => \A i \in Phi : ~Has(i) /\ ~Queued(i) /\ ~Signals(i)
    /\ sem[MUTEX].value = 0 => \E i \in Phi : Has(i)
    /\ \A i, j \in Phi : Has(i) /\ Has(j) => i = j
    /\ \A i, j \in Phi : Signals(i) /\ Has(j) /\ i # j =>
          At(j) \in {"cond_down", "cond_end", "take_leave"}
    /\ \A i \in Phi : pc[i] = "down" => ret[i] \in {"take_test", "put_left", "signal_end", "cond_end"}
    /\ \A i \in Phi : Queued(i) => pc[i] = "down" /\ ret[i] \in {"take_test", "put_left"}

(* At most one thread waits on `next'. *)
NextInv ==
    /\ \A i, j \in Phi : Signals(i) /\ Signals(j) => i = j
    /\ next_count = IF \E i \in Phi : Signals(i) THEN 1 ELSE 0
    /\ sem[NEXT].value \in {0, 1}
    /\ sem[NEXT].value = 1 => \E i \in Phi : At(i) = "signal_wait"
    /\ \/ sem[NEXT].wait_queue = <<>>
       \/ \E i \in Phi : sem[NEXT].wait_queue = <<i>> /\ pc[i] = "down" /\ ret[i] = "signal_end"
    /\ \A i \in Phi : Signals(i) => after[i] \in {"put_right", "put_leave"}

(* What state_condvar and cv[i] hold while philosopher i is at a label. *)
CondPlaceInv(i) ==
    /\ sem[CV(i)].value = IF At(i) = "cond_down" /\ state[i] = "EATING" THEN 1 ELSE 0
    /\ sem[CV(i)].wait_queue = IF At(i) = "cond_end" /\ state[i] = "HUNGRY" THEN <<i>> ELSE <<>>
    /\ sem[CV(i)].wait_queue # <<>> => pc[i] = "down"
    /\ count[i] = IF At(i) \in {"cond_down", "cond_end"} THEN 1 ELSE 0
    /\ state[i] = "THINKING" <=>
          At(i) \in {"think", "quit", "take_test", "put_right", "put_leave", "signal_wait", "signal_end"}
    /\ At(i) \in {"take_leave", "eat", "put_left"} => state[i] = "EATING"

CondForkInv == \A i \in Phi : ~(state[i] = "EATING" /\ state[RIGHT(i)] = "EATING")

CondInv ==
    CondTypeInv /\ OwnerInv /\ NextInv /\ (\A i \in Phi : CondPlaceInv(i)) /\ CondForkInv

-----------------------------------------------------------------------------
(* The names of the monitor *)

(* The mutex, next and the condition variables are all different           *)
(* semaphores.                                                             *)
LEMMA CondNames ==
    /\ MUTEX \in SemNames_condvar /\ NEXT \in SemNames_condvar /\ MUTEX # NEXT
    /\ \A i \in Phi : CV(i) \in SemNames_condvar /\ CV(i) # MUTEX /\ CV(i) # NEXT
    /\ \A i, j \in Phi : CV(i) = CV(j) => i = j
<1>1. MUTEX # NEXT
  BY DEF MUTEX, NEXT
<1> QED
  BY <1>1 DEF MUTEX, NEXT, CV, SemNames_condvar

(* Philosopher i goes to label l, and the others stay where they are. *)
CondMoves(i, l) ==
    /\ At(i)' = l
    /\ \A j \in Phi : j # i => At(j)' = At(j) /\ pc'[j] = pc[j]

(* A philosopher whom a step does not concern. *)
LEMMA CondPlaceFrame ==
    ASSUME NEW k \in Phi, CondPlaceInv(k),
           At(k)' = At(k), pc'[k] = pc[k], state'[k] = state[k],
           sem'[CV(k)] = sem[CV(k)], count'[k] = count[k]
    PROVE  CondPlaceInv(k)'
BY DEF CondPlaceInv

(* What the invariant says of a thread that is in no down. *)
LEMMA Awake ==
    ASSUME CondInv, NEW i \in Phi, pc[i] # "down"
    PROVE  /\ At(i) = pc[i] /\ ~Queued(i) /\ pc[i] \in CondLabels
           /\ sem[CV(i)].wait_queue = <<>>
           /\ Signals(i) => sem[NEXT].wait_queue = <<>>
<1>1. At(i) = pc[i] /\ ~Queued(i) /\ pc[i] \in CondLabels /\ sem[CV(i)].wait_queue = <<>>
  BY DEF CondInv, CondTypeInv, OwnerInv, CondPlaceInv, At
<1>2. ASSUME Signals(i), sem[NEXT].wait_queue # <<>>
      PROVE  FALSE
  <2>1. PICK k \in Phi : pc[k] = "down" /\ ret[k] = "signal_end"
    BY <1>2 DEF CondInv, NextInv
  <2>2. Signals(k)
    BY <2>1 DEF Signals, At
  <2> QED
    BY <1>2, <2>1, <2>2 DEF CondInv, NextInv
<1> QED
  BY <1>1, <1>2

-----------------------------------------------------------------------------
(* Into the monitor *)

(* A philosopher asks for the monitor: he gets it or sleeps in its queue. *)
LEMMA CondMutexDown ==
    ASSUME CondInv, NEW i \in Phi, NEW l \in {"take_test", "put_left"},
           pc[i] \in {"think", "eat"},
           down(i, MUTEX, l), UNCHANGED <<state, iter, next_count, count, after>>
    PROVE  /\ CondTypeInv' /\ OwnerInv' /\ NextInv'
           /\ CondMoves(i, l)
           /\ \A j \in Phi : sem'[CV(j)] = sem[CV(j)]
<1> DEFINE m == sem[MUTEX]
<1>1. /\ m \in SemRec(Phi) /\ m.value \in {0, 1} /\ pc[i] # "down" /\ l \in CondLabels /\ l # "down"
  BY CondNames DEF CondInv, CondTypeInv, OwnerInv, CondLabels
<1>2. At(i) = pc[i] /\ ~Queued(i) /\ ~Has(i) /\ ~Signals(i)
  BY <1>1, Awake DEF Has, Signals
<1>3. CASE m.value = 1
  <2>1. /\ sem' = [sem EXCEPT ![MUTEX] = sem_take(m)] /\ pc' = [pc EXCEPT ![i] = l] /\ ret' = ret
    BY <1>3 DEF down
  <2>2. /\ sem'[MUTEX] \in SemRec(Phi) /\ sem'[MUTEX].value = 0
        /\ sem'[MUTEX].wait_queue = m.wait_queue
        /\ sem'[NEXT] = sem[NEXT]
        /\ \A j \in Phi : sem'[CV(j)] = sem[CV(j)]
        /\ sem' \in [SemNames_condvar -> SemRec(Phi)]
    BY <1>1, <1>3, <2>1, SemTake, CondNames DEF CondInv, CondTypeInv
  <2>3. CondTypeInv'
    BY <1>1, <2>1, <2>2 DEF CondInv, CondTypeInv
  <2>4. CondMoves(i, l)
    BY <1>1, <2>1 DEF CondInv, CondTypeInv, CondMoves, At
  <2>5. \A j \in Phi : Queued(j)' <=> Queued(j)
    BY <2>2 DEF Queued, SleepsIn
  <2>6. \A j \in Phi : ~Has(j) /\ ~Queued(j) /\ ~Signals(j)
    BY <1>3 DEF CondInv, OwnerInv
  <2>7. \A j \in Phi : (Has(j)' <=> j = i) /\ ~Signals(j)'
    BY <2>2, <2>4, <2>5, <2>6 DEF Has, Signals, CondMoves
  <2>8. OwnerInv'
    <3>1. \A j \in Phi : pc'[j] = "down" => ret'[j] \in {"take_test", "put_left", "signal_end", "cond_end"}
      BY <1>1, <2>1 DEF CondInv, CondTypeInv, OwnerInv
    <3> QED
      BY <2>2, <2>5, <2>6, <2>7, <3>1 DEF CondInv, OwnerInv
  <2>9. NextInv'
    <3>1. sem[NEXT].value = 0 /\ sem[NEXT].wait_queue = <<>> /\ next_count = 0
      BY <2>6 DEF CondInv, NextInv, Signals, At
    <3> QED
      BY <2>2, <2>7, <3>1 DEF NextInv
  <2> QED
    BY <2>2, <2>3, <2>4, <2>8, <2>9
<1>4. CASE m.value = 0
  <2>1. /\ sem' = [sem EXCEPT ![MUTEX] = sem_wait(m, i)]
        /\ pc' = [pc EXCEPT ![i] = "down"] /\ ret' = [ret EXCEPT ![i] = l]
    BY <1>4 DEF down
  <2>2. /\ sem'[MUTEX] \in SemRec(Phi) /\ sem'[MUTEX].value = 0
        /\ \A x : SleepsIn(sem'[MUTEX], x) <=> SleepsIn(m, x) \/ x = i
        /\ sem'[NEXT] = sem[NEXT]
        /\ \A j \in Phi : sem'[CV(j)] = sem[CV(j)]
        /\ sem' \in [SemNames_condvar -> SemRec(Phi)]
    BY <1>1, <1>4, <2>1, SemWait, CondNames DEF CondInv, CondTypeInv
  <2>3. CondTypeInv'
    BY <1>1, <2>1, <2>2 DEF CondInv, CondTypeInv
  <2>4. CondMoves(i, l)
    BY <1>1, <2>1 DEF CondInv, CondTypeInv, CondMoves, At
  <2>5. \A j \in Phi : Queued(j)' <=> Queued(j) \/ j = i
    BY <2>2 DEF Queued
  <2>6. \A j \in Phi : (Has(j)' <=> Has(j)) /\ (Signals(j)' <=> Signals(j))
    BY <1>2, <2>2, <2>4, <2>5 DEF Has, Signals, CondMoves
  <2>7. /\ \A j \in Phi : pc'[j] = "down" => ret'[j] \in {"take_test", "put_left", "signal_end", "cond_end"}
        /\ \A j \in Phi : Queued(j)' => pc'[j] = "down" /\ ret'[j] \in {"take_test", "put_left"}
        /\ Distinct(sem'[MUTEX].wait_queue)
    <3>1. Distinct(sem_wait(m, i).wait_queue)
      BY <1>1, <1>2, SemDistinct DEF CondInv, OwnerInv, Queued
    <3>2. sem'[MUTEX] = sem_wait(m, i)
      BY <2>1, CondNames DEF CondInv, CondTypeInv
    <3> QED
      BY <2>1, <2>5, <3>1, <3>2 DEF CondInv, CondTypeInv, OwnerInv
  <2>8. OwnerInv'
    <3>1. \A j, k \in Phi : Signals(j)' /\ Has(k)' /\ j # k =>
             At(k)' \in {"cond_down", "cond_end", "take_leave"}
      BY <1>2, <2>4, <2>6 DEF CondInv, OwnerInv, CondMoves
    <3> QED
      BY <1>4, <2>2, <2>6, <2>7, <3>1 DEF CondInv, OwnerInv
  <2>9. NextInv'
    <3>1. \A k \in Phi : pc[k] = "down" => k # i /\ pc'[k] = pc[k] /\ ret'[k] = ret[k]
      BY <1>1, <2>1 DEF CondInv, CondTypeInv
    <3>2. \A k \in Phi : At(k) = "signal_wait" => At(k)' = "signal_wait"
      BY <1>2, <2>4 DEF CondMoves, Signals
    <3> QED
      BY <2>2, <2>6, <3>1, <3>2 DEF CondInv, NextInv
  <2> QED
    BY <2>2, <2>3, <2>4, <2>8, <2>9
<1> QED
  BY <1>1, <1>3, <1>4

-----------------------------------------------------------------------------
(* Out of the monitor *)

(* The owner leaves the monitor: a signaller in next has it first, then    *)
(* whoever waits to enter.                                                 *)
LEMMA MonitorUp ==
    ASSUME CondInv, NEW i \in Phi, NEW l \in {"think", "quit", "eat", "cond_down"},
           pc[i] \in {"take_check", "take_leave", "put_leave"},
           l = "cond_down" => state[i] # "EATING",
           up(i, who_is_next, l), UNCHANGED <<state, next_count, after>>,
           iter' \in [Phi -> Nat], count' \in [Phi -> Nat]
    PROVE  /\ CondTypeInv' /\ OwnerInv' /\ NextInv'
           /\ CondMoves(i, l)
           /\ \A j \in Phi : sem'[CV(j)] = sem[CV(j)]
<1> DEFINE m == sem[MUTEX]
           n == sem[NEXT]
<1>1. /\ m \in SemRec(Phi) /\ n \in SemRec(Phi)
      /\ pc[i] # "down" /\ l \in CondLabels /\ l # "down"
  BY CondNames DEF CondInv, CondTypeInv, CondLabels
<1>2. At(i) = pc[i] /\ ~Queued(i) /\ Has(i) /\ ~Signals(i)
  BY <1>1, Awake DEF Has, Signals
<1>3. m.value = 0
  BY <1>2 DEF CondInv, OwnerInv
<1>4. pc' = [pc EXCEPT ![i] = l] /\ ret' = ret
  BY DEF up
<1>5. CondMoves(i, l)
  BY <1>1, <1>4 DEF CondInv, CondTypeInv, CondMoves, At
<1>6. \A j \in Phi : Signals(j)' <=> Signals(j)
  BY <1>2, <1>5 DEF Signals, CondMoves
<1>7. \A j \in Phi : pc'[j] = "down" => ret'[j] \in {"take_test", "put_left", "signal_end", "cond_end"}
  BY <1>1, <1>4 DEF CondInv, CondTypeInv, OwnerInv
<1>8. CASE next_count = 0
  <2>1. \A j \in Phi : ~Signals(j)
    BY <1>8 DEF CondInv, NextInv
  <2>2. sem' = [sem EXCEPT ![MUTEX] = sem_up(m)]
    BY <1>8 DEF up, who_is_next
  <2>3. /\ sem'[MUTEX] = sem_up(m) /\ sem'[MUTEX] \in SemRec(Phi)
        /\ sem'[NEXT] = sem[NEXT]
        /\ \A j \in Phi : sem'[CV(j)] = sem[CV(j)]
        /\ sem' \in [SemNames_condvar -> SemRec(Phi)]
    BY <1>1, <2>2, SemUp, CondNames DEF CondInv, CondTypeInv
  <2>4. CondTypeInv'
    BY <1>1, <1>4, <2>3 DEF CondInv, CondTypeInv
  <2>5. \A j \in Phi : Queued(j)' => Queued(j)
    BY <1>1, <2>3, SemUp DEF Queued
  <2>6. \A j \in Phi : Has(j)' <=> Queued(j) /\ ~Queued(j)'
    <3>1. ~Has(i)'
      BY <1>5, <2>1 DEF Has, CondMoves
    <3>2. ASSUME NEW j \in Phi, j # i
          PROVE  Has(j)' <=> Queued(j) /\ ~Queued(j)'
      <4>1. ~Has(j) /\ ~Signals(j) /\ At(j)' = At(j)
        BY <1>2, <1>5, <2>1, <3>2 DEF CondInv, OwnerInv, CondMoves
      <4>2. Queued(j) => At(j) \in {"take_test", "put_left"}
        BY DEF CondInv, OwnerInv, At
      <4> QED
        BY <2>3, <4>1, <4>2 DEF Has, Signals
    <3> QED
      BY <1>2, <3>1, <3>2
  <2>7. \A j, k \in Phi : Has(j)' /\ Has(k)' => j = k
    BY <1>1, <2>3, <2>6, SemUp DEF Queued
  <2>8. /\ \A j \in Phi : Queued(j)' => pc'[j] = "down" /\ ret'[j] \in {"take_test", "put_left"}
        /\ Distinct(sem'[MUTEX].wait_queue)
    <3>1. Distinct(sem'[MUTEX].wait_queue)
      BY <1>1, <2>3, SemDistinct DEF CondInv, OwnerInv
    <3> QED
      BY <1>2, <1>4, <2>5, <3>1 DEF CondInv, CondTypeInv, OwnerInv
  <2>9. NextInv'
    <3>1. n.value = 0 /\ n.wait_queue = <<>>
      BY <2>1 DEF CondInv, NextInv, Signals, At
    <3> QED
      BY <1>6, <1>8, <2>1, <2>3, <3>1 DEF NextInv
  <2>10. CASE m.wait_queue = <<>>
    <3>1. sem'[MUTEX].value = 1
      BY <1>1, <1>3, <2>3, <2>10, SemUp
    <3>2. \A j \in Phi : ~Queued(j)
      BY <2>10 DEF Queued, SleepsIn
    <3>3. OwnerInv'
      BY <1>6, <1>7, <2>1, <2>5, <2>6, <2>8, <3>1, <3>2 DEF OwnerInv
    <3> QED
      BY <1>5, <2>3, <2>4, <2>9, <3>3
  <2>11. CASE m.wait_queue # <<>>
    <3>1. sem'[MUTEX].value = 0
      BY <1>1, <1>3, <2>3, <2>11, SemUp
    <3>2. \E j \in Phi : Queued(j) /\ ~Queued(j)'
      <4>1. m.wait_queue \in Seq(Phi) /\ 1 \in DOMAIN m.wait_queue
        BY <1>1, <2>11 DEF SemRec
      <4>2. PICK h \in Phi : h = m.wait_queue[1]
        BY <4>1
      <4>3. Queued(h)
        BY <4>1, <4>2 DEF Queued, SleepsIn
      <4>4. ~SleepsIn(sem_up(m), h)
        BY <1>1, <2>11, <4>2, SemDistinct DEF CondInv, OwnerInv
      <4>5. ~Queued(h)'
        BY <2>3, <4>4 DEF Queued
      <4> QED
        BY <4>3, <4>5
    <3>3. OwnerInv'
      BY <1>6, <1>7, <2>1, <2>6, <2>7, <2>8, <3>1, <3>2 DEF OwnerInv
    <3> QED
      BY <1>5, <2>3, <2>4, <2>9, <3>3
  <2> QED
    BY <2>10, <2>11
<1>9. CASE next_count # 0
  <2>1. PICK k \in Phi : Signals(k)
    BY <1>9 DEF CondInv, NextInv
  <2>2. k # i /\ ~Has(k) /\ next_count = 1 /\ \A j \in Phi : Signals(j) <=> j = k
    BY <1>2, <2>1 DEF CondInv, OwnerInv, NextInv
  <2>3. sem' = [sem EXCEPT ![NEXT] = sem_up(n)]
    BY <2>2 DEF up, who_is_next
  <2>4. /\ sem'[NEXT] = sem_up(n) /\ sem'[NEXT] \in SemRec(Phi)
        /\ sem'[MUTEX] = sem[MUTEX]
        /\ \A j \in Phi : sem'[CV(j)] = sem[CV(j)]
        /\ sem' \in [SemNames_condvar -> SemRec(Phi)]
    BY <1>1, <2>3, SemUp, CondNames DEF CondInv, CondTypeInv
  <2>5. CondTypeInv'
    BY <1>1, <1>4, <2>4 DEF CondInv, CondTypeInv
  <2>6. \A j \in Phi : Queued(j)' <=> Queued(j)
    BY <2>4 DEF Queued
  <2>7. \A j \in Phi : Queued(j)' => pc'[j] = "down" /\ ret'[j] \in {"take_test", "put_left"}
    BY <1>2, <1>4, <2>6 DEF CondInv, CondTypeInv, OwnerInv
  <2>8. sem'[NEXT].wait_queue = <<>> /\ sem'[NEXT].value = IF At(k) = "signal_wait" THEN 1 ELSE 0
    <3>1. CASE At(k) = "signal_wait"
      <4>1. n.value = 0
        BY <2>2, <3>1 DEF CondInv, NextInv, Has
      <4>2. n.wait_queue = <<>>
        <5>1. pc[k] # "down"
          BY <3>1 DEF CondInv, OwnerInv, At
        <5> QED
          BY <2>1, <5>1, Awake
      <4> QED
        BY <1>1, <2>4, <3>1, <4>1, <4>2, SemUp
    <3>2. CASE At(k) = "signal_end"
      <4>1. n.wait_queue # <<>>
        BY <2>2, <3>2 DEF Has
      <4>2. n.wait_queue = <<k>>
        <5>1. PICK j \in Phi : n.wait_queue = <<j>> /\ pc[j] = "down" /\ ret[j] = "signal_end"
          BY <4>1 DEF CondInv, NextInv
        <5>2. Signals(j)
          BY <5>1 DEF Signals, At
        <5> QED
          BY <2>2, <5>1, <5>2
      <4>3. n.value = 0
        <5>1. \A j \in Phi : At(j) # "signal_wait"
          BY <2>2, <3>2 DEF Signals
        <5> QED
          BY <5>1 DEF CondInv, NextInv
      <4>4. Tail(<<k>>) = <<>>
        OBVIOUS
      <4> QED
        BY <1>1, <2>4, <3>2, <4>1, <4>2, <4>3, <4>4, SemUp
    <3> QED
      BY <2>1, <3>1, <3>2 DEF Signals
  <2>9. \A j \in Phi : Has(j)' <=> j = k
    <3>1. At(k)' = At(k) /\ At(k) \in {"signal_wait", "signal_end"}
      BY <1>5, <2>1, <2>2 DEF CondMoves, Signals
    <3>2. Has(k)'
      BY <2>8, <3>1 DEF Has
    <3>3. ~Has(i)'
      BY <1>5 DEF Has, CondMoves
    <3>4. ASSUME NEW j \in Phi, j # i, j # k
          PROVE  ~Has(j)'
      <4>1. ~Has(j) /\ ~Signals(j) /\ At(j)' = At(j)
        BY <1>2, <1>5, <2>2, <3>4 DEF CondInv, OwnerInv, CondMoves
      <4> QED
        BY <2>6, <4>1 DEF Has, Signals
    <3> QED
      BY <3>2, <3>3, <3>4
  <2>10. OwnerInv'
    BY <1>3, <1>6, <1>7, <2>2, <2>4, <2>7, <2>9 DEF CondInv, OwnerInv
  <2>11. NextInv'
    <3>1. At(k)' = At(k)
      BY <1>5, <2>2 DEF CondMoves
    <3> QED
      BY <1>6, <2>2, <2>8, <3>1 DEF CondInv, NextInv
  <2> QED
    BY <1>5, <2>4, <2>5, <2>10, <2>11
<1> QED
  BY <1>8, <1>9

-----------------------------------------------------------------------------
(* The threads that signal and those that wait *)

(* cond_signal, which hands the monitor to the waiter and sleeps in next,  *)
(* keeps the invariant.                                                    *)
LEMMA SignalWait ==
    ASSUME CondInv, NEW i \in Phi, signal_wait(i)
    PROVE  CondInv'
<1> DEFINE n == sem[NEXT]
<1>1. /\ pc[i] = "signal_wait" /\ down(i, NEXT, "signal_end")
      /\ UNCHANGED <<state, iter, next_count, count, after>>
  BY DEF signal_wait
<1>2. n \in SemRec(Phi) /\ n.value \in {0, 1} /\ "signal_end" \in CondLabels
  BY CondNames DEF CondInv, CondTypeInv, NextInv, CondLabels
<1>3. At(i) = "signal_wait" /\ ~Queued(i) /\ Signals(i) /\ n.wait_queue = <<>>
  BY <1>1, Awake DEF Signals, At
<1>4. /\ sem' = [sem EXCEPT ![NEXT] = IF n.value = 1 THEN sem_take(n) ELSE sem_wait(n, i)]
      /\ pc' = [pc EXCEPT ![i] = IF n.value = 1 THEN "signal_end" ELSE "down"]
      /\ ret' = IF n.value = 1 THEN ret ELSE [ret EXCEPT ![i] = "signal_end"]
  BY <1>1, <1>2 DEF down
<1>5. /\ sem'[NEXT] \in SemRec(Phi) /\ sem'[NEXT].value = 0
      /\ sem'[NEXT].wait_queue = IF n.value = 1 THEN <<>> ELSE <<i>>
      /\ sem'[NEXT] = IF n.value = 1 THEN sem_take(n) ELSE sem_wait(n, i)
  <2>1. CASE n.value = 1
    BY <1>2, <1>3, <1>4, <2>1, CondNames, SemTake DEF CondInv, CondTypeInv
  <2>2. CASE n.value = 0
    <3>1. Append(<<>>, i) = <<i>>
      OBVIOUS
    <3> QED
      BY <1>2, <1>3, <1>4, <2>2, <3>1, CondNames, SemWait DEF CondInv, CondTypeInv
  <2> QED
    BY <1>2, <2>1, <2>2
<1>6. /\ sem' \in [SemNames_condvar -> SemRec(Phi)] /\ sem'[MUTEX] = sem[MUTEX]
      /\ \A k \in Phi : sem'[CV(k)] = sem[CV(k)]
  BY <1>4, <1>5, CondNames DEF CondInv, CondTypeInv
<1>7. CondTypeInv'
  BY <1>1, <1>2, <1>4, <1>6 DEF CondInv, CondTypeInv
<1>8. CondMoves(i, "signal_end") /\ pc'[i] = IF n.value = 1 THEN "signal_end" ELSE "down"
  BY <1>1, <1>4 DEF CondInv, CondTypeInv, CondMoves, At
<1>9. \A k \in Phi : (Signals(k)' <=> Signals(k)) /\ (Queued(k)' <=> Queued(k))
  BY <1>3, <1>6, <1>8 DEF Signals, CondMoves, Queued
<1>10. \A k \in Phi : Has(k)' <=> Has(k)
  <2>1. <<i>> # <<>>
    OBVIOUS
  <2>2. Has(i)' <=> Has(i)
    BY <1>2, <1>3, <1>5, <1>8, <2>1 DEF Has, CondMoves
  <2>3. ASSUME NEW k \in Phi, k # i
        PROVE  Has(k)' <=> Has(k)
    <3>1. ~Signals(k) /\ At(k)' = At(k)
      BY <1>3, <1>8, <2>3 DEF CondInv, NextInv, CondMoves
    <3> QED
      BY <1>1, <1>9, <3>1 DEF Has, Signals
  <2> QED
    BY <2>2, <2>3
<1>11. OwnerInv'
  <2>1. \A j, k \in Phi : Signals(j)' /\ Has(k)' /\ j # k =>
           At(k)' \in {"cond_down", "cond_end", "take_leave"}
    BY <1>3, <1>8, <1>9, <1>10 DEF CondInv, OwnerInv, NextInv, CondMoves
  <2>2. /\ \A j \in Phi : pc'[j] = "down" => ret'[j] \in {"take_test", "put_left", "signal_end", "cond_end"}
        /\ \A j \in Phi : Queued(j)' => pc'[j] = "down" /\ ret'[j] \in {"take_test", "put_left"}
    BY <1>3, <1>4, <1>9 DEF CondInv, CondTypeInv, OwnerInv
  <2> QED
    BY <1>6, <1>9, <1>10, <2>1, <2>2 DEF CondInv, OwnerInv
<1>12. NextInv'
  <2>1. n.value = 0 => pc'[i] = "down" /\ ret'[i] = "signal_end"
    BY <1>4 DEF CondInv, CondTypeInv
  <2> QED
    BY <1>1, <1>2, <1>5, <1>9, <2>1 DEF CondInv, NextInv
<1>13. \A k \in Phi : CondPlaceInv(k)'
  <2>1. \A k \in Phi : k # i => CondPlaceInv(k)'
    BY <1>1, <1>6, <1>8, CondPlaceFrame DEF CondInv, CondMoves
  <2>2. CondPlaceInv(i)'
    BY <1>1, <1>3, <1>6, <1>8 DEF CondInv, CondPlaceInv, CondMoves
  <2> QED
    BY <2>1, <2>2
<1>14. CondForkInv'
  BY <1>1 DEF CondInv, CondForkInv
<1> QED
  BY <1>7, <1>11, <1>12, <1>13, <1>14 DEF CondInv

(* cond_signal, after it has the monitor again, keeps the invariant. *)
LEMMA SignalEnd ==
    ASSUME CondInv, NEW i \in Phi, signal_end(i)
    PROVE  CondInv'
<1>1. /\ pc[i] = "signal_end" /\ next_count' = next_count - 1
      /\ pc' = [pc EXCEPT ![i] = after[i]]
      /\ UNCHANGED <<state, sem, ret, iter, count, after>>
  BY DEF signal_end
<1>2. At(i) = "signal_end" /\ ~Queued(i) /\ Signals(i) /\ sem[NEXT].wait_queue = <<>>
  BY <1>1, Awake DEF Signals, At
<1>3. /\ Has(i) /\ after[i] \in {"put_right", "put_leave"} /\ next_count = 1
      /\ \A k \in Phi : Signals(k) <=> k = i
  BY <1>2 DEF CondInv, NextInv, Has
<1>4. after[i] \in CondLabels /\ after[i] # "down"
  BY <1>3 DEF CondLabels
<1>5. CondTypeInv'
  BY <1>1, <1>3, <1>4 DEF CondInv, CondTypeInv
<1>6. CondMoves(i, after[i])
  BY <1>1, <1>3, <1>4 DEF CondInv, CondTypeInv, CondMoves, At
<1>7. \A k \in Phi : ~Signals(k)' /\ (Queued(k)' <=> Queued(k))
  BY <1>1, <1>3, <1>6 DEF Signals, CondMoves, Queued
<1>8. \A k \in Phi : Has(k)' <=> k = i
  <2>1. Has(i)'
    BY <1>3, <1>6 DEF Has, CondMoves
  <2>2. ASSUME NEW k \in Phi, k # i
        PROVE  ~Has(k)'
    <3>1. ~Has(k) /\ At(k)' = At(k)
      BY <1>3, <1>6, <2>2 DEF CondInv, OwnerInv, CondMoves
    <3> QED
      BY <1>1, <1>7, <3>1 DEF Has
  <2> QED
    BY <2>1, <2>2
<1>9. OwnerInv'
  <2>1. sem[MUTEX].value = 0
    BY <1>3 DEF CondInv, OwnerInv
  <2>2. /\ \A j \in Phi : pc'[j] = "down" => ret'[j] \in {"take_test", "put_left", "signal_end", "cond_end"}
        /\ \A j \in Phi : Queued(j)' => pc'[j] = "down" /\ ret'[j] \in {"take_test", "put_left"}
    BY <1>1, <1>2, <1>4, <1>7 DEF CondInv, CondTypeInv, OwnerInv
  <2> QED
    BY <1>1, <1>7, <1>8, <2>1, <2>2 DEF CondInv, OwnerInv
<1>10. NextInv'
  <2>1. sem[NEXT].value = 0
    <3>1. \A k \in Phi : At(k) # "signal_wait"
      BY <1>2, <1>3 DEF Signals
    <3> QED
      BY <3>1 DEF CondInv, NextInv
  <2> QED
    BY <1>1, <1>2, <1>3, <1>7, <2>1 DEF NextInv
<1>11. \A k \in Phi : CondPlaceInv(k)'
  <2>1. \A k \in Phi : k # i => CondPlaceInv(k)'
    BY <1>1, <1>6, CondPlaceFrame DEF CondInv, CondMoves
  <2>2. CondPlaceInv(i)'
    BY <1>1, <1>2, <1>3, <1>6 DEF CondInv, CondPlaceInv, CondMoves
  <2> QED
    BY <2>1, <2>2
<1>12. CondForkInv'
  BY <1>1 DEF CondInv, CondForkInv
<1> QED
  BY <1>5, <1>9, <1>10, <1>11, <1>12 DEF CondInv

(* cond_wait, its down of the condition variable, keeps the invariant. *)
LEMMA CondDown ==
    ASSUME CondInv, NEW i \in Phi, cond_down(i)
    PROVE  CondInv'
<1> DEFINE s == sem[CV(i)]
           go == state[i] = "EATING"
<1>1. /\ pc[i] = "cond_down" /\ down(i, CV(i), "cond_end")
      /\ UNCHANGED <<state, iter, next_count, count, after>>
  BY DEF cond_down
<1>2. /\ At(i) = "cond_down" /\ ~Queued(i) /\ ~Signals(i) /\ s.wait_queue = <<>>
      /\ s \in SemRec(Phi) /\ "cond_end" \in CondLabels
  BY <1>1, Awake, CondNames DEF Signals, At, CondInv, CondTypeInv, CondLabels
<1>3. s.value = IF go THEN 1 ELSE 0
  BY <1>2 DEF CondInv, CondPlaceInv
<1>4. state[i] \in {"HUNGRY", "EATING"}
  BY <1>2 DEF CondInv, CondPlaceInv, CondTypeInv, States
<1>5. /\ sem' = [sem EXCEPT ![CV(i)] = IF go THEN sem_take(s) ELSE sem_wait(s, i)]
      /\ pc' = [pc EXCEPT ![i] = IF go THEN "cond_end" ELSE "down"]
      /\ ret' = IF go THEN ret ELSE [ret EXCEPT ![i] = "cond_end"]
  BY <1>1, <1>3 DEF down
<1>6. /\ sem'[CV(i)] \in SemRec(Phi) /\ sem'[CV(i)].value = 0
      /\ sem'[CV(i)].wait_queue = IF go THEN <<>> ELSE <<i>>
      /\ sem'[CV(i)] = IF go THEN sem_take(s) ELSE sem_wait(s, i)
  <2>1. CASE go
    BY <1>2, <1>3, <1>5, <2>1, CondNames, SemTake DEF CondInv, CondTypeInv
  <2>2. CASE ~go
    <3>1. Append(<<>>, i) = <<i>>
      OBVIOUS
    <3> QED
      BY <1>2, <1>3, <1>5, <2>2, <3>1, CondNames, SemWait DEF CondInv, CondTypeInv
  <2> QED
    BY <2>1, <2>2
<1>7. /\ sem' \in [SemNames_condvar -> SemRec(Phi)] /\ sem'[MUTEX] = sem[MUTEX] /\ sem'[NEXT] = sem[NEXT]
      /\ \A k \in Phi : k # i => sem'[CV(k)] = sem[CV(k)]
  BY <1>5, <1>6, CondNames DEF CondInv, CondTypeInv
<1>8. CondTypeInv'
  BY <1>1, <1>2, <1>5, <1>7 DEF CondInv, CondTypeInv
<1>9. CondMoves(i, "cond_end") /\ pc'[i] = IF go THEN "cond_end" ELSE "down"
  BY <1>1, <1>5 DEF CondInv, CondTypeInv, CondMoves, At
<1>10. \A k \in Phi : (Signals(k)' <=> Signals(k)) /\ (Queued(k)' <=> Queued(k))
  BY <1>2, <1>7, <1>9 DEF Signals, CondMoves, Queued
<1>11. \A k \in Phi : Has(k)' <=> Has(k)
  BY <1>1, <1>2, <1>7, <1>9, <1>10 DEF Has, CondMoves
<1>12. OwnerInv'
  <2>1. \A j, k \in Phi : Signals(j)' /\ Has(k)' /\ j # k =>
           At(k)' \in {"cond_down", "cond_end", "take_leave"}
    BY <1>2, <1>9, <1>10, <1>11 DEF CondInv, OwnerInv, CondMoves
  <2>2. /\ \A j \in Phi : pc'[j] = "down" => ret'[j] \in {"take_test", "put_left", "signal_end", "cond_end"}
        /\ \A j \in Phi : Queued(j)' => pc'[j] = "down" /\ ret'[j] \in {"take_test", "put_left"}
    BY <1>2, <1>5, <1>10 DEF CondInv, CondTypeInv, OwnerInv
  <2> QED
    BY <1>7, <1>10, <1>11, <2>1, <2>2 DEF CondInv, OwnerInv
<1>13. NextInv'
  <2>1. \A k \in Phi : pc[k] = "down" => pc'[k] = pc[k] /\ ret'[k] = ret[k]
    BY <1>1, <1>5 DEF CondInv, CondTypeInv
  <2>2. \A k \in Phi : At(k) = "signal_wait" => At(k)' = "signal_wait"
    BY <1>2, <1>9 DEF CondMoves
  <2> QED
    BY <1>1, <1>7, <1>10, <2>1, <2>2 DEF CondInv, NextInv
<1>14. \A k \in Phi : CondPlaceInv(k)'
  <2>1. \A k \in Phi : k # i => CondPlaceInv(k)'
    BY <1>1, <1>7, <1>9, CondPlaceFrame DEF CondInv, CondMoves
  <2>2. CondPlaceInv(i)'
    <3>1. At(i)' = "cond_end" /\ state'[i] = state[i] /\ count'[i] = count[i] /\ count[i] = 1
      BY <1>1, <1>2, <1>9 DEF CondInv, CondPlaceInv, CondMoves
    <3> QED
      BY <1>4, <1>6, <1>9, <3>1 DEF CondPlaceInv
  <2> QED
    BY <2>1, <2>2
<1>15. CondForkInv'
  BY <1>1 DEF CondInv, CondForkInv
<1> QED
  BY <1>8, <1>12, <1>13, <1>14, <1>15 DEF CondInv

(* cond_wait, after it was signalled, keeps the invariant. *)
LEMMA CondEnd ==
    ASSUME CondInv, NEW i \in Phi, cond_end(i)
    PROVE  CondInv'
<1>1. /\ pc[i] = "cond_end" /\ count' = [count EXCEPT ![i] = @ - 1]
      /\ pc' = [pc EXCEPT ![i] = "take_leave"]
      /\ UNCHANGED <<state, sem, ret, iter, next_count, after>>
  BY DEF cond_end
<1>2. At(i) = "cond_end" /\ ~Queued(i) /\ ~Signals(i) /\ sem[CV(i)].wait_queue = <<>>
  BY <1>1, Awake DEF Signals, At
<1>3. state[i] = "EATING" /\ count[i] = 1 /\ sem[CV(i)].value = 0
  <2>1. state[i] \in States /\ <<i>> # <<>>
    BY DEF CondInv, CondTypeInv
  <2> QED
    BY <1>2, <2>1 DEF CondInv, CondPlaceInv, States
<1>4. Has(i)
  BY <1>2, <1>3 DEF Has
<1>5. CondTypeInv'
  BY <1>1, <1>3 DEF CondInv, CondTypeInv, CondLabels
<1>6. CondMoves(i, "take_leave")
  BY <1>1 DEF CondInv, CondTypeInv, CondMoves, At
<1>7. \A k \in Phi : (Signals(k)' <=> Signals(k)) /\ (Queued(k)' <=> Queued(k))
  BY <1>1, <1>2, <1>6 DEF Signals, CondMoves, Queued
<1>8. \A k \in Phi : Has(k)' <=> Has(k)
  BY <1>1, <1>4, <1>6, <1>7 DEF Has, CondMoves
<1>9. OwnerInv'
  <2>1. \A j, k \in Phi : Signals(j)' /\ Has(k)' /\ j # k =>
           At(k)' \in {"cond_down", "cond_end", "take_leave"}
    BY <1>6, <1>7, <1>8 DEF CondInv, OwnerInv, CondMoves
  <2>2. /\ \A j \in Phi : pc'[j] = "down" => ret'[j] \in {"take_test", "put_left", "signal_end", "cond_end"}
        /\ \A j \in Phi : Queued(j)' => pc'[j] = "down" /\ ret'[j] \in {"take_test", "put_left"}
    BY <1>1, <1>2, <1>7 DEF CondInv, CondTypeInv, OwnerInv
  <2> QED
    BY <1>1, <1>7, <1>8, <2>1, <2>2 DEF CondInv, OwnerInv
<1>10. NextInv'
  <2>1. \A k \in Phi : pc[k] = "down" => pc'[k] = pc[k] /\ ret'[k] = ret[k]
    BY <1>1 DEF CondInv, CondTypeInv
  <2>2. \A k \in Phi : At(k) = "signal_wait" => At(k)' = "signal_wait"
    BY <1>2, <1>6 DEF CondMoves
  <2> QED
    BY <1>1, <1>7, <2>1, <2>2 DEF CondInv, NextInv
<1>11. \A k \in Phi : CondPlaceInv(k)'
  <2>1. \A k \in Phi : k # i => CondPlaceInv(k)'
    BY <1>1, <1>6, CondPlaceFrame DEF CondInv, CondTypeInv, CondMoves
  <2>2. CondPlaceInv(i)'
    <3>1. count'[i] = 0 /\ At(i)' = "take_leave"
      BY <1>1, <1>3, <1>6 DEF CondInv, CondTypeInv, CondMoves
    <3> QED
      BY <1>1, <1>2, <1>3, <3>1 DEF CondPlaceInv
  <2> QED
    BY <2>1, <2>2
<1>12. CondForkInv'
  BY <1>1 DEF CondInv, CondForkInv
<1> QED
  BY <1>5, <1>9, <1>10, <1>11, <1>12 DEF CondInv

(* A woken philosopher returns from down of the monitor: the invariant is  *)
(* kept.                                                                   *)
LEMMA CondDownEnd ==
    ASSUME CondInv, NEW i \in Phi, down_end(i), UNCHANGED <<next_count, count, after>>
    PROVE  CondInv'
<1>1. /\ pc[i] = "down" /\ ~Asleep(i) /\ pc' = [pc EXCEPT ![i] = ret[i]]
      /\ UNCHANGED <<state, sem, ret, iter, next_count, count, after>>
  BY DEF down_end
<1>2. ret[i] \in CondLabels /\ ret[i] # "down" /\ DOMAIN sem = SemNames_condvar
  BY DEF CondInv, CondTypeInv, CondLabels
<1>3. ~Queued(i) /\ ~SleepsIn(sem[NEXT], i) /\ ~SleepsIn(sem[CV(i)], i)
  BY <1>1, <1>2, CondNames DEF Asleep, Queued
<1>4. sem[NEXT].wait_queue # <<i>> /\ sem[CV(i)].wait_queue # <<i>>
  BY <1>3 DEF SleepsIn
<1>5. CondTypeInv'
  BY <1>1, <1>2 DEF CondInv, CondTypeInv
<1>6. \A k \in Phi : At(k)' = At(k) /\ (k # i => pc'[k] = pc[k])
  BY <1>1, <1>2 DEF CondInv, CondTypeInv, At
<1>7. \A k \in Phi : (Signals(k)' <=> Signals(k)) /\ (Queued(k)' <=> Queued(k)) /\ (Has(k)' <=> Has(k))
  BY <1>1, <1>6 DEF Signals, Queued, Has
<1>8. OwnerInv'
  <2>1. /\ \A j \in Phi : pc'[j] = "down" => ret'[j] \in {"take_test", "put_left", "signal_end", "cond_end"}
        /\ \A j \in Phi : Queued(j)' => pc'[j] = "down" /\ ret'[j] \in {"take_test", "put_left"}
    BY <1>1, <1>2, <1>3, <1>7 DEF CondInv, CondTypeInv, OwnerInv
  <2> QED
    BY <1>1, <1>6, <1>7, <2>1 DEF CondInv, OwnerInv
<1>9. NextInv'
  BY <1>1, <1>4, <1>6, <1>7 DEF CondInv, NextInv
<1>10. \A k \in Phi : CondPlaceInv(k)'
  <2>1. \A k \in Phi : k # i => CondPlaceInv(k)'
    BY <1>1, <1>6, CondPlaceFrame DEF CondInv
  <2>2. sem[CV(i)].wait_queue = <<>>
    BY <1>4 DEF CondInv, CondPlaceInv
  <2>3. CondPlaceInv(i)'
    BY <1>1, <1>6, <2>2 DEF CondInv, CondPlaceInv
  <2> QED
    BY <2>1, <2>3
<1>11. CondForkInv'
  BY <1>1 DEF CondInv, CondForkInv
<1> QED
  BY <1>5, <1>8, <1>9, <1>10, <1>11 DEF CondInv

-----------------------------------------------------------------------------
(* The other steps of the philosophers *)

(* A step that changes no state, and the place of philosopher i only. *)
LEMMA CondQuietStep ==
    ASSUME CondInv, NEW i \in Phi, NEW l,
           CondTypeInv', OwnerInv', NextInv', CondMoves(i, l), state' = state,
           \A j \in Phi : sem'[CV(j)] = sem[CV(j)],
           \A j \in Phi : j # i => count'[j] = count[j],
           CondPlaceInv(i)'
    PROVE  CondInv'
<1>1. \A k \in Phi : CondPlaceInv(k)'
  BY CondPlaceFrame DEF CondInv, CondMoves
<1>2. CondForkInv'
  BY DEF CondInv, CondForkInv
<1> QED
  BY <1>1, <1>2 DEF CondInv

(* phi_take_forks_condvar, entering the monitor, keeps the invariant. *)
LEMMA CondTakeEnter ==
    ASSUME CondInv, NEW i \in Phi, take_enter_condvar(i)
    PROVE  CondInv'
<1>1. /\ pc[i] = "think" /\ down(i, MUTEX, "take_test")
      /\ UNCHANGED <<state, iter, next_count, count, after>>
  BY DEF take_enter_condvar
<1>2. /\ CondTypeInv' /\ OwnerInv' /\ NextInv' /\ CondMoves(i, "take_test")
      /\ \A j \in Phi : sem'[CV(j)] = sem[CV(j)]
  BY <1>1, CondMutexDown
<1>3. CondPlaceInv(i)'
  BY <1>1, <1>2 DEF CondInv, CondPlaceInv, CondMoves, At
<1> QED
  BY <1>1, <1>2, <1>3, CondQuietStep

(* phi_put_forks_condvar, entering the monitor, keeps the invariant. *)
LEMMA CondPutEnter ==
    ASSUME CondInv, NEW i \in Phi, put_enter_condvar(i)
    PROVE  CondInv'
<1>1. /\ pc[i] = "eat" /\ down(i, MUTEX, "put_left")
      /\ UNCHANGED <<state, iter, next_count, count, after>>
  BY DEF put_enter_condvar
<1>2. /\ CondTypeInv' /\ OwnerInv' /\ NextInv' /\ CondMoves(i, "put_left")
      /\ \A j \in Phi : sem'[CV(j)] = sem[CV(j)]
  BY <1>1, CondMutexDown
<1>3. CondPlaceInv(i)'
  BY <1>1, <1>2 DEF CondInv, CondPlaceInv, CondMoves, At
<1> QED
  BY <1>1, <1>2, <1>3, CondQuietStep

(* phi_take_forks_condvar, leaving the monitor, keeps the invariant. *)
LEMMA CondTakeLeave ==
    ASSUME CondInv, NEW i \in Phi, take_leave_condvar(i)
    PROVE  CondInv'
<1>1. /\ pc[i] = "take_leave" /\ up(i, who_is_next, "eat")
      /\ UNCHANGED <<state, iter, next_count, count, after>>
  BY DEF take_leave_condvar
<1>2. iter' \in [Phi -> Nat] /\ count' \in [Phi -> Nat]
  BY <1>1 DEF CondInv, CondTypeInv
<1>3. /\ CondTypeInv' /\ OwnerInv' /\ NextInv' /\ CondMoves(i, "eat")
      /\ \A j \in Phi : sem'[CV(j)] = sem[CV(j)]
  BY <1>1, <1>2, MonitorUp
<1>4. CondPlaceInv(i)'
  BY <1>1, <1>3 DEF CondInv, CondPlaceInv, CondMoves, At
<1> QED
  BY <1>1, <1>3, <1>4, CondQuietStep

(* phi_put_forks_condvar, leaving the monitor, keeps the invariant. *)
LEMMA CondPutLeave ==
    ASSUME CondInv, NEW i \in Phi, put_leave_condvar(i)
    PROVE  CondInv'
<1> DEFINE l == IF iter[i] + 1 < TIMES THEN "think" ELSE "quit"
<1>1. /\ pc[i] = "put_leave" /\ iter' = [iter EXCEPT ![i] = @ + 1]
      /\ up(i, who_is_next, l) /\ UNCHANGED <<state, next_count, count, after>>
  BY DEF put_leave_condvar
<1>2. l \in {"think", "quit"} /\ iter' \in [Phi -> Nat] /\ count' \in [Phi -> Nat]
  BY <1>1 DEF CondInv, CondTypeInv
<1> HIDE DEF l
<1>3. /\ CondTypeInv' /\ OwnerInv' /\ NextInv' /\ CondMoves(i, l)
      /\ \A j \in Phi : sem'[CV(j)] = sem[CV(j)]
  BY <1>1, <1>2, MonitorUp
<1>4. CondPlaceInv(i)'
  BY <1>1, <1>2, <1>3 DEF CondInv, CondPlaceInv, CondMoves, At
<1> QED
  BY <1>1, <1>3, <1>4, CondQuietStep

(* phi_take_forks_condvar, its cond_wait unless it eats, keeps the         *)
(* invariant.                                                              *)
LEMMA TakeCheck ==
    ASSUME CondInv, NEW i \in Phi, take_check_condvar(i)
    PROVE  CondInv'
<1>1. pc[i] = "take_check" /\ UNCHANGED <<state, iter, next_count, after>>
  BY DEF take_check_condvar
<1>2. /\ At(i) = "take_check" /\ ~Queued(i) /\ Has(i) /\ ~Signals(i)
      /\ sem[CV(i)].value = 0 /\ sem[CV(i)].wait_queue = <<>> /\ count[i] = 0
      /\ state[i] \in {"HUNGRY", "EATING"}
  BY <1>1, Awake DEF Has, Signals, CondInv, CondPlaceInv, CondTypeInv, States
<1>3. CASE state[i] # "EATING"
  <2>1. count' = [count EXCEPT ![i] = @ + 1] /\ up(i, who_is_next, "cond_down")
    BY <1>3 DEF take_check_condvar, cond_wait
  <2>2. iter' \in [Phi -> Nat] /\ count' \in [Phi -> Nat] /\ count'[i] = 1
        /\ \A j \in Phi : j # i => count'[j] = count[j]
    BY <1>1, <1>2, <2>1 DEF CondInv, CondTypeInv
  <2>3. /\ CondTypeInv' /\ OwnerInv' /\ NextInv' /\ CondMoves(i, "cond_down")
        /\ \A j \in Phi : sem'[CV(j)] = sem[CV(j)]
    BY <1>1, <1>3, <2>1, <2>2, MonitorUp
  <2>4. CondPlaceInv(i)'
    BY <1>1, <1>2, <1>3, <2>2, <2>3 DEF CondPlaceInv, CondMoves
  <2> QED
    BY <1>1, <2>2, <2>3, <2>4, CondQuietStep
<1>4. CASE state[i] = "EATING"
  <2>1. pc' = [pc EXCEPT ![i] = "take_leave"] /\ UNCHANGED <<sem, ret, count>>
    BY <1>4 DEF take_check_condvar
  <2>2. CondTypeInv'
    BY <1>1, <2>1 DEF CondInv, CondTypeInv, CondLabels
  <2>3. CondMoves(i, "take_leave")
    BY <1>1, <2>1 DEF CondInv, CondTypeInv, CondMoves, At
  <2>4. \A k \in Phi : (Signals(k)' <=> Signals(k)) /\ (Queued(k)' <=> Queued(k))
    BY <1>2, <2>1, <2>3 DEF Signals, CondMoves, Queued
  <2>5. \A k \in Phi : Has(k)' <=> Has(k)
    BY <1>1, <1>2, <2>1, <2>3, <2>4 DEF Has, CondMoves
  <2>6. OwnerInv'
    <3>1. \A j, k \in Phi : Signals(j)' /\ Has(k)' /\ j # k =>
             At(k)' \in {"cond_down", "cond_end", "take_leave"}
      BY <2>3, <2>4, <2>5 DEF CondInv, OwnerInv, CondMoves
    <3>2. /\ \A j \in Phi : pc'[j] = "down" => ret'[j] \in {"take_test", "put_left", "signal_end", "cond_end"}
          /\ \A j \in Phi : Queued(j)' => pc'[j] = "down" /\ ret'[j] \in {"take_test", "put_left"}
      BY <1>1, <1>2, <2>1, <2>4 DEF CondInv, CondTypeInv, OwnerInv
    <3> QED
      BY <2>1, <2>4, <2>5, <3>1, <3>2 DEF CondInv, OwnerInv
  <2>7. NextInv'
    <3>1. \A k \in Phi : pc[k] = "down" => pc'[k] = pc[k] /\ ret'[k] = ret[k]
      BY <1>1, <2>1 DEF CondInv, CondTypeInv
    <3>2. \A k \in Phi : At(k) = "signal_wait" => At(k)' = "signal_wait"
      BY <1>2, <2>3 DEF CondMoves
    <3> QED
      BY <1>1, <2>1, <2>4, <3>1, <3>2 DEF CondInv, NextInv
  <2>8. CondPlaceInv(i)'
    BY <1>1, <1>2, <1>4, <2>1, <2>3 DEF CondPlaceInv, CondMoves
  <2> QED
    BY <1>1, <2>1, <2>2, <2>3, <2>6, <2>7, <2>8, CondQuietStep
<1> QED
  BY <1>3, <1>4

-----------------------------------------------------------------------------
(* phi_test_condvar *)

(* phi_test_condvar lets nobody eat next to one who eats. *)
LEMMA CondForkTest ==
    ASSUME NEW j \in Phi, NEW st \in [Phi -> States],
           state' = IF can_eat(st, j) THEN [st EXCEPT ![j] = "EATING"] ELSE st,
           \A k \in Phi : ~(st[k] = "EATING" /\ st[RIGHT(k)] = "EATING")
    PROVE  CondForkInv'
<1>1. CASE can_eat(st, j)
  <2>1. st[LEFT(j)] # "EATING" /\ st[RIGHT(j)] # "EATING"
    BY <1>1 DEF can_eat
  <2>2. state' = [st EXCEPT ![j] = "EATING"]
    BY <1>1
  <2>3. ASSUME NEW k \in Phi
        PROVE  ~(state'[k] = "EATING" /\ state'[RIGHT(k)] = "EATING")
    <3>1. CASE k = j
      BY <2>1, <2>2, <3>1, Ring
    <3>2. CASE RIGHT(k) = j
      <4>1. k = LEFT(j) /\ k # j
        BY <3>2, Ring
      <4> QED
        BY <2>1, <2>2, <4>1
    <3>3. CASE k # j /\ RIGHT(k) # j
      BY <2>2, <3>3, Ring
    <3> QED
      BY <3>1, <3>2, <3>3
  <2> QED
    BY <2>3 DEF CondForkInv
<1>2. CASE ~can_eat(st, j)
  BY <1>2 DEF CondForkInv
<1> QED
  BY <1>1, <1>2

(* Philosopher i tests itself on the way in, or a neighbour j on the way   *)
(* out; only in the second case can a thread wait for the signal.          *)
LEMMA Test ==
    ASSUME CondInv, NEW i \in Phi, NEW j \in Phi, NEW st \in [Phi -> States], NEW l,
           \A k \in Phi : k # i => st[k] = state[k],
           \/ /\ pc[i] = "take_test" /\ j = i /\ st[i] = "HUNGRY" /\ l = "take_check"
           \/ /\ pc[i] \in {"put_left", "put_right"} /\ j # i /\ st[i] = "THINKING"
              /\ l \in {"put_right", "put_leave"},
           phi_test_condvar(i, j, st, l), UNCHANGED <<iter, count>>
    PROVE  CondInv'
<1>1. /\ pc[i] # "down" /\ At(i) = pc[i] /\ ~Queued(i) /\ Has(i) /\ ~Signals(i)
      /\ sem[CV(i)].value = 0 /\ sem[CV(i)].wait_queue = <<>> /\ count[i] = 0
  <2>1. pc[i] # "down"
    OBVIOUS
  <2>2. At(i) = pc[i] /\ ~Queued(i) /\ sem[CV(i)].wait_queue = <<>>
    BY <2>1, Awake
  <2> QED
    BY <2>1, <2>2 DEF Has, Signals, CondInv, CondPlaceInv
<1>2. \A k \in Phi : ~Signals(k)
  BY <1>1 DEF CondInv, OwnerInv
<1>3. next_count = 0 /\ sem[NEXT].value = 0 /\ sem[NEXT].wait_queue = <<>>
  BY <1>2 DEF CondInv, NextInv, Signals, At
<1>4. sem[MUTEX].value = 0 /\ \A k \in Phi : Has(k) <=> k = i
  BY <1>1 DEF CondInv, OwnerInv
<1>5. l \in CondLabels /\ l \in {"take_check", "put_right", "put_leave"}
  BY DEF CondLabels
<1>6. \A k \in Phi : ~(st[k] = "EATING" /\ st[RIGHT(k)] = "EATING")
  <2>1. \A k \in Phi : st[k] = "EATING" => state[k] = "EATING"
    OBVIOUS
  <2> QED
    BY <2>1, Ring DEF CondInv, CondForkInv
<1>7. state' = IF can_eat(st, j) THEN [st EXCEPT ![j] = "EATING"] ELSE st
  BY DEF phi_test_condvar
<1>8. state' \in [Phi -> States]
  BY <1>7 DEF States
<1>9. CondForkInv'
  BY <1>6, <1>7, CondForkTest
<1>10. ASSUME can_eat(st, j), j # i
       PROVE  At(j) \in {"cond_down", "cond_end"} /\ state[j] = "HUNGRY" /\ count[j] = 1
  <2>1. state[j] = "HUNGRY" /\ ~Has(j) /\ ~Signals(j) /\ At(j) \in CondLabels
    BY <1>2, <1>4, <1>10 DEF can_eat, CondInv, CondTypeInv, At
  <2>2. At(j) \notin {"think", "quit", "take_test", "put_right", "put_leave", "take_check",
                      "take_leave", "eat", "put_left"}
    BY <2>1 DEF Has, CondInv, CondPlaceInv
  <2>3. At(j) \in {"cond_down", "cond_end"}
    BY <2>1, <2>2 DEF CondLabels, Signals
  <2> QED
    BY <2>1, <2>3 DEF CondInv, CondPlaceInv
<1>11. CASE ~(can_eat(st, j) /\ j # i)
  <2>1. pc' = [pc EXCEPT ![i] = l] /\ UNCHANGED <<sem, ret, next_count, after, iter, count>>
    BY <1>1, <1>11 DEF phi_test_condvar, cond_signal
  <2>2. /\ \A k \in Phi : k # i => state'[k] = state[k]
        /\ j = i => state'[i] \in {"HUNGRY", "EATING"}
        /\ j # i => state'[i] = "THINKING"
    BY <1>7, <1>11
  <2>3. CondTypeInv'
    BY <1>5, <1>8, <2>1 DEF CondInv, CondTypeInv
  <2>4. CondMoves(i, l)
    BY <1>1, <1>5, <2>1 DEF CondInv, CondTypeInv, CondMoves, At
  <2>5. \A k \in Phi : ~Signals(k)' /\ (Queued(k)' <=> Queued(k))
    BY <1>2, <1>5, <2>1, <2>4 DEF Signals, CondMoves, Queued
  <2>6. \A k \in Phi : Has(k)' <=> k = i
    <3>1. Has(i)'
      BY <1>5, <2>4 DEF Has, CondMoves
    <3>2. ASSUME NEW k \in Phi, k # i
          PROVE  ~Has(k)'
      <4>1. ~Has(k) /\ At(k)' = At(k) /\ state'[k] = state[k]
        BY <1>4, <2>2, <2>4, <3>2 DEF CondMoves
      <4> QED
        BY <2>1, <2>5, <4>1 DEF Has
    <3> QED
      BY <3>1, <3>2
  <2>7. OwnerInv'
    <3>1. /\ \A k \in Phi : pc'[k] = "down" => ret'[k] \in {"take_test", "put_left", "signal_end", "cond_end"}
          /\ \A k \in Phi : Queued(k)' => pc'[k] = "down" /\ ret'[k] \in {"take_test", "put_left"}
      BY <1>1, <1>5, <2>1, <2>5 DEF CondInv, CondTypeInv, OwnerInv
    <3> QED
      BY <1>4, <2>1, <2>5, <2>6, <3>1 DEF CondInv, OwnerInv
  <2>8. NextInv'
    BY <1>3, <2>1, <2>5 DEF NextInv
  <2>9. \A k \in Phi : k # i => CondPlaceInv(k)'
    BY <2>1, <2>2, <2>4, CondPlaceFrame DEF CondInv, CondMoves
  <2>10. CondPlaceInv(i)'
    BY <1>1, <2>1, <2>2, <2>4 DEF CondPlaceInv, CondMoves
  <2> QED
    BY <1>9, <2>3, <2>7, <2>8, <2>9, <2>10 DEF CondInv
<1>12. CASE can_eat(st, j) /\ j # i
  <2> DEFINE s == sem[CV(j)]
  <2>1. At(j) \in {"cond_down", "cond_end"} /\ state[j] = "HUNGRY" /\ count[j] = 1
    BY <1>10, <1>12
  <2>2. /\ next_count' = 1 /\ pc' = [pc EXCEPT ![i] = "signal_wait"] /\ ret' = ret
        /\ sem' = [sem EXCEPT ![CV(j)] = sem_up(s)]
        /\ after' = [after EXCEPT ![i] = l]
        /\ UNCHANGED <<iter, count>>
    BY <1>3, <1>12, <2>1 DEF phi_test_condvar, cond_signal, up
  <2>3. /\ \A k \in Phi : k \notin {i, j} => state'[k] = state[k]
        /\ state'[j] = "EATING" /\ state'[i] = "THINKING" /\ l \in {"put_right", "put_leave"}
    BY <1>7, <1>12
  <2>4. s \in SemRec(Phi)
    BY CondNames DEF CondInv, CondTypeInv
  <2>5. /\ s.value = 0
        /\ s.wait_queue = IF At(j) = "cond_end" THEN <<j>> ELSE <<>>
    BY <2>1 DEF CondInv, CondPlaceInv
  <2>6. /\ sem'[CV(j)] = sem_up(s) /\ sem'[MUTEX] = sem[MUTEX] /\ sem'[NEXT] = sem[NEXT]
        /\ \A k \in Phi : k # j => sem'[CV(k)] = sem[CV(k)]
        /\ sem' \in [SemNames_condvar -> SemRec(Phi)]
    BY <2>2, <2>4, SemUp, CondNames DEF CondInv, CondTypeInv
  <2>7. /\ sem'[CV(j)].wait_queue = <<>>
        /\ sem'[CV(j)].value = IF At(j) = "cond_down" THEN 1 ELSE 0
    <3>1. CASE At(j) = "cond_end"
      <4>1. Tail(<<j>>) = <<>> /\ <<j>> # <<>>
        OBVIOUS
      <4>2. s.wait_queue = <<j>> /\ s.value = 0
        BY <2>5, <3>1
      <4>3. sem_up(s).value = s.value /\ sem_up(s).wait_queue = Tail(s.wait_queue)
        BY <2>4, <4>1, <4>2, SemUp
      <4> QED
        BY <2>6, <3>1, <4>1, <4>2, <4>3
    <3>2. CASE At(j) = "cond_down"
      <4>1. s.wait_queue = <<>> /\ s.value = 0
        BY <2>5, <3>2
      <4> QED
        BY <2>4, <2>6, <3>2, <4>1, SemUp
    <3> QED
      BY <2>1, <3>1, <3>2
  <2>8. CondTypeInv'
    BY <1>5, <1>8, <2>2, <2>6 DEF CondInv, CondTypeInv, CondLabels
  <2>9. CondMoves(i, "signal_wait")
    BY <1>1, <2>2 DEF CondInv, CondTypeInv, CondMoves, At
  <2>10. \A k \in Phi : (Signals(k)' <=> k = i) /\ (Queued(k)' <=> Queued(k))
    BY <1>2, <2>6, <2>9 DEF Signals, CondMoves, Queued
  <2>11. \A k \in Phi : Has(k)' <=> k = j
    <3>1. Has(j)'
      BY <1>12, <2>1, <2>3, <2>9 DEF Has, CondMoves
    <3>2. ~Has(i)'
      BY <1>3, <2>6, <2>9 DEF Has, CondMoves
    <3>3. ASSUME NEW k \in Phi, k # i, k # j
          PROVE  ~Has(k)'
      <4>1. ~Has(k) /\ At(k)' = At(k) /\ state'[k] = state[k]
        BY <1>4, <2>3, <2>9, <3>3 DEF CondMoves
      <4> QED
        BY <2>6, <2>10, <4>1 DEF Has
    <3> QED
      BY <3>1, <3>2, <3>3
  <2>12. OwnerInv'
    <3>1. /\ \A k \in Phi : pc'[k] = "down" => ret'[k] \in {"take_test", "put_left", "signal_end", "cond_end"}
          /\ \A k \in Phi : Queued(k)' => pc'[k] = "down" /\ ret'[k] \in {"take_test", "put_left"}
      BY <1>1, <2>2, <2>10 DEF CondInv, CondTypeInv, OwnerInv
    <3>2. At(j)' \in {"cond_down", "cond_end"}
      BY <1>12, <2>1, <2>9 DEF CondMoves
    <3> QED
      BY <1>4, <2>6, <2>10, <2>11, <3>1, <3>2 DEF CondInv, OwnerInv
  <2>13. NextInv'
    <3>1. after'[i] = l
      BY <2>2 DEF CondInv, CondTypeInv
    <3> QED
      BY <1>3, <2>2, <2>3, <2>6, <2>10, <3>1 DEF NextInv
  <2>14. \A k \in Phi : k \notin {i, j} => CondPlaceInv(k)'
    BY <2>2, <2>3, <2>6, <2>9, CondPlaceFrame DEF CondInv, CondMoves
  <2>15. CondPlaceInv(i)'
    BY <1>1, <1>12, <2>2, <2>3, <2>6, <2>9 DEF CondPlaceInv, CondMoves
  <2>16. CondPlaceInv(j)'
    BY <1>12, <2>1, <2>2, <2>3, <2>7, <2>9 DEF CondPlaceInv, CondMoves
  <2> QED
    BY <1>9, <2>8, <2>12, <2>13, <2>14, <2>15, <2>16 DEF CondInv
<1> QED
  BY <1>11, <1>12

(* The three calls of phi_test_condvar keep the invariant. *)
LEMMA Tests ==
    ASSUME CondInv, NEW i \in Phi, take_test_condvar(i) \/ put_left_condvar(i) \/ put_right_condvar(i)
    PROVE  CondInv'
<1>1. state \in [Phi -> States] /\ LEFT(i) \in Phi /\ LEFT(i) # i /\ RIGHT(i) \in Phi /\ RIGHT(i) # i
  BY Ring DEF CondInv, CondTypeInv
<1>2. CASE take_test_condvar(i)
  <2> DEFINE st == [state EXCEPT ![i] = "HUNGRY"]
  <2>1. st \in [Phi -> States] /\ st[i] = "HUNGRY" /\ \A k \in Phi : k # i => st[k] = state[k]
    BY <1>1 DEF States
  <2>2. /\ pc[i] = "take_test" /\ phi_test_condvar(i, i, st, "take_check")
        /\ UNCHANGED <<iter, count>>
    BY <1>2 DEF take_test_condvar
  <2> HIDE DEF st
  <2> QED
    BY <2>1, <2>2, Test
<1>3. CASE put_left_condvar(i)
  <2> DEFINE st == [state EXCEPT ![i] = "THINKING"]
  <2>1. st \in [Phi -> States] /\ st[i] = "THINKING" /\ \A k \in Phi : k # i => st[k] = state[k]
    BY <1>1 DEF States
  <2>2. /\ pc[i] = "put_left" /\ phi_test_condvar(i, LEFT(i), st, "put_right")
        /\ UNCHANGED <<iter, count>>
    BY <1>3 DEF put_left_condvar
  <2> HIDE DEF st
  <2> QED
    BY <1>1, <2>1, <2>2, Test
<1>4. CASE put_right_condvar(i)
  <2>1. /\ pc[i] = "put_right" /\ phi_test_condvar(i, RIGHT(i), state, "put_leave")
        /\ UNCHANGED <<iter, count>>
    BY <1>4 DEF put_right_condvar
  <2>2. state[i] = "THINKING"
    BY <2>1 DEF CondInv, CondPlaceInv, At
  <2> QED
    BY <1>1, <2>1, <2>2, Test
<1> QED
  BY <1>2, <1>3, <1>4

-----------------------------------------------------------------------------

(* In every state of the solution with the monitor, the monitor is with    *)
(* exactly one thread or its mutex is free, at most one thread is between  *)
(* the two sides of cond_signal, and state_condvar and cv[i] agree with    *)
(* where philosopher i is.                                                 *)
LEMMA CondInvariant ==
    /\ Init_condvar => CondInv
    /\ CondInv /\ (UNCHANGED vars_condvar \/ \E i \in Phi : Step_condvar(i)) => CondInv'
<1>1. Init_condvar => CondInv
  <2> SUFFICES ASSUME Init_condvar
               PROVE  CondInv
    OBVIOUS
  <2>1. /\ state = [i \in Phi |-> "THINKING"] /\ pc = [i \in Phi |-> "think"]
        /\ ret = [i \in Phi |-> "think"] /\ iter = [i \in Phi |-> 0]
        /\ next_count = 0 /\ count = [i \in Phi |-> 0] /\ after = [i \in Phi |-> "think"]
    BY DEF Init_condvar
  <2>2. /\ sem \in [SemNames_condvar -> SemRec(Phi)]
        /\ sem[MUTEX].value = 1 /\ sem[MUTEX].wait_queue = <<>>
        /\ sem[NEXT].value = 0 /\ sem[NEXT].wait_queue = <<>>
        /\ \A i \in Phi : sem[CV(i)].value = 0 /\ sem[CV(i)].wait_queue = <<>>
    BY CondNames DEF Init_condvar, sem_init, SemRec
  <2>3. CondTypeInv
    BY <2>1, <2>2 DEF CondTypeInv, CondLabels, States
  <2>4. \A i \in Phi : ~Queued(i) /\ At(i) = "think"
    BY <2>1, <2>2 DEF Queued, SleepsIn, At
  <2>5. \A i \in Phi : ~Has(i) /\ ~Signals(i)
    BY <2>4 DEF Has, Signals
  <2>6. OwnerInv
    BY <2>1, <2>2, <2>4, <2>5 DEF OwnerInv, Distinct
  <2>7. NextInv
    BY <2>1, <2>2, <2>5 DEF NextInv
  <2>8. \A i \in Phi : CondPlaceInv(i)
    BY <2>1, <2>2, <2>4 DEF CondPlaceInv
  <2>9. CondForkInv
    BY <2>1, Ring DEF CondForkInv
  <2> QED
    BY <2>3, <2>6, <2>7, <2>8, <2>9 DEF CondInv
<1>2. CondInv /\ (UNCHANGED vars_condvar \/ \E i \in Phi : Step_condvar(i)) => CondInv'
  <2> SUFFICES ASSUME CondInv, UNCHANGED vars_condvar \/ \E i \in Phi : Step_condvar(i)
               PROVE  CondInv'
    OBVIOUS
  <2>1. ASSUME NEW i \in Phi, Step_condvar(i)
        PROVE  CondInv'
    BY <2>1, CondTakeEnter, Tests, TakeCheck, CondTakeLeave, CondPutEnter, CondPutLeave, SignalWait,
       SignalEnd, CondDown, CondEnd, CondDownEnd DEF Step_condvar
  <2>2. CASE UNCHANGED vars_condvar
    BY <2>2 DEF vars_condvar, CondInv, CondTypeInv, OwnerInv, NextInv, CondPlaceInv, CondForkInv,
                Has, Signals, Queued, At
  <2> QED
    BY <2>1, <2>2
<1> QED
  BY <1>1, <1>2

(* Where a philosopher sleeps. *)
LEMMA AsleepIs ==
    ASSUME CondInv, NEW i \in Phi, pc[i] = "down"
    PROVE  Asleep(i) <=> \/ ret[i] \in {"take_test", "put_left"} /\ Queued(i)
                         \/ ret[i] = "signal_end" /\ sem[NEXT].wait_queue # <<>>
                         \/ ret[i] = "cond_end" /\ state[i] = "HUNGRY"
<1>1. Asleep(i) <=> \/ Queued(i)
                    \/ SleepsIn(sem[NEXT], i)
                    \/ \E j \in Phi : SleepsIn(sem[CV(j)], i)
  <2>1. DOMAIN sem = {MUTEX, NEXT} \cup {CV(j) : j \in Phi}
    BY DEF CondInv, CondTypeInv, SemNames_condvar
  <2> QED
    BY <2>1 DEF Asleep, Queued
<1>2. Queued(i) <=> ret[i] \in {"take_test", "put_left"} /\ Queued(i)
  BY DEF CondInv, OwnerInv
<1>3. SleepsIn(sem[NEXT], i) <=> ret[i] = "signal_end" /\ sem[NEXT].wait_queue # <<>>
  <2>1. CASE sem[NEXT].wait_queue = <<>>
    BY <2>1 DEF SleepsIn
  <2>2. CASE sem[NEXT].wait_queue # <<>>
    <3>1. PICK k \in Phi : sem[NEXT].wait_queue = <<k>> /\ pc[k] = "down" /\ ret[k] = "signal_end"
      BY <2>2 DEF CondInv, NextInv
    <3>2. SleepsIn(sem[NEXT], i) <=> k = i
      BY <3>1 DEF SleepsIn
    <3>3. Signals(k) /\ (ret[i] = "signal_end" => Signals(i))
      BY <3>1 DEF Signals, At
    <3>4. ret[i] = "signal_end" <=> k = i
      BY <3>1, <3>3 DEF CondInv, NextInv
    <3> QED
      BY <2>2, <3>2, <3>4
  <2> QED
    BY <2>1, <2>2
<1>4. (\E j \in Phi : SleepsIn(sem[CV(j)], i)) <=> ret[i] = "cond_end" /\ state[i] = "HUNGRY"
  <2>1. ASSUME NEW j \in Phi, SleepsIn(sem[CV(j)], i)
        PROVE  ret[i] = "cond_end" /\ state[i] = "HUNGRY"
    <3>1. sem[CV(j)].wait_queue # <<>>
      BY <2>1 DEF SleepsIn
    <3>2. sem[CV(j)].wait_queue = <<j>> /\ At(j) = "cond_end" /\ state[j] = "HUNGRY"
      BY <3>1 DEF CondInv, CondPlaceInv
    <3>3. j = i
      BY <2>1, <3>2 DEF SleepsIn
    <3> QED
      BY <3>2, <3>3 DEF At
  <2>2. ASSUME ret[i] = "cond_end", state[i] = "HUNGRY"
        PROVE  SleepsIn(sem[CV(i)], i)
    <3>1. sem[CV(i)].wait_queue = <<i>>
      BY <2>2 DEF CondInv, CondPlaceInv, At
    <3> QED
      BY <3>1 DEF SleepsIn
  <2> QED
    BY <2>1, <2>2
<1> QED
  BY <1>1, <1>2, <1>3, <1>4

(* The thread that has the monitor, seen from its label. *)
LEMMA HasIs ==
    ASSUME CondInv, NEW i \in Phi
    PROVE  /\ Has(i) <=> \/ Label(i) \in InMonitor
                         \/ Label(i) = "signal_wait" /\ sem[NEXT].value = 1
                         \/ Label(i) = "cond_down" /\ sem[CV(i)].value = 1
           /\ Label(i) = "eat" => state[i] = "EATING"
<1>1. state[i] \in States
  BY DEF CondInv, CondTypeInv
<1>2. CASE pc[i] = "down"
  <2>1. At(i) = ret[i] /\ ret[i] \in {"take_test", "put_left", "signal_end", "cond_end"}
    BY <1>2 DEF CondInv, OwnerInv, At
  <2>2. ret[i] = "cond_end" => state[i] # "THINKING"
    BY <2>1 DEF CondInv, CondPlaceInv
  <2>3. Has(i) <=> ~Asleep(i)
    BY <1>1, <1>2, <2>1, <2>2, AsleepIs DEF Has, States
  <2>4. Label(i) = IF Asleep(i) THEN "down" ELSE ret[i]
    BY <1>2 DEF Label
  <2> QED
    BY <2>1, <2>3, <2>4 DEF InMonitor
<1>3. CASE pc[i] # "down"
  <2>1. At(i) = pc[i] /\ Label(i) = pc[i] /\ ~Queued(i) /\ sem[CV(i)].wait_queue = <<>>
    BY <1>3, Awake DEF Label
  <2>2. pc[i] = "signal_end" => sem[NEXT].wait_queue = <<>>
    BY <1>3, <2>1, Awake DEF Signals
  <2>3. pc[i] = "cond_end" => state[i] = "EATING"
    <3>1. <<i>> # <<>>
      OBVIOUS
    <3> QED
      BY <1>1, <2>1, <3>1 DEF CondInv, CondPlaceInv, States
  <2>4. ASSUME pc[i] = "cond_down"
        PROVE  state[i] = "EATING" <=> sem[CV(i)].value = 1
    <3>1. sem[CV(i)].value = IF At(i) = "cond_down" /\ state[i] = "EATING" THEN 1 ELSE 0
      BY DEF CondInv, CondPlaceInv
    <3> QED
      BY <2>1, <2>4, <3>1
  <2>5. pc[i] = "eat" => state[i] = "EATING"
    BY <2>1 DEF CondInv, CondPlaceInv
  <2> QED
    BY <2>1, <2>2, <2>3, <2>4, <2>5 DEF Has, InMonitor
<1> QED
  BY <1>2, <1>3

(* "Only one process at a time may be active in a monitor": for every      *)
(* number of philosophers exactly one thread is inside or has been given   *)
(* the monitor, or the mutex is free.                                      *)
LEMMA CondOneInMonitor == CondInv => OneInMonitor
<1>1. CondInv => OneInMonitor
  <2> SUFFICES ASSUME CondInv
               PROVE  OneInMonitor
    OBVIOUS
  <2> DEFINE active == {i \in Phi : Label(i) \in InMonitor}
             given == {i \in Phi : Label(i) = "signal_wait" /\ sem[NEXT].value = 1}
             taking == {i \in Phi : Label(i) = "cond_down" /\ sem[CV(i)].value = 1}
  <2>1. \A i \in Phi : Has(i) <=> i \in active \cup given \cup taking
    BY HasIs
  <2>2. active \cap given = {} /\ active \cap taking = {} /\ given \cap taking = {}
    BY DEF InMonitor
  <2>3. Cardinality({}) = 0 /\ \A x : Cardinality({x}) = 1
    BY FS_EmptySet, FS_Singleton
  <2>4. active \subseteq Phi /\ given \subseteq Phi /\ taking \subseteq Phi
    OBVIOUS
  <2> HIDE DEF active, given, taking
  <2>5. Cardinality(active) + Cardinality(given) + Cardinality(taking) + sem[MUTEX].value = 1
    <3>1. CASE sem[MUTEX].value = 1
      <4>1. active = {} /\ given = {} /\ taking = {}
        BY <2>1, <2>4, <3>1 DEF CondInv, OwnerInv
      <4> QED
        BY <2>3, <3>1, <4>1
    <3>2. CASE sem[MUTEX].value = 0
      <4>1. PICK h \in Phi : Has(h) /\ \A k \in Phi : Has(k) => k = h
        BY <3>2 DEF CondInv, OwnerInv
      <4>2. active \cup given \cup taking = {h}
        BY <2>1, <2>4, <4>1
      <4>3. \/ active = {h} /\ given = {} /\ taking = {}
            \/ active = {} /\ given = {h} /\ taking = {}
            \/ active = {} /\ given = {} /\ taking = {h}
        BY <2>2, <4>2
      <4>4. /\ Cardinality(active) = IF active = {h} THEN 1 ELSE 0
            /\ Cardinality(given) = IF given = {h} THEN 1 ELSE 0
            /\ Cardinality(taking) = IF taking = {h} THEN 1 ELSE 0
            /\ {h} # {}
        BY <2>3, <4>3
      <4> QED
        BY <3>2, <4>3, <4>4
    <3> QED
      BY <3>1, <3>2 DEF CondInv, OwnerInv
  <2> QED
    BY <2>5 DEF OneInMonitor, active, given, taking
<1> QED
  BY <1>1

(* With the monitor, neighbours never eat together, whatever the number of *)
(* philosophers: neither their states say so nor are both past             *)
(* phi_take_forks_condvar.                                                 *)
LEMMA CondNeighboursExclude == CondInv => NeighboursExclude
<1>1. CondInv => NeighboursExclude
  <2>1. ASSUME CondInv, NEW i \in Phi
        PROVE  /\ ~(state[i] = "EATING" /\ state[RIGHT(i)] = "EATING")
               /\ Label(i) = "eat" => state[i] = "EATING"
    BY <2>1, HasIs DEF CondInv, CondForkInv
  <2> QED
    BY <2>1, Ring DEF NeighboursExclude
<1> QED
  BY <1>1

-----------------------------------------------------------------------------
(* Both *)

CheckInv ==
    \/ solution = "sema" /\ SemaInv
    \/ solution = "condvar" /\ CondInv

(* Whichever group runs, its own invariant holds. *)
THEOREM CheckInvariance == Spec => []CheckInv
<1>1. Init => CheckInv
  BY SemaInvariant, CondInvariant DEF Init, CheckInv
<1>2. CheckInv /\ [Next]_vars => CheckInv'
  <2> SUFFICES ASSUME CheckInv, [Next]_vars
               PROVE  CheckInv'
    OBVIOUS
  <2>1. CASE solution = "sema"
    <3>1. SemaInv /\ solution' = "sema"
      BY <2>1 DEF CheckInv, Next, Step, vars
    <3>2. UNCHANGED vars_sema \/ \E i \in Phi : Step_sema(i)
      BY <2>1 DEF Next, Step, vars, vars_sema
    <3> QED
      BY <3>1, <3>2, SemaInvariant DEF CheckInv
  <2>2. CASE solution = "condvar"
    <3>1. CondInv /\ solution' = "condvar"
      BY <2>2 DEF CheckInv, Next, Step, vars
    <3>2. UNCHANGED vars_condvar \/ \E i \in Phi : Step_condvar(i)
      BY <2>2 DEF Next, Step, vars, vars_condvar, monitor_vars
    <3> QED
      BY <3>1, <3>2, CondInvariant DEF CheckInv
  <2> QED
    BY <2>1, <2>2 DEF CheckInv
<1> QED
  BY <1>1, <1>2, PTL DEF Spec

(* In both solutions neighbours never eat together, whatever the number of *)
(* philosophers: neither their states say so nor are both past             *)
(* phi_take_forks_sema or phi_take_forks_condvar.                          *)
THEOREM CheckNeighboursExclude == Spec => []NeighboursExclude
<1>1. CheckInv => NeighboursExclude
  BY SemaNeighboursExclude, CondNeighboursExclude DEF CheckInv
<1> QED
  BY <1>1, CheckInvariance, PTL

(* With semaphores, no right to eat is lost between up(&mutex) and         *)
(* down(&s[i]): it is in s[i] when philosopher i comes to take it, and a   *)
(* philosopher that sleeps on s[i] is hungry beside one who eats.          *)
THEOREM CheckRightToEat == Spec => []RightToEat
<1>1. CheckInv => RightToEat
  BY SemaRightIsKept DEF CheckInv, RightToEat
<1> QED
  BY <1>1, CheckInvariance, PTL

(* "Only one process at a time may be active in a monitor": for every      *)
(* number of philosophers exactly one thread is inside or has been given   *)
(* the monitor, or the mutex is free.                                      *)
THEOREM CheckMonitorExclusion == Spec => []MonitorExclusion
<1>1. CheckInv => MonitorExclusion
  BY CondOneInMonitor DEF CheckInv, MonitorExclusion
<1> QED
  BY <1>1, CheckInvariance, PTL
=============================================================================
