----------------------------- MODULE LockProofs ------------------------------
(***************************************************************************)
(* For every finite set of processes and every initial value, a kernel     *)
(* semaphore admits at most that many processes, loses no wake-up and is   *)
(* not interrupted by do_kill.                                             *)
(***************************************************************************)
EXTENDS Lock, FiniteSetTheorems, TLAPS

(* The owners are a finite set, so that they can be counted. *)
LEMMA OwnersFinite == IsFiniteSet(Owners) /\ Cardinality(Owners) \in Nat
<1>1. Owners \subseteq Procs
  BY DEF Owners
<1>2. IsFiniteSet(Owners)
  BY <1>1, LockAssumption, FS_Subset
<1> QED
  BY <1>2, FS_CardinalityType

(* sem_init leaves all units in the value. *)
LEMMA Init_LockInv == Init => LockInv
<1> SUFFICES ASSUME Init
             PROVE  LockInv
  OBVIOUS
<1>1. sem = [value |-> InitValue, wait_queue |-> <<>>]
  BY DEF Init, sem_init
<1>2. TypeOK
  <2>1. sem \in [value : 0..InitValue, wait_queue : Seq(Procs)]
    BY <1>1, LockAssumption
  <2>2. killed \in [Procs -> BOOLEAN]
    BY Zenon DEF Init
  <2> QED
    BY <2>1, <2>2 DEF TypeOK, Init
<1>3. Owners = {}
  BY DEF Init, Owners
<1>4. UnitsConserved
  BY <1>1, <1>3, FS_EmptySet, LockAssumption DEF UnitsConserved
<1>5. SleeperIsQueued /\ QueueDistinct /\ NoIdleUnit
  BY <1>1 DEF SleeperIsQueued, QueueDistinct, NoIdleUnit, SleepsIn, Init
<1>6. DownNotInterrupted
  BY DEF DownNotInterrupted, Init
<1> QED
  BY <1>2, <1>4, <1>5, <1>6 DEF LockInv

(* A process that finds a free unit moves it from the value to itself. *)
LEMMA Down_LockInv ==
    ASSUME NEW p \in Procs, LockInv, down(p)
    PROVE  LockInv'
<1>1. /\ sem' = [sem EXCEPT !.value = @ - 1]
      /\ sem.value > 0
      /\ pc[p] = "out"
      /\ pc' = [pc EXCEPT ![p] = "in"]
      /\ wakeup_flags' = wakeup_flags
      /\ wait_state' = wait_state
      /\ killed' = killed
  BY DEF down, sem_take
<1>2. sem.value \in Nat /\ sem.wait_queue = <<>> /\ sem'.wait_queue = sem.wait_queue
      /\ sem'.value = sem.value - 1
  BY <1>1 DEF LockInv, TypeOK, NoIdleUnit
<1>3. TypeOK'
  <2>1. sem.value \in 0..InitValue /\ sem.wait_queue \in Seq(Procs)
    BY DEF LockInv, TypeOK
  <2>2. sem' = [value |-> sem.value - 1, wait_queue |-> sem.wait_queue]
    BY <1>1 DEF LockInv, TypeOK
  <2>3. sem' \in [value : 0..InitValue, wait_queue : Seq(Procs)]
    <3>1. sem.value - 1 \in 0..InitValue
      BY <1>1, <2>1, LockAssumption
    <3> QED
      BY <2>1, <2>2, <3>1
  <2>4. pc' \in [Procs -> {"out", "wait", "in"}]
    BY <1>1 DEF LockInv, TypeOK
  <2> QED
    BY <1>1, <2>3, <2>4 DEF LockInv, TypeOK
<1>4. SleeperIsQueued' /\ QueueDistinct' /\ NoIdleUnit' /\ DownNotInterrupted'
  BY <1>1, <1>2
     DEF LockInv, TypeOK, SleeperIsQueued, QueueDistinct, NoIdleUnit,
         DownNotInterrupted, SleepsIn
<1>5. UnitsConserved'
  <2>1. Owners' = Owners \cup {p} /\ p \notin Owners
    BY <1>1 DEF Owners, LockInv, TypeOK
  <2>2. Cardinality(Owners') = Cardinality(Owners) + 1
    BY <2>1, OwnersFinite, FS_AddElement
  <2> QED
    BY <1>2, <2>2, OwnersFinite, LockAssumption DEF LockInv, UnitsConserved
<1> QED
  BY <1>3, <1>4, <1>5 DEF LockInv

(* A process that finds no unit joins the queue's tail. *)
LEMMA DownWait_LockInv ==
    ASSUME NEW p \in Procs, LockInv, down_wait(p)
    PROVE  LockInv'
<1> DEFINE q == sem.wait_queue
<1>1. /\ sem' = [sem EXCEPT !.wait_queue = Append(q, p)]
      /\ sem.value = 0
      /\ pc[p] = "out"
      /\ pc' = [pc EXCEPT ![p] = "wait"]
      /\ wakeup_flags' = [wakeup_flags EXCEPT ![p] = "WT_INTERRUPTED"]
      /\ wait_state' = [wait_state EXCEPT ![p] = "WT_KSEM"]
      /\ killed' = killed
  BY DEF down_wait, sem_wait
<1>2. q \in Seq(Procs) /\ sem'.wait_queue = Append(q, p) /\ sem'.value = 0
  BY <1>1 DEF LockInv, TypeOK
<1>3. TypeOK'
  <2>1. sem' = [value |-> sem.value, wait_queue |-> Append(q, p)]
    BY <1>1 DEF LockInv, TypeOK
  <2>2. sem' \in [value : 0..InitValue, wait_queue : Seq(Procs)]
    BY <1>2, <2>1 DEF LockInv, TypeOK
  <2>3. /\ pc' \in [Procs -> {"out", "wait", "in"}]
        /\ wakeup_flags' \in [Procs -> {"WT_INTERRUPTED", "WT_KSEM"}]
        /\ wait_state' \in [Procs -> {"none", "WT_KSEM"}]
    BY <1>1 DEF LockInv, TypeOK
  <2> QED
    BY <1>1, <2>2, <2>3 DEF LockInv, TypeOK
<1>4. \A i \in DOMAIN q : q[i] # p
  BY <1>1 DEF LockInv, SleeperIsQueued, SleepsIn
<1>5. \A r \in Procs : SleepsIn(sem', r) <=> (SleepsIn(sem, r) \/ r = p)
  BY <1>2 DEF SleepsIn
<1>6. SleeperIsQueued'
  BY <1>1, <1>5 DEF LockInv, TypeOK, SleeperIsQueued, SleepsIn
<1>7. QueueDistinct'
  BY <1>2, <1>4 DEF LockInv, QueueDistinct
<1>8. NoIdleUnit' /\ DownNotInterrupted'
  BY <1>1, <1>2 DEF LockInv, TypeOK, NoIdleUnit, DownNotInterrupted
<1>9. UnitsConserved'
  <2>1. Owners' = Owners
    BY <1>1 DEF Owners, LockInv, TypeOK
  <2> QED
    BY <1>1, <1>2, <2>1 DEF LockInv, UnitsConserved
<1> QED
  BY <1>3, <1>6, <1>7, <1>8, <1>9 DEF LockInv

(* A woken process is no longer queued and already owns its unit. *)
LEMMA DownEnd_LockInv ==
    ASSUME NEW p \in Procs, LockInv, down_end(p)
    PROVE  LockInv'
<1>1. ~SleepsIn(sem, p)
  BY DEF LockInv, SleeperIsQueued, down_end
<1>2. /\ sem' = sem
      /\ pc[p] = "wait"
      /\ wait_state[p] = "none"
      /\ pc' = [pc EXCEPT ![p] = "in"]
      /\ wakeup_flags' = wakeup_flags
      /\ wait_state' = wait_state
      /\ killed' = killed
  BY <1>1 DEF down_end, wait_current_del
<1>3. TypeOK'
  BY <1>2 DEF LockInv, TypeOK
<1>4. SleeperIsQueued' /\ QueueDistinct' /\ NoIdleUnit' /\ DownNotInterrupted'
  BY <1>1, <1>2
     DEF LockInv, TypeOK, SleeperIsQueued, QueueDistinct, NoIdleUnit,
         DownNotInterrupted, SleepsIn
<1>5. UnitsConserved'
  <2>1. Owners' = Owners
    BY <1>2 DEF Owners, LockInv, TypeOK
  <2> QED
    BY <1>2, <2>1 DEF LockInv, UnitsConserved
<1> QED
  BY <1>3, <1>4, <1>5 DEF LockInv

(* up hands the unit to the first waiter, or puts it back into the value. *)
LEMMA Up_LockInv ==
    ASSUME NEW p \in Procs, LockInv, up(p)
    PROVE  LockInv'
<1> DEFINE q == sem.wait_queue
<1>1. /\ sem' = sem_up(sem)
      /\ pc[p] = "in"
      /\ pc' = [pc EXCEPT ![p] = "out"]
      /\ killed' = killed
  BY DEF up
<1>2. q \in Seq(Procs) /\ sem.value \in 0..InitValue
  BY DEF LockInv, TypeOK
<1>3. p \in Owners
  BY <1>1 DEF Owners
<1>4. Cardinality(Owners \ {p}) = Cardinality(Owners) - 1
  BY <1>3, OwnersFinite, FS_RemoveElement
<1>5. CASE q = <<>>
  <2>1. /\ sem' = [sem EXCEPT !.value = @ + 1]
        /\ wakeup_flags' = wakeup_flags
        /\ wait_state' = wait_state
    BY <1>1, <1>5 DEF up, sem_up
  <2>2. sem'.value = sem.value + 1 /\ sem'.wait_queue = <<>>
    BY <1>5, <2>1 DEF LockInv, TypeOK
  <2>3. UnitsConserved'
    <3>1. Owners' = Owners \ {p}
      BY <1>1, <2>1 DEF Owners, LockInv, TypeOK
    <3> QED
      BY <1>2, <1>4, <2>2, <3>1, OwnersFinite, LockAssumption DEF LockInv, UnitsConserved
  <2>4. sem'.value \in 0..InitValue
    <3>1. Cardinality(Owners) > 0
      <4>1. Cardinality(Owners \ {p}) \in Nat
        BY OwnersFinite, FS_Subset, FS_CardinalityType
      <4> QED
        BY <4>1, <1>4, OwnersFinite
    <3> QED
      BY <1>2, <2>2, <3>1, OwnersFinite, LockAssumption DEF LockInv, UnitsConserved
  <2>5. TypeOK'
    BY <1>1, <2>1, <2>4, <2>2 DEF LockInv, TypeOK
  <2>6. SleeperIsQueued' /\ QueueDistinct' /\ NoIdleUnit' /\ DownNotInterrupted'
    BY <1>1, <1>5, <2>1, <2>2
       DEF LockInv, TypeOK, SleeperIsQueued, QueueDistinct, NoIdleUnit,
           DownNotInterrupted, SleepsIn
  <2> QED
    BY <2>3, <2>5, <2>6 DEF LockInv
<1>6. CASE q # <<>>
  <2> DEFINE h == Head(q)
  <2>1. /\ sem' = [sem EXCEPT !.wait_queue = Tail(q)]
        /\ wakeup_flags' = [wakeup_flags EXCEPT ![h] = "WT_KSEM"]
        /\ wait_state' = [wait_state EXCEPT ![h] = "none"]
    BY <1>1, <1>6 DEF up, sem_up
  <2>2. sem'.value = sem.value /\ sem'.wait_queue = Tail(q)
    BY <2>1 DEF LockInv, TypeOK
  <2>3. h \in Procs /\ h = q[1] /\ 1 \in DOMAIN q /\ Tail(q) \in Seq(Procs)
    BY <1>2, <1>6
  <2>4. SleepsIn(sem, h)
    BY <2>3 DEF SleepsIn
  <2>5. pc[h] = "wait" /\ wait_state[h] # "none" /\ h # p
    BY <1>1, <2>3, <2>4 DEF LockInv, SleeperIsQueued
  <2>6. \A r \in Procs : SleepsIn(sem', r) <=> (SleepsIn(sem, r) /\ r # h)
    <3>1. \A i \in DOMAIN Tail(q) : i + 1 \in DOMAIN q /\ Tail(q)[i] = q[i + 1]
      BY <1>2, <1>6
    <3>2. \A i \in DOMAIN q : i = 1 \/ (i - 1 \in DOMAIN Tail(q) /\ Tail(q)[i - 1] = q[i])
      BY <1>2, <1>6
    <3>3. \A i \in DOMAIN q : q[i] = h => i = 1
      BY <2>3 DEF LockInv, QueueDistinct
    <3>4. \A i \in DOMAIN Tail(q) : Tail(q)[i] # h
      BY <3>1, <3>3, <1>2, <1>6
    <3>5. ASSUME NEW r \in Procs, SleepsIn(sem', r)
          PROVE  SleepsIn(sem, r) /\ r # h
      BY <2>2, <3>1, <3>4, <3>5 DEF SleepsIn
    <3>6. ASSUME NEW r \in Procs, SleepsIn(sem, r), r # h
          PROVE  SleepsIn(sem', r)
      BY <2>2, <2>3, <3>2, <3>6 DEF SleepsIn
    <3> QED
      BY <3>5, <3>6
  <2>7. TypeOK'
    BY <1>1, <2>1, <2>2, <2>3 DEF LockInv, TypeOK
  <2>8. SleeperIsQueued'
    BY <1>1, <2>1, <2>3, <2>5, <2>6 DEF LockInv, TypeOK, SleeperIsQueued, SleepsIn
  <2>9. QueueDistinct'
    <3>1. \A i \in DOMAIN Tail(q) : i + 1 \in DOMAIN q /\ Tail(q)[i] = q[i + 1] /\ i \in Nat
      BY <1>2, <1>6
    <3> QED
      BY <2>2, <3>1 DEF LockInv, QueueDistinct
  <2>10. NoIdleUnit'
    BY <1>2, <1>6, <2>2 DEF LockInv, NoIdleUnit
  <2>11. DownNotInterrupted'
    BY <1>1, <2>1, <2>3 DEF LockInv, TypeOK, DownNotInterrupted
  <2>12. UnitsConserved'
    <3>1. Owners' = (Owners \ {p}) \cup {h} /\ h \notin Owners
      BY <1>1, <2>1, <2>3, <2>5 DEF Owners, LockInv, TypeOK
    <3>2. IsFiniteSet(Owners \ {p})
      BY OwnersFinite, FS_Subset
    <3>3. Cardinality(Owners') = Cardinality(Owners \ {p}) + 1
      BY <3>1, <3>2, FS_AddElement
    <3> QED
      BY <1>4, <2>2, <3>3, OwnersFinite DEF LockInv, UnitsConserved
  <2> QED
    BY <2>7, <2>8, <2>9, <2>10, <2>11, <2>12 DEF LockInv
<1> QED
  BY <1>5, <1>6

(* do_kill leaves a process in down asleep. *)
LEMMA Kill_LockInv ==
    ASSUME NEW p \in Procs, LockInv, do_kill(p)
    PROVE  LockInv'
<1>1. ~interruptible(p)
  BY DEF interruptible, LockInv, TypeOK
<1>2. /\ sem' = sem
      /\ pc' = pc
      /\ wakeup_flags' = wakeup_flags
      /\ wait_state' = wait_state
  BY <1>1 DEF do_kill
<1>3. killed' \in [Procs -> BOOLEAN]
  BY Zenon DEF do_kill, LockInv, TypeOK
<1>4. TypeOK'
  BY <1>2, <1>3 DEF LockInv, TypeOK
<1>5. Owners' = Owners
  BY <1>2 DEF Owners
<1>6. UnitsConserved'
  BY <1>2, <1>5 DEF LockInv, UnitsConserved
<1> QED
  BY <1>2, <1>4, <1>6
     DEF LockInv, SleeperIsQueued, QueueDistinct, NoIdleUnit, DownNotInterrupted, SleepsIn

(* The invariant holds in every reachable state. *)
THEOREM LockInvariance == Spec => []LockInv
<1>1. LockInv /\ [Next]_vars => LockInv'
  <2> SUFFICES ASSUME LockInv, [Next]_vars
               PROVE  LockInv'
    OBVIOUS
  <2>1. CASE Next
    BY <2>1, Down_LockInv, DownWait_LockInv, DownEnd_LockInv, Up_LockInv, Kill_LockInv
       DEF Next
  <2>2. CASE UNCHANGED vars
    BY <2>2
       DEF vars, LockInv, TypeOK, SleeperIsQueued, QueueDistinct, NoIdleUnit,
           DownNotInterrupted, UnitsConserved, Owners, SleepsIn
  <2> QED
    BY <2>1, <2>2
<1> QED
  BY Init_LockInv, <1>1, PTL DEF Spec

(* A critical section between down and up holds at most as many processes  *)
(* as the semaphore had units: one, for the kernel's locks.                *)
THEOREM LockExclusion == Spec => []Exclusion
<1> DEFINE Inside == {p \in Procs : pc[p] = "in"}
<1>1. LockInv => Exclusion
  <2> SUFFICES ASSUME LockInv
               PROVE  Exclusion
    OBVIOUS
  <2>1. Inside \subseteq Owners
    BY DEF Owners
  <2>2. Cardinality(Inside) <= Cardinality(Owners) /\ Cardinality(Inside) \in Nat
    BY <2>1, OwnersFinite, FS_Subset, FS_CardinalityType
  <2>3. Cardinality(Owners) <= InitValue
    BY OwnersFinite, LockAssumption DEF LockInv, TypeOK, UnitsConserved
  <2>4. Cardinality(Inside) <= InitValue
    BY <2>2, <2>3, OwnersFinite, LockAssumption
  <2> QED
    BY <2>4 DEF Exclusion
<1> QED
  BY <1>1, LockInvariance, PTL

(* No wake-up is lost: whoever sleeps in down is in the queue up serves,   *)
(* and sleeps only while all units are taken.                              *)
THEOREM LockNoLostWakeup == Spec => [](SleeperIsQueued /\ NoIdleUnit)
<1>1. LockInv => SleeperIsQueued /\ NoIdleUnit
  BY DEF LockInv
<1> QED
  BY <1>1, LockInvariance, PTL

(* The assertion of down holds: no process returns from it by a kill.      *)
THEOREM LockDownAssertion == Spec => []DownNotInterrupted
<1>1. LockInv => DownNotInterrupted
  BY DEF LockInv
<1> QED
  BY <1>1, LockInvariance, PTL
=============================================================================
