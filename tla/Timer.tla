------------------------------- MODULE Timer --------------------------------
(***************************************************************************)
(* The timer list of kern/schedule/sched.c.  Timers are kept in the order  *)
(* in which they end, and each stores the ticks that it ends after its     *)
(* predecessor, so that a tick touches the head only.  All operations run  *)
(* with interrupts masked.                                                 *)
(***************************************************************************)
EXTENDS Integers, Sequences, SequencesExt, FiniteSetsExt

CONSTANTS
    Procs,     \* the processes that may sleep, each with one timer
    MaxSleep   \* bound on the argument of sleep()

ASSUME SleepAssumption == MaxSleep \in Nat

VARIABLES
    timer_list,  \* the timers, as [proc, expires]
    in_tick      \* run_timer_list is running

vars == <<timer_list, in_tick>>

Pending(p) == \E i \in DOMAIN timer_list : timer_list[i].proc = p

Init ==
    /\ timer_list = <<>>
    /\ in_tick = FALSE

(* The expires of a new timer of t ticks once the loop of add_timer has    *)
(* passed the first i timers of q.                                         *)
Rest(q, t) ==
    LET rest[i \in 0..Len(q)] == IF i = 0 THEN t ELSE rest[i - 1] - q[i].expires
    IN rest

(* The loop of add_timer stops before the first timer that ends later.     *)
StopAt(q, t) ==
    Min({i \in 1..Len(q) : Rest(q, t)[i - 1] < q[i].expires} \cup {Len(q) + 1})

(* Mutant of shorten_next: the successor keeps its ticks. *)
shorten_next_forgotten(q, i, t) == q

(* The successor of the new timer now counts from that timer. *)
shorten_next(q, i, t) ==
    IF i \in DOMAIN q THEN [q EXCEPT ![i].expires = @ - t] ELSE q

insert_timer(q, p, t) ==
    LET i == StopAt(q, t)
    IN InsertAt(shorten_next(q, i, Rest(q, t)[i - 1]), i,
                [proc |-> p, expires |-> Rest(q, t)[i - 1]])

(* The list without its timer i, whose ticks pass to its successor. *)
remove_timer(q, i) ==
    LET grown == IF i < Len(q) THEN [q EXCEPT ![i + 1].expires = @ + q[i].expires] ELSE q
    IN RemoveAt(grown, i)

-----------------------------------------------------------------------------

(* do_sleep: add_timer *)
add_timer(p, t) ==
    /\ ~in_tick
    /\ ~Pending(p)
    /\ timer_list' = insert_timer(timer_list, p, t)
    /\ UNCHANGED in_tick

(* do_sleep after schedule: del_timer, of a timer that may have ended *)
del_timer(p) ==
    /\ ~in_tick
    /\ timer_list' = IF Pending(p)
                     THEN remove_timer(timer_list,
                            CHOOSE i \in DOMAIN timer_list : timer_list[i].proc = p)
                     ELSE timer_list
    /\ UNCHANGED in_tick

(* run_timer_list up to its loop: the head loses a tick *)
run_timer_list ==
    /\ ~in_tick
    /\ in_tick' = TRUE
    /\ timer_list' = IF timer_list = <<>> THEN timer_list
                     ELSE [timer_list EXCEPT ![1].expires = @ - 1]

(* The test of the loop. *)
ended == timer_list # <<>> /\ timer_list[1].expires = 0

(* One turn of the loop: the process of the head is woken *)
run_timer_list_expire ==
    /\ in_tick
    /\ ended
    /\ timer_list' = remove_timer(timer_list, 1)
    /\ UNCHANGED in_tick

run_timer_list_end ==
    /\ in_tick
    /\ ~ended
    /\ in_tick' = FALSE
    /\ UNCHANGED timer_list

Next ==
    \/ \E p \in Procs, t \in 1..MaxSleep : add_timer(p, t)
    \/ \E p \in Procs : del_timer(p)
    \/ run_timer_list
    \/ run_timer_list_expire
    \/ run_timer_list_end

Spec == Init /\ [][Next]_vars

-----------------------------------------------------------------------------

(* The ticks until each timer of q ends: its own and those of all before. *)
EndsAfter(q) ==
    LET sum[i \in 0..Len(q)] == IF i = 0 THEN 0 ELSE sum[i - 1] + q[i].expires
    IN sum

(* The ticks a process really waits. *)
TicksLeft(p) ==
    IF ~Pending(p) THEN -1
    ELSE EndsAfter(timer_list)[CHOOSE i \in DOMAIN timer_list : timer_list[i].proc = p]

Abstract == INSTANCE TimerSpec WITH left <- [p \in Procs |-> TicksLeft(p)]

(* The delta list implements one countdown per process: add_timer and      *)
(* del_timer change no other timer's end, and a tick ends exactly the      *)
(* timers that are due.                                                    *)
CountsDown == Abstract!Spec

(* The list between two operations: no process has two timers, no timer    *)
(* holds less than nothing (expires is unsigned), and outside the handler  *)
(* none is overdue.                                                        *)
ListInv ==
    /\ timer_list \in Seq([proc : Procs, expires : Nat])
    /\ \A i, j \in DOMAIN timer_list : timer_list[i].proc = timer_list[j].proc => i = j
    /\ in_tick \in BOOLEAN
    /\ ~in_tick /\ timer_list # <<>> => timer_list[1].expires > 0
=============================================================================
