----------------------------- MODULE TimerSpec ------------------------------
(***************************************************************************)
(* What the kernel timers promise: each pending timer counts down its own  *)
(* ticks, and the tick that ends it wakes its process.                     *)
(***************************************************************************)
EXTENDS Integers

CONSTANTS
    Procs,     \* the processes that may sleep
    MaxSleep   \* bound on the argument of sleep()

VARIABLES
    left,      \* ticks left per process, NoTimer without a timer
    in_tick    \* the clock interrupt handler is running

specVars == <<left, in_tick>>

NoTimer == -1

Init ==
    /\ left = [p \in Procs |-> NoTimer]
    /\ in_tick = FALSE

Add(p, t) ==
    /\ ~in_tick
    /\ left[p] = NoTimer
    /\ left' = [left EXCEPT ![p] = t]
    /\ UNCHANGED in_tick

Delete(p) ==
    /\ ~in_tick
    /\ left' = [left EXCEPT ![p] = NoTimer]
    /\ UNCHANGED in_tick

Tick ==
    /\ ~in_tick
    /\ in_tick' = TRUE
    /\ left' = [p \in Procs |-> IF left[p] = NoTimer THEN NoTimer ELSE left[p] - 1]

Expire(p) ==
    /\ in_tick
    /\ left[p] = 0
    /\ left' = [left EXCEPT ![p] = NoTimer]
    /\ UNCHANGED in_tick

EndTick ==
    /\ in_tick
    /\ \A p \in Procs : left[p] # 0
    /\ in_tick' = FALSE
    /\ UNCHANGED left

Next ==
    \/ \E p \in Procs, t \in 1..MaxSleep : Add(p, t)
    \/ \E p \in Procs : Delete(p) \/ Expire(p)
    \/ Tick
    \/ EndTick

Spec == Init /\ [][Next]_specVars
=============================================================================
