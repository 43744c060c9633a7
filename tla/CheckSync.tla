----------------------------- MODULE CheckSync ------------------------------
(***************************************************************************)
(* check_sync of kern/sync/check_sync.c starts the philosophers of PhiSema *)
(* and those of PhiCondvar.  The two groups share no variable, so a        *)
(* behaviour of one is the same whatever the other does, and each is       *)
(* looked at alone: `solution' is the group that runs.                     *)
(***************************************************************************)
EXTENDS PhiSema, PhiCondvar

VARIABLE solution

monitor_vars == <<next_count, count, after>>
vars == <<state, sem, pc, ret, iter, monitor_vars, solution>>

Init ==
    \/ /\ solution = "sema"
       /\ Init_sema
       /\ next_count = 0
       /\ count = [i \in Phi |-> 0]
       /\ after = [i \in Phi |-> "think"]
    \/ /\ solution = "condvar"
       /\ Init_condvar

Step(i) ==
    /\ \/ solution = "sema" /\ Step_sema(i) /\ UNCHANGED monitor_vars
       \/ solution = "condvar" /\ Step_condvar(i)
    /\ UNCHANGED solution

Next == \E i \in Phi : Step(i)

Spec == Init /\ [][Next]_vars

(* The scheduler runs every thread that does not sleep. *)
FairSpec == Spec /\ \A i \in Phi : WF_vars(Step(i))

-----------------------------------------------------------------------------

(* With semaphores the right to eat is not lost between up(&mutex) and     *)
(* down(&s[i]).                                                            *)
RightToEat == solution = "sema" => RightIsKept

(* With the monitor one thread at a time is active in it. *)
MonitorExclusion == solution = "condvar" => OneInMonitor
=============================================================================
