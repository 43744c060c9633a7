------------------------------- MODULE GetPid -------------------------------
(***************************************************************************)
(* The allocation of pids, get_pid of kern/process/proc.c.  The function   *)
(* remembers between calls that the pids after last_pid and before         *)
(* next_safe are free, and walks proc_list only when that gap is used up.  *)
(* do_fork calls it and links the new process; do_wait unlinks a process.  *)
(* Both run without being interrupted by one another, so the walk has the  *)
(* list for itself.  The order in which the walk meets the processes is    *)
(* left open: what is shown holds for every order of proc_list.            *)
(***************************************************************************)
EXTENDS Integers, FiniteSets

CONSTANT MAX_PROCESS   \* bound on nr_process, which also counts idleproc

ASSUME MaxProcessAssumption == MAX_PROCESS \in Nat /\ MAX_PROCESS > 1

(* Mutant of MAX_PID: fewer pids than processes. *)
MAX_PID_scarce == MAX_PROCESS - 1

(* MAX_PID, which the code asserts to be greater than MAX_PROCESS. *)
MAX_PID == 2 * MAX_PROCESS

VARIABLES
    pids,       \* the pids of the processes on proc_list
    last_pid,   \* the pid allocated last, or the candidate during the walk
    next_safe,  \* the least pid after last_pid that may be in use
    unvisited,  \* the processes the walk has still to meet
    walking     \* get_pid walks proc_list

vars == <<pids, last_pid, next_safe, unvisited, walking>>

Pids == 1..(MAX_PID - 1)

Init ==
    /\ pids = {}
    /\ last_pid = MAX_PID
    /\ next_safe = MAX_PID
    /\ unvisited = {}
    /\ walking = FALSE

(* do_fork fails with -E_NO_FREE_PROC once nr_process reaches the limit. *)
can_fork == Cardinality(pids) + 1 < MAX_PROCESS

(* Pids are reused from 1 on after the greatest one. *)
wrapped(pid) == IF pid >= MAX_PID THEN 1 ELSE pid

(* ++last_pid is known to be free. *)
in_gap == last_pid + 1 < MAX_PID /\ last_pid + 1 < next_safe

(* get_pid without a walk, then set_links *)
get_pid_in_gap ==
    /\ ~walking
    /\ can_fork
    /\ in_gap
    /\ last_pid' = last_pid + 1
    /\ pids' = pids \cup {last_pid + 1}
    /\ UNCHANGED <<next_safe, unvisited, walking>>

(* get_pid up to the label repeat *)
get_pid_walk ==
    /\ ~walking
    /\ can_fork
    /\ ~in_gap
    /\ last_pid' = wrapped(last_pid + 1)
    /\ next_safe' = MAX_PID
    /\ unvisited' = pids
    /\ walking' = TRUE
    /\ UNCHANGED pids

(* Mutant of restart: the walk goes on with the processes left. *)
restart_skipped(pid) == unvisited \ {pid}

(* goto repeat: the walk starts from the head of the list. *)
restart(pid) == pids

(* The walk meets the candidate: the next pid becomes the candidate, and   *)
(* if it is not known to be free the walk restarts.                        *)
visit_taken(pid) ==
    /\ walking
    /\ pid \in unvisited
    /\ pid = last_pid
    /\ IF last_pid + 1 >= next_safe
       THEN /\ last_pid' = wrapped(last_pid + 1)
            /\ next_safe' = MAX_PID
            /\ unvisited' = restart(pid)
       ELSE /\ last_pid' = last_pid + 1
            /\ unvisited' = unvisited \ {pid}
            /\ UNCHANGED next_safe
    /\ UNCHANGED <<pids, walking>>

(* A process above the candidate ends the gap if it is the nearest one. *)
lower_next_safe(pid) ==
    IF pid > last_pid /\ next_safe > pid THEN pid ELSE next_safe

(* The walk meets another pid. *)
visit_other(pid) ==
    /\ walking
    /\ pid \in unvisited
    /\ pid # last_pid
    /\ next_safe' = lower_next_safe(pid)
    /\ unvisited' = unvisited \ {pid}
    /\ UNCHANGED <<pids, last_pid, walking>>

(* The walk has reached the end of the list: do_fork links the process *)
get_pid_return ==
    /\ walking
    /\ unvisited = {}
    /\ pids' = pids \cup {last_pid}
    /\ walking' = FALSE
    /\ UNCHANGED <<last_pid, next_safe, unvisited>>

(* do_wait: remove_links of a zombie; initproc is never waited for *)
remove_links(pid) ==
    /\ ~walking
    /\ pid \in pids \ {1}
    /\ pids' = pids \ {pid}
    /\ UNCHANGED <<last_pid, next_safe, unvisited, walking>>

Next ==
    \/ get_pid_in_gap
    \/ get_pid_walk
    \/ \E pid \in Pids : visit_taken(pid) \/ visit_other(pid) \/ remove_links(pid)
    \/ get_pid_return

Spec == Init /\ [][Next]_vars

(* The walk is a loop of kernel code that nothing suspends. *)
Walk ==
    \/ \E pid \in Pids : visit_taken(pid) \/ visit_other(pid)
    \/ get_pid_return

FairSpec == Spec /\ WF_vars(Walk)

-----------------------------------------------------------------------------

(* Every pid in use and every candidate is a pid, never 0 or MAX_PID. *)
TypeOK ==
    /\ pids \subseteq Pids
    /\ last_pid \in Pids \cup {MAX_PID}
    /\ next_safe \in 1..MAX_PID
    /\ unvisited \subseteq pids
    /\ walking \in BOOLEAN

(* The cached gap is stale information: pids were removed since it was     *)
(* computed, and added only at its lower end.  No pid inside it is in use. *)
GapIsFree == ~walking => \A pid \in pids : ~(last_pid < pid /\ pid < next_safe)

(* get_pid - alloc a unique pid: what it returns to do_fork is not the pid *)
(* of a process on proc_list.                                              *)
PidIsUnique ==
    [][/\ get_pid_in_gap => last_pid' \in Pids \ pids
       /\ get_pid_return => last_pid \in Pids \ pids]_vars

(* During the walk no process met so far is in the gap or is the candidate. *)
WalkIsSound ==
    walking => \A pid \in pids \ unvisited : ~(last_pid <= pid /\ pid < next_safe)

(* The inductive invariant; the first conjunct but one also covers the     *)
(* call of get_pid before which last_pid is MAX_PID.                       *)
PidInv ==
    /\ TypeOK
    /\ walking => last_pid \in Pids /\ last_pid < next_safe
    /\ ~walking => unvisited = {}
    /\ GapIsFree
    /\ WalkIsSound

(* The walk ends: since MAX_PID > MAX_PROCESS (the static_assert), some    *)
(* candidate is free and no restart skips it.                              *)
WalkEnds == walking ~> ~walking
=============================================================================
