----------------------------- MODULE ProcTable ------------------------------
(***************************************************************************)
(* The process table as do_fork, do_exit and do_wait change it: the pids   *)
(* of GetPid and the relation links of ProcLinks together.  Nothing else   *)
(* changes the table while get_pid walks: do_fork is not preempted, and    *)
(* the clock handler, which may interrupt initproc there, leaves it alone. *)
(***************************************************************************)
EXTENDS GetPid

CONSTANTS
    Procs,     \* the proc_structs that kmalloc can hand out
    idleproc,
    initproc,
    NULL

ASSUME LinksAssumption ==
    /\ idleproc \in Procs
    /\ initproc \in Procs
    /\ idleproc # initproc
    /\ NULL \notin Procs

VARIABLES
    state, parent, cptr, yptr, optr, nr_process, exiting,  \* of ProcLinks
    pid        \* proc->pid, 0 for idleproc and for a free structure

Links == INSTANCE ProcLinks

link_vars == <<state, parent, cptr, yptr, optr, nr_process, exiting>>
table_vars == <<vars, link_vars, pid>>

(* proc_init: initproc has got the first pid *)
TableInit ==
    /\ Links!Init
    /\ pid = [p \in Procs |-> IF p = initproc THEN 1 ELSE 0]
    /\ pids = {1}
    /\ last_pid = 1
    /\ next_safe = MAX_PID
    /\ unvisited = {}
    /\ walking = FALSE

(* get_pid walks; the fork that has called it can be completed *)
walk_begin ==
    /\ exiting = NULL
    /\ get_pid_walk
    /\ UNCHANGED <<link_vars, pid>>

walk_step ==
    /\ \E n \in Pids : visit_taken(n) \/ visit_other(n)
    /\ UNCHANGED <<link_vars, pid>>

(* do_fork: pid = get_pid(), hash_proc and set_links of the structure that *)
(* kmalloc returns.  alloc_proc clears it, so it does not matter which one *)
(* that is, and the model always takes the same free one.                  *)
fork(p) ==
    /\ Links!Free # {}
    /\ get_pid_in_gap \/ get_pid_return
    /\ LET c == CHOOSE c \in Links!Free : TRUE
       IN /\ Links!do_fork(p, c)
          /\ pid' = [pid EXCEPT ![c] = last_pid']

exit(p) ==
    /\ ~walking
    /\ Links!do_exit(p)
    /\ UNCHANGED <<vars, pid>>

exit_loop ==
    /\ Links!reparent \/ Links!do_exit_end
    /\ UNCHANGED <<vars, pid>>

(* do_wait: unhash_proc, remove_links and kfree *)
wait(p, c) ==
    /\ Links!do_wait(p, c)
    /\ remove_links(pid[c])
    /\ pid' = [pid EXCEPT ![c] = 0]

TableNext ==
    \/ walk_begin
    \/ walk_step
    \/ \E p, c \in Procs : wait(p, c)
    \/ \E p \in Procs : fork(p) \/ exit(p)
    \/ exit_loop

TableSpec == TableInit /\ [][TableNext]_table_vars

(* Nothing suspends the walk and the fork that has begun it. *)
TableFairSpec ==
    /\ TableSpec
    /\ WF_table_vars(walk_step \/ (walking /\ \E p \in Procs : fork(p)))

-----------------------------------------------------------------------------

(* do_wait(0) meets exactly the children of a process, as in ProcLinks,    *)
(* in every state that fork, exit with its loop and wait can reach.        *)
WalkMeetsChildren == Links!WalkMeetsChildren

(* The yptr that remove_links follows is right, as in ProcLinks. *)
YptrExact == Links!YptrExact

(* The two counts of processes agree with the table: nr_process, which     *)
(* do_fork tests, and the pids on proc_list, which get_pid avoids; no two  *)
(* processes share a pid.                                                  *)
CountsAgree ==
    /\ Links!NrProcessExact
    /\ pids = {pid[p] : p \in Links!InTable \ {idleproc}}
    /\ Cardinality(pids) + 1 = nr_process
=============================================================================
