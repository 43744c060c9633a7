------------------------------ MODULE ProcLinks ------------------------------
(***************************************************************************)
(* The relation links of the process table, kern/process/proc.c: every     *)
(* process points to its youngest child (cptr), and the children of one    *)
(* process are linked from younger to older (optr) and back (yptr).        *)
(* do_fork and do_wait change the links in one go; the loop of do_exit     *)
(* that hands the children to initproc is taken a child at a time.         *)
(***************************************************************************)
EXTENDS Integers, FiniteSets

CONSTANTS
    Procs,     \* the proc_structs that kmalloc can hand out
    idleproc,
    initproc,
    NULL,
    MAX_PROCESS  \* bound on nr_process

VARIABLES
    state,       \* "free", "live" or "zombie"
    parent,      \* proc->parent
    cptr,        \* proc->cptr
    yptr,        \* proc->yptr
    optr,        \* proc->optr
    nr_process,
    exiting      \* the process in the loop of do_exit, NULL without one

vars == <<state, parent, cptr, yptr, optr, nr_process, exiting>>

(* proc_init has linked initproc; idleproc is counted and not linked. *)
Init ==
    /\ state = [p \in Procs |-> IF p \in {idleproc, initproc} THEN "live" ELSE "free"]
    /\ parent = [p \in Procs |-> IF p = initproc THEN idleproc ELSE NULL]
    /\ cptr = [p \in Procs |-> IF p = idleproc THEN initproc ELSE NULL]
    /\ yptr = [p \in Procs |-> NULL]
    /\ optr = [p \in Procs |-> NULL]
    /\ nr_process = 2
    /\ exiting = NULL

Free == {p \in Procs : state[p] = "free"}

(* The assignment ptr->field = v where p is ptr, done only if ptr # NULL. *)
Store(field, p, v) == IF p = NULL THEN field ELSE [field EXCEPT ![p] = v]

(* do_fork (idleproc calls it for initproc only): alloc_proc clears the    *)
(* structure c and set_links links it                                      *)
do_fork(p, c) ==
    /\ exiting = NULL
    /\ p # idleproc
    /\ state[p] = "live"
    /\ state[c] = "free"
    /\ nr_process < MAX_PROCESS
    /\ state' = [state EXCEPT ![c] = "live"]
    /\ parent' = [parent EXCEPT ![c] = p]
    /\ optr' = [optr EXCEPT ![c] = cptr[p]]
    /\ yptr' = Store([yptr EXCEPT ![c] = NULL], cptr[p], c)
    /\ cptr' = [cptr EXCEPT ![c] = NULL, ![p] = c]
    /\ nr_process' = nr_process + 1
    /\ UNCHANGED exiting

(* do_exit up to its loop; idleproc and initproc panic instead *)
do_exit(p) ==
    /\ exiting = NULL
    /\ p \notin {idleproc, initproc}
    /\ state[p] = "live"
    /\ state' = [state EXCEPT ![p] = "zombie"]
    /\ exiting' = p
    /\ UNCHANGED <<parent, cptr, yptr, optr, nr_process>>

(* Mutant of adopted_yptr: the child keeps its younger sibling. *)
adopted_yptr_stale(c) == yptr

(* The child c that is handed over becomes the youngest of initproc. *)
adopted_yptr(c) == [yptr EXCEPT ![c] = NULL]

(* The loop of do_exit, one child; the next one's yptr is left as it is *)
reparent ==
    /\ exiting # NULL
    /\ cptr[exiting] # NULL
    /\ LET c == cptr[exiting] IN
       /\ parent' = [parent EXCEPT ![c] = initproc]
       /\ cptr' = [cptr EXCEPT ![exiting] = optr[c], ![initproc] = c]
       /\ optr' = [optr EXCEPT ![c] = cptr[initproc]]
       /\ yptr' = Store(adopted_yptr(c), cptr[initproc], c)
    /\ UNCHANGED <<state, nr_process, exiting>>

do_exit_end ==
    /\ exiting # NULL
    /\ cptr[exiting] = NULL
    /\ exiting' = NULL
    /\ UNCHANGED <<state, parent, cptr, yptr, optr, nr_process>>

(* Mutant of older_of_younger: the younger sibling keeps the dead process. *)
older_of_younger_stale(c) == optr

(* The younger sibling of c skips c. *)
older_of_younger(c) == Store(optr, yptr[c], optr[c])

(* Mutant of release_slot: the process is not discounted. *)
release_slot_uncounted == nr_process

(* nr_process after remove_links. *)
release_slot == nr_process - 1

(* do_wait: remove_links of the zombie c, then kfree; what the freed       *)
(* structure holds no longer matters and is NULL in the model              *)
do_wait(p, c) ==
    /\ exiting = NULL
    /\ state[p] = "live"
    /\ parent[c] = p
    /\ state[c] = "zombie"
    /\ yptr' = [Store(yptr, optr[c], yptr[c]) EXCEPT ![c] = NULL]
    /\ optr' = [older_of_younger(c) EXCEPT ![c] = NULL]
    /\ parent' = [parent EXCEPT ![c] = NULL]
    /\ cptr' = IF yptr[c] = NULL THEN [cptr EXCEPT ![p] = optr[c]] ELSE cptr
    /\ nr_process' = release_slot
    /\ state' = [state EXCEPT ![c] = "free"]
    /\ UNCHANGED exiting

Next ==
    \/ \E p, c \in Procs : do_fork(p, c) \/ do_wait(p, c)
    \/ \E p \in Procs : do_exit(p)
    \/ reparent
    \/ do_exit_end

Spec == Init /\ [][Next]_vars

-----------------------------------------------------------------------------

InTable == {p \in Procs : state[p] # "free"}
Children(p) == {c \in InTable : parent[c] = p}

(* What the loop of do_wait over cptr and optr meets within n steps. *)
Walk(p) ==
    LET met[n \in 0..MAX_PROCESS] ==
            IF n = 0 THEN {cptr[p]}
            ELSE met[n - 1] \cup {optr[c] : c \in met[n - 1] \ {NULL}}
    IN met[MAX_PROCESS]

(* The walk of do_wait(0) from any process ends, and meets its children    *)
(* and nothing else: no zombie child is overlooked, no foreign or freed    *)
(* process is reaped, also while another process's children are handed     *)
(* over.                                                                   *)
WalkMeetsChildren ==
    \A p \in InTable : Walk(p) = Children(p) \cup {NULL}

(* remove_links relies on yptr to find who points to the process: it is    *)
(* the sibling that has the process as optr, or NULL exactly for the       *)
(* youngest.  In the loop of do_exit only the head of the rest is exempt.  *)
YptrExact ==
    \A c \in InTable \ {idleproc} :
       \/ exiting # NULL /\ c = cptr[exiting]
       \/ yptr[c] = NULL /\ cptr[parent[c]] = c
       \/ yptr[c] \in Children(parent[c]) /\ optr[yptr[c]] = c

(* nr_process is the number of structures in use, so that the test of      *)
(* do_fork neither leaks slots nor admits too many.                        *)
NrProcessExact == nr_process = Cardinality(InTable)
=============================================================================
