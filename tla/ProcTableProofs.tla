--------------------------- MODULE ProcTableProofs ---------------------------
(***************************************************************************)
(* The process table, for every number of processes: get_pid returns a pid *)
(* that no process on proc_list has, the relation links keep the children  *)
(* of every process on one list, and the counts of processes agree.        *)
(***************************************************************************)
EXTENDS ProcTable, DataFacts, FiniteSetTheorems

-----------------------------------------------------------------------------
(* get_pid *)

(* MAX_PID is above 1, so that there is a pid to allocate. *)
LEMMA PidRange ==
    /\ MAX_PID \in Nat
    /\ MAX_PID > 2
    /\ 1 \in Pids
BY MaxProcessAssumption DEF MAX_PID, Pids

(* The first call of get_pid starts with an empty gap. *)
LEMMA Init_PidInv == Init => PidInv
<1> SUFFICES ASSUME Init
             PROVE  PidInv
  OBVIOUS
<1>1. ~walking /\ walking \in BOOLEAN
  BY DEF Init
<1>2. pids = {} /\ unvisited = {} /\ last_pid = MAX_PID /\ next_safe = MAX_PID
  BY DEF Init
<1>3. TypeOK
  BY <1>1, <1>2, PidRange DEF TypeOK
<1> QED
  BY <1>1, <1>2, <1>3 DEF PidInv, GapIsFree, WalkIsSound

(* Taking the first pid of the gap leaves the rest of the gap free. *)
LEMMA InGap_PidInv == PidInv /\ get_pid_in_gap => PidInv'
BY PidRange
   DEF PidInv, TypeOK, GapIsFree, WalkIsSound, Pids, get_pid_in_gap, in_gap

(* A walk starts from the widest gap and has met nobody. *)
LEMMA Walk_PidInv == PidInv /\ get_pid_walk => PidInv'
BY PidRange
   DEF PidInv, TypeOK, GapIsFree, WalkIsSound, Pids, get_pid_walk, wrapped

(* A candidate in use is left behind, or the walk starts again. *)
LEMMA Taken_PidInv ==
    ASSUME NEW n \in Pids, PidInv, visit_taken(n)
    PROVE  PidInv'
<1>1. walking /\ walking' = walking /\ pids' = pids
  BY DEF visit_taken
<1>2. CASE last_pid + 1 >= next_safe
  <2>1. /\ last_pid' = (IF last_pid + 1 >= MAX_PID THEN 1 ELSE last_pid + 1)
        /\ next_safe' = MAX_PID
        /\ unvisited' = pids
    BY <1>2 DEF visit_taken, wrapped, restart
  <2> QED
    BY <1>1, <2>1, PidRange DEF PidInv, TypeOK, GapIsFree, WalkIsSound, Pids
<1>3. CASE ~(last_pid + 1 >= next_safe)
  <2>1. /\ last_pid' = last_pid + 1
        /\ next_safe' = next_safe
        /\ unvisited' = unvisited \ {n}
        /\ n = last_pid
    BY <1>3 DEF visit_taken
  <2> QED
    BY <1>1, <1>3, <2>1, PidRange DEF PidInv, TypeOK, GapIsFree, WalkIsSound, Pids
<1> QED
  BY <1>2, <1>3

(* A process above the candidate bounds the gap. *)
LEMMA Other_PidInv ==
    ASSUME NEW n \in Pids, PidInv, visit_other(n)
    PROVE  PidInv'
<1>1. /\ walking /\ walking' = walking
      /\ pids' = pids /\ last_pid' = last_pid
      /\ n # last_pid
      /\ unvisited' = unvisited \ {n}
      /\ next_safe' = IF n > last_pid /\ next_safe > n THEN n ELSE next_safe
  BY DEF visit_other, lower_next_safe
<1>2. CASE n > last_pid /\ next_safe > n
  <2>1. next_safe' = n
    BY <1>1, <1>2
  <2> QED
    BY <1>1, <1>2, <2>1, PidRange DEF PidInv, TypeOK, GapIsFree, WalkIsSound, Pids
<1>3. CASE ~(n > last_pid /\ next_safe > n)
  <2>1. next_safe' = next_safe
    BY <1>1, <1>3
  <2> QED
    BY <1>1, <1>3, <2>1, PidRange DEF PidInv, TypeOK, GapIsFree, WalkIsSound, Pids
<1> QED
  BY <1>2, <1>3

(* At the end of the walk every process has been met. *)
LEMMA Return_PidInv == PidInv /\ get_pid_return => PidInv'
<1> SUFFICES ASSUME PidInv, get_pid_return
             PROVE  PidInv'
  OBVIOUS
<1>1. walking /\ ~walking' /\ walking' \in BOOLEAN
  BY DEF get_pid_return
<1>2. /\ pids' = pids \cup {last_pid}
      /\ unvisited = {} /\ unvisited' = {}
      /\ last_pid' = last_pid /\ next_safe' = next_safe
  BY DEF get_pid_return
<1> QED
  BY <1>1, <1>2, PidRange DEF PidInv, TypeOK, GapIsFree, WalkIsSound, Pids

(* A pid that is removed takes nothing from the gap. *)
LEMMA Remove_PidInv ==
    ASSUME NEW n \in Pids, PidInv, remove_links(n)
    PROVE  PidInv'
BY PidRange
   DEF PidInv, TypeOK, GapIsFree, WalkIsSound, Pids, remove_links

(* The gap that get_pid remembers, and the one that its walk builds up,    *)
(* contain no pid in use.                                                  *)
THEOREM PidInvariance == Spec => []PidInv
<1>1. PidInv /\ [Next]_vars => PidInv'
  <2> SUFFICES ASSUME PidInv, [Next]_vars
               PROVE  PidInv'
    OBVIOUS
  <2>1. CASE Next
    BY <2>1, InGap_PidInv, Walk_PidInv, Taken_PidInv, Other_PidInv,
       Return_PidInv, Remove_PidInv
       DEF Next
  <2>2. CASE UNCHANGED vars
    BY <2>2 DEF vars, PidInv, TypeOK, GapIsFree, WalkIsSound
  <2> QED
    BY <2>1, <2>2
<1> QED
  BY Init_PidInv, <1>1, PTL DEF Spec

(* The remembered gap is free although pids are removed behind the back of *)
(* get_pid.                                                                *)
THEOREM GapAlwaysFree == Spec => []GapIsFree
<1>1. PidInv => GapIsFree
  BY DEF PidInv
<1> QED
  BY <1>1, PidInvariance, PTL

(* A new process never gets the pid of another process.                    *)
THEOREM UniquePids == Spec => PidIsUnique
<1> DEFINE Fresh ==
      /\ get_pid_in_gap => last_pid' \in Pids \ pids
      /\ get_pid_return => last_pid \in Pids \ pids
<1>1. PidInv /\ [Next]_vars => [Fresh]_vars
  <2> SUFFICES ASSUME PidInv
               PROVE  Fresh
    OBVIOUS
  <2>1. get_pid_in_gap => last_pid' \in Pids \ pids
    BY PidRange DEF PidInv, TypeOK, GapIsFree, Pids, get_pid_in_gap, in_gap
  <2>2. get_pid_return => last_pid \in Pids \ pids
    BY PidRange DEF PidInv, TypeOK, WalkIsSound, Pids, get_pid_return
  <2> QED
    BY <2>1, <2>2
<1> QED
  BY <1>1, PidInvariance, PTL DEF Spec, PidIsUnique

-----------------------------------------------------------------------------
(* The relation links *)

InUse(p) == state[p] # "free"

LinkType ==
    /\ state \in [Procs -> {"free", "live", "zombie"}]
    /\ parent \in [Procs -> Procs \cup {NULL}]
    /\ cptr \in [Procs -> Procs \cup {NULL}]
    /\ yptr \in [Procs -> Procs \cup {NULL}]
    /\ optr \in [Procs -> Procs \cup {NULL}]
    /\ exiting \in Procs \cup {NULL}

(* idleproc and initproc are there for ever; a process that is not in the  *)
(* loop of do_exit any more has no children; a free structure is clear.    *)
StateInv ==
    /\ state[idleproc] = "live" /\ state[initproc] = "live"
    /\ exiting # NULL => state[exiting] = "zombie"
    /\ \A p \in Procs : state[p] = "zombie" /\ p # exiting => cptr[p] = NULL
    /\ \A p \in Procs : ~InUse(p) =>
          parent[p] = NULL /\ cptr[p] = NULL /\ yptr[p] = NULL /\ optr[p] = NULL

(* Every process has a parent that can still wait for it, or that is about *)
(* to hand it over.                                                        *)
ParentInv ==
    /\ parent[idleproc] = NULL
    /\ \A c \in Procs : InUse(c) /\ c # idleproc =>
          /\ parent[c] \in Procs
          /\ state[parent[c]] = "live" \/ parent[c] = exiting

(* cptr is a child that is nobody's older sibling. *)
CptrInv ==
    \A p \in Procs : cptr[p] # NULL =>
       /\ InUse(cptr[p]) /\ parent[cptr[p]] = p
       /\ \A c \in Procs : optr[c] # cptr[p]
       /\ p # exiting => yptr[cptr[p]] = NULL

(* optr is a sibling, and yptr leads back from it. *)
OptrInv ==
    \A c \in Procs : optr[c] # NULL =>
       /\ InUse(optr[c])
       /\ parent[optr[c]] = parent[c]
       /\ yptr[optr[c]] = c

(* From cptr, optr leads to every child: a set that has cptr and with a    *)
(* process the older sibling has all of them, and NULL.                    *)
Closed(X) == \A x \in X \ {NULL} : optr[x] \in X

ReachInv ==
    \A p \in Procs : \A X \in SUBSET (Procs \cup {NULL}) :
       InUse(p) /\ cptr[p] \in X /\ Closed(X) => Links!Children(p) \cup {NULL} \subseteq X

LinkInv ==
    /\ LinkType
    /\ StateInv
    /\ ParentInv
    /\ CptrInv
    /\ OptrInv
    /\ YptrExact
    /\ ReachInv

(* The table of proc_init is linked. *)
LEMMA LinkInit == TableInit => LinkInv
<1> SUFFICES ASSUME TableInit
             PROVE  LinkInv
  OBVIOUS
<1> USE LinksAssumption DEF TableInit, Links!Init, InUse
<1>1. LinkType
  BY DEF LinkType
<1>2. StateInv
  BY DEF StateInv
<1>3. ParentInv
  BY DEF ParentInv
<1>4. CptrInv
  BY DEF CptrInv
<1>5. OptrInv
  BY DEF OptrInv
<1>6. YptrExact
  BY DEF YptrExact, Links!YptrExact, Links!InTable
<1>7. ReachInv
  <2> SUFFICES ASSUME NEW p \in Procs, NEW X \in SUBSET (Procs \cup {NULL}),
                      InUse(p), cptr[p] \in X, Closed(X)
               PROVE  Links!Children(p) \cup {NULL} \subseteq X
    BY DEF ReachInv
  <2>1. p = idleproc \/ p = initproc
    OBVIOUS
  <2>2. CASE p = idleproc
    <3>1. initproc \in X /\ optr[initproc] \in X
      BY <2>2 DEF Closed
    <3> QED
      BY <2>2, <3>1 DEF Links!Children, Links!InTable
  <2>3. CASE p = initproc
    BY <2>3 DEF Links!Children, Links!InTable
  <2> QED
    BY <2>1, <2>2, <2>3
<1> QED
  BY <1>1, <1>2, <1>3, <1>4, <1>5, <1>6, <1>7 DEF LinkInv

(* What do_fork leaves in the structures. *)
LEMMA ForkEffect ==
    ASSUME LinkType, NEW p \in Procs, NEW c \in Procs, Links!do_fork(p, c)
    PROVE  /\ LinkType'
           /\ exiting = NULL /\ exiting' = exiting
           /\ state[p] = "live" /\ state[c] = "free" /\ p # c /\ p # idleproc
           /\ \A q \in Procs :
                 /\ state'[q] = IF q = c THEN "live" ELSE state[q]
                 /\ parent'[q] = IF q = c THEN p ELSE parent[q]
                 /\ optr'[q] = IF q = c THEN cptr[p] ELSE optr[q]
                 /\ cptr'[q] = IF q = p THEN c ELSE IF q = c THEN NULL ELSE cptr[q]
                 /\ yptr'[q] = IF q = cptr[p] THEN c ELSE IF q = c THEN NULL ELSE yptr[q]
<1>1. state[p] = "live" /\ state[c] = "free" /\ p # c /\ p # idleproc
  BY DEF Links!do_fork
<1>2. exiting = NULL /\ exiting' = exiting
  BY DEF Links!do_fork
<1>3. /\ state' = [state EXCEPT ![c] = "live"]
      /\ parent' = [parent EXCEPT ![c] = p]
      /\ optr' = [optr EXCEPT ![c] = cptr[p]]
      /\ cptr' = [cptr EXCEPT ![c] = NULL, ![p] = c]
      /\ yptr' = IF cptr[p] = NULL THEN [yptr EXCEPT ![c] = NULL]
                 ELSE [yptr EXCEPT ![c] = NULL, ![cptr[p]] = c]
  BY DEF Links!do_fork, Links!Store
<1>4. cptr[p] \in Procs \cup {NULL}
  BY DEF LinkType
<1>5. \A q \in Procs : q # NULL
  BY LinksAssumption
<1>6. yptr' \in [Procs -> Procs \cup {NULL}]
  BY <1>3, <1>4, <1>5 DEF LinkType
<1>7. LinkType'
  BY <1>2, <1>3, <1>4, <1>6 DEF LinkType
<1>8. ASSUME NEW q \in Procs
      PROVE  yptr'[q] = IF q = cptr[p] THEN c ELSE IF q = c THEN NULL ELSE yptr[q]
  BY <1>3, <1>4, <1>5 DEF LinkType
<1> QED
  BY <1>1, <1>2, <1>3, <1>7, <1>8 DEF LinkType

(* do_fork keeps the links. *)
LEMMA ForkLinks ==
    ASSUME LinkInv, NEW p \in Procs, NEW c \in Procs, Links!do_fork(p, c)
    PROVE  LinkInv'
<1> USE LinksAssumption DEF InUse
<1>0. LinkType /\ StateInv /\ ParentInv /\ CptrInv /\ OptrInv
  BY DEF LinkInv
<1>E. /\ LinkType'
      /\ exiting = NULL /\ exiting' = exiting
      /\ state[p] = "live" /\ state[c] = "free" /\ p # c /\ p # idleproc
      /\ \A q \in Procs :
            /\ state'[q] = IF q = c THEN "live" ELSE state[q]
            /\ parent'[q] = IF q = c THEN p ELSE parent[q]
            /\ optr'[q] = IF q = c THEN cptr[p] ELSE optr[q]
            /\ cptr'[q] = IF q = p THEN c ELSE IF q = c THEN NULL ELSE cptr[q]
            /\ yptr'[q] = IF q = cptr[p] THEN c ELSE IF q = c THEN NULL ELSE yptr[q]
  BY <1>0, ForkEffect
(* Nothing points to a free structure. *)
<1>N. /\ \A q \in Procs : cptr[q] # c /\ optr[q] # c
      /\ \A q \in Procs : parent[q] # c
      /\ cptr[p] \in Procs \cup {NULL}
      /\ parent[c] = NULL /\ cptr[c] = NULL /\ yptr[c] = NULL /\ optr[c] = NULL
  BY <1>0, <1>E DEF StateInv, ParentInv, CptrInv, OptrInv, LinkType
<1>2. StateInv'
  BY <1>0, <1>E, <1>N DEF StateInv, CptrInv
<1>3. ParentInv'
  BY <1>0, <1>E, <1>N DEF ParentInv, StateInv
<1>4. CptrInv'
  BY <1>0, <1>E, <1>N DEF CptrInv, LinkType
<1>5. OptrInv'
  BY <1>0, <1>E, <1>N DEF OptrInv, CptrInv, LinkType
<1>6. YptrExact'
  BY <1>0, <1>E, <1>N DEF LinkInv, YptrExact, Links!YptrExact, Links!Children, Links!InTable, ParentInv, LinkType, CptrInv
<1>7. ReachInv'
  <2> SUFFICES ASSUME NEW q \in Procs, NEW X \in SUBSET (Procs \cup {NULL}),
                      InUse(q)', cptr'[q] \in X, Closed(X)'
               PROVE  Links!Children(q)' \cup {NULL} \subseteq X
    BY DEF ReachInv
  <2>1. CASE q = c
    BY <1>0, <1>E, <1>N, <2>1 DEF Links!Children, Links!InTable
  <2>2. CASE q # c
    <3> DEFINE Y == X \ {c}
    <3>1. Y \in SUBSET (Procs \cup {NULL})
      OBVIOUS
    <3>2. Closed(Y)
      BY <1>E, <1>N DEF Closed
    <3>3. cptr[q] \in Y /\ (q = p => c \in X)
      BY <1>E, <1>N, <2>2 DEF Closed
    <3>4. InUse(q)
      BY <1>E, <2>2
    <3>5. Links!Children(q) \cup {NULL} \subseteq Y
      <4> HIDE DEF Y
      <4> QED
        BY <3>1, <3>2, <3>3, <3>4 DEF LinkInv, ReachInv
    <3>6. \A d \in Procs : d \in Links!Children(q)' => d \in Links!Children(q) \/ (q = p /\ d = c)
      BY <1>E, <2>2 DEF Links!Children, Links!InTable
    <3>7. Links!Children(q)' \subseteq Procs
      BY DEF Links!Children, Links!InTable
    <3> QED
      BY <3>3, <3>5, <3>6, <3>7
  <2> QED
    BY <2>1, <2>2
<1> QED
  BY <1>E, <1>2, <1>3, <1>4, <1>5, <1>6, <1>7 DEF LinkInv

(* do_exit keeps the links. *)
LEMMA ExitLinks ==
    ASSUME LinkInv, NEW p \in Procs, Links!do_exit(p)
    PROVE  LinkInv'
<1> USE LinksAssumption DEF InUse
<1>0. LinkType /\ StateInv /\ ParentInv /\ CptrInv /\ OptrInv
  BY DEF LinkInv
<1>E. /\ exiting = NULL /\ exiting' = p
      /\ p # idleproc /\ p # initproc /\ state[p] = "live"
      /\ state' = [state EXCEPT ![p] = "zombie"]
      /\ parent' = parent /\ cptr' = cptr /\ yptr' = yptr /\ optr' = optr
      /\ \A q \in Procs : state'[q] = IF q = p THEN "zombie" ELSE state[q]
  BY <1>0 DEF Links!do_exit, LinkType
<1>1. LinkType'
  BY <1>0, <1>E DEF LinkType
<1>2. StateInv'
  BY <1>0, <1>E DEF StateInv
<1>3. ParentInv'
  BY <1>0, <1>E DEF ParentInv
<1>4. CptrInv'
  BY <1>0, <1>E DEF CptrInv, LinkType
<1>5. OptrInv'
  BY <1>0, <1>E DEF OptrInv, LinkType
<1>6. \A q \in Procs : Links!Children(q)' = Links!Children(q)
  BY <1>E DEF Links!Children, Links!InTable
<1>7. Links!InTable' = Links!InTable
  BY <1>E DEF Links!InTable
<1>8. YptrExact'
  <2>1. \A d \in Links!InTable \ {idleproc} : parent[d] \in Procs
    BY <1>0 DEF ParentInv, Links!InTable
  <2> QED
    BY <1>E, <1>6, <1>7, <2>1 DEF LinkInv, YptrExact, Links!YptrExact
<1>9. ReachInv'
  <2> SUFFICES ASSUME NEW q \in Procs, NEW X \in SUBSET (Procs \cup {NULL}),
                      InUse(q)', cptr'[q] \in X, Closed(X)'
               PROVE  Links!Children(q)' \cup {NULL} \subseteq X
    BY DEF ReachInv
  <2>1. InUse(q) /\ cptr[q] \in X /\ Closed(X)
    BY <1>E DEF Closed
  <2> QED
    BY <1>6, <2>1 DEF LinkInv, ReachInv
<1> QED
  BY <1>1, <1>2, <1>3, <1>4, <1>5, <1>8, <1>9 DEF LinkInv

(* The end of do_exit keeps the links. *)
LEMMA ExitEndLinks ==
    ASSUME LinkInv, Links!do_exit_end
    PROVE  LinkInv'
<1> USE LinksAssumption DEF InUse
<1>0. LinkType /\ StateInv /\ ParentInv /\ CptrInv /\ OptrInv
  BY DEF LinkInv
<1>E. /\ exiting # NULL /\ cptr[exiting] = NULL /\ exiting' = NULL
      /\ state' = state /\ parent' = parent /\ cptr' = cptr /\ yptr' = yptr /\ optr' = optr
  BY DEF Links!do_exit_end
<1>1. LinkType'
  BY <1>0, <1>E DEF LinkType
<1>2. StateInv'
  BY <1>0, <1>E DEF StateInv
(* The process has handed over every child: cptr leads to all of them. *)
<1>N. Links!Children(exiting) = {}
  <2>1. exiting \in Procs /\ InUse(exiting)
    BY <1>0, <1>E DEF LinkType, StateInv
  <2>2. cptr[exiting] \in {NULL} /\ Closed({NULL})
    BY <1>E DEF Closed
  <2>3. Links!Children(exiting) \subseteq {NULL}
    BY <2>1, <2>2 DEF LinkInv, ReachInv
  <2> QED
    BY <2>3 DEF Links!Children, Links!InTable
<1>3. ParentInv'
  BY <1>0, <1>E, <1>N DEF ParentInv, Links!Children, Links!InTable
<1>4. CptrInv'
  BY <1>0, <1>E DEF CptrInv
<1>5. OptrInv'
  BY <1>0, <1>E DEF OptrInv
<1>6. \A q \in Procs : Links!Children(q)' = Links!Children(q)
  BY <1>E DEF Links!Children, Links!InTable
<1>7. Links!InTable' = Links!InTable
  BY <1>E DEF Links!InTable
<1>8. YptrExact'
  <2>1. \A d \in Links!InTable \ {idleproc} : parent[d] \in Procs /\ d # NULL
    BY <1>0 DEF ParentInv, Links!InTable
  <2> QED
    BY <1>E, <1>6, <1>7, <2>1 DEF LinkInv, YptrExact, Links!YptrExact
<1>9. ReachInv'
  BY <1>E, <1>6 DEF LinkInv, ReachInv, Closed
<1> QED
  BY <1>1, <1>2, <1>3, <1>4, <1>5, <1>8, <1>9 DEF LinkInv

(* What one turn of the loop of do_exit leaves in the structures. *)
LEMMA ReparentEffect ==
    ASSUME LinkInv, NEW e, e = exiting, NEW c, c = cptr[e], Links!reparent
    PROVE  /\ LinkType'
           /\ e \in Procs /\ c \in Procs /\ e # initproc
           /\ exiting' = e /\ state' = state
           /\ state[e] = "zombie" /\ InUse(c) /\ parent[c] = e
           /\ \A q \in Procs :
                 /\ parent'[q] = IF q = c THEN initproc ELSE parent[q]
                 /\ optr'[q] = IF q = c THEN cptr[initproc] ELSE optr[q]
                 /\ cptr'[q] = IF q = initproc THEN c ELSE IF q = e THEN optr[c] ELSE cptr[q]
                 /\ yptr'[q] = IF q = cptr[initproc] THEN c ELSE IF q = c THEN NULL ELSE yptr[q]
<1> USE LinksAssumption
<1>0. LinkType /\ StateInv /\ CptrInv
  BY DEF LinkInv
<1>1. e \in Procs /\ c \in Procs /\ e # initproc /\ state[e] = "zombie" /\ InUse(c) /\ parent[c] = e
  BY <1>0 DEF Links!reparent, LinkType, StateInv, CptrInv
<1>2. /\ exiting' = e /\ state' = state
      /\ parent' = [parent EXCEPT ![c] = initproc]
      /\ optr' = [optr EXCEPT ![c] = cptr[initproc]]
      /\ cptr' = [cptr EXCEPT ![e] = optr[c], ![initproc] = c]
      /\ yptr' = IF cptr[initproc] = NULL THEN [yptr EXCEPT ![c] = NULL]
                 ELSE [yptr EXCEPT ![c] = NULL, ![cptr[initproc]] = c]
  BY DEF Links!reparent, Links!Store, Links!adopted_yptr
<1>3. cptr[initproc] \in Procs \cup {NULL} /\ optr[c] \in Procs \cup {NULL}
  BY <1>0, <1>1 DEF LinkType
<1>4. \A q \in Procs : q # NULL
  OBVIOUS
<1>5. yptr' \in [Procs -> Procs \cup {NULL}]
  BY <1>0, <1>1, <1>2, <1>3, <1>4 DEF LinkType
<1>6. LinkType'
  BY <1>0, <1>1, <1>2, <1>3, <1>5 DEF LinkType
<1>7. ASSUME NEW q \in Procs
      PROVE  yptr'[q] = IF q = cptr[initproc] THEN c ELSE IF q = c THEN NULL ELSE yptr[q]
  BY <1>0, <1>1, <1>2, <1>3, <1>4 DEF LinkType
<1> QED
  BY <1>0, <1>1, <1>2, <1>6, <1>7 DEF LinkType

(* A turn of the loop of do_exit that gives children away keeps the links. *)
LEMMA ReparentLinks ==
    ASSUME LinkInv, Links!reparent
    PROVE  LinkInv'
<1> USE LinksAssumption DEF InUse
<1>0. LinkType /\ StateInv /\ ParentInv /\ CptrInv /\ OptrInv
  BY DEF LinkInv
<1>P. PICK e, c : e = exiting /\ c = cptr[e]
  OBVIOUS
<1>E. /\ LinkType'
      /\ e \in Procs /\ c \in Procs /\ e # initproc
      /\ exiting' = e /\ state' = state
      /\ state[e] = "zombie" /\ InUse(c) /\ parent[c] = e
      /\ \A q \in Procs :
            /\ parent'[q] = IF q = c THEN initproc ELSE parent[q]
            /\ optr'[q] = IF q = c THEN cptr[initproc] ELSE optr[q]
            /\ cptr'[q] = IF q = initproc THEN c ELSE IF q = e THEN optr[c] ELSE cptr[q]
            /\ yptr'[q] = IF q = cptr[initproc] THEN c ELSE IF q = c THEN NULL ELSE yptr[q]
  BY <1>P, ReparentEffect
<1>N. /\ \A q \in Procs : optr[q] # c /\ (q # e => cptr[q] # c)
      /\ cptr[initproc] \in Procs \cup {NULL} /\ optr[c] \in Procs \cup {NULL}
      /\ c # idleproc /\ e # NULL /\ c # NULL
  BY <1>0, <1>P, <1>E DEF StateInv, ParentInv, CptrInv, OptrInv, LinkType
<1>2. StateInv'
  BY <1>0, <1>P, <1>E, <1>N DEF StateInv, CptrInv
<1>3. ParentInv'
  BY <1>0, <1>P, <1>E, <1>N DEF ParentInv, StateInv
<1>4. CptrInv'
  BY <1>0, <1>P, <1>E, <1>N DEF CptrInv, OptrInv, LinkType
<1>5. OptrInv'
  BY <1>0, <1>P, <1>E, <1>N DEF OptrInv, CptrInv, LinkType
<1>6. YptrExact'
  BY <1>0, <1>P, <1>E, <1>N
     DEF LinkInv, YptrExact, Links!YptrExact, Links!Children, Links!InTable, ParentInv, LinkType, CptrInv
<1>7. ReachInv'
  <2> SUFFICES ASSUME NEW q \in Procs, NEW X \in SUBSET (Procs \cup {NULL}),
                      InUse(q)', cptr'[q] \in X, Closed(X)'
               PROVE  Links!Children(q)' \cup {NULL} \subseteq X
    BY DEF ReachInv
  <2>1. CASE q = e
    <3> DEFINE Y == X \cup {c}
    <3>1. Y \in SUBSET (Procs \cup {NULL})
      BY <1>E
    <3>2. optr[c] \in X
      BY <1>E, <2>1
    <3>3. Closed(Y)
      BY <1>E, <1>N, <3>2 DEF Closed
    <3>4. cptr[q] \in Y /\ InUse(q)
      BY <1>E, <1>P, <2>1
    <3>5. Links!Children(q) \cup {NULL} \subseteq Y
      <4> HIDE DEF Y
      <4> QED
        BY <3>1, <3>3, <3>4 DEF LinkInv, ReachInv
    <3>6. \A d \in Procs : d \in Links!Children(q)' => d \in Links!Children(q) /\ d # c
      BY <1>E, <2>1 DEF Links!Children, Links!InTable
    <3>7. Links!Children(q)' \subseteq Procs
      BY DEF Links!Children, Links!InTable
    <3> QED
      BY <1>N, <3>5, <3>6, <3>7
  <2>2. CASE q # e
    <3> DEFINE Y == X \ {c}
    <3>1. Y \in SUBSET (Procs \cup {NULL})
      OBVIOUS
    <3>2. Closed(Y)
      BY <1>E, <1>N DEF Closed
    <3>3. cptr[q] \in Y /\ (q = initproc => c \in X)
      BY <1>E, <1>N, <2>2 DEF Closed
    <3>4. InUse(q)
      BY <1>E
    <3>5. Links!Children(q) \cup {NULL} \subseteq Y
      <4> HIDE DEF Y
      <4> QED
        BY <3>1, <3>2, <3>3, <3>4 DEF LinkInv, ReachInv
    <3>6. \A d \in Procs : d \in Links!Children(q)' =>
             d \in Links!Children(q) \/ (q = initproc /\ d = c)
      BY <1>E, <2>2 DEF Links!Children, Links!InTable
    <3>7. Links!Children(q)' \subseteq Procs
      BY DEF Links!Children, Links!InTable
    <3> QED
      BY <3>3, <3>5, <3>6, <3>7
  <2> QED
    BY <2>1, <2>2
<1> QED
  BY <1>E, <1>2, <1>3, <1>4, <1>5, <1>6, <1>7 DEF LinkInv

(* What do_wait leaves in the structures. *)
LEMMA WaitEffect ==
    ASSUME LinkInv, NEW p \in Procs, NEW c \in Procs, Links!do_wait(p, c)
    PROVE  /\ LinkType'
           /\ exiting = NULL /\ exiting' = exiting
           /\ state[p] = "live" /\ state[c] = "zombie" /\ parent[c] = p
           /\ \A q \in Procs :
                 /\ state'[q] = IF q = c THEN "free" ELSE state[q]
                 /\ parent'[q] = IF q = c THEN NULL ELSE parent[q]
                 /\ optr'[q] = IF q = c THEN NULL ELSE IF q = yptr[c] THEN optr[c] ELSE optr[q]
                 /\ cptr'[q] = IF q = p /\ yptr[c] = NULL THEN optr[c] ELSE cptr[q]
                 /\ yptr'[q] = IF q = c THEN NULL ELSE IF q = optr[c] THEN yptr[c] ELSE yptr[q]
<1> USE LinksAssumption
<1>0. LinkType
  BY DEF LinkInv
<1>1. /\ exiting = NULL /\ exiting' = exiting
      /\ state[p] = "live" /\ state[c] = "zombie" /\ parent[c] = p
      /\ state' = [state EXCEPT ![c] = "free"]
      /\ parent' = [parent EXCEPT ![c] = NULL]
      /\ optr' = [(IF yptr[c] = NULL THEN optr ELSE [optr EXCEPT ![yptr[c]] = optr[c]])
                     EXCEPT ![c] = NULL]
      /\ yptr' = [(IF optr[c] = NULL THEN yptr ELSE [yptr EXCEPT ![optr[c]] = yptr[c]])
                     EXCEPT ![c] = NULL]
      /\ cptr' = IF yptr[c] = NULL THEN [cptr EXCEPT ![p] = optr[c]] ELSE cptr
  BY DEF Links!do_wait, Links!Store, Links!older_of_younger
<1>2. optr[c] \in Procs \cup {NULL} /\ yptr[c] \in Procs \cup {NULL}
  BY <1>0 DEF LinkType
<1>3. \A q \in Procs : q # NULL
  OBVIOUS
<1>4. /\ yptr' \in [Procs -> Procs \cup {NULL}]
      /\ \A q \in Procs :
            yptr'[q] = IF q = c THEN NULL ELSE IF q = optr[c] THEN yptr[c] ELSE yptr[q]
  BY <1>0, <1>1, <1>2, <1>3 DEF LinkType
<1>5. /\ optr' \in [Procs -> Procs \cup {NULL}]
      /\ \A q \in Procs :
            optr'[q] = IF q = c THEN NULL ELSE IF q = yptr[c] THEN optr[c] ELSE optr[q]
  BY <1>0, <1>1, <1>2, <1>3 DEF LinkType
<1>6. /\ cptr' \in [Procs -> Procs \cup {NULL}]
      /\ \A q \in Procs :
            cptr'[q] = IF q = p /\ yptr[c] = NULL THEN optr[c] ELSE cptr[q]
  BY <1>0, <1>1, <1>2 DEF LinkType
<1>7. LinkType'
  BY <1>0, <1>1, <1>4, <1>5, <1>6 DEF LinkType
<1> QED
  BY <1>0, <1>1, <1>4, <1>5, <1>6, <1>7 DEF LinkType

(* do_wait keeps the links. *)
LEMMA WaitLinks ==
    ASSUME LinkInv, NEW p \in Procs, NEW c \in Procs, Links!do_wait(p, c)
    PROVE  LinkInv'
<1> USE LinksAssumption DEF InUse
<1>0. LinkType /\ StateInv /\ ParentInv /\ CptrInv /\ OptrInv
  BY DEF LinkInv
<1>P. PICK y, o : y = yptr[c] /\ o = optr[c]
  OBVIOUS
<1>E. /\ LinkType'
      /\ exiting = NULL /\ exiting' = exiting
      /\ state[p] = "live" /\ state[c] = "zombie" /\ parent[c] = p
      /\ \A q \in Procs :
            /\ state'[q] = IF q = c THEN "free" ELSE state[q]
            /\ parent'[q] = IF q = c THEN NULL ELSE parent[q]
            /\ optr'[q] = IF q = c THEN NULL ELSE IF q = y THEN o ELSE optr[q]
            /\ cptr'[q] = IF q = p /\ y = NULL THEN o ELSE cptr[q]
            /\ yptr'[q] = IF q = c THEN NULL ELSE IF q = o THEN y ELSE yptr[q]
  BY <1>P, WaitEffect
(* The younger sibling has c as its older one; without one c is the head.  *)
<1>Y. /\ c # idleproc /\ c # p /\ c # initproc
      /\ \/ y = NULL /\ cptr[p] = c
         \/ y \in Procs /\ InUse(y) /\ parent[y] = p /\ optr[y] = c
  <2>1. c # idleproc /\ c # p /\ c # initproc
    BY <1>0, <1>E DEF StateInv
  <2>2. c \in Links!InTable \ {idleproc}
    BY <1>E, <2>1 DEF Links!InTable
  <2> QED
    BY <1>E, <1>P, <2>1, <2>2
       DEF LinkInv, YptrExact, Links!YptrExact, Links!Children, Links!InTable
<1>O. /\ o = NULL \/ (o \in Procs /\ InUse(o) /\ parent[o] = p /\ yptr[o] = c)
      /\ y \in Procs \cup {NULL} /\ c # NULL
  BY <1>0, <1>P, <1>E DEF OptrInv, LinkType
(* Nobody else points to c. *)
<1>N. \A q \in Procs :
         /\ parent[q] # c
         /\ q # p => cptr[q] # c
         /\ optr[q] = c => q = y
         /\ y # NULL => cptr[q] # c
  <2>1. \A q \in Procs : parent[q] # c
    BY <1>0, <1>E, <1>Y DEF ParentInv, StateInv
  <2>2. \A q \in Procs : optr[q] = c => q = y
    BY <1>0, <1>P, <1>O DEF OptrInv
  <2>3. \A q \in Procs : q # p => cptr[q] # c
    BY <1>0, <1>E, <1>O DEF CptrInv
  <2>4. \A q \in Procs : y # NULL => cptr[q] # c
    BY <1>0, <1>Y, <1>O DEF CptrInv
  <2> QED
    BY <2>1, <2>2, <2>3, <2>4
<1>2. StateInv'
  BY <1>0, <1>P, <1>E, <1>N, <1>Y, <1>O DEF StateInv
<1>3. ParentInv'
  BY <1>0, <1>E, <1>N, <1>Y DEF ParentInv, StateInv
<1>4. CptrInv'
  BY <1>0, <1>P, <1>E, <1>N, <1>Y, <1>O DEF CptrInv, OptrInv, LinkType
<1>5. OptrInv'
  BY <1>0, <1>P, <1>E, <1>N, <1>Y, <1>O DEF OptrInv, CptrInv, LinkType
<1>6. YptrExact'
  BY <1>0, <1>P, <1>E, <1>N, <1>Y, <1>O
     DEF LinkInv, YptrExact, Links!YptrExact, Links!Children, Links!InTable, ParentInv, LinkType, CptrInv
<1>7. ReachInv'
  <2> SUFFICES ASSUME NEW q \in Procs, NEW X \in SUBSET (Procs \cup {NULL}),
                      InUse(q)', cptr'[q] \in X, Closed(X)'
               PROVE  Links!Children(q)' \cup {NULL} \subseteq X
    BY DEF ReachInv
  <2>0. q # c /\ InUse(q)
    BY <1>E
  <2>1. \A d \in Procs : d \in Links!Children(q)' => d \in Links!Children(q) /\ d # c
    BY <1>E, <2>0, <1>O DEF Links!Children, Links!InTable
  <2>2. Links!Children(q)' \subseteq Procs
    BY DEF Links!Children, Links!InTable
  <2>3. CASE o \in X
    <3> DEFINE Y == X \cup {c}
    <3>1. Y \in SUBSET (Procs \cup {NULL})
      OBVIOUS
    <3>2. Closed(Y)
      BY <1>E, <1>P, <1>N, <1>Y, <1>O, <2>3 DEF Closed
    <3>3. cptr[q] \in Y
      BY <1>E, <1>Y, <1>N
    <3>4. Links!Children(q) \cup {NULL} \subseteq Y
      <4> HIDE DEF Y
      <4> QED
        BY <2>0, <3>1, <3>2, <3>3 DEF LinkInv, ReachInv
    <3> QED
      BY <1>O, <2>1, <2>2, <3>4
  <2>4. CASE o \notin X
    <3> DEFINE Y == X \ {c}
    <3>1. Y \in SUBSET (Procs \cup {NULL})
      OBVIOUS
    <3>2. y # c /\ y # NULL => y \notin X
      BY <1>E, <1>Y, <1>O, <2>4 DEF Closed
    <3>3. Closed(Y)
      BY <1>E, <1>N, <1>O, <3>2 DEF Closed
    <3>4. cptr[q] \in Y
      BY <1>E, <1>N, <2>4
    <3>5. Links!Children(q) \cup {NULL} \subseteq Y
      <4> HIDE DEF Y
      <4> QED
        BY <2>0, <3>1, <3>3, <3>4 DEF LinkInv, ReachInv
    <3> QED
      BY <2>1, <2>2, <3>5
  <2> QED
    BY <2>3, <2>4
<1> QED
  BY <1>E, <1>2, <1>3, <1>4, <1>5, <1>6, <1>7 DEF LinkInv

-----------------------------------------------------------------------------
(* The counts *)

(* The processes that have a pid of their own. *)
Numbered == Links!InTable \ {idleproc}

CountInv ==
    /\ IsFiniteSet(Links!InTable)
    /\ nr_process = Cardinality(Links!InTable)
    /\ nr_process <= MAX_PROCESS
    /\ pid \in [Procs -> Nat]
    /\ pids = {pid[p] : p \in Numbered}
    /\ \A p, q \in Numbered : pid[p] = pid[q] => p = q
    /\ IsFiniteSet(pids)
    /\ Cardinality(pids) + 1 = nr_process

(* The counts of proc_init are right. *)
LEMMA CountInit == TableInit => CountInv
<1> SUFFICES ASSUME TableInit
             PROVE  CountInv
  OBVIOUS
<1>1. Links!InTable = {idleproc, initproc} /\ Numbered = {initproc}
  BY LinksAssumption DEF TableInit, Links!Init, Links!InTable, Numbered
<1>2. pids = {1} /\ nr_process = 2 /\ pid = [p \in Procs |-> IF p = initproc THEN 1 ELSE 0]
  BY DEF TableInit, Links!Init
<1>3. IsFiniteSet({initproc}) /\ Cardinality({initproc}) = 1 /\ IsFiniteSet({1}) /\ Cardinality({1}) = 1
  BY FS_Singleton
<1>4. idleproc \notin {initproc} /\ {idleproc, initproc} = {initproc} \cup {idleproc}
  BY LinksAssumption
<1>5. IsFiniteSet({idleproc, initproc}) /\ Cardinality({idleproc, initproc}) = 2
  BY <1>3, <1>4, FS_AddElement
<1>6. pid \in [Procs -> Nat] /\ pid[initproc] = 1
  BY <1>2, LinksAssumption
<1> QED
  BY <1>1, <1>2, <1>3, <1>5, <1>6, MaxProcessAssumption DEF CountInv

(* A fork adds one process and one pid, which is new. *)
LEMMA ForkCounts ==
    ASSUME PidInv, LinkInv, CountInv,
           NEW p \in Procs, NEW c \in Procs, Links!do_fork(p, c),
           get_pid_in_gap \/ get_pid_return,
           pid' = [pid EXCEPT ![c] = last_pid']
    PROVE  CountInv'
<1>1. /\ Links!InTable' = Links!InTable \cup {c}
      /\ c \notin Links!InTable
      /\ nr_process' = nr_process + 1 /\ nr_process < MAX_PROCESS
      /\ c # idleproc
  BY LinksAssumption DEF Links!do_fork, Links!InTable, LinkInv, LinkType, StateInv
<1>2. /\ last_pid' \in Nat \ pids
      /\ pids' = pids \cup {last_pid'}
  <2>1. CASE get_pid_in_gap
    BY <2>1, PidRange DEF PidInv, TypeOK, GapIsFree, Pids, get_pid_in_gap, in_gap
  <2>2. CASE get_pid_return
    BY <2>2, PidRange DEF PidInv, TypeOK, WalkIsSound, Pids, get_pid_return
  <2> QED
    BY <2>1, <2>2
<1>3. /\ IsFiniteSet(Links!InTable')
      /\ Cardinality(Links!InTable') = Cardinality(Links!InTable) + 1
  BY <1>1, FS_AddElement DEF CountInv
<1>4. IsFiniteSet(pids') /\ Cardinality(pids') = Cardinality(pids) + 1
  BY <1>2, FS_AddElement DEF CountInv
<1>5. Numbered' = Numbered \cup {c} /\ c \notin Numbered /\ Numbered \subseteq Procs
  BY <1>1 DEF Numbered, Links!InTable
<1>6. /\ pid' \in [Procs -> Nat] /\ pid'[c] = last_pid'
      /\ \A q \in Numbered : pid'[q] = pid[q] /\ pid[q] \in pids
  BY <1>2, <1>5 DEF CountInv
<1>7. pids' = {pid'[q] : q \in Numbered'}
  BY <1>2, <1>5, <1>6 DEF CountInv
<1>8. \A q, r \in Numbered' : pid'[q] = pid'[r] => q = r
  BY <1>2, <1>5, <1>6 DEF CountInv
<1>9. Cardinality(Links!InTable) \in Nat /\ Cardinality(pids) \in Nat /\ nr_process = Cardinality(Links!InTable)
  BY FS_CardinalityType DEF CountInv
<1> QED
  BY <1>1, <1>3, <1>4, <1>6, <1>7, <1>8, <1>9, MaxProcessAssumption DEF CountInv

(* do_wait takes the process and its pid. *)
LEMMA WaitCounts ==
    ASSUME LinkInv, CountInv,
           NEW p \in Procs, NEW c \in Procs, wait(p, c)
    PROVE  CountInv'
<1>1. /\ Links!InTable' = Links!InTable \ {c}
      /\ c \in Links!InTable
      /\ nr_process' = nr_process - 1
      /\ c # idleproc
      /\ pids' = pids \ {pid[c]} /\ pid' = [pid EXCEPT ![c] = 0]
  <2>1. state' = [state EXCEPT ![c] = "free"] /\ state[c] = "zombie" /\ nr_process' = nr_process - 1
    BY DEF wait, Links!do_wait, Links!release_slot
  <2>2. pids' = pids \ {pid[c]} /\ pid' = [pid EXCEPT ![c] = 0]
    BY DEF wait, remove_links
  <2> QED
    BY <2>1, <2>2, LinksAssumption DEF Links!InTable, LinkInv, LinkType, StateInv
<1>2. /\ IsFiniteSet(Links!InTable')
      /\ Cardinality(Links!InTable') = Cardinality(Links!InTable) - 1
  BY <1>1, FS_RemoveElement DEF CountInv
<1>3. Numbered' = Numbered \ {c} /\ c \in Numbered /\ Numbered \subseteq Procs
  BY <1>1 DEF Numbered, Links!InTable
<1>4. pid[c] \in pids
  BY <1>3 DEF CountInv
<1>5. IsFiniteSet(pids') /\ Cardinality(pids') = Cardinality(pids) - 1
  BY <1>1, <1>4, FS_RemoveElement DEF CountInv
<1>6. pid' \in [Procs -> Nat] /\ \A q \in Numbered' : pid'[q] = pid[q] /\ pid[q] # pid[c]
  BY <1>1, <1>3 DEF CountInv
<1>7. pids' = {pid'[q] : q \in Numbered'}
  BY <1>1, <1>3, <1>6 DEF CountInv
<1>8. \A q, r \in Numbered' : pid'[q] = pid'[r] => q = r
  BY <1>3, <1>6 DEF CountInv
<1>9. Cardinality(Links!InTable) \in Nat /\ Cardinality(pids) \in Nat /\ nr_process = Cardinality(Links!InTable)
  BY FS_CardinalityType DEF CountInv
<1> QED
  BY <1>1, <1>2, <1>5, <1>6, <1>7, <1>8, <1>9, MaxProcessAssumption DEF CountInv

-----------------------------------------------------------------------------
(* The table *)

TableInv == PidInv /\ LinkInv /\ CountInv

(* The initial table has the invariant. *)
LEMMA TableInitInv == TableInit => TableInv
<1> SUFFICES ASSUME TableInit
             PROVE  TableInv
  OBVIOUS
<1>1. ~walking /\ walking \in BOOLEAN
  BY DEF TableInit
<1>2. PidInv
  BY <1>1, PidRange DEF TableInit, PidInv, TypeOK, GapIsFree, WalkIsSound, Pids
<1> QED
  BY <1>2, LinkInit, CountInit DEF TableInv

(* Steps that leave the links alone, or the pids. *)
LEMMA SameLinks == LinkInv /\ UNCHANGED link_vars => LinkInv'
<1> SUFFICES ASSUME LinkInv, UNCHANGED link_vars
             PROVE  LinkInv'
  OBVIOUS
<1>1. /\ state' = state /\ parent' = parent /\ cptr' = cptr /\ yptr' = yptr
      /\ optr' = optr /\ exiting' = exiting
  BY DEF link_vars
<1>2. LinkType' /\ StateInv' /\ ParentInv' /\ CptrInv' /\ OptrInv'
  BY <1>1 DEF LinkInv, LinkType, StateInv, ParentInv, CptrInv, OptrInv, InUse
<1>3. YptrExact' /\ ReachInv'
  BY <1>1 DEF LinkInv, YptrExact, Links!YptrExact, Links!Children, Links!InTable, ReachInv, Closed, InUse
<1> QED
  BY <1>2, <1>3 DEF LinkInv

(* A step that leaves the pids alone keeps what is known of them. *)
LEMMA SamePids == PidInv /\ UNCHANGED vars => PidInv'
BY DEF vars, PidInv, TypeOK, GapIsFree, WalkIsSound

(* A step that leaves the table and its counter alone keeps the counts. *)
LEMMA SameCounts ==
    ASSUME CountInv, Links!InTable' = Links!InTable, nr_process' = nr_process,
           pid' = pid, pids' = pids
    PROVE  CountInv'
BY DEF CountInv, Numbered

(* Every step of the table keeps the invariant. *)
LEMMA TableStep == TableInv /\ [TableNext]_table_vars => TableInv'
<1> SUFFICES ASSUME TableInv, [TableNext]_table_vars
             PROVE  TableInv'
  OBVIOUS
<1>0. PidInv /\ LinkInv /\ CountInv
  BY DEF TableInv
<1>1. CASE walk_begin \/ walk_step
  <2>1. UNCHANGED link_vars /\ pid' = pid /\ pids' = pids
    BY <1>1 DEF walk_begin, walk_step, get_pid_walk, visit_taken, visit_other
  <2>2. PidInv'
    BY <1>0, <1>1, Walk_PidInv, Taken_PidInv, Other_PidInv DEF walk_begin, walk_step
  <2>3. LinkInv'
    BY <1>0, <2>1, SameLinks
  <2>4. CountInv'
    BY <1>0, <2>1, SameCounts DEF link_vars, Links!InTable
  <2> QED
    BY <2>2, <2>3, <2>4 DEF TableInv
<1>2. ASSUME NEW p \in Procs, NEW c \in Procs, wait(p, c)
      PROVE  TableInv'
  <2>1. LinkInv'
    BY <1>0, <1>2, WaitLinks DEF wait
  <2>2. CountInv'
    BY <1>0, <1>2, WaitCounts
  <2>3. pid[c] \in Pids
    BY <1>0, <1>2 DEF wait, remove_links, PidInv, TypeOK
  <2>4. PidInv'
    BY <1>0, <1>2, <2>3, Remove_PidInv DEF wait
  <2> QED
    BY <2>1, <2>2, <2>4 DEF TableInv
<1>3. ASSUME NEW p \in Procs, fork(p)
      PROVE  TableInv'
  <2>1. PICK c \in Procs : /\ Links!do_fork(p, c)
                           /\ pid' = [pid EXCEPT ![c] = last_pid']
    <3>1. (CHOOSE c \in Links!Free : TRUE) \in Procs
      BY <1>3 DEF fork, Links!Free
    <3> QED
      BY <1>3, <3>1 DEF fork
  <2>2. get_pid_in_gap \/ get_pid_return
    BY <1>3 DEF fork
  <2>3. LinkInv'
    BY <1>0, <2>1, ForkLinks
  <2>4. CountInv'
    BY <1>0, <2>1, <2>2, ForkCounts
  <2>5. PidInv'
    BY <1>0, <2>2, InGap_PidInv, Return_PidInv
  <2> QED
    BY <2>3, <2>4, <2>5 DEF TableInv
<1>4. ASSUME NEW p \in Procs, exit(p)
      PROVE  TableInv'
  <2>1. LinkInv' /\ PidInv'
    BY <1>0, <1>4, ExitLinks, SamePids DEF exit
  <2>2. Links!InTable' = Links!InTable /\ nr_process' = nr_process /\ pid' = pid /\ pids' = pids
    <3>1. state' = [state EXCEPT ![p] = "zombie"] /\ state[p] = "live"
      BY <1>4 DEF exit, Links!do_exit
    <3>2. nr_process' = nr_process /\ pid' = pid /\ pids' = pids
      BY <1>4 DEF exit, Links!do_exit, vars
    <3> QED
      BY <1>0, <3>1, <3>2 DEF Links!InTable, LinkInv, LinkType
  <2> QED
    BY <1>0, <2>1, <2>2, SameCounts DEF TableInv
<1>5. CASE exit_loop
  <2>1. LinkInv' /\ PidInv'
    BY <1>0, <1>5, ReparentLinks, ExitEndLinks, SamePids DEF exit_loop
  <2>2. Links!InTable' = Links!InTable /\ nr_process' = nr_process /\ pid' = pid /\ pids' = pids
    <3>1. state' = state /\ nr_process' = nr_process /\ pid' = pid /\ pids' = pids
      BY <1>5 DEF exit_loop, Links!reparent, Links!do_exit_end, vars
    <3> QED
      BY <3>1 DEF Links!InTable
  <2> QED
    BY <1>0, <2>1, <2>2, SameCounts DEF TableInv
<1>6. CASE UNCHANGED table_vars
  <2>1. UNCHANGED vars /\ UNCHANGED link_vars /\ pid' = pid
    BY <1>6 DEF table_vars
  <2>2. Links!InTable' = Links!InTable /\ nr_process' = nr_process /\ pid' = pid /\ pids' = pids
    BY <2>1 DEF Links!InTable, vars, link_vars
  <2> QED
    BY <1>0, <2>1, <2>2, SamePids, SameLinks, SameCounts DEF TableInv
<1> QED
  BY <1>1, <1>2, <1>3, <1>4, <1>5, <1>6 DEF TableNext

(* The links, the pids and the counts of the process table stay in order.  *)
THEOREM TableInvariance == TableSpec => []TableInv
BY TableInitInv, TableStep, PTL DEF TableSpec

(* remove_links finds who points to the process in yptr, for any number of *)
(* processes and also in the loop of do_exit.                              *)
THEOREM TableYptrExact == TableSpec => []YptrExact
<1>1. TableInv => YptrExact
  BY DEF TableInv, LinkInv
<1> QED
  BY <1>1, TableInvariance, PTL

(* nr_process, proc_list and the structures in use agree, and no two       *)
(* processes share a pid.                                                  *)
THEOREM TableCountsAgree == TableSpec => []CountsAgree
<1>1. TableInv => CountsAgree
  <2> SUFFICES ASSUME CountInv
               PROVE  CountsAgree
    BY DEF TableInv
  <2>1. Links!NrProcessExact
    BY DEF CountInv, Links!NrProcessExact, Cardinality, Links!Cardinality
  <2>2. pids = {pid[p] : p \in Links!InTable \ {idleproc}}
    BY DEF CountInv, Numbered
  <2>3. Cardinality(pids) + 1 = nr_process
    BY DEF CountInv
  <2> QED
    BY <2>1, <2>2, <2>3 DEF CountsAgree
<1> QED
  BY <1>1, TableInvariance, PTL

-----------------------------------------------------------------------------
(* The walk of do_wait *)

(* The processes that the loop of do_wait has met after every turn. *)
LEMMA WalkDef ==
    ASSUME LinkType, NEW p \in Procs
    PROVE  \E met : /\ Links!Walk(p) = met[MAX_PROCESS]
                    /\ met[0] = {cptr[p]}
                    /\ \A n \in 1..MAX_PROCESS :
                          met[n] = met[n - 1] \cup {optr[c] : c \in met[n - 1] \ {NULL}}
<1> DEFINE m == MAX_PROCESS
           V == SUBSET (Procs \cup {NULL})
           Turn(v) == v \cup {optr[c] : c \in v \ {NULL}}
           step == [i \in Nat |-> [v \in V |-> Turn(v)]]
           Body(f) == [n \in 0..m |-> IF n = 0 THEN {cptr[p]}
                         ELSE f[n - 1] \cup {optr[c] : c \in f[n - 1] \ {NULL}}]
           met == CHOOSE f : f = Body(f)
<1>1. m \in Nat
  BY MaxProcessAssumption
<1>2. {cptr[p]} \in V /\ \A v \in V : Turn(v) \in V
  BY DEF LinkType
<1>3. step \in [Nat -> [V -> V]]
  BY <1>2
<1>4. PICK g : g \in LoopRuns(V, {cptr[p]}, m, step)
  <2> HIDE DEF V, step, m
  <2> QED
    BY <1>1, <1>2, <1>3, LoopValues
<1>5. /\ g \in [0..m -> V] /\ g[0] = {cptr[p]}
      /\ \A i \in 1..m : g[i] = step[i][g[i - 1]]
  <2> HIDE DEF V, step, m
  <2> QED
    BY <1>4 DEF LoopRuns
<1>6. \A i \in 1..m : g[i] = Turn(g[i - 1])
  <2> SUFFICES ASSUME NEW i \in 1..m
               PROVE  g[i] = Turn(g[i - 1])
    OBVIOUS
  <2>1. i \in Nat /\ g[i - 1] \in V
    <3> HIDE DEF V, m
    <3> QED
      BY <1>1, <1>5
  <2>2. step[i][g[i - 1]] = Turn(g[i - 1])
    <3> HIDE DEF V, Turn
    <3> QED
      BY <2>1
  <2> QED
    BY <1>5, <2>2
<1>7. g = Body(g)
  <2>1. \A i \in 0..m : g[i] = Body(g)[i]
    <3> SUFFICES ASSUME NEW i \in 0..m
                 PROVE  g[i] = IF i = 0 THEN {cptr[p]} ELSE Turn(g[i - 1])
      OBVIOUS
    <3>1. CASE i = 0
      BY <1>5, <3>1
    <3>2. CASE i # 0
      <4>1. i \in 1..m
        BY <1>1, <3>2
      <4> QED
        BY <1>6, <3>2, <4>1
    <3> QED
      BY <3>1, <3>2
  <2>2. DOMAIN g = 0..m
    BY <1>5
  <2>3. g = [i \in 0..m |-> g[i]]
    <3> HIDE DEF V
    <3> QED
      BY <1>5
  <2> QED
    BY <2>1, <2>3
<1>8. met = Body(met)
  BY <1>7
<1>9. Links!Walk(p) = met[m]
  BY DEF Links!Walk
<1> HIDE DEF met
<1>10. met[0] = {cptr[p]}
  BY <1>1, <1>8
<1>11. \A n \in 1..m : met[n] = met[n - 1] \cup {optr[c] : c \in met[n - 1] \ {NULL}}
  BY <1>1, <1>8
<1> QED
  BY <1>9, <1>10, <1>11

(* The loop meets children only, and a turn that meets nobody new is the   *)
(* last one: after nr_process turns it has met what cptr and optr lead to. *)
LEMMA WalkExact ==
    ASSUME LinkInv, CountInv, NEW p \in Links!InTable
    PROVE  Links!Walk(p) = Links!Children(p) \cup {NULL}
<1> USE LinksAssumption
<1>0. p \in Procs /\ InUse(p) /\ MAX_PROCESS \in Nat
  BY MaxProcessAssumption DEF Links!InTable, InUse
<1>1. PICK met : /\ Links!Walk(p) = met[MAX_PROCESS]
                 /\ met[0] = {cptr[p]}
                 /\ \A n \in 1..MAX_PROCESS :
                       met[n] = met[n - 1] \cup {optr[c] : c \in met[n - 1] \ {NULL}}
  BY <1>0, WalkDef DEF LinkInv
<1> DEFINE K == Links!Children(p) \cup {NULL}
           m == MAX_PROCESS
<1>2. cptr[p] \in K /\ \A x \in K \ {NULL} : optr[x] \in K
  BY <1>0 DEF LinkInv, LinkType, CptrInv, OptrInv, Links!Children, Links!InTable, InUse
<1>3. K \in SUBSET (Procs \cup {NULL})
  BY DEF Links!Children, Links!InTable
<1>4. IsFiniteSet(K) /\ Cardinality(K) <= m
  <2>1. Links!Children(p) \in SUBSET Numbered
    BY <1>0 DEF Links!Children, Links!InTable, Numbered, LinkInv, ParentInv
  <2>2. /\ IsFiniteSet(Numbered)
        /\ Cardinality(Numbered) = nr_process - 1
    <3>1. idleproc \in Links!InTable
      BY DEF Links!InTable, LinkInv, StateInv
    <3> QED
      BY <3>1, FS_RemoveElement DEF Numbered, CountInv
  <2>3. /\ IsFiniteSet(Links!Children(p))
        /\ Cardinality(Links!Children(p)) <= nr_process - 1
    BY <2>1, <2>2, FS_Subset
  <2>4. NULL \notin Links!Children(p)
    BY DEF Links!Children, Links!InTable
  <2>5. IsFiniteSet(K) /\ Cardinality(K) = Cardinality(Links!Children(p)) + 1
    BY <2>3, <2>4, FS_AddElement
  <2>6. Cardinality(Links!Children(p)) \in Nat /\ nr_process \in Nat /\ nr_process <= m
    BY <2>3, FS_CardinalityType DEF CountInv
  <2> HIDE DEF K
  <2> QED
    BY <1>0, <2>3, <2>5, <2>6
<1> HIDE DEF K
<1>5. \A n \in 0..m : n \in {k \in Nat : k <= m => met[k] \subseteq K}
  <2> DEFINE T == {k \in Nat : k <= m => met[k] \subseteq K}
  <2>1. 0 \in T
    BY <1>1, <1>2
  <2>2. ASSUME NEW n \in 0..(m - 1), n \in T
        PROVE  n + 1 \in T
    <3>1. n + 1 \in 1..m /\ n + 1 - 1 = n /\ n \in Nat /\ n <= m
      BY <1>0
    <3>2. met[n + 1] = met[n] \cup {optr[c] : c \in met[n] \ {NULL}}
      BY <1>1, <3>1
    <3>3. met[n] \subseteq K
      BY <2>2, <3>1
    <3>4. met[n + 1] \subseteq K
      BY <1>2, <3>2, <3>3
    <3> QED
      BY <3>1, <3>4
  <2> HIDE DEF T
  <2>3. \A n \in 0..m : n \in T
    BY <1>0, <2>1, <2>2, BoundedInduction
  <2> QED
    BY <2>3 DEF T
<1>6. \A n \in 0..m : met[n] \subseteq K /\ IsFiniteSet(met[n]) /\ Cardinality(met[n]) \in Nat
  <2> SUFFICES ASSUME NEW n \in 0..m
               PROVE  met[n] \subseteq K /\ IsFiniteSet(met[n]) /\ Cardinality(met[n]) \in Nat
    OBVIOUS
  <2>1. met[n] \subseteq K
    BY <1>0, <1>5
  <2>2. IsFiniteSet(met[n])
    BY <1>4, <2>1, FS_Subset
  <2> QED
    BY <2>1, <2>2, FS_CardinalityType
<1>7. \A n \in 0..m : n \in {k \in Nat : k <= m => Closed(met[k]) \/ Cardinality(met[k]) >= k + 1}
  <2> DEFINE T == {k \in Nat : k <= m => Closed(met[k]) \/ Cardinality(met[k]) >= k + 1}
  <2>1. 0 \in T
    <3>1. Cardinality(met[0]) = 1
      BY <1>1, FS_Singleton
    <3> QED
      BY <3>1
  <2>2. ASSUME NEW n \in 0..(m - 1), n \in T
        PROVE  n + 1 \in T
    <3>1. n + 1 \in 1..m /\ n + 1 - 1 = n /\ n \in 0..m /\ n + 1 \in 0..m
      BY <1>0
    <3>2. met[n + 1] = met[n] \cup {optr[c] : c \in met[n] \ {NULL}}
      BY <1>1, <3>1
    <3>3. CASE Closed(met[n])
      <4>1. met[n + 1] = met[n]
        BY <3>2, <3>3 DEF Closed
      <4> QED
        BY <3>1, <3>3, <4>1
    <3>4. CASE ~Closed(met[n])
      <4>1. PICK x \in met[n] \ {NULL} : optr[x] \notin met[n]
        BY <3>4 DEF Closed
      <4>2. met[n] \cup {optr[x]} \subseteq met[n + 1]
        BY <3>2
      <4>3. /\ IsFiniteSet(met[n] \cup {optr[x]})
            /\ Cardinality(met[n] \cup {optr[x]}) = Cardinality(met[n]) + 1
        BY <1>6, <3>1, <4>1, FS_AddElement
      <4>4. Cardinality(met[n] \cup {optr[x]}) <= Cardinality(met[n + 1])
        BY <1>6, <3>1, <4>2, FS_Subset
      <4>5. Cardinality(met[n]) >= n + 1
        BY <2>2, <3>1, <3>4
      <4>6. Cardinality(met[n + 1]) >= n + 1 + 1
        BY <1>6, <3>1, <4>3, <4>4, <4>5
      <4> QED
        BY <3>1, <4>6
    <3> QED
      BY <3>3, <3>4
  <2> HIDE DEF T
  <2>3. \A n \in 0..m : n \in T
    BY <1>0, <2>1, <2>2, BoundedInduction
  <2> QED
    BY <2>3 DEF T
<1>8. Closed(met[m])
  <2>1. m \in 0..m
    BY <1>0
  <2>2. Cardinality(met[m]) <= Cardinality(K) /\ Cardinality(K) \in Nat
    BY <1>4, <1>6, <2>1, FS_Subset, FS_CardinalityType
  <2> QED
    BY <1>0, <1>4, <1>6, <1>7, <2>1, <2>2
<1>9. \A n \in 0..m : n \in {k \in Nat : k <= m => cptr[p] \in met[k]}
  <2> DEFINE T == {k \in Nat : k <= m => cptr[p] \in met[k]}
  <2>1. 0 \in T
    BY <1>1
  <2>2. ASSUME NEW n \in 0..(m - 1), n \in T
        PROVE  n + 1 \in T
    <3>1. n + 1 \in 1..m /\ n + 1 - 1 = n /\ n \in Nat /\ n <= m
      BY <1>0
    <3>2. met[n + 1] = met[n] \cup {optr[c] : c \in met[n] \ {NULL}}
      BY <1>1, <3>1
    <3> QED
      BY <2>2, <3>1, <3>2
  <2> HIDE DEF T
  <2>3. \A n \in 0..m : n \in T
    BY <1>0, <2>1, <2>2, BoundedInduction
  <2> QED
    BY <2>3 DEF T
<1>10. K \subseteq met[m]
  <2>1. cptr[p] \in met[m] /\ met[m] \in SUBSET (Procs \cup {NULL})
    BY <1>0, <1>3, <1>6, <1>9
  <2> QED
    BY <1>0, <1>8, <2>1 DEF LinkInv, ReachInv, K
<1>11. met[m] \subseteq K
  BY <1>0, <1>6
<1> QED
  BY <1>1, <1>10, <1>11 DEF K

(* do_wait(0) meets every child of a process and nothing else, for any     *)
(* number of processes and also while a dying process hands over its own.  *)
THEOREM TableWalkMeetsChildren == TableSpec => []WalkMeetsChildren
<1>1. TableInv => WalkMeetsChildren
  BY WalkExact DEF TableInv, WalkMeetsChildren, Links!WalkMeetsChildren
<1> QED
  BY <1>1, TableInvariance, PTL

(* The pid that do_fork gives to a process is no other process's, in the   *)
(* table as a whole.                                                       *)
THEOREM TablePidIsUnique == TableSpec => PidIsUnique
<1> DEFINE Fresh ==
      /\ get_pid_in_gap => last_pid' \in Pids \ pids
      /\ get_pid_return => last_pid \in Pids \ pids
<1>1. TableInv => [Fresh]_vars
  <2> SUFFICES ASSUME PidInv
               PROVE  Fresh
    BY DEF TableInv
  <2>1. get_pid_in_gap => last_pid' \in Pids \ pids
    BY PidRange DEF PidInv, TypeOK, GapIsFree, Pids, get_pid_in_gap, in_gap
  <2>2. get_pid_return => last_pid \in Pids \ pids
    BY PidRange DEF PidInv, TypeOK, WalkIsSound, Pids, get_pid_return
  <2> QED
    BY <2>1, <2>2
<1> QED
  BY <1>1, TableInvariance, PTL DEF PidIsUnique
=============================================================================
