--------------------------- MODULE AddressSpaces -----------------------------
(***************************************************************************)
(* What the memory management promises: every process has a memory of its  *)
(* own.  Only the process that runs changes its memory, by a store where   *)
(* it may write, a system call that writes for it, or the first use of a   *)
(* page; a fork copies its memory, an exec replaces it by the image of a   *)
(* program, an exit ends it.  A switch changes no memory, and nothing else *)
(* does.  The kernel stops only for want of memory.                        *)
(***************************************************************************)
EXTENDS Integers, Sequences

CONSTANTS
    Procs, initproc,
    Programs,
    Accesses, Args, Buffers,  \* addresses of programs' accesses and calls
    PgSize, Written, ArgByte,
    Stack                     \* the addresses of the stack; its arguments are at the last

VARIABLES
    current,
    area,     \* area[p]: the addresses that p may use, and whether it may write there
    view,     \* view[p]: the bytes that p sees, by address
    stopped   \* "none", or why the kernel has stopped

vars == <<current, area, view, stopped>>

None == [p \in Procs |-> << >>]
Init == current = initproc /\ area = None /\ view = None /\ stopped = "none"

PageBytes(a) == {b \in (a - PgSize)..(a + PgSize) : b \div PgSize = a \div PgSize}
Pages(A) == UNION {PageBytes(a) : a \in A}

(* How the memory of the process that runs may go from old to new.  It     *)
(* uses the addresses A, or the kernel does for it: their pages appear, if *)
(* they are new with anything in them, and a write puts the byte at each   *)
(* address of A.                                                           *)
Uses(old, new, A, write) ==
    /\ DOMAIN new = DOMAIN old \cup Pages(A)
    /\ \A a \in DOMAIN new : IF write /\ a \in A THEN new[a] = Written
                             ELSE a \in DOMAIN old => new[a] = old[a]

MayUse(A, write) == \A a \in A : a \in DOMAIN area[current] /\ (write => area[current][a])

(* A program's access: the page appears, then a store writes to it. *)
Access(old, new, a) == Uses(old, new, {a}, FALSE) /\ MayUse({a}, FALSE)
Store(old, new, a) == a \in DOMAIN old /\ Uses(old, new, {a}, TRUE) /\ MayUse({a}, TRUE)

(* System calls that write for the program: two bytes, or an exit code *)
CopyOut(old, new, a) == Uses(old, new, {a, a + 1}, TRUE) /\ MayUse({a, a + 1}, TRUE)
Wait(old, new, a) == Uses(old, new, {a}, TRUE) /\ MayUse({a}, TRUE)

Others == \A p \in Procs \ {current} : view'[p] = view[p]

Run ==
    /\ UNCHANGED <<current, area>> /\ Others
    /\ \E old \in {view[current]}, new \in {view'[current]} :
         \/ \E x \in Accesses : Access(old, new, x[1]) \/ (x[2] /\ Store(old, new, x[1]))
         \/ \E a \in Buffers : CopyOut(old, new, a) \/ Wait(old, new, a)

-----------------------------------------------------------------------------

Switch == current' \in Procs \ {current} /\ UNCHANGED <<area, view>>

Fork(c) ==
    /\ UNCHANGED current
    /\ c # current /\ area[c] = << >> /\ view[c] = << >>
    /\ area' = [area EXCEPT ![c] = area[current]]
    /\ view' = [view EXCEPT ![c] = view[current]]

Segments(program) == {program[i] : i \in {i \in 1..Len(program) : program[i].load}}
Bytes(ph) == ph.va..(ph.va + ph.memsz - 1)
AreaOf(program) ==
    [a \in Stack \cup Pages(UNION {Bytes(ph) : ph \in Segments(program)}) |->
       a \in Stack \/ \E ph \in Segments(program) : ph.w /\ a \in Pages(Bytes(ph))]

(* Each segment is bytes of the file, then zeros. *)
Image(new, program) ==
    /\ DOMAIN new \subseteq DOMAIN AreaOf(program)
    /\ \A ph \in Segments(program) : \A a \in Bytes(ph) :
         /\ a \in DOMAIN new
         /\ new[a] = IF a < ph.va + ph.filesz THEN ph.offset + (a - ph.va) + 1 ELSE 0
    /\ \A a \in Stack : a + 1 \notin Stack => a \in DOMAIN new /\ new[a] = ArgByte

Exec(program) ==
    /\ UNCHANGED current
    /\ area' = [area EXCEPT ![current] = AreaOf(program)]
    /\ Others /\ \E new \in {view'[current]} : Image(new, program)

Exit ==
    /\ current' \in Procs \ {current}
    /\ area' = [area EXCEPT ![current] = << >>]
    /\ view' = [view EXCEPT ![current] = << >>]

Stop == stopped' = "no memory" /\ area' = None /\ view' = None

Next ==
    \/ Stop
    \/ /\ UNCHANGED stopped
       /\ \/ Run \/ Switch \/ Exit
          \/ \E c \in Procs : Fork(c)
          \/ \E program \in Programs : Exec(program)

Spec == Init /\ [][Next]_vars
=============================================================================
