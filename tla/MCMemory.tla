------------------------------ MODULE MCMemory -------------------------------
(* Processes, programs and addresses for the run of the memory management. *)
EXTENDS Memory, TLC

CONSTANTS u0, u1, u2

Ph(load, va, filesz, memsz, offset, w) ==
    [load |-> load, va |-> va, filesz |-> filesz, memsz |-> memsz, offset |-> offset, w |-> w]

\* pages of two bytes: text in page 2, data from the middle of page 3 with zeros behind it, a note
Prog1 == <<Ph(TRUE, 4, 2, 2, 0, FALSE), Ph(TRUE, 7, 2, 4, 3, TRUE), Ph(FALSE, 0, 0, 0, 0, FALSE)>>
MCPrograms == {Prog1}
MCAccesses == {<<5, FALSE>>, <<5, TRUE>>, <<7, TRUE>>, <<12, FALSE>>}
MemorySymmetry == Permutations({u1, u2})

(* What a process may use: its vmas *)
AreaOf(p) ==
    IF ~Alive THEN << >>
    ELSE [a \in {a \in 0..(USERTOP * PgSize - 1) : find_vma(proc[p].mm, PageOf(a)) # {}} |->
            \E vma \in find_vma(proc[p].mm, PageOf(a)) : vma.w]

(* What a process sees: the CPU asks the TLB first, for the process that   *)
(* runs; where it has no entry, a miss will find the page table's.         *)
InTlb(p, v) == p = current /\ TlbHits(m, v) # {}
Seen(p, v) == InTlb(p, v) \/ Present(m, proc[p].mm.pgdir, v)
SeenFrame(p, v) == IF InTlb(p, v) THEN TlbLo(m, v).f ELSE Pte(m, proc[p].mm.pgdir, v).f
ViewOf(p) ==
    IF ~Alive \/ proc[p].mm = NoMm THEN << >>
    ELSE [a \in {a \in 0..(USERTOP * PgSize - 1) : Seen(p, PageOf(a))} |->
            m.mem[SeenFrame(p, PageOf(a))][a % PgSize]]

spaces == INSTANCE AddressSpaces WITH
    area <- [p \in Procs |-> AreaOf(p)],
    view <- [p \in Procs |-> ViewOf(p)],
    stopped <- m.panic,
    Stack <- ((USERTOP - UStackPages) * PgSize)..(USERTOP * PgSize - 1)

(* Whatever the TLB, the page tables, the order of faults, switches, forks *)
(* and exits, and frames used again do, the process that runs reads and    *)
(* writes its own memory and no other's, where its areas allow it and at   *)
(* the address it names; no entry of the TLB is stale; fork copies a       *)
(* memory, exec makes it the image of the program, and no assertion and no *)
(* fault in the kernel stops the system.  (tlb.c, do_pgfault, copy_range,  *)
(* load_icode, copy_to_user, do_wait)                                      *)
SpacesSpec == spaces!Spec
=============================================================================
