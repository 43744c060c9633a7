--------------------------------- MODULE Vm ----------------------------------
(***************************************************************************)
(* Address spaces: the areas of an mm_struct, page faults, copies between  *)
(* kernel and program (kern/mm/vmm.c), program loading (load_icode of      *)
(* kern/process/proc.c), and the checks that run at boot.  An mm is its    *)
(* page directory and its vmas in order of address, in pages: mmap_cache   *)
(* only shortens a search whose result does not depend on it.              *)
(***************************************************************************)
EXTENDS Paging

CONSTANTS
    USERBASE,    \* the first page of user space
    UStackPages, \* USTACKPAGE
    UStackInit   \* pages of the stack that load_icode allocates (4)

ASSUME VmAssumption ==
    USERBASE \in Nat /\ UStackInit \in 1..UStackPages /\ UStackPages < USERTOP

vma_create(start, end, r, w, stack) ==
    [start |-> start, end |-> end, r |-> r, w |-> w, stack |-> stack]

Covers(vma, v) == vma.start <= v /\ v < vma.end

(* The set is empty for NULL *)
find_vma(mm, v) == {vma \in Range(mm.vmas) : Covers(vma, v)}

(* mm_create: kmalloc is Kmalloc's; every mm starts the swap manager's list anew *)
mm_create(m) == IF m.swap_init_ok THEN _fifo_init_mm(m) ELSE m

(* The place by address; ok is FALSE when an overlap check fails *)
insert_vma_struct(mm, vma) ==
    LET n == Len(mm.vmas)
        i == Min({j \in 1..(n + 1) : j = n + 1 \/ mm.vmas[j].start > vma.start})
    IN  [mm |-> [mm EXCEPT !.vmas = list_add_before(@, i, vma)],
         ok |-> /\ vma.start < vma.end
                /\ i > 1 => mm.vmas[i - 1].end <= vma.start
                /\ i <= n => vma.end <= mm.vmas[i].start]

USER_ACCESS(start, end) == USERBASE <= start /\ start < end /\ end <= USERTOP

PageOf(a) == a \div PgSize
RoundUp(a) == (a + PgSize - 1) \div PgSize

(* ok is FALSE for -E_INVAL, which every caller asserts away *)
mm_map(mm, addr, len, r, w, stack) ==
    LET start == PageOf(addr)
        end == RoundUp(addr + len)
    IN  IF ~USER_ACCESS(start, end) \/ find_vma(mm, start) # {} THEN [mm |-> mm, ok |-> FALSE]
        ELSE insert_vma_struct(mm, vma_create(start, end, r, w, stack))

-----------------------------------------------------------------------------
(* Faults and accesses.  ret is TRUE when the access may go on. *)

swap_in(m) == alloc_page(m)     \* swapfs_read reads nothing on this board

(* A page that comes back from swap keeps the pra_vaddr of the frame's last page. *)
SwapBack(m, pg, v, w) ==
    [_fifo_map_swappable(page_insert(m, m.ret, pg, v, w), m.ret) EXCEPT !.ret = TRUE]

PageIn(m, pg, v, w) ==
    IF Pte(m, pg, v) = NoPte THEN [pgdir_alloc_page(m, pg, v, w) EXCEPT !.ret = TRUE]
    ELSE IF m.swap_init_ok THEN SwapBack(swap_in(m), pg, v, w)
    ELSE [m EXCEPT !.ret = FALSE]

CountFault(m) == [m EXCEPT !.faults = IF m.check = NoMm THEN 0 ELSE @ + 1]

do_pgfault(m, mm, v, write) ==
    IF \E vma \in find_vma(mm, v) : IF write THEN vma.w ELSE vma.r
    THEN Then(get_pte_create(CountFault(m), mm.pgdir, v), LAMBDA x :
              PageIn(x, mm.pgdir, v, \E vma \in find_vma(mm, v) : vma.w))
    ELSE [CountFault(m) EXCEPT !.ret = FALSE]

(* mm: the address space of current.  With ret FALSE the process is killed, *)
(* or the kernel stops when it is its own access.                           *)
Refill(m, v) == IF m.ret THEN [tlb_fill(m, v) EXCEPT !.ret = TRUE] ELSE m

OwnFault(m, own, v, write) == do_pgfault(Demand(m, own # NoMm /\ own.pgdir = m.cur), own, v, write)

tlb_miss_handler(m, mm, v, write) ==
    IF Present(m, m.cur, v) THEN Refill([m EXCEPT !.ret = TRUE], v)
    ELSE Then(OwnFault(m, IF m.check # NoMm THEN m.check ELSE mm, v, write), LAMBDA x : Refill(x, v))

(* An access of the kernel to user space, with its trap *)
Reached(m, v, write) ==
    IF ~m.ret THEN Panic(m, "fault in kernel")
    ELSE Demand(m, TlbHits(m, v) # {} /\ (write => TlbLo(m, v).d))

Reach(m, mm, a, write) ==
    Then(Then(m, LAMBDA x : IF TlbHits(x, PageOf(a)) # {} THEN [x EXCEPT !.ret = TRUE]
                            ELSE tlb_miss_handler(x, mm, PageOf(a), write)),
         LAMBDA x : Reached(x, PageOf(a), write))

Put(m, a, byte) == [m EXCEPT !.mem[TlbLo(m, PageOf(a)).f][a % PgSize] = byte]

KernelStore(m, mm, a, byte) == Then(Reach(m, mm, a, TRUE), LAMBDA x : Put(x, a, byte))

(* Every vma that [a, a + len) meets allows it; the lowest page of a stack takes no writes. *)
user_mem_check(mm, a, len, write) ==
    /\ a >= USERBASE * PgSize /\ a + len <= USERTOP * PgSize
    /\ \A b \in a..(a + len - 1) :
         \E vma \in find_vma(mm, PageOf(b)) :
            /\ IF write THEN vma.w ELSE vma.r
            /\ write /\ vma.stack /\ (b = a \/ b = vma.start * PgSize) => PageOf(b) # vma.start

(* The pages of a copy are touched in turn; ret tells whether the copy was made. *)
copy_to_user(m, mm, a, len, byte) ==
    IF ~user_mem_check(mm, a, len, TRUE) THEN [m EXCEPT !.ret = FALSE]
    ELSE [FoldLeft(LAMBDA x, b : KernelStore(x, mm, b, byte), m, Pages(a, a + len)) EXCEPT !.ret = TRUE]

copy_from_user(m, mm, a, len) ==
    IF ~user_mem_check(mm, a, len, FALSE) THEN [m EXCEPT !.ret = FALSE]
    ELSE [FoldLeft(LAMBDA x, b : Reach(x, mm, b, FALSE), m, Pages(a, a + len)) EXCEPT !.ret = TRUE]

-----------------------------------------------------------------------------
(* Creation, copy and end of an address space *)

setup_pgdir(m) ==
    Then(alloc_page(m), LAMBDA a : [a EXCEPT !.pgdir = a.ret :> [d \in 0..(PDN - 1) |-> NoFrame] @@ @])

put_pgdir(m, pg) == [free_page(m, pg) EXCEPT !.pgdir = [g \in DOMAIN @ \ {pg} |-> @[g]]]

(* A fault: the page tables are not freed. *)
exit_mmap_keeps_tables(m, mm) ==
    FoldLeft(LAMBDA x, vma : unmap_range(x, mm.pgdir, vma.start, vma.end), m, mm.vmas)

exit_mmap(m, mm) ==
    LET m1 == FoldLeft(LAMBDA x, vma : unmap_range(x, mm.pgdir, vma.start, vma.end), m, mm.vmas)
    IN  FoldLeft(LAMBDA x, vma : exit_range(x, mm.pgdir, vma.start, vma.end), m1, mm.vmas)

(* From the last vma to the first *)
dup_mmap(m, to, from) ==
    FoldLeft(LAMBDA x, vma : copy_range(x, to, from.pgdir, vma.start, vma.end), m, Reverse(from.vmas))

-----------------------------------------------------------------------------
(* load_icode.  A program is the sequence of its headers; byte o of the file *)
(* has the value o + 1, so that 0 is only what memset writes.               *)

FileByte(o) == o + 1

(* The pieces in which a segment is filled: whether a page is allocated for *)
(* la first, then len bytes at la, from file offset src or zeros (src < 0). *)
Piece(alloc, la, len, src) == [alloc |-> alloc, la |-> la, len |-> len, src |-> src]
Zeros == -1

Pieces(ph) ==
    LET fend == ph.va + ph.filesz
        mend == ph.va + ph.memsz
        off(la) == ph.offset + (la - ph.va)
        unaligned == ph.va % PgSize > 0
        len1 == IF PageOf(ph.va) = PageOf(fend) THEN ph.filesz ELSE PgSize - (ph.va % PgSize)
        la1 == IF unaligned THEN ph.va + len1 ELSE ph.va
        head == IF unaligned THEN <<Piece(TRUE, ph.va, len1, ph.offset)>> ELSE << >>
        last == PageOf(fend) * PgSize
        full == [i \in 1..(IF la1 < last THEN (last - la1) \div PgSize ELSE 0) |->
                   Piece(TRUE, la1 + (i - 1) * PgSize, PgSize, off(la1 + (i - 1) * PgSize))]
        la2 == la1 + Len(full) * PgSize
        tail == IF la2 < fend THEN <<Piece(TRUE, la2, fend % PgSize, off(la2))>> ELSE << >>
        la3 == IF la2 < fend THEN la2 + (fend % PgSize) ELSE la2
        bss(la) == LET room == PgSize - (la % PgSize)
                   IN  Piece(la % PgSize = 0, la,
                             IF PageOf(la) = PageOf(mend) THEN room - (PgSize - (mend % PgSize)) ELSE room,
                             Zeros)
        starts == {la \in la3..(mend - 1) : la = la3 \/ la % PgSize = 0}
        zero == [i \in 1..Cardinality(starts) |-> bss(SetToSortSeq(starts, <)[i])]
    IN  head \o full \o tail \o zero

(* The bytes go to the page that was allocated last: page *)
FillByte(pc, o, old) ==
    IF o \notin 0..(pc.len - 1) THEN old
    ELSE IF pc.src = Zeros THEN 0 ELSE FileByte(pc.src + o)

FillPage(x, m, page, pc) ==
    IF ~Ok(m) THEN [x EXCEPT !.m = m]
    ELSE [x EXCEPT !.page = page,
                   !.m = [m EXCEPT !.mem[page] = [i \in 0..(PgSize - 1) |->
                                                    FillByte(pc, i - (pc.la % PgSize), @[i])]]]

FillNew(x, m, pc) == FillPage(x, m, m.ret, pc)

Fill(x, pg, ph, pc) ==
    IF pc.alloc THEN FillNew(x, pgdir_alloc_page(x.m, pg, PageOf(pc.la), ph.w), pc)
    ELSE FillPage(x, x.m, x.page, pc)

MapSegment(x, ph, mp) ==
    [x EXCEPT !.m = Demand(@, mp.ok /\ ph.memsz >= ph.filesz), !.mm = mp.mm]

Segment(x, ph) ==
    IF ~ph.load \/ ~Ok(x.m) THEN x
    ELSE FoldLeft(LAMBDA y, pc : IF Ok(y.m) THEN Fill(y, x.mm.pgdir, ph, pc) ELSE y,
                  MapSegment(x, ph, mm_map(x.mm, ph.va, ph.memsz, TRUE, ph.w, FALSE)), Pieces(ph))

(* Headers from the last to the first, the stack, the arguments (one byte at its top) *)
Loaded(m, mm) == [m |-> m, mm |-> IF Ok(m) THEN mm ELSE NoMm]

StackPages(m, pg) ==
    FoldLeft(LAMBDA x, i : pgdir_alloc_page(x, pg, USERTOP - i, TRUE), m, [i \in 1..UStackInit |-> i])

StackMapped(m, st, args) ==
    Loaded(Then(StackPages(Demand(m, st.ok), st.mm.pgdir), LAMBDA x :
                KernelStore(load_pgdir(x, st.mm.pgdir), st.mm, USERTOP * PgSize - 1, args)), st.mm)

LoadStack(x, args) ==
    StackMapped(x.m, mm_map(x.mm, (USERTOP - UStackPages) * PgSize, UStackPages * PgSize, TRUE, TRUE, TRUE),
                args)

LoadProgram(m, program, args) ==
    IF ~Ok(m) THEN Loaded(m, NoMm)
    ELSE LoadStack(FoldLeft(LAMBDA x, ph : Segment(x, ph),
                            [m |-> m, mm |-> [NoMm EXCEPT !.pgdir = m.ret], page |-> NoFrame],
                            Reverse(program)), args)

load_icode(m, program, args) == LoadProgram(setup_pgdir(mm_create(m)), program, args)

-----------------------------------------------------------------------------
(* The checks at boot.  boot is boot_pgdir; each leaves the frames as it     *)
(* found them or stops the kernel.                                           *)

(* free_page of the page table of the first pages; pgdir[0] = 0 *)
DropPt(m, pg) ==
    LET f == m.pgdir[pg][0]
    IN  [free_page(m, f) EXCEPT !.pgdir[pg][0] = NoFrame, !.pt = [g \in DOMAIN @ \ {f} |-> @[g]]]

(* An assertion about the state that the calls so far have led to *)
Expect(m, Cond(_)) == Then(m, LAMBDA x : Demand(x, Cond(x)))

CheckPages(m, boot, p1, p2) ==
    LET both == Expect(page_insert(m, p2, boot, 1, TRUE), LAMBDA x : Pte(x, boot, 1).w /\ x.ref[p2] = 1)
        twice == Expect(page_insert(both, p1, boot, 1, FALSE),
                        LAMBDA x : x.ref[p1] = 2 /\ x.ref[p2] = 0 /\ Pte(x, boot, 1).f = p1)
        once == Expect(page_remove(twice, boot, 0), LAMBDA x : x.ref[p1] = 1 /\ x.ref[p2] = 0)
    IN  DropPt(Expect(page_remove(once, boot, 1),
                      LAMBDA x : x.ref[p1] = 0 /\ x.ref[p2] = 0 /\ x.ref[x.pgdir[boot][0]] = 1), boot)

CheckPage(m, boot, p1) ==
    Then(alloc_page(Expect(page_insert(m, p1, boot, 0, FALSE),
                           LAMBDA x : Pte(x, boot, 0).f = p1 /\ x.ref[p1] = 1)),
         LAMBDA x : CheckPages(x, boot, p1, x.ret))

check_pgdir(m, boot) ==
    Then(alloc_page(Demand(m, ~Present(m, boot, 0))), LAMBDA x : CheckPage(x, boot, x.ret))

(* One frame at two addresses *)
CheckAlias(m, boot, p) ==
    LET one == Expect(page_insert(m, p, boot, 0, TRUE), LAMBDA x : x.ref[p] = 1)
        two == Expect(page_insert(one, p, boot, 1, TRUE), LAMBDA x : x.ref[p] = 2)
        seen == Expect(Reach(KernelStore(two, NoMm, 0, 1), NoMm, PgSize, FALSE),
                       LAMBDA x : x.mem[TlbLo(x, 1).f][0] = 1)
    IN  Then(seen, LAMBDA x :
             DropPt(tlb_invalidate(tlb_invalidate(free_page(x, p), boot, 0), boot, 1), boot))

check_boot_pgdir(m, boot) ==
    Then(alloc_page(Demand(m, m.pgdir[boot][0] = NoFrame)), LAMBDA x : CheckAlias(x, boot, x.ret))

CheckFault(m, mm) ==
    LET begun == Demand([mm_create(m) EXCEPT !.check = mm], m.pgdir[mm.pgdir][0] = NoFrame)
        read == Expect(Reach(KernelStore(begun, mm, 0, 1), mm, 0, FALSE),
                       LAMBDA x : x.mem[TlbLo(x, 0).f][0] = 1)
        gone == Then(read, LAMBDA x : DropPt(page_remove(x, mm.pgdir, 0), mm.pgdir))
    IN  Expect([gone EXCEPT !.check = NoMm, !.faults = 0], LAMBDA x : x.pm.nr_free = m.pm.nr_free)

check_pgfault(m, boot) ==
    CheckFault(m, [pgdir |-> boot, vmas |-> <<vma_create(0, PTN, TRUE, TRUE, FALSE)>>])

(* The areas [5i, 5i + 2) in two passes, down and up; n is step1, 3n stands for step2 *)
check_vma_struct(n) ==
    LET area(i) == vma_create(5 * i, 5 * i + 2, FALSE, FALSE, FALSE)
        order == [i \in 1..n |-> n + 1 - i] \o [i \in 1..(2 * n) |-> n + i]
        x == FoldLeft(LAMBDA y, i : LET r == insert_vma_struct(y.mm, area(i))
                                    IN  [mm |-> r.mm, ok |-> y.ok /\ r.ok],
                      [mm |-> NoMm, ok |-> TRUE], order)
    IN  /\ x.ok
        /\ x.mm.vmas = [i \in 1..(3 * n) |-> area(i)]
        /\ \A a \in 0..(15 * n + 4) :
             find_vma(x.mm, a) = IF a >= 5 /\ a % 5 \in {0, 1} THEN {area(a \div 5)} ELSE {}

(* Four frames for the pages 1 to 5: a touch of each page and the faults counted so far *)
check_content_set == <<<<1, 1>>, <<1, 1>>, <<2, 2>>, <<2, 2>>, <<3, 3>>, <<3, 3>>, <<4, 4>>, <<4, 4>>>>
_fifo_check_swap == <<<<3, 4>>, <<1, 4>>, <<4, 4>>, <<2, 4>>, <<5, 5>>, <<2, 5>>, <<1, 6>>, <<2, 7>>,
                      <<3, 8>>, <<4, 9>>>>

Touch(m, mm, v, faults) ==
    Expect(KernelStore(m, mm, v * PgSize, 1), LAMBDA x : x.faults = faults)

Touches(m, mm, s) ==
    FoldLeft(LAMBDA x, t : Then(x, LAMBDA y : Touch(y, mm, t[1], t[2])), m, s)

(* rp: the four frames of the check, which are all the allocator has meanwhile *)
Taken(x, m) == [m |-> m, rp |-> Append(x.rp, m.ret)]
TakeFour(m) == FoldLeft(LAMBDA x, i : Taken(x, alloc_page(x.m)), [m |-> m, rp |-> << >>], <<1, 2, 3, 4>>)
GiveBack(m, rp) == FoldLeft(LAMBDA x, f : free_page(x, f), m, rp)

SwapTest(x, mm) ==
    LET four == Expect([GiveBack([x.m EXCEPT !.pm.list = << >>, !.pm.nr_free = 0], x.rp) EXCEPT !.faults = 0],
                       LAMBDA y : y.pm.nr_free = 4)
        full == Expect(Touches(four, mm, check_content_set), LAMBDA y :
                       /\ y.pm.nr_free = 0
                       /\ \A i \in 1..4 : Present(y, mm.pgdir, i) /\ Pte(y, mm.pgdir, i).f = x.rp[i])
    IN  Then(Touches(full, mm, _fifo_check_swap), LAMBDA y :
             DropPt(GiveBack([y EXCEPT !.pm.list = x.m.pm.list, !.pm.nr_free = x.m.pm.nr_free], x.rp), mm.pgdir))

SwapTestOf(m, mm) ==
    SwapTest(TakeFour(get_pte_create(Demand([mm_create(m) EXCEPT !.check = mm],
                                            m.pgdir[mm.pgdir][0] = NoFrame), mm.pgdir, 1)), mm)

check_swap(m, boot) ==
    Expect([SwapTestOf(m, [pgdir |-> boot, vmas |-> <<vma_create(1, 6, TRUE, TRUE, FALSE)>>])
              EXCEPT !.check = NoMm, !.faults = 0, !.fifo = << >>, !.vaddr = [f \in Frames |-> 0]],
           LAMBDA x : Len(x.pm.list) = Len(m.pm.list) /\ x.pm.nr_free = m.pm.nr_free)
=============================================================================
