------------------------------- MODULE Paging --------------------------------
(***************************************************************************)
(* Page tables, the TLB, page faults and swapping: kern/mm/pmm.c, tlb.c,   *)
(* vmm.c, swap.c and swap_fifo.c over the frames of PageAlloc.             *)
(*                                                                         *)
(* The operators work on a record m: pm (the page allocator), ref and mem  *)
(* (count and bytes of each frame), pgdir and pt (page directories and     *)
(* page tables, by the frame that holds them), cur (cur_pgdir), tlb, fifo  *)
(* and vaddr (the swap manager), swap_init_ok, check (check_mm_struct),    *)
(* faults (pgfault_num), ret and panic.  Virtual pages are numbered; an    *)
(* address is a byte.  PTE_U is left out: the CPU does not look at it.     *)
(***************************************************************************)
EXTENDS PageAlloc

CONSTANTS
    PgSize,      \* bytes of a page
    PTN,         \* entries of a page table
    PDN,         \* entries of a page directory for user space
    TLBN         \* entries of the TLB

ASSUME PagingAssumption ==
    /\ PgSize \in Nat \ {0} /\ PTN \in Nat \ {0} /\ PTN % 2 = 0
    /\ PDN \in Nat \ {0} /\ TLBN \in Nat \ {0}

USERTOP == PTN * PDN           \* in pages
Vpns == 0..(USERTOP - 1)
Garbage == -1                  \* a byte of a frame that nobody has written since it was free
FreshPage == [i \in 0..(PgSize - 1) |-> Garbage]
NoHi == -1                     \* ENTRYHI_INVALID
NoMm == [pgdir |-> NoFrame, vmas |-> << >>]

NoPte == [p |-> FALSE, f |-> NoFrame, w |-> FALSE, swap |-> FALSE, tlbp |-> FALSE, idx |-> 0]
NoLo == [v |-> FALSE, f |-> NoFrame, d |-> FALSE]
ENTRYLO(pte) == [v |-> TRUE, f |-> pte.f, d |-> pte.w]

Ok(m) == m.panic = "none"
Panic(m, why) == IF Ok(m) THEN [m EXCEPT !.panic = why] ELSE m
Demand(m, cond) == IF cond THEN m ELSE Panic(m, "assert")

(* The next step of a call, which a stopped kernel does not reach *)
Then(m, Op(_)) == IF Ok(m) THEN Op(m) ELSE m

(* get_pte without create: the entry, when its page table exists *)
HasPt(m, pg, v) == m.pgdir[pg][v \div PTN] # NoFrame
Pte(m, pg, v) == m.pt[m.pgdir[pg][v \div PTN]][v % PTN]
SetPte(m, pg, v, e) == [m EXCEPT !.pt[m.pgdir[pg][v \div PTN]][v % PTN] = e]
Present(m, pg, v) == HasPt(m, pg, v) /\ Pte(m, pg, v).p

-----------------------------------------------------------------------------
(* tlb.c and the TLB of the CPU *)

Hi(v) == v - (v % 2)
TLBPAIR(v) == IF v % 2 = 0 THEN v + 1 ELSE v - 1

tlb_write(m, idx, hi, lo) == [m EXCEPT !.tlb.e[idx] = [hi |-> hi, lo |-> lo]]

(* tlb_algo_hi is written before it is read again, and is cleared here *)
tlb_init_callback(m) ==
    [m EXCEPT !.tlb.empty = [i \in 1..TLBN |-> i - 1], !.tlb.hi = [i \in 0..(TLBN - 1) |-> NoHi]]

tlb_init(m) ==
    tlb_init_callback(
        [m EXCEPT !.tlb.e = [i \in 0..(TLBN - 1) |-> [hi |-> NoHi, lo |-> [h \in 0..1 |-> NoLo]]]])

load_pgdir(m, pg) == tlb_init([m EXCEPT !.cur = pg])

(* The index of an entry is read under TLB_P only. *)
ClearTlbP(m, v) ==
    IF HasPt(m, m.cur, v) THEN SetPte(m, m.cur, v, [Pte(m, m.cur, v) EXCEPT !.tlbp = FALSE, !.idx = 0]) ELSE m

(* The index is in ret: an empty entry, else the next one in turn, whose pages lose TLB_P *)
TakeEntry(m, idx, hi) == [m EXCEPT !.tlb.hi[idx] = hi, !.ret = idx]
Evict(m, old) == ClearTlbP(ClearTlbP([m EXCEPT !.tlb.ptr = (@ + 1) % TLBN], old), TLBPAIR(old))

tlb_get_empty(m, hi) ==
    IF m.tlb.empty # << >> THEN TakeEntry([m EXCEPT !.tlb.empty = Front(@)], Last(m.tlb.empty), hi)
    ELSE TakeEntry(Evict(m, m.tlb.hi[m.tlb.ptr]), m.tlb.ptr, hi)

tlb_del_callback(m, idx) == [m EXCEPT !.tlb.empty = Append(@, idx)]

(* What tlb_miss_handler does with a page that is present: an entry of its own, in ret, or its pair's *)
FillEntry(m, v, lo) ==
    SetPte(tlb_write(m, m.ret, Hi(v), [h \in 0..1 |-> IF h = v % 2 THEN ENTRYLO(Pte(m, m.cur, v)) ELSE lo]),
           m.cur, v, [Pte(m, m.cur, v) EXCEPT !.tlbp = TRUE, !.idx = m.ret])

tlb_fill(m, v) ==
    IF HasPt(m, m.cur, TLBPAIR(v)) /\ Pte(m, m.cur, TLBPAIR(v)).tlbp
    THEN FillEntry([m EXCEPT !.ret = Pte(m, m.cur, TLBPAIR(v)).idx], v, ENTRYLO(Pte(m, m.cur, TLBPAIR(v))))
    ELSE FillEntry(tlb_get_empty(m, Hi(v)), v, NoLo)

(* e and pair: the entries of the page and of the other page of its TLB entry *)
InvalidateEntry(m, v, e, pair) ==
    IF pair.tlbp
    THEN tlb_write(m, e.idx, Hi(v), [h \in 0..1 |-> IF h = v % 2 THEN NoLo ELSE ENTRYLO(pair)])
    ELSE tlb_write(tlb_del_callback(m, e.idx), e.idx, NoHi, [h \in 0..1 |-> NoLo])

tlb_invalidate(m, pg, v) ==
    IF pg # m.cur \/ ~HasPt(m, pg, v) \/ ~Pte(m, pg, v).tlbp THEN m
    ELSE SetPte(InvalidateEntry(m, v, Pte(m, pg, v), Pte(m, pg, TLBPAIR(v))), pg, v,
                [Pte(m, pg, v) EXCEPT !.tlbp = FALSE, !.idx = 0])

(* The CPU: the first entry with the page's tag and a valid half *)
TlbHits(m, v) == {i \in 0..(TLBN - 1) : m.tlb.e[i].hi = Hi(v) /\ m.tlb.e[i].lo[v % 2].v}
TlbLo(m, v) == m.tlb.e[Min(TlbHits(m, v))].lo[v % 2]

-----------------------------------------------------------------------------
(* Frames and swapping *)

free_pages(m, f, n) ==
    [m EXCEPT !.pm = default_free_pages(@, f, n),
              !.ref = [x \in Frames |-> IF x \in f..(f + n - 1) THEN 0 ELSE @[x]],
              !.mem = [x \in Frames |-> IF x \in f..(f + n - 1) THEN FreshPage ELSE @[x]]]
free_page(m, f) == free_pages(m, f, 1)

_fifo_init_mm(m) == [m EXCEPT !.fifo = << >>]
_fifo_map_swappable(m, f) == [m EXCEPT !.fifo = Append(@, f)]

(* One victim: the page that came first.  swapfs_write stores nothing on    *)
(* this board; it makes a swap entry of the page table entry.               *)
SwapOutPage(m, pg, f, v) ==
    IF ~Present(m, pg, v) THEN Panic(m, "assert")
    ELSE free_page(SetPte(tlb_invalidate(m, pg, v), pg, v,
                          [NoPte EXCEPT !.swap = TRUE, !.w = Pte(m, pg, v).w]), f)

swap_out(m, mm) ==
    IF m.fifo = << >> THEN Panic(m, "no victim")
    ELSE SwapOutPage([m EXCEPT !.fifo = Tail(@)], mm.pgdir, Head(m.fifo), m.vaddr[Head(m.fifo)])

(* The frame is in ret.  With swapping on a single page is never refused:  *)
(* pages of the mm under test are swapped out, and without one the kernel  *)
(* stops.                                                                  *)
Allocated(m, r) == [m EXCEPT !.pm = r.a, !.ret = r.page]
AllocAgain(m, n) == Allocated(m, default_alloc_pages(m.pm, n))

AllocOrSwap(m, n, r) ==
    IF r.page # NoFrame \/ n > 1 \/ ~m.swap_init_ok THEN Allocated(m, r)
    ELSE IF m.check = NoMm THEN [Panic(m, "no memory") EXCEPT !.ret = NoFrame]
    ELSE AllocAgain(swap_out(m, m.check), n)

alloc_pages(m, n) == AllocOrSwap(m, n, default_alloc_pages(m.pm, n))
alloc_page(m) == alloc_pages(m, 1)

-----------------------------------------------------------------------------
(* Page tables: pmm.c.  An operator that meets a stopped kernel does nothing. *)

NewPt(m, pg, d) ==
    IF m.ret = NoFrame THEN Panic(m, "no memory")
    ELSE [m EXCEPT !.ref[m.ret] = 1, !.pgdir[pg][d] = m.ret,
                   !.pt = m.ret :> [i \in 0..(PTN - 1) |-> NoPte] @@ @]

get_pte_create(m, pg, v) ==
    IF HasPt(m, pg, v) THEN m ELSE NewPt(alloc_page(m), pg, v \div PTN)

Unref(m, f) ==
    IF m.ref[f] = 1 THEN free_page([m EXCEPT !.ref[f] = 0], f) ELSE [m EXCEPT !.ref[f] = @ - 1]

page_remove_pte(m, pg, v) ==
    IF ~Pte(m, pg, v).p THEN m
    ELSE SetPte(tlb_invalidate(Unref(m, Pte(m, pg, v).f), pg, v), pg, v, NoPte)

page_remove(m, pg, v) == IF HasPt(m, pg, v) THEN page_remove_pte(m, pg, v) ELSE m

(* A frame that is already at this address gains and loses a reference *)
Replaced(m, f, pg, v) ==
    IF Pte(m, pg, v).p /\ Pte(m, pg, v).f = f THEN m
    ELSE page_remove_pte([m EXCEPT !.ref[f] = @ + 1], pg, v)

page_insert(m, f, pg, v, w) ==
    Then(get_pte_create(m, pg, v), LAMBDA x :
         SetPte(tlb_invalidate(Replaced(x, f, pg, v), pg, v), pg, v,
                [NoPte EXCEPT !.p = TRUE, !.f = f, !.w = w]))

(* The frame is in ret *)
Swappable(m, f, v) ==
    IF m.swap_init_ok /\ m.check # NoMm
    THEN Demand([_fifo_map_swappable(m, f) EXCEPT !.vaddr[f] = v], m.ref[f] = 1)
    ELSE m

MapNew(m, f, pg, v, w) ==
    IF f = NoFrame THEN m
    ELSE Then(page_insert(m, f, pg, v, w), LAMBDA x : [Swappable(x, f, v) EXCEPT !.ret = f])

pgdir_alloc_page(m, pg, v, w) ==
    Then(m, LAMBDA x : Then(alloc_page(x), LAMBDA a : MapNew(a, a.ret, pg, v, w)))

Pages(start, end) == [i \in 1..(end - start) |-> start + i - 1]

unmap_range(m, pg, start, end) ==
    FoldLeft(LAMBDA x, v : page_remove(x, pg, v), m, Pages(start, end))

(* The page tables of the range, once each *)
exit_range(m, pg, start, end) ==
    FoldLeft(LAMBDA x, d : IF x.pgdir[pg][d] = NoFrame THEN x
                           ELSE LET f == x.pgdir[pg][d]
                                IN  [free_page(x, f) EXCEPT !.pgdir[pg][d] = NoFrame,
                                        !.pt = [g \in DOMAIN x.pt \ {f} |-> x.pt[g]]],
             m, Pages(start \div PTN, (end - 1) \div PTN + 1))

copy_page(m, to, from, v) ==
    IF ~Ok(m) \/ ~Present(m, from, v) THEN m
    ELSE Then(get_pte_create(m, to, v), LAMBDA x : Then(alloc_page(x), LAMBDA a :
              page_insert([a EXCEPT !.mem[a.ret] = m.mem[Pte(m, from, v).f]], a.ret, to, v,
                          Pte(m, from, v).w)))

copy_range(m, to, from, start, end) ==
    FoldLeft(LAMBDA x, v : copy_page(x, to, from, v), m, Pages(start, end))
=============================================================================
