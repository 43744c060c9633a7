------------------------------- MODULE Kmalloc -------------------------------
(***************************************************************************)
(* kmalloc and kfree (kern/mm/kmalloc.c) over the frames of PageAlloc:     *)
(* small objects from the SLOB list, objects of a page or more from        *)
(* alloc_pages, remembered in bigblocks.  Addresses count SLOB units; frame *)
(* f holds the units from f * PageUnits.  The callers are the kernel and,  *)
(* through sys_alloc, any program, with any size, 0 too.                   *)
(*                                                                         *)
(* An object of 0 bytes is a header alone, and the model stops at the two  *)
(* steps where that breaks the heap: "arena", when the one unit of arena   *)
(* is handed out and the list loses the block that keeps it from becoming  *)
(* empty, and "alias", when the object begins where a big block does and   *)
(* kfree frees the big block in its place.                                 *)
(***************************************************************************)
EXTENDS PageAlloc

CONSTANTS
    SLOB_UNIT,   \* bytes of a slob_t
    PageUnits,   \* PAGE_SIZE in units
    BigBytes,    \* sizeof(bigblock_t), three words; a slob_t has two
    INT_MAX,     \* the largest int
    Sizes,       \* sizes that callers ask for, in bytes
    MaxLive      \* bound of the objects that are live together

ASSUME KmallocAssumption ==
    /\ SLOB_UNIT \in Nat \ {0} /\ PageUnits \in Nat \ {0, 1, 2}
    /\ BigBytes \in Nat /\ BigBytes > SLOB_UNIT /\ INT_MAX \in Nat
    /\ Sizes \subseteq Nat /\ MaxLive \in Nat

VARIABLES
    pm,           \* the page allocator
    slob,         \* slob[b]: units and next of the blocks of the list and of live small objects
    slobfree,     \* where the next search starts
    bigblocks,    \* [order, pages, bb], the last one first
    swap_init_ok, \* swapping is on: alloc_pages(1) never returns NULL
    live,         \* what callers hold: <<"object" or "pages", address or frame, bytes or n>>
    panic         \* "none", or why the kernel has stopped or is no longer followed

vars == <<pm, slob, slobfree, bigblocks, swap_init_ok, live, panic>>

PAGE_SIZE == PageUnits * SLOB_UNIT
arena == -2              \* a static variable, below and apart from all frames
NULL == -1
SLOB_UNITS(size) == (size + SLOB_UNIT - 1) \div SLOB_UNIT
AddrOf(f) == f * PageUnits

(* The heap as one value, for operations that take several steps *)
Heap == [pm |-> pm, slob |-> slob, free |-> slobfree, ret |-> NULL, panic |-> "none"]

Init ==
    /\ pm = page_init
    /\ slob = [b \in {arena} |-> [units |-> 1, next |-> arena]]
    /\ slobfree = arena
    /\ bigblocks = << >>
    /\ swap_init_ok = FALSE
    /\ live = {}
    /\ panic = "boot"

(* pmm_init: check_alloc_page, then kmalloc_init *)
PmmInit ==
    /\ panic = "boot"
    /\ pm' = default_check(pm)
    /\ panic' = "none"
    /\ UNCHANGED <<slob, slobfree, bigblocks, swap_init_ok, live>>

SwapInit ==
    /\ panic = "none" /\ ~swap_init_ok
    /\ swap_init_ok' = TRUE
    /\ UNCHANGED <<pm, slob, slobfree, bigblocks, live, panic>>

-----------------------------------------------------------------------------

Allocated(h, n, r) ==
    IF r.page = NoFrame /\ n = 1 /\ swap_init_ok THEN [h EXCEPT !.panic = "swap_out", !.ret = NULL]
    ELSE [h EXCEPT !.pm = r.a, !.ret = r.page]

(* With swapping on, a single page that cannot be had makes alloc_pages call *)
(* swap_out(check_mm_struct), which is NULL once the checks are over.        *)
alloc_pages(h, n) ==
    Allocated(h, n, default_alloc_pages(h.pm, n))

free_pages(h, f, n) == [h EXCEPT !.pm = default_free_pages(@, f, n)]

(* Ring(h)[i]: the i-th block behind slobfree, slobfree itself the last *)
RingLen(h) == Cardinality(DOMAIN h.slob)
Ring(h) ==
    LET walk[i \in 0..RingLen(h)] == IF i = 0 THEN h.free ELSE h.slob[walk[i - 1]].next
    IN  walk

LastOf(h) == Min({i \in 1..RingLen(h) : Ring(h)[i] = h.free})

(* The reinsertion point: the block before b, or the end where the list wraps round *)
Before(h, b) ==
    LET ring == Ring(h)
        here(cur) == LET nxt == h.slob[cur].next
                     IN  \/ b > cur /\ b < nxt
                         \/ cur >= nxt /\ (b > cur \/ b < nxt)
    IN  ring[Min({i \in 0..LastOf(h) : here(ring[i])})]

(* units: what the header holds, or SLOB_UNITS(size) when a size is given *)
slob_free(h, b, units) ==
    LET cur == Before(h, b)
        nxt == h.slob[cur].next
        up == b + units = nxt
        blk == [units |-> IF up THEN units + h.slob[nxt].units ELSE units,
                next |-> IF up THEN h.slob[nxt].next ELSE nxt]
        down == cur + h.slob[cur].units = b
        kept == [a \in (DOMAIN h.slob \cup {b}) \ (IF up THEN {nxt} ELSE {}) |->
                   IF a = b THEN blk ELSE h.slob[a]]
    IN  [h EXCEPT !.free = cur,
                  !.slob = IF down
                           THEN [[a \in DOMAIN kept \ {b} |-> kept[a]] EXCEPT
                                   ![cur] = [units |-> @.units + blk.units, next |-> blk.next]]
                           ELSE [kept EXCEPT ![cur].next = b]]

(* Blocks of the list with room, in the order of the search; align is 0 in every call *)
Fits(h, units) == {i \in 1..LastOf(h) : h.slob[Ring(h)[i]].units >= units}

Cut(h, units) ==
    LET i == Min(Fits(h, units))
        prev == Ring(h)[i - 1]
        cur == Ring(h)[i]
        rest == cur + units
        c == h.slob[cur]
        cutoff == [a \in DOMAIN h.slob \cup {rest} |->
                     IF a = rest THEN [units |-> c.units - units, next |-> c.next] ELSE h.slob[a]]
    IN  IF cur = arena THEN [h EXCEPT !.panic = "arena", !.ret = NULL]
        ELSE IF c.units = units
        THEN [h EXCEPT !.slob = [@ EXCEPT ![prev].next = c.next, ![cur].next = NULL],
                       !.free = prev, !.ret = cur]
        ELSE [h EXCEPT !.slob = [cutoff EXCEPT ![prev].next = rest,
                                               ![cur] = [units |-> units, next |-> NULL]],
                       !.free = prev, !.ret = cur]

(* A new page, p.ret, joins the list; without one there is no block. *)
Grown(p, units) ==
    IF p.ret = NULL THEN p ELSE Cut(slob_free(p, AddrOf(p.ret), PageUnits), units)

slob_alloc(h, size) ==
    IF size + SLOB_UNIT >= PAGE_SIZE THEN [h EXCEPT !.panic = "size", !.ret = NULL]
    ELSE IF Fits(h, SLOB_UNITS(size)) # {} THEN Cut(h, SLOB_UNITS(size))
    ELSE Grown(alloc_pages(h, 1), SLOB_UNITS(size))

(* for (; size > 4096; size >>= 1) order++ *)
Halved(size) ==
    LET left[o \in 0..size] == IF o = 0 THEN size ELSE left[o - 1] \div 2
    IN  left

(* Its parameter is an int: a size_t above INT_MAX arrives as a negative   *)
(* number and the loop is not entered.                                     *)
find_order(size) ==
    IF size > INT_MAX THEN 0 ELSE Min({o \in 0..size : Halved(size)[o] <= PAGE_SIZE})

(* 1 << order *)
Shifted(order) ==
    LET pages[o \in 0..order] == IF o = 0 THEN 1 ELSE 2 * pages[o - 1]
    IN  pages
PagesOf(order) == Shifted(order)[order]

(* The record of a big block takes the place of the header of its slob block. *)
Without(h, b) == [h EXCEPT !.slob = [a \in DOMAIN h.slob \ {b} |-> h.slob[a]]]

Adopt(h) ==
    /\ pm' = h.pm
    /\ slob' = h.slob
    /\ slobfree' = h.free
    /\ panic' = h.panic

(* What the caller gets: nothing, or an object at address a *)
Got(a, size) == live' = IF a = NULL THEN live ELSE live \cup {<<"object", a, size>>}

kmalloc_small(size) ==
    /\ size < PAGE_SIZE - SLOB_UNIT
    /\ \E h \in {slob_alloc(Heap, size + SLOB_UNIT)} :
         Adopt(h) /\ Got(IF h.ret = NULL THEN NULL ELSE h.ret + 1, size)
    /\ UNCHANGED bigblocks

KmallocPages(p, bb, size) ==
    IF p.ret = NULL
    THEN /\ Adopt(IF p.panic = "none" THEN slob_free(p, bb, SLOB_UNITS(BigBytes)) ELSE p)
         /\ UNCHANGED <<live, bigblocks>>
    ELSE /\ Adopt(p)
         /\ bigblocks' = <<[order |-> find_order(size), pages |-> AddrOf(p.ret), bb |-> bb]>> \o bigblocks
         /\ Got(AddrOf(p.ret), size)

kmalloc_big(size) ==
    /\ size >= PAGE_SIZE - SLOB_UNIT
    /\ \E h \in {slob_alloc(Heap, BigBytes)} :
         \/ h.ret = NULL /\ Adopt(h) /\ UNCHANGED <<live, bigblocks>>
         \/ /\ h.ret # NULL
            /\ \E p \in {alloc_pages(Without(h, h.ret), PagesOf(find_order(size)))} :
                 KmallocPages(p, h.ret, size)

kmalloc(size) == kmalloc_small(size) \/ kmalloc_big(size)

(* Only a block at the start of a page can be a big one; what is not on    *)
(* the list has a header in front of it.                                   *)
BigAt(a) == {i \in 1..Len(bigblocks) : a % PageUnits = 0 /\ bigblocks[i].pages = a}

(* A fault: the record of a freed big block stays on the list. *)
kfree_keeps_bigblock(a) ==
    IF BigAt(a) # {}
    THEN LET b == bigblocks[Min(BigAt(a))]
         IN  /\ UNCHANGED bigblocks
             /\ Adopt(slob_free(free_pages(Heap, a \div PageUnits, PagesOf(b.order)),
                               b.bb, SLOB_UNITS(BigBytes)))
    ELSE /\ Adopt(slob_free(Without(Heap, a - 1), a - 1, slob[a - 1].units))
         /\ UNCHANGED bigblocks

kfree(a) ==
    IF BigAt(a) # {}
    THEN LET i == Min(BigAt(a))
             b == bigblocks[i]
         IN  /\ bigblocks' = list_del(bigblocks, i)
             /\ Adopt(slob_free(free_pages(Heap, a \div PageUnits, PagesOf(b.order)),
                               b.bb, SLOB_UNITS(BigBytes)))
    ELSE /\ Adopt(slob_free(Without(Heap, a - 1), a - 1, slob[a - 1].units))
         /\ UNCHANGED bigblocks

-----------------------------------------------------------------------------

Kmalloc(size) ==
    /\ panic = "none" /\ Cardinality(live) < MaxLive
    /\ kmalloc(size)
    /\ UNCHANGED swap_init_ok

(* kfree takes a header that ends with its page for the big block behind it. *)
Alias(o) == o[1] = "object" /\ o[3] < PAGE_SIZE - SLOB_UNIT /\ BigAt(o[2]) # {}

Kfree ==
    /\ panic = "none"
    /\ \E o \in live :
         /\ o[1] = "object" /\ ~Alias(o)
         /\ kfree(o[2])
         /\ live' = live \ {o}
    /\ UNCHANGED swap_init_ok

KfreeAlias ==
    /\ panic = "none"
    /\ \E o \in live : Alias(o)
    /\ panic' = "alias"
    /\ UNCHANGED <<pm, slob, slobfree, bigblocks, swap_init_ok, live>>

(* Frames for page tables, user pages (1) and kernel stacks (KSTACKPAGE, 2) *)
AllocPages(n) ==
    /\ panic = "none" /\ Cardinality(live) < MaxLive
    /\ \E h \in {alloc_pages(Heap, n)} :
         /\ Adopt(h)
         /\ live' = IF h.ret = NULL THEN live ELSE live \cup {<<"pages", h.ret, n>>}
    /\ UNCHANGED <<bigblocks, swap_init_ok>>

FreePages ==
    /\ panic = "none"
    /\ \E o \in live :
         /\ o[1] = "pages"
         /\ Adopt(free_pages(Heap, o[2], o[3]))
         /\ live' = live \ {o}
    /\ UNCHANGED <<bigblocks, swap_init_ok>>

Next ==
    \/ PmmInit
    \/ SwapInit
    \/ \E size \in Sizes : Kmalloc(size)
    \/ Kfree
    \/ KfreeAlias
    \/ \E n \in {1, 2} : AllocPages(n)
    \/ FreePages

Spec == Init /\ [][Next]_vars

-----------------------------------------------------------------------------

FreeBlocks == {Ring(Heap)[i] : i \in 1..LastOf(Heap)} \ {arena}
BlockUnits(b, n) == b..(b + n - 1)

(* Frames of callers of alloc_pages and of big blocks *)
HeldFrames ==
    (UNION {Span([base |-> o[2], n |-> o[3]]) : o \in {x \in live : x[1] = "pages"}})
      \cup (UNION {Span([base |-> bigblocks[i].pages \div PageUnits, n |-> PagesOf(bigblocks[i].order)]) :
                     i \in 1..Len(bigblocks)})

(* Frames that the SLOB list has taken: it never gives one back *)
SlobFrames == (Frames \ UNION {Span(pm.list[i]) : i \in 1..Len(pm.list)}) \ HeldFrames

Small == {o \in live : o[1] = "object" /\ o[3] < PAGE_SIZE - SLOB_UNIT}

(* What holds the units of the heap: free blocks, small objects with their header, records *)
Holdings ==
    {BlockUnits(b, slob[b].units) : b \in FreeBlocks}
      \cup {BlockUnits(o[2] - 1, SLOB_UNITS(o[3] + SLOB_UNIT)) : o \in Small}
      \cup {BlockUnits(bigblocks[i].bb, SLOB_UNITS(BigBytes)) : i \in 1..Len(bigblocks)}

(* After any sequence of calls, failed ones included, every unit of the    *)
(* frames that the list has taken is in one free block, one small object   *)
(* or one big block's record: objects never overlap and nothing is lost,   *)
(* although kfree guesses the kind of a block from its address and blocks  *)
(* grow over the boundaries of frames.  No two free blocks touch.          *)
(* (slob_alloc, slob_free, __kmalloc, kfree)                               *)
HeapExact ==
    panic = "none" =>
      /\ UNION Holdings = UNION {BlockUnits(AddrOf(f), PageUnits) : f \in SlobFrames}
      /\ \A x, y \in Holdings : x # y => x \cap y = {}
      /\ Cardinality(Holdings) = Cardinality(FreeBlocks) + Cardinality(Small) + Len(bigblocks)
      /\ \A b \in FreeBlocks : b + slob[b].units \notin FreeBlocks

(* The free list of frames is in order of address, with no two blocks that *)
(* touch, holds no frame of a caller or of a big block, and nr_free counts *)
(* its frames: the merging pass of default_free_pages finds both neighbours, and no    *)
(* assertion of the list or of its own test fails.                         *)
PagesExact ==
    /\ pm.ok
    /\ \A i \in 1..(Len(pm.list) - 1) : pm.list[i].base + pm.list[i].n < pm.list[i + 1].base
    /\ pm.nr_free = Total(pm)
    /\ \A i \in 1..Len(pm.list) : Span(pm.list[i]) \cap HeldFrames = {}
=============================================================================
