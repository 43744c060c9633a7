------------------------------ MODULE PageAlloc ------------------------------
(***************************************************************************)
(* The allocator of page frames, kern/mm/default_pmm.c: first fit over a   *)
(* list of free blocks.  These operators work on a record a: list, the     *)
(* blocks [base, n] of free_list, whose bases are the pages that have      *)
(* PG_property; nr_free; and ok, FALSE once an assertion has failed.  The  *)
(* property of a page is read only while it heads a block of the list.     *)
(***************************************************************************)
EXTENDS Integers, Sequences, FiniteSets, SequencesExt, FiniteSetsExt, Functions

CONSTANT NPages      \* frames that page_init hands to init_memmap

(* default_check takes five pages side by side. *)
ASSUME PageAllocAssumption == NPages \in Nat \ (0..4)

Frames == 0..(NPages - 1)
NoFrame == -1        \* NULL

(* list.h: a list is a sequence, the head element is left out *)
list_add_before(l, i, e) == InsertAt(l, i, e)
list_del(l, i) == RemoveAt(l, i)

Span(b) == b.base..(b.base + b.n - 1)

(* The first block behind base, or the head of the list *)
Behind(l, base) == Min({i \in 1..(Len(l) + 1) : i = Len(l) + 1 \/ base < l[i].base})

InsertBlock(a, b, i) ==
    [a EXCEPT !.list = list_add_before(@, i, b),
              !.ok = @ /\ (i <= Len(a.list) => b.base + b.n <= a.list[i].base)
                       /\ \A j \in 1..(i - 1) : a.list[j].base + a.list[j].n <= b.base]

default_list_add(a, b) == InsertBlock(a, b, Behind(a.list, b.base))

default_init == [list |-> << >>, nr_free |-> 0, ok |-> TRUE]

default_init_memmap(a, base, n) ==
    default_list_add([a EXCEPT !.nr_free = @ + n], [base |-> base, n |-> n])

(* The rest of a split block takes its place. *)
CutBlock(a, n, i) ==
    LET b == a.list[i]
    IN  [page |-> b.base,
         a |-> [a EXCEPT !.nr_free = @ - n,
                         !.list = IF b.n > n
                                  THEN [a.list EXCEPT ![i] = [base |-> b.base + n, n |-> b.n - n]]
                                  ELSE list_del(a.list, i)]]

Roomy(a, n) == {i \in 1..Len(a.list) : a.list[i].n >= n}

default_alloc_pages(a, n) ==
    IF n > a.nr_free \/ Roomy(a, n) = {} THEN [a |-> a, page |-> NoFrame]
    ELSE CutBlock(a, n, Min(Roomy(a, n)))

(* One pass over the list: a block next to the freed one leaves the list and joins it. *)
Merge(b, p) ==
    IF b.base + b.n = p.base THEN [b EXCEPT !.n = @ + p.n]
    ELSE IF p.base + p.n = b.base THEN [base |-> p.base, n |-> p.n + b.n]
    ELSE b

Join(x, p) ==
    IF Merge(x.b, p) # x.b THEN [x EXCEPT !.b = Merge(@, p)]
                           ELSE [x EXCEPT !.rest = Append(@, p)]

Passed(l, b) ==
    LET pass[i \in 0..Len(l)] ==
          IF i = 0 THEN [b |-> b, rest |-> << >>] ELSE Join(pass[i - 1], l[i])
    IN  pass

MergeAll(l, b) == Passed(l, b)[Len(l)]

(* A fault in the merge: the list is left as soon as one neighbour has joined. *)
MergeOne(l, b) ==
    FoldLeft(LAMBDA x, p : IF x.b = b /\ Merge(x.b, p) # x.b
                           THEN [x EXCEPT !.b = Merge(@, p)]
                           ELSE [x EXCEPT !.rest = Append(@, p)],
             [b |-> b, rest |-> << >>], l)

(* The assertions are about the pages as they were; x is what the merge leaves. *)
FreeMerged(a, b, x) ==
    default_list_add([list |-> x.rest, nr_free |-> a.nr_free + b.n,
                      ok |-> a.ok /\ Span(b) \subseteq Frames
                                  /\ \A i \in 1..Len(a.list) : a.list[i].base \notin Span(b)],
                     x.b)

free_pages_one_merge(a, base, n) ==
    FreeMerged(a, [base |-> base, n |-> n], MergeOne(a.list, [base |-> base, n |-> n]))

default_free_pages(a, base, n) ==
    FreeMerged(a, [base |-> base, n |-> n], MergeAll(a.list, [base |-> base, n |-> n]))

-----------------------------------------------------------------------------
(* The self test that pmm_init runs, on a record t: the allocator a, got,  *)
(* the pages that alloc_pages has returned so far (got[i] is the i-th),    *)
(* and the list and nr_free that the test puts aside.                      *)

Test(a) == [a |-> a, got |-> << >>, store |-> << >>, nr_free_store |-> 0]

Took(t, r, want) ==
    [t EXCEPT !.a = [r.a EXCEPT !.ok = @ /\ want], !.got = Append(@, r.page)]
TakeSome(t, n) == LET r == default_alloc_pages(t.a, n) IN Took(t, r, r.page # NoFrame)
TakeNull(t, n) == LET r == default_alloc_pages(t.a, n) IN Took(t, r, r.page = NoFrame)
TakeAt(t, n, p) == LET r == default_alloc_pages(t.a, n) IN Took(t, r, r.page = p)
Page(t, i, k) == t.got[i] + k
Gave(t, freed) == [t EXCEPT !.a = freed]
Give(t, i, k, n) == Gave(t, default_free_pages(t.a, Page(t, i, k), n))
Must(t, want) == [t EXCEPT !.a.ok = @ /\ want]
ListAside(t) == [t EXCEPT !.a.list = << >>, !.store = t.a.list]
CountAside(t) == [t EXCEPT !.a.nr_free = 0, !.nr_free_store = t.a.nr_free]
Restore(t) == [t EXCEPT !.a.list = t.store, !.a.nr_free = t.nr_free_store]

Heads(t, base, n) == \E i \in 1..Len(t.a.list) : t.a.list[i] = [base |-> base, n |-> n]

(* The calls of the checks, with what they assert: n pages from k behind   *)
(* got[1] are taken, or head a block; nr_free is n.                        *)
TakeBack(t, k, n) == TakeAt(t, n, Page(t, 1, k))
MustHead(t, k, n) == Must(t, Heads(t, Page(t, 1, k), n))
MustFree(t, n) == Must(t, t.a.nr_free = n)
TakeThree(t) == TakeSome(TakeSome(TakeSome(t, 1), 1), 1)
MustDiffer(t) == Must(t, Cardinality(Range(t.got)) = 3)
GiveThree(t, i) == Give(Give(Give(t, i, 0, 1), i + 1, 0, 1), i + 2, 0, 1)

Counted(l) ==
    LET sum[i \in 0..Len(l)] == IF i = 0 THEN 0 ELSE sum[i - 1] + l[i].n
    IN  sum
Total(a) == Counted(a.list)[Len(a.list)]
MustTotal(t, a0) ==
    Must(t, /\ Total(a0) = a0.nr_free
            /\ Len(t.a.list) = Len(a0.list) /\ Total(t.a) = Total(a0))

(* Each check is its calls in their order. *)
basic_check(a) ==
    LET alone == CountAside(ListAside(MustDiffer(TakeThree(Test(a)))))
        given == MustFree(GiveThree(TakeNull(alone, 1), 1), 3)
        again == Give(TakeNull(TakeThree(given), 1), 5, 0, 1)
        taken == MustFree(TakeNull(TakeAt(again, 1, Page(again, 5, 0)), 1), 0)
    IN  GiveThree(Restore(taken), 5).a

default_check(a0) ==
    LET five == TakeSome(Test(basic_check(a0)), 5)
        part == TakeNull(Give(CountAside(TakeNull(ListAside(five), 1)), 1, 2, 3), 4)
        three == TakeBack(MustHead(part, 2, 3), 2, 3)
        hole == Give(Give(TakeNull(three, 1), 1, 0, 1), 1, 2, 3)
        first == TakeBack(MustHead(MustHead(hole, 0, 1), 2, 3), 0, 1)
        two == TakeBack(Give(first, 1, 0, 1), 2, 2)
        all == TakeNull(TakeSome(Give(Give(two, 1, 2, 2), 1, 1, 1), 5), 1)
    IN  MustTotal(Give(Restore(MustFree(all, 0)), 8, 0, 5), a0).a

(* page_init: one block; check_alloc_page *)
page_init == default_init_memmap(default_init, 0, NPages)
=============================================================================
