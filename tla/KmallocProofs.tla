---------------------------- MODULE KmallocProofs ----------------------------
(***************************************************************************)
(* For every number of frames from five on, every set of sizes and every   *)
(* sequence of calls, the free list of default_pmm.c stays in order and    *)
(* exact, no assertion of it fails, and kmalloc's own heap is exact: its   *)
(* units are all in one free block, one small object or one record.  The   *)
(* first part is about the list of frames, for any list; the second, from  *)
(* the blocks of the heap on, about the list of slobs.                     *)
(***************************************************************************)
EXTENDS Kmalloc, DataFacts, FiniteSetTheorems

BlockRec == [base : Nat, n : Nat \ {0}]

-----------------------------------------------------------------------------
(* The number of frames of a list *)

(* The fields of the blocks of a list. *)
LEMMA BlockFields ==
    ASSUME NEW l \in Seq(BlockRec)
    PROVE  /\ Len(l) \in Nat
           /\ DOMAIN l = 1..Len(l)
           /\ \A i \in 1..Len(l) : /\ l[i] \in BlockRec
                                   /\ l[i] = [base |-> l[i].base, n |-> l[i].n]
                                   /\ l[i].base \in Nat /\ l[i].n \in Nat /\ l[i].n > 0
<1>1. Len(l) \in Nat /\ DOMAIN l = 1..Len(l) /\ \A i \in 1..Len(l) : l[i] \in BlockRec
  OBVIOUS
<1> QED
  BY <1>1 DEF BlockRec

(* Counted is what its recursion says. *)
LEMMA CountedDef ==
    ASSUME NEW l \in Seq(BlockRec)
    PROVE  /\ Counted(l) \in [0..Len(l) -> Nat]
           /\ Counted(l)[0] = 0
           /\ \A i \in 1..Len(l) : Counted(l)[i] = Counted(l)[i - 1] + l[i].n
<1> DEFINE m == Len(l)
           e(i) == IF i \in 1..m THEN l[i].n ELSE 0
           step == [i \in Nat |-> [v \in Nat |-> v + e(i)]]
           Body(f) == [i \in 0..m |-> IF i = 0 THEN 0 ELSE f[i - 1] + l[i].n]
           sum == CHOOSE f : f = Body(f)
<1>1. m \in Nat /\ \A i \in 1..m : l[i].n \in Nat
  BY BlockFields
<1>2. step \in [Nat -> [Nat -> Nat]]
  BY <1>1
<1>3. PICK g \in [0..m -> Nat] : g[0] = 0 /\ \A i \in 1..m : g[i] = step[i][g[i - 1]]
  <2> DEFINE V == Nat
             a == 0
  <2>1. a \in V /\ m \in Nat /\ step \in [Nat -> [V -> V]]
    BY <1>1, <1>2
  <2> HIDE DEF step, m, V, a
  <2>2. LoopRuns(V, a, m, step) # {}
    BY <2>1, LoopValues
  <2> QED
    BY <2>2 DEF V, a, LoopRuns
<1>4. ASSUME NEW i \in 1..m
      PROVE  g[i] = g[i - 1] + l[i].n
  <2>1. i \in Nat /\ g[i - 1] \in Nat
    BY <1>1
  <2>2. step[i][g[i - 1]] = g[i - 1] + e(i)
    BY <2>1
  <2> QED
    BY <1>3, <2>2
<1>5. g = Body(g)
  <2>1. \A i \in 0..m : g[i] = Body(g)[i]
    BY <1>3, <1>4
  <2> QED
    BY <2>1
<1>6. sum = Body(sum)
  BY <1>5
<1>7. Counted(l) = sum
  BY DEF Counted
<1> HIDE DEF sum
<1>8. sum[0] = 0 /\ DOMAIN sum = 0..m /\ \A i \in 1..m : sum[i] = sum[i - 1] + l[i].n
  BY <1>1, <1>6
<1>9. \A i \in 0..m : sum[i] \in Nat
  <2> DEFINE T == {k \in Nat : k <= m => sum[k] \in Nat}
  <2>1. 0 \in T
    BY <1>8
  <2>2. \A n \in 0..(m - 1) : n \in T => n + 1 \in T
    BY <1>1, <1>8, SMTT(60)
  <2> HIDE DEF T
  <2>3. \A i \in 0..m : i \in T
    BY <1>1, <2>1, <2>2, BoundedInduction
  <2> QED
    BY <1>1, <2>3 DEF T
<1>10. sum = [i \in 0..m |-> sum[i]]
  BY <1>6
<1>11. sum \in [0..m -> Nat]
  BY <1>1, <1>9, <1>10
<1> QED
  BY <1>1, <1>7, <1>8, <1>11

Frees(l) == Counted(l)[Len(l)]

(* The list r is q with one more block, its i-th. *)
OneMoreBlock(q, r, i) ==
    /\ q \in Seq(BlockRec) /\ r \in Seq(BlockRec)
    /\ i \in 1..(Len(q) + 1)
    /\ Len(r) = Len(q) + 1
    /\ \A j \in 1..(i - 1) : r[j] = q[j]
    /\ \A j \in i..Len(q) : r[j + 1] = q[j]

(* It has the frames of that block more. *)
LEMMA OneMoreFrees ==
    ASSUME NEW q, NEW r, NEW i, OneMoreBlock(q, r, i)
    PROVE  Frees(q) \in Nat /\ Frees(r) = Frees(q) + r[i].n
<1> DEFINE m == Len(q)
           S == Counted(q)
           Z == Counted(r)
<1>1. /\ m \in Nat /\ i \in 1..(m + 1) /\ Len(r) = m + 1
      /\ \A j \in 1..(i - 1) : r[j] = q[j]
      /\ \A j \in i..m : r[j + 1] = q[j]
      /\ q \in Seq(BlockRec) /\ r \in Seq(BlockRec)
  BY DEF OneMoreBlock
<1>2. /\ \A j \in 1..m : q[j].n \in Nat
      /\ \A j \in 1..(m + 1) : r[j].n \in Nat
  BY <1>1, BlockFields
<1>3. /\ S \in [0..m -> Nat] /\ S[0] = 0 /\ \A j \in 1..m : S[j] = S[j - 1] + q[j].n
      /\ Z \in [0..(m + 1) -> Nat] /\ Z[0] = 0 /\ \A j \in 1..(m + 1) : Z[j] = Z[j - 1] + r[j].n
  BY <1>1, CountedDef
<1> HIDE DEF m, S, Z
<1> DEFINE T == {k \in Nat : k <= m => (k < i => Z[k] = S[k]) /\ (k >= i - 1 => Z[k + 1] = S[k] + r[i].n)}
<1>4. 0 \in T
  <2>1. i = 1 => Z[1] = r[i].n
    BY <1>1, <1>2, <1>3
  <2> QED
    BY <1>1, <1>2, <1>3, <2>1
<1>5. ASSUME NEW n \in 0..(m - 1), n \in T
      PROVE  n + 1 \in T
  <2>1. /\ n \in 0..m /\ n + 1 \in 1..m /\ n + 1 \in 1..(m + 1) /\ n + 2 \in 1..(m + 1)
        /\ n + 1 - 1 = n /\ n + 2 - 1 = n + 1 /\ n + 1 \in 0..(m + 1) /\ n \in 0..(m + 1)
        /\ n + 1 + 1 = n + 2
    BY <1>1
  <2>2. /\ S[n + 1] = S[n] + q[n + 1].n /\ Z[n + 1] = Z[n] + r[n + 1].n
        /\ Z[n + 2] = Z[n + 1] + r[n + 2].n
        /\ S[n] \in Nat /\ Z[n] \in Nat /\ Z[n + 1] \in Nat /\ S[n + 1] \in Nat
        /\ q[n + 1].n \in Nat /\ r[n + 1].n \in Nat /\ r[n + 2].n \in Nat
    BY <1>2, <1>3, <2>1
  <2>3. n < i => Z[n] = S[n]
    BY <1>5, <2>1
  <2>4. n >= i - 1 => Z[n + 1] = S[n] + r[i].n
    BY <1>5, <2>1
  <2>5. n + 1 < i => Z[n + 1] = S[n + 1]
    <3>1. n + 1 < i => r[n + 1] = q[n + 1]
      BY <1>1
    <3> QED
      BY <1>1, <2>2, <2>3, <3>1
  <2>6. n + 1 >= i - 1 => Z[n + 2] = S[n + 1] + r[i].n
    <3>1. CASE n + 1 = i - 1
      <4>1. i = n + 2 /\ n + 1 < i
        BY <1>1, <2>1, <3>1
      <4> QED
        BY <2>2, <2>5, <4>1
    <3>2. CASE n + 1 >= i
      <4>1. r[n + 2] = q[n + 1]
        BY <1>1, <2>1, <3>2
      <4>2. r[i].n \in Nat
        BY <1>1, <1>2
      <4>3. Z[n + 1] = S[n] + r[i].n
        BY <1>1, <2>4, <3>2
      <4> QED
        BY <2>2, <4>1, <4>2, <4>3
    <3> QED
      BY <1>1, <3>1, <3>2
  <2> QED
    BY <2>1, <2>5, <2>6
<1>6. \A k \in 0..m : k \in T
  <2> HIDE DEF T
  <2> QED
    BY <1>1, <1>4, <1>5, BoundedInduction
<1>7. Z[m + 1] = S[m] + r[i].n /\ S[m] \in Nat
  BY <1>1, <1>3, <1>6
<1> QED
  BY <1>1, <1>7 DEF Frees, m, S, Z

(* The lists q and r differ in block i. *)
OneOther(q, r, i) ==
    /\ q \in Seq(BlockRec) /\ r \in Seq(BlockRec)
    /\ i \in 1..Len(q) /\ Len(r) = Len(q)
    /\ \A j \in 1..Len(q) : j # i => r[j] = q[j]

(* Then their frames differ as these blocks do. *)
LEMMA OneOtherFrees ==
    ASSUME NEW q, NEW r, NEW i, OneOther(q, r, i)
    PROVE  Frees(q) \in Nat /\ Frees(q) >= q[i].n /\ Frees(r) = Frees(q) - q[i].n + r[i].n
<1> DEFINE u == RemoveAt(q, i)
<1>1. /\ q \in Seq(BlockRec) /\ r \in Seq(BlockRec) /\ i \in 1..Len(q) /\ Len(r) = Len(q)
      /\ \A j \in 1..Len(q) : j # i => r[j] = q[j]
      /\ Len(q) \in Nat
  BY BlockFields DEF OneOther
<1>2. /\ u \in Seq(BlockRec) /\ Len(u) = Len(q) - 1
      /\ \A j \in 1..(Len(q) - 1) : u[j] = IF j < i THEN q[j] ELSE q[j + 1]
  BY <1>1, RemoveElems
<1> HIDE DEF u
<1>3. OneMoreBlock(u, q, i)
  <2>1. \A j \in 1..(i - 1) : q[j] = u[j]
    BY <1>1, <1>2
  <2>2. \A j \in i..Len(u) : q[j + 1] = u[j]
    BY <1>1, <1>2
  <2> QED
    BY <1>1, <1>2, <2>1, <2>2 DEF OneMoreBlock
<1>4. OneMoreBlock(u, r, i)
  <2>1. \A j \in 1..(i - 1) : r[j] = u[j]
    BY <1>1, <1>2
  <2>2. \A j \in i..Len(u) : r[j + 1] = u[j]
    BY <1>1, <1>2
  <2> QED
    BY <1>1, <1>2, <2>1, <2>2 DEF OneMoreBlock
<1>5. q[i].n \in Nat /\ r[i].n \in Nat
  BY <1>1, BlockFields
<1> QED
  BY <1>3, <1>4, <1>5, OneMoreFrees

-----------------------------------------------------------------------------
(* The list *)

PmRec == [list : Seq(BlockRec), nr_free : Nat, ok : BOOLEAN]

(* In order of address, no two blocks touch, all inside the frames. *)
ListOK(l) ==
    /\ l \in Seq(BlockRec)
    /\ \A i, j \in 1..Len(l) : i < j => l[i].base + l[i].n < l[j].base
    /\ \A i \in 1..Len(l) : l[i].base + l[i].n <= NPages

PmOK(a) == a \in PmRec /\ a.ok /\ ListOK(a.list) /\ a.nr_free = Frees(a.list)

Region(f, n) == f \in Nat /\ n \in Nat /\ n > 0 /\ f + n <= NPages

Disjoint(f, n, g, k) == f + n <= g \/ g + k <= f

(* None of the n frames from f on is free. *)
Apart(l, f, n) == \A i \in 1..Len(l) : Disjoint(f, n, l[i].base, l[i].n)

(* A block that touches none of the list finds its place in it. *)
LEMMA ListAdd ==
    ASSUME NEW a \in PmRec, ListOK(a.list), NEW b \in BlockRec, b.base + b.n <= NPages,
           \A i \in 1..Len(a.list) : \/ b.base + b.n < a.list[i].base
                                     \/ a.list[i].base + a.list[i].n < b.base
    PROVE  LET c == default_list_add(a, b)
           IN  /\ c \in PmRec /\ ListOK(c.list)
               /\ Frees(a.list) \in Nat /\ Frees(c.list) = Frees(a.list) + b.n
               /\ c.ok = a.ok /\ c.nr_free = a.nr_free
               /\ \A f, n \in Nat : Apart(c.list, f, n) <=> Apart(a.list, f, n) /\ Disjoint(f, n, b.base, b.n)
<1> DEFINE l == a.list
           m == Len(l)
           T == {i \in 1..(Len(l) + 1) : i = Len(l) + 1 \/ b.base < l[i].base}
           i == Behind(l, b.base)
           r == InsertAt(l, i, b)
           ok == a.ok /\ (i <= Len(l) => b.base + b.n <= l[i].base)
                      /\ \A j \in 1..(i - 1) : l[j].base + l[j].n <= b.base
           c == default_list_add(a, b)
<1>1. /\ l \in Seq(BlockRec) /\ a.nr_free \in Nat /\ a.ok \in BOOLEAN
      /\ a = [list |-> a.list, nr_free |-> a.nr_free, ok |-> a.ok]
  BY DEF PmRec
<1>2. /\ m \in Nat
      /\ \A j \in 1..m : l[j].base \in Nat /\ l[j].n \in Nat /\ l[j].n > 0
      /\ b.base \in Nat /\ b.n \in Nat /\ b.n > 0
  <2>1. b.base \in Nat /\ b.n \in Nat /\ b.n > 0
    BY DEF BlockRec
  <2> HIDE DEF l
  <2> QED
    BY <1>1, <2>1, BlockFields
<1>3. T \in SUBSET Nat /\ T # {}
  <2>1. m + 1 \in T
    BY <1>2
  <2> QED
    BY <1>2, <2>1, SMTT(60)
<1>4. i = Min(T)
  BY DEF Behind
<1>5. i \in T /\ \A k \in T : i <= k
  <2> HIDE DEF T, i
  <2> QED
    BY <1>3, <1>4, MinIs
<1>6. /\ i \in 1..(m + 1) /\ (i <= m => b.base < l[i].base)
      /\ \A j \in 1..m : j < i => ~(b.base < l[j].base)
  <2> HIDE DEF i
  <2> QED
    BY <1>2, <1>5
<1>7. c = [list |-> r, nr_free |-> a.nr_free, ok |-> ok]
  <2>1. c = [a EXCEPT !.list = r, !.ok = ok]
    BY DEF default_list_add, InsertBlock, list_add_before
  <2> HIDE DEF c, r, ok
  <2> QED
    BY <1>1, <2>1
<1> HIDE DEF i, l
<1>8. /\ r \in Seq(BlockRec) /\ Len(r) = m + 1
      /\ \A j \in 1..(m + 1) : r[j] = IF j < i THEN l[j] ELSE IF j = i THEN b ELSE l[j - 1]
  <2>1. l \in Seq(BlockRec) /\ i \in 1..(Len(l) + 1)
    BY <1>1, <1>6
  <2> QED
    BY <2>1, InsertElems
<1> HIDE DEF m, r, T
<1>9. /\ \A j, k \in 1..m : j < k => l[j].base + l[j].n < l[k].base
      /\ \A j \in 1..m : l[j].base + l[j].n <= NPages
  BY DEF ListOK, l, m
<1>10. \A j \in 1..m : b.base + b.n < l[j].base \/ l[j].base + l[j].n < b.base
  BY DEF l, m
<1>11. \A j \in 1..m : j < i => l[j].base + l[j].n < b.base
  BY <1>2, <1>6, <1>10
<1>12. \A j \in 1..m : i <= j => b.base + b.n < l[j].base
  <2>1. ASSUME NEW j \in 1..m, i <= j
        PROVE  b.base < l[j].base
    <3>1. i \in 1..m /\ b.base < l[i].base
      BY <1>2, <1>6, <2>1
    <3>2. i = j \/ l[i].base + l[i].n < l[j].base
      BY <1>9, <2>1, <3>1
    <3> QED
      BY <1>2, <3>1, <3>2
  <2> QED
    BY <1>2, <1>10, <2>1
<1>13. ok = a.ok
  <2>1. i <= m => b.base + b.n <= l[i].base
    BY <1>2, <1>6, <1>12
  <2>2. \A j \in 1..(i - 1) : l[j].base + l[j].n <= b.base
    BY <1>2, <1>6, <1>11
  <2> QED
    BY <1>1, <2>1, <2>2 DEF l, m
<1>14. ListOK(r)
  <2>1. ASSUME NEW j \in 1..(m + 1), NEW k \in 1..(m + 1), j < k
        PROVE  r[j].base + r[j].n < r[k].base
    <3>1. CASE k < i
      BY <1>2, <1>6, <1>8, <1>9, <2>1, <3>1
    <3>2. CASE k = i
      BY <1>2, <1>6, <1>8, <1>11, <2>1, <3>2
    <3>3. CASE k > i
      <4>1. k - 1 \in 1..m /\ r[k] = l[k - 1] /\ i <= k - 1
        BY <1>2, <1>6, <1>8, <3>3
      <4>2. CASE j < i
        <5>1. r[j] = l[j] /\ j \in 1..m /\ j < k - 1
          BY <1>2, <1>6, <1>8, <2>1, <4>1, <4>2
        <5> QED
          BY <1>9, <4>1, <5>1
      <4>3. CASE j = i
        BY <1>8, <1>12, <4>1, <4>3
      <4>4. CASE j > i
        <5>1. r[j] = l[j - 1] /\ j - 1 \in 1..m /\ j - 1 < k - 1
          BY <1>2, <1>6, <1>8, <2>1, <4>1, <4>4
        <5> QED
          BY <1>9, <4>1, <5>1
      <4> QED
        BY <1>6, <4>2, <4>3, <4>4
    <3> QED
      BY <1>6, <3>1, <3>2, <3>3
  <2>2. ASSUME NEW j \in 1..(m + 1)
        PROVE  r[j].base + r[j].n <= NPages
    <3>1. CASE j < i
      BY <1>2, <1>6, <1>8, <1>9, <3>1
    <3>2. CASE j = i
      BY <1>8, <3>2
    <3>3. CASE j > i
      <4>1. r[j] = l[j - 1] /\ j - 1 \in 1..m
        BY <1>2, <1>6, <1>8, <3>3
      <4> QED
        BY <1>9, <4>1
    <3> QED
      BY <1>6, <3>1, <3>2, <3>3
  <2> QED
    BY <1>8, <2>1, <2>2 DEF ListOK
<1>15. Frees(l) \in Nat /\ Frees(r) = Frees(l) + b.n
  <2>1. OneMoreBlock(l, r, i)
    <3>1. \A j \in 1..(i - 1) : r[j] = l[j]
      BY <1>2, <1>6, <1>8
    <3>2. \A j \in i..m : r[j + 1] = l[j]
      BY <1>2, <1>6, <1>8
    <3> QED
      BY <1>1, <1>6, <1>8, <3>1, <3>2 DEF OneMoreBlock, m
  <2>2. r[i] = b
    BY <1>2, <1>6, <1>8
  <2> QED
    BY <2>1, <2>2, OneMoreFrees
<1>16. ASSUME NEW f \in Nat, NEW n \in Nat
       PROVE  Apart(r, f, n) <=> Apart(l, f, n) /\ Disjoint(f, n, b.base, b.n)
  <2>1. ASSUME Apart(r, f, n)
        PROVE  Apart(l, f, n) /\ Disjoint(f, n, b.base, b.n)
    <3>1. ASSUME NEW j \in 1..m
          PROVE  \E k \in 1..(m + 1) : r[k] = l[j]
      <4>1. CASE j < i
        BY <1>2, <1>8, <4>1
      <4>2. CASE i <= j
        <5>1. j + 1 \in 1..(m + 1) /\ r[j + 1] = l[j]
          BY <1>2, <1>6, <1>8, <4>2
        <5> QED
          BY <5>1
      <4> QED
        BY <1>6, <4>1, <4>2
    <3>2. i \in 1..(m + 1) /\ r[i] = b
      BY <1>2, <1>6, <1>8
    <3> QED
      BY <1>8, <2>1, <3>1, <3>2 DEF Apart, m
  <2>2. ASSUME Apart(l, f, n), Disjoint(f, n, b.base, b.n)
        PROVE  Apart(r, f, n)
    <3>1. ASSUME NEW j \in 1..(m + 1)
          PROVE  r[j] = b \/ \E k \in 1..m : r[j] = l[k]
      <4>1. CASE j < i
        BY <1>2, <1>6, <1>8, <4>1
      <4>2. CASE j = i
        BY <1>8, <4>2
      <4>3. CASE j > i
        <5>1. j - 1 \in 1..m /\ r[j] = l[j - 1]
          BY <1>2, <1>6, <1>8, <4>3
        <5> QED
          BY <5>1
      <4> QED
        BY <1>6, <4>1, <4>2, <4>3
    <3> QED
      BY <1>8, <2>2, <3>1 DEF Apart, m
  <2> QED
    BY <2>1, <2>2
<1>17. c \in PmRec
  <2> HIDE DEF c, ok
  <2> QED
    BY <1>1, <1>7, <1>8, <1>13 DEF PmRec, l
<1>18. c.list = r /\ c.ok = a.ok /\ c.nr_free = a.nr_free
  <2> HIDE DEF c, ok
  <2> QED
    BY <1>7, <1>13
<1> HIDE DEF c
<1>19. \A f, n \in Nat : Apart(c.list, f, n) <=> Apart(l, f, n) /\ Disjoint(f, n, b.base, b.n)
  BY <1>16, <1>18
<1> QED
  BY <1>14, <1>15, <1>17, <1>18, <1>19 DEF c, l

-----------------------------------------------------------------------------
(* default_alloc_pages *)

(* The list r is q without the first n frames of its block i. *)
LEMMA CutList ==
    ASSUME NEW a, PmOK(a), NEW n \in Nat, n > 0, NEW i \in 1..Len(a.list), a.list[i].n >= n
    PROVE  LET c == CutBlock(a, n, i)
           IN  /\ PmOK(c.a) /\ c.page = a.list[i].base
               /\ Region(c.page, n) /\ Apart(c.a.list, c.page, n)
               /\ \A f, k \in Nat : k > 0 =>
                     (Apart(a.list, f, k) <=> Apart(c.a.list, f, k) /\ Disjoint(f, k, c.page, n))
<1> DEFINE l == a.list
           m == Len(l)
           p == l[i].base
           rest == [base |-> l[i].base + n, n |-> l[i].n - n]
           r == IF l[i].n > n THEN [l EXCEPT ![i] = rest] ELSE list_del(l, i)
           c == CutBlock(a, n, i)
<1>1. /\ l \in Seq(BlockRec) /\ a.nr_free \in Nat /\ a.ok \in BOOLEAN /\ a.ok /\ a.nr_free = Frees(l)
      /\ a = [list |-> l, nr_free |-> a.nr_free, ok |-> a.ok]
  BY DEF PmOK, PmRec
<1>2. ListOK(l)
  BY DEF PmOK
<1>3. c.page = p /\ c.a = [list |-> r, nr_free |-> a.nr_free - n, ok |-> a.ok]
  <2>1. c = [page |-> p, a |-> [a EXCEPT !.nr_free = a.nr_free - n, !.list = r]]
    BY DEF CutBlock
  <2> HIDE DEF c, r, p, l
  <2>2. c.page = p /\ c.a = [a EXCEPT !.nr_free = a.nr_free - n, !.list = r]
    BY <2>1
  <2> QED
    BY <1>1, <2>2
<1> HIDE DEF c
<1>4. i \in 1..m /\ l[i].n >= n
  OBVIOUS
<1> HIDE DEF l
<1>5. /\ m \in Nat
      /\ \A j \in 1..m : l[j].base \in Nat /\ l[j].n \in Nat /\ l[j].n > 0
      /\ \A j, k \in 1..m : j < k => l[j].base + l[j].n < l[k].base
      /\ \A j \in 1..m : l[j].base + l[j].n <= NPages
  BY <1>1, <1>2, BlockFields DEF ListOK
<1>6. Region(p, n)
  BY <1>4, <1>5, PageAllocAssumption DEF Region
<1>a. ASSUME NEW j \in 1..m, j # i
      PROVE  Disjoint(p, n, l[j].base, l[j].n)
  <2>1. PICK x \in Nat, y \in Nat, u \in Nat, v \in Nat : x = l[i].base /\ y = l[i].n /\ u = l[j].base /\ v = l[j].n
    BY <1>4, <1>5
  <2>2. x + y < u \/ u + v < x
    <3>1. CASE i < j
      <4>1. l[i].base + l[i].n < l[j].base
        BY <1>4, <1>5, <3>1
      <4> QED
        BY <2>1, <4>1
    <3>2. CASE j < i
      <4>1. l[j].base + l[j].n < l[i].base
        BY <1>4, <1>5, <3>2
      <4> QED
        BY <2>1, <4>1
    <3> QED
      BY <1>a, <1>4, <3>1, <3>2
  <2>3. y >= n
    BY <1>4, <2>1
  <2>4. Disjoint(x, n, u, v)
    BY <2>2, <2>3 DEF Disjoint
  <2> QED
    BY <2>1, <2>4
<1>7. CASE l[i].n > n
  <2>1. rest \in BlockRec /\ rest.base = l[i].base + n /\ rest.n = l[i].n - n
    BY <1>4, <1>5, <1>7 DEF BlockRec
  <2>2. r = [l EXCEPT ![i] = rest]
    BY <1>7
  <2> HIDE DEF r, rest
  <2>3. /\ r \in Seq(BlockRec) /\ Len(r) = m /\ r[i] = rest
        /\ \A j \in 1..m : j # i => r[j] = l[j]
    BY <1>1, <1>4, <2>1, <2>2
  <2>4. ListOK(r)
    <3>1. ASSUME NEW j \in 1..m, NEW k \in 1..m, j < k
          PROVE  r[j].base + r[j].n < r[k].base
      <4>1. CASE j = i
        <5>1. r[k] = l[k] /\ l[i].base + l[i].n < l[k].base
          BY <1>5, <2>3, <3>1, <4>1
        <5> QED
          BY <1>4, <1>5, <2>1, <2>3, <4>1, <5>1, SMTT(60)
      <4>2. CASE k = i
        <5>1. r[j] = l[j] /\ l[j].base + l[j].n < l[i].base
          BY <1>5, <2>3, <3>1, <4>2
        <5> QED
          BY <1>4, <1>5, <2>1, <2>3, <4>2, <5>1, SMTT(60)
      <4>3. CASE j # i /\ k # i
        BY <1>5, <2>3, <3>1, <4>3
      <4> QED
        BY <4>1, <4>2, <4>3
    <3>2. ASSUME NEW j \in 1..m
          PROVE  r[j].base + r[j].n <= NPages
      <4>1. CASE j = i
        BY <1>4, <1>5, <2>1, <2>3, <4>1
      <4>2. CASE j # i
        BY <1>5, <2>3, <4>2
      <4> QED
        BY <4>1, <4>2
    <3> QED
      BY <2>3, <3>1, <3>2 DEF ListOK
  <2>5. a.nr_free - n \in Nat /\ a.nr_free - n = Frees(r)
    <3>1. OneOther(l, r, i)
      BY <1>1, <1>4, <2>3 DEF OneOther
    <3>2. Frees(l) \in Nat /\ Frees(l) >= l[i].n /\ Frees(r) = Frees(l) - l[i].n + r[i].n
      BY <3>1, OneOtherFrees
    <3>3. l[i].n \in Nat /\ r[i].n = l[i].n - n
      BY <1>4, <1>5, <2>1, <2>3
    <3> QED
      BY <1>1, <1>4, <3>2, <3>3
  <2>6. ASSUME NEW f \in Nat, NEW k \in Nat, k > 0
        PROVE  Apart(l, f, k) <=> Apart(r, f, k) /\ Disjoint(f, k, p, n)
    <3>1. Disjoint(f, k, l[i].base, l[i].n) <=> Disjoint(f, k, r[i].base, r[i].n) /\ Disjoint(f, k, p, n)
      <4>1. /\ l[i].base \in Nat /\ l[i].n \in Nat /\ l[i].n > n
            /\ r[i].base = l[i].base + n /\ r[i].n = l[i].n - n
        BY <1>4, <1>5, <1>7, <2>1, <2>3
      <4> DEFINE x == l[i].base
                 y == l[i].n
                 u == r[i].base
                 v == r[i].n
      <4>2. /\ x \in Nat /\ y \in Nat /\ y > n /\ u = x + n /\ v = y - n
            /\ p = x /\ f \in Nat /\ k \in Nat /\ k > 0 /\ n > 0
        BY <2>6, <4>1
      <4> HIDE DEF x, y, u, v, p
      <4>3. Disjoint(f, k, x, y) <=> Disjoint(f, k, u, v) /\ Disjoint(f, k, p, n)
        BY <4>2 DEF Disjoint
      <4> QED
        BY <4>3 DEF x, y, u, v, p
    <3>2. Apart(l, f, k) <=> /\ Disjoint(f, k, l[i].base, l[i].n)
                             /\ \A j \in 1..m : j # i => Disjoint(f, k, l[j].base, l[j].n)
      BY <1>4 DEF Apart
    <3>3. Apart(r, f, k) <=> /\ Disjoint(f, k, r[i].base, r[i].n)
                             /\ \A j \in 1..m : j # i => Disjoint(f, k, r[j].base, r[j].n)
      BY <1>4, <2>3 DEF Apart
    <3> QED
      BY <2>3, <3>1, <3>2, <3>3
  <2>7. PmOK(c.a) /\ c.a.list = r
    BY <1>1, <1>3, <2>3, <2>4, <2>5 DEF PmOK, PmRec
  <2>8. Apart(r, p, n)
    <3>1. Disjoint(p, n, r[i].base, r[i].n)
      <4>1. r[i].base = p + n
        BY <2>1, <2>3
      <4> QED
        BY <1>6, <4>1 DEF Disjoint, Region
    <3>2. \A j \in 1..m : j # i => Disjoint(p, n, r[j].base, r[j].n)
      BY <1>a, <2>3
    <3> QED
      BY <2>3, <3>1, <3>2 DEF Apart
  <2> QED
    BY <1>3, <1>6, <2>6, <2>7, <2>8 DEF c, l
<1>8. CASE ~(l[i].n > n)
  <2>1. l[i].n = n
    BY <1>4, <1>5, <1>8
  <2>2. r = RemoveAt(l, i)
    BY <1>8 DEF list_del
  <2> HIDE DEF r
  <2>3. /\ r \in Seq(BlockRec) /\ Len(r) = m - 1
        /\ \A j \in 1..(m - 1) : r[j] = IF j < i THEN l[j] ELSE l[j + 1]
    <3>1. i \in 1..Len(l)
      BY <1>4
    <3> QED
      BY <1>1, <2>2, <3>1, RemoveElems
  <2>4. ListOK(r)
    <3>1. ASSUME NEW j \in 1..(m - 1), NEW k \in 1..(m - 1), j < k
          PROVE  r[j].base + r[j].n < r[k].base
      <4>1. PICK jj \in 1..m, kk \in 1..m : r[j] = l[jj] /\ r[k] = l[kk] /\ jj < kk
        <5>1. CASE k < i
          <6>1. r[j] = l[j] /\ r[k] = l[k] /\ k \in 1..m /\ j \in 1..m
            <7>1. k \in 1..m /\ j \in 1..m /\ j < i
              BY <1>4, <1>5, <3>1, <5>1
            <7> QED
              BY <2>3, <3>1, <5>1, <7>1
          <6> QED
            BY <3>1, <6>1
        <5>2. CASE ~(k < i) /\ j < i
          <6>1. r[j] = l[j] /\ r[k] = l[k + 1] /\ k + 1 \in 1..m /\ j \in 1..m /\ j < k + 1
            BY <1>5, <2>3, <3>1, <5>2
          <6> QED
            BY <6>1
        <5>3. CASE ~(j < i)
          <6>1. r[j] = l[j + 1] /\ r[k] = l[k + 1] /\ k + 1 \in 1..m /\ j + 1 \in 1..m /\ j + 1 < k + 1
            BY <1>4, <1>5, <2>3, <3>1, <5>3
          <6> QED
            BY <6>1
        <5> QED
          BY <5>1, <5>2, <5>3
      <4> QED
        BY <1>5, <4>1
    <3>2. ASSUME NEW j \in 1..(m - 1)
          PROVE  r[j].base + r[j].n <= NPages
      <4>1. PICK jj \in 1..m : r[j] = l[jj]
        <5>1. j \in 1..m /\ j + 1 \in 1..m
          BY <1>5
        <5> QED
          BY <2>3, <5>1
      <4> QED
        BY <1>5, <4>1
    <3> QED
      BY <2>3, <3>1, <3>2 DEF ListOK
  <2>5. a.nr_free - n \in Nat /\ a.nr_free - n = Frees(r)
    <3>1. OneMoreBlock(r, l, i)
      <4>1. \A j \in 1..(i - 1) : l[j] = r[j]
        BY <1>4, <1>5, <2>3
      <4>2. \A j \in i..Len(r) : l[j + 1] = r[j]
        BY <1>4, <1>5, <2>3
      <4> QED
        BY <1>1, <1>4, <1>5, <2>3, <4>1, <4>2 DEF OneMoreBlock
    <3>2. Frees(r) \in Nat /\ Frees(l) = Frees(r) + l[i].n
      BY <3>1, OneMoreFrees
    <3> QED
      BY <1>1, <2>1, <3>2
  <2>6. ASSUME NEW f \in Nat, NEW k \in Nat, k > 0
        PROVE  Apart(l, f, k) <=> Apart(r, f, k) /\ Disjoint(f, k, p, n)
    <3>1. ASSUME NEW j \in 1..(m - 1)
          PROVE  \E jj \in 1..m : r[j] = l[jj]
      <4>1. j \in 1..m /\ j + 1 \in 1..m
        BY <1>5
      <4> QED
        BY <2>3, <4>1
    <3>2. ASSUME NEW j \in 1..m, j # i
          PROVE  \E jj \in 1..(m - 1) : r[jj] = l[j]
      <4>1. CASE j < i
        BY <1>4, <1>5, <2>3, <4>1
      <4>2. CASE j > i
        <5>1. j - 1 \in 1..(m - 1) /\ r[j - 1] = l[j]
          BY <1>4, <1>5, <2>3, <4>2
        <5> QED
          BY <5>1
      <4> QED
        BY <1>4, <3>2, <4>1, <4>2
    <3>3. Apart(l, f, k) => Apart(r, f, k) /\ Disjoint(f, k, p, n)
      BY <1>4, <2>1, <2>3, <3>1 DEF Apart
    <3>4. Apart(r, f, k) /\ Disjoint(f, k, p, n) => Apart(l, f, k)
      BY <1>4, <2>1, <2>3, <3>2 DEF Apart
    <3> QED
      BY <3>3, <3>4
  <2>7. PmOK(c.a) /\ c.a.list = r
    BY <1>1, <1>3, <2>3, <2>4, <2>5 DEF PmOK, PmRec
  <2>8. Apart(r, p, n)
    <3>1. ASSUME NEW j \in 1..(m - 1)
          PROVE  \E jj \in 1..m : jj # i /\ r[j] = l[jj]
      <4>1. j \in 1..m /\ j + 1 \in 1..m
        BY <1>5
      <4> QED
        BY <1>4, <2>3, <4>1
    <3> QED
      BY <1>a, <2>3, <3>1 DEF Apart
  <2> QED
    BY <1>3, <1>6, <2>6, <2>7, <2>8 DEF c, l
<1> QED
  BY <1>7, <1>8

(* default_alloc_pages returns n free frames side by side, which no longer *)
(* are free, or fails and changes nothing.                                 *)
LEMMA AllocList ==
    ASSUME NEW a, PmOK(a), NEW n \in Nat, n > 0
    PROVE  LET r == default_alloc_pages(a, n)
           IN  /\ PmOK(r.a)
               /\ r.page = NoFrame => r.a = a
               /\ r.page # NoFrame =>
                     /\ Region(r.page, n) /\ Apart(r.a.list, r.page, n)
                     /\ \A f, k \in Nat : k > 0 =>
                           (Apart(a.list, f, k) <=> Apart(r.a.list, f, k) /\ Disjoint(f, k, r.page, n))
<1> DEFINE r == default_alloc_pages(a, n)
           T == Roomy(a, n)
<1>1. CASE n > a.nr_free \/ T = {}
  <2>1. r = [a |-> a, page |-> NoFrame]
    BY <1>1 DEF default_alloc_pages
  <2>2. r.a = a /\ r.page = NoFrame
    BY <2>1
  <2> QED
    BY <2>2
<1>2. CASE ~(n > a.nr_free \/ T = {})
  <2>1. r = CutBlock(a, n, Min(T))
    BY <1>2 DEF default_alloc_pages
  <2>2. Min(T) \in T
    <3>1. T \in SUBSET Nat /\ T # {}
      BY <1>2 DEF Roomy
    <3> HIDE DEF T
    <3> QED
      BY <3>1, MinIs
  <2>3. PICK i \in 1..Len(a.list) : i = Min(T) /\ a.list[i].n >= n
    BY <2>2 DEF Roomy
  <2>4. r = CutBlock(a, n, i)
    BY <2>1, <2>3
  <2> HIDE DEF r, T
  <2> DEFINE c == CutBlock(a, n, i)
  <2>5. /\ PmOK(c.a) /\ Region(c.page, n) /\ Apart(c.a.list, c.page, n)
        /\ \A f, k \in Nat : k > 0 =>
              (Apart(a.list, f, k) <=> Apart(c.a.list, f, k) /\ Disjoint(f, k, c.page, n))
    BY <2>3, CutList
  <2>6. c.page # NoFrame
    BY <2>5 DEF Region, NoFrame
  <2> QED
    BY <2>4, <2>5, <2>6 DEF r
<1> QED
  BY <1>1, <1>2

-----------------------------------------------------------------------------
(* The pass of default_free_pages over the list *)

PassRec == [b : BlockRec, rest : Seq(BlockRec)]

(* What a turn of the pass does: p comes behind the block, in front of it, *)
(* or stays in the list.                                                   *)
LEMMA JoinIs ==
    ASSUME NEW x \in PassRec, NEW p \in BlockRec
    PROVE  /\ Join(x, p) \in PassRec
           /\ x.b.base + x.b.n = p.base =>
                 Join(x, p).b = [base |-> x.b.base, n |-> x.b.n + p.n] /\ Join(x, p).rest = x.rest
           /\ p.base + p.n = x.b.base =>
                 Join(x, p).b = [base |-> p.base, n |-> p.n + x.b.n] /\ Join(x, p).rest = x.rest
           /\ x.b.base + x.b.n # p.base /\ p.base + p.n # x.b.base =>
                 Join(x, p).b = x.b /\ Join(x, p).rest = Append(x.rest, p)
<1> DEFINE b == x.b
           z == Merge(b, p)
<1>1. x = [b |-> x.b, rest |-> x.rest] /\ b \in BlockRec /\ x.rest \in Seq(BlockRec)
  BY DEF PassRec
<1>2. /\ p.base \in Nat /\ p.n \in Nat /\ p.n > 0 /\ b.base \in Nat /\ b.n \in Nat /\ b.n > 0
      /\ b = [base |-> b.base, n |-> b.n]
  BY <1>1 DEF BlockRec
<1>3. Join(x, p) = IF z # b THEN [x EXCEPT !.b = z] ELSE [x EXCEPT !.rest = Append(x.rest, p)]
  BY DEF Join
<1> HIDE DEF b
<1>4. CASE b.base + b.n = p.base
  <2>1. z = [base |-> b.base, n |-> b.n + p.n]
    BY <1>2, <1>4 DEF Merge
  <2>2. z # b /\ z \in BlockRec /\ p.base + p.n # b.base
    BY <1>2, <1>4, <2>1 DEF BlockRec
  <2>3. Join(x, p) = [b |-> z, rest |-> x.rest]
    BY <1>1, <1>3, <2>2
  <2> HIDE DEF z
  <2> QED
    BY <1>1, <1>4, <2>1, <2>2, <2>3 DEF PassRec, b
<1>5. CASE b.base + b.n # p.base /\ p.base + p.n = b.base
  <2>1. z = [base |-> p.base, n |-> p.n + b.n]
    BY <1>5 DEF Merge
  <2>2. z # b /\ z \in BlockRec
    BY <1>2, <1>5, <2>1 DEF BlockRec
  <2>3. Join(x, p) = [b |-> z, rest |-> x.rest]
    BY <1>1, <1>3, <2>2
  <2> HIDE DEF z
  <2> QED
    BY <1>1, <1>5, <2>1, <2>2, <2>3 DEF PassRec, b
<1>6. CASE b.base + b.n # p.base /\ p.base + p.n # b.base
  <2>1. z = b
    BY <1>6 DEF Merge
  <2>2. Join(x, p) = [b |-> b, rest |-> Append(x.rest, p)]
    BY <1>1, <1>3, <2>1 DEF b
  <2>3. Append(x.rest, p) \in Seq(BlockRec)
    BY <1>1
  <2> QED
    BY <1>1, <1>6, <2>2, <2>3 DEF PassRec, b
<1> QED
  BY <1>4, <1>5, <1>6

(* Passed is what its recursion says. *)
LEMMA PassedDef ==
    ASSUME NEW l \in Seq(BlockRec), NEW b \in BlockRec
    PROVE  /\ Passed(l, b)[0] = [b |-> b, rest |-> << >>]
           /\ \A i \in 0..Len(l) : Passed(l, b)[i] \in PassRec
           /\ \A i \in 1..Len(l) : Passed(l, b)[i] = Join(Passed(l, b)[i - 1], l[i])
<1> DEFINE m == Len(l)
           x0 == [b |-> b, rest |-> << >>]
           e(i, v) == IF i \in 1..m THEN Join(v, l[i]) ELSE v
           step == [i \in Nat |-> [v \in PassRec |-> e(i, v)]]
           Body(f) == [i \in 0..m |-> IF i = 0 THEN x0 ELSE Join(f[i - 1], l[i])]
           pass == CHOOSE f : f = Body(f)
<1>1. m \in Nat /\ \A i \in 1..m : l[i] \in BlockRec
  BY BlockFields
<1>2. x0 \in PassRec
  BY DEF PassRec
<1>3. \A i \in Nat : \A v \in PassRec : e(i, v) \in PassRec
  BY <1>1, JoinIs
<1>4. step \in [Nat -> [PassRec -> PassRec]]
  BY <1>3
<1> HIDE DEF x0
<1>5. PICK g \in [0..m -> PassRec] : g[0] = x0 /\ \A i \in 1..m : g[i] = step[i][g[i - 1]]
  <2> DEFINE V == PassRec
  <2>1. x0 \in V /\ m \in Nat /\ step \in [Nat -> [V -> V]]
    BY <1>1, <1>2, <1>4
  <2> HIDE DEF step, m, V
  <2>2. LoopRuns(V, x0, m, step) # {}
    BY <2>1, LoopValues
  <2> QED
    BY <2>2 DEF V, LoopRuns
<1>6. ASSUME NEW i \in 1..m
      PROVE  g[i] = Join(g[i - 1], l[i])
  <2>1. i \in Nat /\ i - 1 \in 0..m
    BY <1>1
  <2>2. g[i - 1] \in PassRec
    BY <2>1
  <2>3. step[i][g[i - 1]] = e(i, g[i - 1])
    BY <2>1, <2>2
  <2> QED
    BY <1>5, <2>3
<1>7. g = Body(g)
  <2>1. \A i \in 0..m : g[i] = Body(g)[i]
    BY <1>5, <1>6
  <2> QED
    BY <2>1
<1>8. pass = Body(pass)
  BY <1>7
<1>9. Passed(l, b) = pass
  BY DEF Passed, x0
<1> HIDE DEF pass
<1>10. pass[0] = x0 /\ \A i \in 1..m : pass[i] = Join(pass[i - 1], l[i])
  BY <1>1, <1>8
<1>11. \A i \in 0..m : pass[i] \in PassRec
  <2> DEFINE T == {k \in Nat : k <= m => pass[k] \in PassRec}
  <2>1. 0 \in T
    BY <1>2, <1>10
  <2>2. ASSUME NEW n \in 0..(m - 1), n \in T
        PROVE  n + 1 \in T
    <3>1. n + 1 \in 1..m /\ n + 1 - 1 = n /\ pass[n] \in PassRec
      BY <1>1, <2>2
    <3>2. pass[n + 1] = Join(pass[n], l[n + 1])
      BY <1>10, <3>1
    <3>3. pass[n + 1] \in PassRec
      BY <1>1, <3>1, <3>2, JoinIs
    <3> QED
      BY <3>1, <3>3
  <2> HIDE DEF T
  <2>3. \A i \in 0..m : i \in T
    BY <1>1, <2>1, <2>2, BoundedInduction
  <2> QED
    BY <1>1, <2>3 DEF T
<1> QED
  BY <1>9, <1>10, <1>11 DEF x0

(* Disjointness is symmetric. *)
LEMMA Mutual ==
    ASSUME NEW f \in Nat, NEW n \in Nat, NEW g \in Nat, NEW k \in Nat
    PROVE  Disjoint(f, n, g, k) <=> Disjoint(g, k, f, n)
BY DEF Disjoint

(* Two blocks with at least a frame between them. *)
Gap(b, c) == b.base + b.n < c.base \/ c.base + c.n < b.base

(* The pass with the block b has come to block i of l: what x.b has taken  *)
(* in and what is left are b and the blocks so far.                        *)
PassInv(l, b, x, i) ==
    /\ x \in PassRec
    /\ x.b.base + x.b.n <= NPages
    /\ \A j \in (i + 1)..Len(l) : Disjoint(x.b.base, x.b.n, l[j].base, l[j].n)
    /\ \A j \in 1..Len(x.rest) : \E k \in 1..i : x.rest[j] = l[k]
    /\ \A j, k \in 1..Len(x.rest) : j < k => x.rest[j].base + x.rest[j].n < x.rest[k].base
    /\ \A j \in 1..Len(x.rest) : Gap(x.b, x.rest[j])
    /\ Frees(x.rest) + x.b.n = b.n + Counted(l)[i]
    /\ \A f, k \in Nat : k > 0 =>
          (Apart(x.rest, f, k) /\ Disjoint(f, k, x.b.base, x.b.n) <=>
           Disjoint(f, k, b.base, b.n) /\ \A j \in 1..i : Disjoint(f, k, l[j].base, l[j].n))

(* The list l has a block i. *)
Block(l, i) == i \in 1..Len(l)

(* The pass goes over one more block. *)
LEMMA PassStep ==
    ASSUME NEW l, ListOK(l), NEW b \in BlockRec, NEW i \in Nat, Block(l, i), NEW x, PassInv(l, b, x, i - 1)
    PROVE  PassInv(l, b, Join(x, l[i]), i)
<1> DEFINE m == Len(l)
           p == l[i]
           y == Join(x, p)
           w == x.rest
           n == Len(w)
<1>1. /\ m \in Nat /\ i \in 1..m /\ l \in Seq(BlockRec)
      /\ \A j \in 1..m : l[j] \in BlockRec /\ l[j].base \in Nat /\ l[j].n \in Nat /\ l[j].n > 0
      /\ \A j, k \in 1..m : j < k => l[j].base + l[j].n < l[k].base
      /\ \A j \in 1..m : l[j].base + l[j].n <= NPages
  BY BlockFields DEF ListOK, Block
<1>2. x \in PassRec /\ x.b \in BlockRec /\ w \in Seq(BlockRec)
  BY DEF PassInv, PassRec
<1>3. /\ x.b.base \in Nat /\ x.b.n \in Nat /\ x.b.n > 0 /\ p.base \in Nat /\ p.n \in Nat /\ p.n > 0
      /\ p \in BlockRec /\ p.base + p.n <= NPages /\ b.n \in Nat
  BY <1>1, <1>2, SMTT(60) DEF BlockRec
<1>4. /\ n \in Nat
      /\ \A j \in 1..n : w[j].base \in Nat /\ w[j].n \in Nat /\ w[j].n > 0
  BY <1>2, BlockFields
<1>5. /\ x.b.base + x.b.n <= NPages
      /\ \A j \in i..m : Disjoint(x.b.base, x.b.n, l[j].base, l[j].n)
      /\ \A j \in 1..n : \E k \in 1..(i - 1) : w[j] = l[k]
      /\ \A j, k \in 1..n : j < k => w[j].base + w[j].n < w[k].base
      /\ \A j \in 1..n : Gap(x.b, w[j])
      /\ Frees(w) + x.b.n = b.n + Counted(l)[i - 1]
      /\ \A f, k \in Nat : k > 0 =>
          (Apart(w, f, k) /\ Disjoint(f, k, x.b.base, x.b.n) <=>
           Disjoint(f, k, b.base, b.n) /\ \A j \in 1..(i - 1) : Disjoint(f, k, l[j].base, l[j].n))
  <2>1. \A j \in ((i - 1) + 1)..m : Disjoint(x.b.base, x.b.n, l[j].base, l[j].n)
    BY Zenon DEF PassInv
  <2>2. \A j \in i..m : Disjoint(x.b.base, x.b.n, l[j].base, l[j].n)
    <3>1. (i - 1) + 1 = i
      OBVIOUS
    <3> QED
      BY <2>1, <3>1, Zenon
  <2> QED
    BY <2>2, Zenon DEF PassInv
<1>6. /\ Counted(l)[i] = Counted(l)[i - 1] + p.n
      /\ Counted(l)[i - 1] \in Nat /\ Counted(l)[i] \in Nat
  <2>1. i - 1 \in 0..Len(l) /\ i \in 0..Len(l) /\ i \in 1..Len(l)
    BY <1>1
  <2>2. Counted(l) \in [0..Len(l) -> Nat] /\ Counted(l)[i] = Counted(l)[i - 1] + p.n
    BY <1>1, <2>1, CountedDef
  <2> QED
    BY <2>1, <2>2
<1>7. Frees(w) \in Nat
  BY <1>2, <1>4, CountedDef DEF Frees
<1>8. y \in PassRec
  BY <1>2, <1>3, JoinIs
<1>9. \A j \in 1..n : w[j].base + w[j].n < p.base
  <2> SUFFICES ASSUME NEW j \in 1..n
               PROVE  w[j].base + w[j].n < p.base
    OBVIOUS
  <2>1. PICK k \in 1..(i - 1) : w[j] = l[k]
    BY <1>5
  <2>2. k \in 1..m /\ k < i
    BY <1>1
  <2> QED
    BY <1>1, <2>1, <2>2
<1>10. \A j \in (i + 1)..m : p.base + p.n < l[j].base
  BY <1>1
<1>11. Disjoint(x.b.base, x.b.n, p.base, p.n)
  BY <1>1, <1>5
<1>12. \A f, k \in Nat : (\A j \in 1..i : Disjoint(f, k, l[j].base, l[j].n)) <=>
                         /\ \A j \in 1..(i - 1) : Disjoint(f, k, l[j].base, l[j].n)
                         /\ Disjoint(f, k, p.base, p.n)
  <2>1. \A j \in 1..i : j \in 1..(i - 1) \/ j = i
    BY <1>1
  <2>2. 1..(i - 1) \subseteq 1..i /\ i \in 1..i
    BY <1>1
  <2> QED
    BY <2>1, <2>2
<1> HIDE DEF p, y, w, n, m
(* p is taken in. *)
<1>13. ASSUME y.rest = w, y.b.base \in Nat, y.b.n = x.b.n + p.n,
              \/ y.b.base = x.b.base /\ x.b.base + x.b.n = p.base
              \/ y.b.base = p.base /\ p.base + p.n = x.b.base
       PROVE  PassInv(l, b, y, i)
  <2>0. PICK xb \in Nat, xn \in Nat, pb \in Nat, pn \in Nat, yb \in Nat, yn \in Nat :
             /\ xb = x.b.base /\ xn = x.b.n /\ pb = p.base /\ pn = p.n /\ yb = y.b.base /\ yn = y.b.n
             /\ xn > 0 /\ pn > 0 /\ yn = xn + pn
             /\ (yb = xb /\ xb + xn = pb) \/ (yb = pb /\ pb + pn = xb)
             /\ xb + xn <= NPages /\ pb + pn <= NPages
    <3>1. y.b.n \in Nat
      BY <1>3, <1>13
    <3>2. x.b.base + x.b.n <= NPages /\ p.base + p.n <= NPages
      BY <1>3, <1>5
    <3> QED
      BY <1>3, <1>13, <3>1, <3>2
  <2>1. y.b.n \in Nat /\ y.b.base + y.b.n <= NPages
    <3>1. yb + yn <= NPages
      BY <2>0, PageAllocAssumption
    <3> QED
      BY <2>0, <3>1
  <2>7. ASSUME NEW f \in Nat, NEW k \in Nat, k > 0
        PROVE  Disjoint(f, k, y.b.base, y.b.n) <=>
               Disjoint(f, k, x.b.base, x.b.n) /\ Disjoint(f, k, p.base, p.n)
    <3>1. Disjoint(f, k, yb, yn) <=> Disjoint(f, k, xb, xn) /\ Disjoint(f, k, pb, pn)
      BY <2>0, <2>7 DEF Disjoint
    <3> QED
      BY <2>0, <3>1
  <2>2. ASSUME NEW j \in (i + 1)..m
        PROVE  Disjoint(y.b.base, y.b.n, l[j].base, l[j].n)
    <3>1. p.base + p.n < l[j].base /\ Disjoint(x.b.base, x.b.n, l[j].base, l[j].n)
      BY <1>1, <1>5, <1>10
    <3>2. l[j].base \in Nat /\ l[j].n \in Nat /\ l[j].n > 0
      BY <1>1
    <3>3. Disjoint(p.base, p.n, l[j].base, l[j].n)
      BY <1>3, <3>1, <3>2 DEF Disjoint
    <3>4. Disjoint(l[j].base, l[j].n, y.b.base, y.b.n) <=>
             Disjoint(l[j].base, l[j].n, x.b.base, x.b.n) /\ Disjoint(l[j].base, l[j].n, p.base, p.n)
      BY <2>7, <3>2
    <3> QED
      BY <1>3, <1>13, <2>1, <3>1, <3>2, <3>3, <3>4, Mutual
  <2>3. \A j \in 1..n : \E k \in 1..i : w[j] = l[k]
    BY <1>1, <1>5
  <2>4. ASSUME NEW j \in 1..n
        PROVE  Gap(y.b, w[j])
    <3>1. Gap(x.b, w[j]) /\ w[j].base + w[j].n < p.base /\ w[j].base \in Nat /\ w[j].n \in Nat /\ w[j].n > 0
      BY <1>4, <1>5, <1>9
    <3>2. CASE y.b.base = x.b.base /\ x.b.base + x.b.n = p.base
      BY <1>3, <1>13, <3>1, <3>2 DEF Gap
    <3>3. CASE y.b.base = p.base
      BY <3>1, <3>3 DEF Gap
    <3> QED
      BY <1>13, <3>2, <3>3
  <2>5. Frees(w) + y.b.n = b.n + Counted(l)[i]
    <3>0. Frees(w) + x.b.n = b.n + Counted(l)[i - 1]
      BY <1>5
    <3>1. PICK F \in Nat, c \in Nat, d \in Nat, e \in Nat :
             /\ F = Frees(w) /\ c = Counted(l)[i - 1] /\ d = Counted(l)[i] /\ e = b.n
             /\ F + xn = e + c /\ d = c + pn
      BY <1>3, <1>6, <1>7, <2>0, <3>0
    <3>2. F + yn = e + d
      BY <2>0, <3>1
    <3> QED
      BY <2>0, <3>1, <3>2
  <2>6. ASSUME NEW f \in Nat, NEW k \in Nat, k > 0
        PROVE  Apart(w, f, k) /\ Disjoint(f, k, y.b.base, y.b.n) <=>
               Disjoint(f, k, b.base, b.n) /\ \A j \in 1..i : Disjoint(f, k, l[j].base, l[j].n)
    <3>1. Disjoint(f, k, y.b.base, y.b.n) <=>
          Disjoint(f, k, x.b.base, x.b.n) /\ Disjoint(f, k, p.base, p.n)
      BY <2>7, <2>6
    <3> QED
      BY <1>5, <1>12, <2>6, <3>1
  <2> QED
    BY <1>5, <1>8, <1>13, <2>1, <2>2, <2>3, <2>4, <2>5, <2>6 DEF PassInv, m, n
<1>14. CASE x.b.base + x.b.n = p.base
  <2>1. y.b = [base |-> x.b.base, n |-> x.b.n + p.n] /\ y.rest = w
    BY <1>2, <1>3, <1>14, JoinIs DEF y, w
  <2>2. y.b.base = x.b.base /\ y.b.n = x.b.n + p.n
    BY <2>1
  <2> QED
    BY <1>3, <1>13, <1>14, <2>1, <2>2 DEF y, p
<1>15. CASE p.base + p.n = x.b.base
  <2>1. y.b = [base |-> p.base, n |-> p.n + x.b.n] /\ y.rest = w
    BY <1>2, <1>3, <1>15, JoinIs DEF y, w
  <2>2. y.b.base = p.base /\ y.b.n = x.b.n + p.n
    BY <1>3, <2>1
  <2> QED
    BY <1>3, <1>13, <1>15, <2>1, <2>2 DEF y, p
<1>16. CASE x.b.base + x.b.n # p.base /\ p.base + p.n # x.b.base
  <2> DEFINE r == Append(w, p)
  <2>1. y.b = x.b /\ y.rest = r
    BY <1>2, <1>3, <1>16, JoinIs DEF y, w
  <2>2. /\ r \in Seq(BlockRec) /\ Len(r) = n + 1 /\ r[n + 1] = p
        /\ \A j \in 1..n : r[j] = w[j]
    BY <1>2, <1>3, <1>4 DEF n
  <2> HIDE DEF r
  <2>3. \A j \in 1..(n + 1) : j \in 1..n \/ j = n + 1
    BY <1>4
  <2>4. \A j \in (i + 1)..m : Disjoint(x.b.base, x.b.n, l[j].base, l[j].n)
    BY <1>1, <1>5
  <2>5. ASSUME NEW j \in 1..(n + 1)
        PROVE  \E k \in 1..i : r[j] = l[k]
    <3>1. CASE j = n + 1
      BY <1>1, <2>2, <3>1 DEF p
    <3>2. CASE j \in 1..n
      <4>1. PICK k \in 1..(i - 1) : w[j] = l[k]
        BY <1>5, <3>2
      <4>2. k \in 1..i
        BY <1>1
      <4> QED
        BY <2>2, <3>2, <4>1, <4>2
    <3> QED
      BY <2>3, <3>1, <3>2
  <2>6. ASSUME NEW j \in 1..(n + 1), NEW k \in 1..(n + 1), j < k
        PROVE  r[j].base + r[j].n < r[k].base
    <3>1. j \in 1..n
      BY <1>4, <2>6
    <3> QED
      BY <1>5, <1>9, <2>2, <2>3, <2>6, <3>1
  <2>7. ASSUME NEW j \in 1..(n + 1)
        PROVE  Gap(x.b, r[j])
    <3>1. Gap(x.b, p)
      BY <1>3, <1>11, <1>16 DEF Disjoint, Gap
    <3> QED
      BY <1>5, <2>2, <2>3, <3>1
  <2>8. Frees(r) + x.b.n = b.n + Counted(l)[i]
    <3> DEFINE last == n + 1
    <3>1. last \in 1..(Len(w) + 1) /\ Len(r) = Len(w) + 1
      BY <1>4, <2>2 DEF n
    <3>2. /\ \A j \in 1..(last - 1) : r[j] = w[j]
          /\ \A j \in last..Len(w) : r[j + 1] = w[j]
      BY <1>4, <2>2 DEF n
    <3>3. r[last] = p
      BY <2>2
    <3> HIDE DEF last
    <3>4. OneMoreBlock(w, r, last)
      BY <1>2, <2>2, <3>1, <3>2 DEF OneMoreBlock
    <3>5. Frees(r) = Frees(w) + p.n
      BY <3>3, <3>4, OneMoreFrees
    <3>6. Frees(w) + x.b.n = b.n + Counted(l)[i - 1]
      BY <1>5
    <3> QED
      <4>0. Frees(r) \in Nat
        BY <1>3, <1>7, <3>5
      <4>1. PICK F \in Nat, c \in Nat, d \in Nat, e \in Nat, G \in Nat, xn \in Nat, pn \in Nat :
               /\ F = Frees(w) /\ c = Counted(l)[i - 1] /\ d = Counted(l)[i] /\ e = b.n /\ xn = x.b.n /\ pn = p.n
               /\ F + xn = e + c /\ d = c + pn /\ G = Frees(r) /\ G = F + pn
        BY <1>3, <1>6, <1>7, <3>5, <3>6, <4>0
      <4>3. F + xn = e + c /\ d = c + pn /\ G = F + pn
        BY <4>1
      <4>2. G + xn = e + d
        BY <4>3
      <4> QED
        BY <4>1, <4>2
  <2>9. ASSUME NEW f \in Nat, NEW k \in Nat, k > 0
        PROVE  Apart(r, f, k) /\ Disjoint(f, k, x.b.base, x.b.n) <=>
               Disjoint(f, k, b.base, b.n) /\ \A j \in 1..i : Disjoint(f, k, l[j].base, l[j].n)
    <3>1. Apart(r, f, k) <=> Apart(w, f, k) /\ Disjoint(f, k, p.base, p.n)
      <4>1. Apart(r, f, k) <=> \A j \in 1..(n + 1) : Disjoint(f, k, r[j].base, r[j].n)
        BY <2>2 DEF Apart
      <4>2. Apart(w, f, k) <=> \A j \in 1..n : Disjoint(f, k, w[j].base, w[j].n)
        BY DEF Apart, n
      <4>3. 1..n \subseteq 1..(n + 1) /\ n + 1 \in 1..(n + 1)
        BY <1>4
      <4> QED
        BY <2>2, <2>3, <4>1, <4>2, <4>3
    <3> QED
      BY <1>5, <1>12, <2>9, <3>1
  <2> QED
    BY <1>5, <1>8, <2>1, <2>2, <2>4, <2>5, <2>6, <2>7, <2>8, <2>9 DEF PassInv, m, y, p
<1> QED
  BY <1>14, <1>15, <1>16 DEF y, p

(* The pass over the whole list. *)
LEMMA PassAll ==
    ASSUME NEW l, ListOK(l), NEW b \in BlockRec, b.base + b.n <= NPages, Apart(l, b.base, b.n)
    PROVE  PassInv(l, b, MergeAll(l, b), Len(l))
<1> DEFINE m == Len(l)
           x(k) == Passed(l, b)[k]
           T == {k \in Nat : k <= m => PassInv(l, b, x(k), k)}
<1>1. l \in Seq(BlockRec) /\ m \in Nat
  BY BlockFields DEF ListOK
<1>2. 0 \in T
  <2> DEFINE y == x(0)
             none == << >>
  <2>1. y = [b |-> b, rest |-> << >>] /\ y \in PassRec
    BY <1>1, PassedDef
  <2>2. y.b = b /\ y.rest = << >>
    BY <2>1
  <2> HIDE DEF y
  <2>3. Frees(<< >>) = 0
    <3>1. none \in Seq(BlockRec) /\ Len(none) = 0
      OBVIOUS
    <3> HIDE DEF none
    <3>2. Counted(none)[0] = 0
      BY <3>1, CountedDef
    <3>3. Frees(none) = 0
      BY <3>1, <3>2 DEF Frees
    <3> QED
      BY <3>3 DEF none
  <2>4. b.n \in Nat /\ Counted(l)[0] = 0
    BY <1>1, CountedDef DEF BlockRec
  <2>5. \A j \in (0 + 1)..Len(l) : Disjoint(b.base, b.n, l[j].base, l[j].n)
    BY DEF Apart
  <2>6. Len(y.rest) = 0
    BY <2>2
  <2>7. Frees(y.rest) + y.b.n = b.n + Counted(l)[0]
    <3>1. Frees(y.rest) = 0
      BY <2>2, <2>3
    <3> QED
      BY <2>2, <2>4, <3>1
  <2>8. \A f, k \in Nat : Apart(y.rest, f, k)
    BY <2>6 DEF Apart
  <2>9. \A f, k \in Nat : \A j \in 1..0 : Disjoint(f, k, l[j].base, l[j].n)
    OBVIOUS
  <2> QED
    <3>1. PassInv(l, b, y, 0)
      BY <2>1, <2>2, <2>5, <2>6, <2>7, <2>8, <2>9 DEF PassInv
    <3> QED
      BY <3>1 DEF y
<1>3. ASSUME NEW k \in 0..(m - 1), k \in T
      PROVE  k + 1 \in T
  <2>1. k + 1 \in Nat /\ k + 1 \in 1..m /\ (k + 1) - 1 = k /\ k <= m
    BY <1>1
  <2>2. Block(l, k + 1)
    BY <2>1 DEF Block
  <2>3. PassInv(l, b, x(k), (k + 1) - 1)
    BY <1>3, <2>1
  <2>4. x(k + 1) = Join(x(k), l[k + 1])
    BY <1>1, <2>1, PassedDef
  <2> HIDE DEF x
  <2>5. PassInv(l, b, Join(x(k), l[k + 1]), k + 1)
    BY <2>1, <2>2, <2>3, PassStep
  <2> QED
    BY <2>1, <2>4, <2>5
<1>4. \A k \in 0..m : k \in T
  <2> HIDE DEF T
  <2> QED
    BY <1>1, <1>2, <1>3, BoundedInduction
<1>5. PassInv(l, b, x(m), m)
  BY <1>1, <1>4
<1> QED
  BY <1>5 DEF MergeAll

-----------------------------------------------------------------------------
(* default_free_pages *)

(* Frames that are not free can be freed: no assertion fails, the list     *)
(* stays exact, and what it holds more is these frames.                    *)
LEMMA FreeList ==
    ASSUME NEW a, PmOK(a), NEW f, NEW n, Region(f, n), Apart(a.list, f, n)
    PROVE  LET c == default_free_pages(a, f, n)
           IN  /\ PmOK(c)
               /\ \A g, k \in Nat : k > 0 =>
                     (Apart(c.list, g, k) <=> Apart(a.list, g, k) /\ Disjoint(g, k, f, n))
<1> DEFINE l == a.list
           b == [base |-> f, n |-> n]
           x == MergeAll(l, b)
           ok == a.ok /\ Span(b) \subseteq Frames
                      /\ \A i \in 1..Len(a.list) : a.list[i].base \notin Span(b)
           q == [list |-> x.rest, nr_free |-> a.nr_free + b.n, ok |-> ok]
           c == default_free_pages(a, f, n)
<1>1. /\ f \in Nat /\ n \in Nat /\ n > 0 /\ f + n <= NPages
      /\ b \in BlockRec /\ b.base = f /\ b.n = n
  BY DEF Region, BlockRec
<1>2. /\ a \in PmRec /\ a.ok /\ ListOK(l) /\ a.nr_free \in Nat /\ a.nr_free = Frees(l)
      /\ l \in Seq(BlockRec)
  BY DEF PmOK, PmRec
<1>3. /\ Len(l) \in Nat
      /\ \A i \in 1..Len(l) : /\ l[i].base \in Nat /\ l[i].n \in Nat /\ l[i].n > 0
                              /\ l[i].base + l[i].n <= NPages
                              /\ Disjoint(f, n, l[i].base, l[i].n)
  <2> HIDE DEF l
  <2>1. \A i \in 1..Len(l) : Disjoint(f, n, l[i].base, l[i].n)
    BY DEF Apart, l
  <2> QED
    BY <1>2, <2>1, BlockFields DEF ListOK
<1>4. c = default_list_add(q, x.b)
  BY DEF default_free_pages, FreeMerged
<1>5. ok
  <2>1. Span(b) = f..(f + n - 1)
    BY <1>1 DEF Span
  <2>2. f..(f + n - 1) \subseteq Frames
    BY <1>1, PageAllocAssumption DEF Frames
  <2>3. ASSUME NEW i \in 1..Len(l)
        PROVE  l[i].base \notin f..(f + n - 1)
    <3>1. PICK g \in Nat, k \in Nat : g = l[i].base /\ k = l[i].n /\ k > 0 /\ (f + n <= g \/ g + k <= f)
      BY <1>3 DEF Disjoint
    <3>2. g \notin f..(f + n - 1)
      BY <1>1, <3>1
    <3> QED
      BY <3>1, <3>2
  <2> HIDE DEF b
  <2> QED
    BY <1>2, <2>1, <2>2, <2>3
<1> HIDE DEF b, x, l
<1>6. PassInv(l, b, x, Len(l))
  <2>1. b.base + b.n <= NPages /\ Apart(l, b.base, b.n)
    BY <1>1 DEF l
  <2> QED
    BY <1>1, <1>2, <2>1, PassAll DEF x
<1> DEFINE w == x.rest
<1>7. /\ x \in PassRec /\ x.b \in BlockRec /\ w \in Seq(BlockRec)
      /\ x.b.base + x.b.n <= NPages
      /\ \A j \in 1..Len(w) : \E k \in 1..Len(l) : w[j] = l[k]
      /\ \A j, k \in 1..Len(w) : j < k => w[j].base + w[j].n < w[k].base
      /\ \A j \in 1..Len(w) : Gap(x.b, w[j])
      /\ Frees(w) + x.b.n = b.n + Counted(l)[Len(l)]
      /\ \A g, k \in Nat : k > 0 =>
          (Apart(w, g, k) /\ Disjoint(g, k, x.b.base, x.b.n) <=>
           Disjoint(g, k, b.base, b.n) /\ \A j \in 1..Len(l) : Disjoint(g, k, l[j].base, l[j].n))
  BY <1>6 DEF PassInv, PassRec
<1> HIDE DEF w
<1>8. ListOK(w)
  <2>1. ASSUME NEW j \in 1..Len(w)
        PROVE  w[j].base + w[j].n <= NPages
    <3>1. PICK k \in 1..Len(l) : w[j] = l[k]
      BY <1>7
    <3> QED
      BY <1>3, <3>1
  <2> QED
    BY <1>7, <2>1 DEF ListOK
<1>9. /\ q \in PmRec /\ q.list = w /\ q.nr_free = Frees(l) + n /\ q.nr_free \in Nat /\ q.ok
  <2>1. a.nr_free + b.n = Frees(l) + n /\ a.nr_free + b.n \in Nat
    BY <1>1, <1>2
  <2>2. ok \in BOOLEAN /\ ok
    BY <1>5
  <2> HIDE DEF ok
  <2> QED
    BY <1>7, <2>1, <2>2 DEF PmRec, w
<1> HIDE DEF q, c
<1>10. \A i \in 1..Len(q.list) : \/ x.b.base + x.b.n < q.list[i].base
                                 \/ q.list[i].base + q.list[i].n < x.b.base
  BY <1>7, <1>9 DEF Gap
<1>11. /\ c \in PmRec /\ ListOK(c.list)
       /\ Frees(w) \in Nat /\ Frees(c.list) = Frees(w) + x.b.n
       /\ c.ok = q.ok /\ c.nr_free = q.nr_free
       /\ \A g, k \in Nat : Apart(c.list, g, k) <=> Apart(w, g, k) /\ Disjoint(g, k, x.b.base, x.b.n)
  <2> DEFINE d == default_list_add(q, x.b)
  <2>1. /\ d \in PmRec /\ ListOK(d.list)
        /\ Frees(q.list) \in Nat /\ Frees(d.list) = Frees(q.list) + x.b.n
        /\ d.ok = q.ok /\ d.nr_free = q.nr_free
        /\ \A g, k \in Nat : Apart(d.list, g, k) <=> Apart(q.list, g, k) /\ Disjoint(g, k, x.b.base, x.b.n)
    <3>1. ListOK(q.list)
      BY <1>8, <1>9
    <3> QED
      BY <1>7, <1>9, <1>10, <3>1, ListAdd
  <2>2. d = c
    BY <1>4
  <2> HIDE DEF d
  <2> QED
    BY <1>9, <2>1, <2>2
<1>12. c.nr_free = Frees(c.list)
  <2>1. Frees(c.list) = n + Frees(l)
    BY <1>1, <1>7, <1>11 DEF Frees
  <2>2. c.nr_free = Frees(l) + n /\ Frees(l) \in Nat
    BY <1>2, <1>9, <1>11
  <2> QED
    BY <1>1, <2>1, <2>2
<1>13. PmOK(c)
  BY <1>9, <1>11, <1>12 DEF PmOK
<1>14. ASSUME NEW g \in Nat, NEW k \in Nat, k > 0
       PROVE  Apart(c.list, g, k) <=> Apart(a.list, g, k) /\ Disjoint(g, k, f, n)
  <2>1. Apart(c.list, g, k) <=> Apart(w, g, k) /\ Disjoint(g, k, x.b.base, x.b.n)
    BY <1>11
  <2>2. Apart(w, g, k) /\ Disjoint(g, k, x.b.base, x.b.n) <=>
           Disjoint(g, k, b.base, b.n) /\ \A j \in 1..Len(l) : Disjoint(g, k, l[j].base, l[j].n)
    BY <1>7, <1>14
  <2>3. Apart(a.list, g, k) <=> \A j \in 1..Len(l) : Disjoint(g, k, l[j].base, l[j].n)
    BY DEF Apart, l
  <2> QED
    BY <1>1, <2>1, <2>2, <2>3
<1> QED
  BY <1>13, <1>14 DEF c

-----------------------------------------------------------------------------
(* Lists of at most two blocks, the ones that the self test goes through *)

Blk(f, n) == [base |-> f, n |-> n]
None(l) == l \in Seq(BlockRec) /\ Len(l) = 0
One(l, b) == l \in Seq(BlockRec) /\ Len(l) = 1 /\ l[1] = b
Two(l, b, c) == l \in Seq(BlockRec) /\ Len(l) = 2 /\ l[1] = b /\ l[2] = c

(* The fields of a block. *)
LEMMA BlkIs ==
    ASSUME NEW f \in Nat, NEW n \in Nat, n > 0
    PROVE  Blk(f, n) \in BlockRec /\ Blk(f, n).base = f /\ Blk(f, n).n = n
BY DEF Blk, BlockRec

(* The frames of such lists. *)
LEMMA SmallFrees ==
    ASSUME NEW l, NEW b \in BlockRec, NEW c \in BlockRec
    PROVE  /\ None(l) => Frees(l) = 0
           /\ One(l, b) => Frees(l) = b.n
           /\ Two(l, b, c) => Frees(l) = b.n + c.n
<1>1. b.n \in Nat /\ c.n \in Nat
  BY DEF BlockRec
<1> DEFINE S == Counted(l)
<1>2. ASSUME l \in Seq(BlockRec)
      PROVE  S[0] = 0 /\ \A i \in 1..Len(l) : S[i] = S[i - 1] + l[i].n
  BY <1>2, CountedDef
<1> HIDE DEF S
<1>3. ASSUME None(l)
      PROVE  Frees(l) = 0
  BY <1>2, <1>3 DEF None, Frees, S
<1>4. ASSUME One(l, b)
      PROVE  Frees(l) = b.n
  <2>1. S[1] = S[0] + b.n /\ S[0] = 0 /\ Len(l) = 1
    BY <1>2, <1>4 DEF One
  <2> QED
    BY <1>1, <2>1 DEF Frees, S
<1>5. ASSUME Two(l, b, c)
      PROVE  Frees(l) = b.n + c.n
  <2>1. /\ 1 \in 1..Len(l) /\ 2 \in 1..Len(l) /\ Len(l) = 2 /\ l[1] = b /\ l[2] = c
        /\ l \in Seq(BlockRec)
    BY <1>5 DEF Two
  <2>2. S[1] = S[0] + b.n /\ S[2] = S[1] + c.n /\ S[0] = 0
    BY <1>2, <2>1
  <2> QED
    BY <1>1, <2>1, <2>2 DEF Frees, S
<1> QED
  BY <1>3, <1>4, <1>5

(* First fit takes the first block that is large enough. *)
LEMMA FirstFit ==
    ASSUME NEW a, PmOK(a), NEW n \in Nat, n > 0, NEW i \in 1..Len(a.list), a.list[i].n >= n,
           \A j \in 1..(i - 1) : a.list[j].n < n
    PROVE  LET r == default_alloc_pages(a, n)
           IN  /\ PmOK(r.a)
               /\ r.page = a.list[i].base
               /\ a.list[i].n > n =>
                     r.a.list = [a.list EXCEPT ![i] = Blk(a.list[i].base + n, a.list[i].n - n)]
               /\ a.list[i].n = n => r.a.list = RemoveAt(a.list, i)
<1> DEFINE l == a.list
           T == Roomy(a, n)
           r == default_alloc_pages(a, n)
<1>1. l \in Seq(BlockRec) /\ a.nr_free \in Nat /\ a.nr_free = Frees(l)
  BY DEF PmOK, PmRec
<1>2. Len(l) \in Nat /\ \A j \in 1..Len(l) : l[j].n \in Nat
  <2> HIDE DEF l
  <2> QED
    BY <1>1, BlockFields
<1>3. i \in T /\ T \in SUBSET Nat /\ \A j \in T : i <= j
  BY <1>2 DEF Roomy
<1>4. Min(T) = i
  <2> HIDE DEF T
  <2>1. Min(T) \in T /\ \A j \in T : Min(T) <= j
    BY <1>3, MinIs
  <2> QED
    BY <1>3, <2>1
<1>5. ~(n > a.nr_free)
  <2>1. OneOther(l, l, i)
    BY <1>1 DEF OneOther
  <2>2. Frees(l) >= l[i].n /\ Frees(l) \in Nat
    BY <2>1, OneOtherFrees
  <2>3. PICK m \in Nat, k \in Nat : m = Frees(l) /\ k = l[i].n /\ k >= n /\ m >= k
    BY <1>2, <2>2
  <2>4. ~(n > m)
    BY <2>3
  <2> QED
    BY <1>1, <2>3, <2>4
<1>6. r = CutBlock(a, n, i)
  BY <1>3, <1>4, <1>5 DEF default_alloc_pages
<1>7. PmOK(r.a)
  BY AllocList
<1>8. r.page = l[i].base
  <2> HIDE DEF r
  <2> QED
    BY <1>6 DEF CutBlock
<1>9. /\ l[i].n > n => r.a.list = [l EXCEPT ![i] = Blk(l[i].base + n, l[i].n - n)]
      /\ l[i].n = n => r.a.list = RemoveAt(l, i)
  <2> DEFINE w == IF l[i].n > n THEN [l EXCEPT ![i] = [base |-> l[i].base + n, n |-> l[i].n - n]]
                  ELSE list_del(l, i)
  <2>1. CutBlock(a, n, i) = [page |-> l[i].base, a |-> [a EXCEPT !.nr_free = a.nr_free - n, !.list = w]]
    BY DEF CutBlock
  <2>2. /\ l[i].n > n => w = [l EXCEPT ![i] = Blk(l[i].base + n, l[i].n - n)]
        /\ l[i].n = n => w = RemoveAt(l, i)
    BY DEF Blk, list_del
  <2>3. a = [list |-> l, nr_free |-> a.nr_free, ok |-> a.ok]
    BY DEF PmOK, PmRec
  <2> HIDE DEF r, w, l
  <2>4. r.a = [a EXCEPT !.nr_free = a.nr_free - n, !.list = w]
    BY <1>6, <2>1
  <2>5. r.a.list = w
    BY <2>3, <2>4
  <2> QED
    BY <2>2, <2>5
<1> QED
  BY <1>7, <1>8, <1>9

(* Pages from a list of one block. *)
LEMMA TakeOfOne ==
    ASSUME NEW a, PmOK(a), NEW f \in Nat, NEW m \in Nat, One(a.list, Blk(f, m)), NEW n \in Nat, n > 0, n <= m
    PROVE  LET r == default_alloc_pages(a, n)
           IN  /\ PmOK(r.a) /\ r.page = f
               /\ n < m => One(r.a.list, Blk(f + n, m - n))
               /\ n = m => None(r.a.list)
<1> DEFINE l == a.list
           r == default_alloc_pages(a, n)
<1>1. l \in Seq(BlockRec) /\ Len(l) = 1 /\ l[1] = Blk(f, m) /\ Blk(f, m).base = f /\ Blk(f, m).n = m
  BY BlkIs DEF One
<1>2. /\ PmOK(r.a) /\ r.page = f
      /\ m > n => r.a.list = [l EXCEPT ![1] = Blk(f + n, m - n)]
      /\ m = n => r.a.list = RemoveAt(l, 1)
  <2>1. PICK i \in 1..Len(a.list) : i = 1 /\ a.list[i].n >= n /\ \A j \in 1..(i - 1) : a.list[j].n < n
    BY <1>1
  <2>2. /\ PmOK(r.a) /\ r.page = l[i].base
        /\ l[i].n > n => r.a.list = [l EXCEPT ![i] = Blk(l[i].base + n, l[i].n - n)]
        /\ l[i].n = n => r.a.list = RemoveAt(l, i)
    BY <2>1, FirstFit
  <2> HIDE DEF r, l
  <2> QED
    BY <1>1, <2>1, <2>2
<1> HIDE DEF r, l
<1>3. CASE n < m
  <2>1. Blk(f + n, m - n) \in BlockRec
    BY <1>3 DEF Blk, BlockRec
  <2>2. One([l EXCEPT ![1] = Blk(f + n, m - n)], Blk(f + n, m - n))
    BY <1>1, <2>1 DEF One
  <2> QED
    BY <1>2, <1>3, <2>2 DEF r
<1>4. CASE n = m
  <2>1. 1 \in 1..Len(l)
    BY <1>1
  <2>2. RemoveAt(l, 1) \in Seq(BlockRec) /\ Len(RemoveAt(l, 1)) = Len(l) - 1
    BY <1>1, <2>1, RemoveElems
  <2>3. Len(l) - 1 = 0
    BY <1>1
  <2> QED
    <3>2. None(RemoveAt(l, 1))
      BY <2>2, <2>3 DEF None
    <3>3. r.a.list = RemoveAt(l, 1)
      BY <1>2, <1>4
    <3>1. None(r.a.list) /\ ~(n < m)
      BY <1>4, <3>2, <3>3
    <3> QED
      BY <1>2, <1>4, <3>1 DEF r
<1> QED
  BY <1>3, <1>4

(* A list of two, of which the first is taken. *)
LEMMA TakeFirst ==
    ASSUME NEW a, PmOK(a), NEW f \in Nat, NEW n \in Nat, n > 0, NEW c \in BlockRec, Two(a.list, Blk(f, n), c)
    PROVE  LET r == default_alloc_pages(a, n)
           IN  PmOK(r.a) /\ r.page = f /\ One(r.a.list, c)
<1> DEFINE l == a.list
           r == default_alloc_pages(a, n)
<1>1. l \in Seq(BlockRec) /\ Len(l) = 2 /\ l[1] = Blk(f, n) /\ l[2] = c /\ Blk(f, n).base = f /\ Blk(f, n).n = n
  BY BlkIs DEF Two
<1>2. PmOK(r.a) /\ r.page = f /\ r.a.list = RemoveAt(l, 1)
  <2>1. PICK i \in 1..Len(a.list) : i = 1 /\ a.list[i].n >= n /\ \A j \in 1..(i - 1) : a.list[j].n < n
    BY <1>1
  <2>2. /\ PmOK(r.a) /\ r.page = l[i].base
        /\ l[i].n > n => r.a.list = [l EXCEPT ![i] = Blk(l[i].base + n, l[i].n - n)]
        /\ l[i].n = n => r.a.list = RemoveAt(l, i)
    BY <2>1, FirstFit
  <2> HIDE DEF r, l
  <2> QED
    BY <1>1, <2>1, <2>2
<1> HIDE DEF r, l
<1>3. One(RemoveAt(l, 1), c)
  <2>1. 1 \in 1..Len(l)
    BY <1>1
  <2>2. /\ RemoveAt(l, 1) \in Seq(BlockRec) /\ Len(RemoveAt(l, 1)) = Len(l) - 1
        /\ \A j \in 1..(Len(l) - 1) : RemoveAt(l, 1)[j] = IF j < 1 THEN l[j] ELSE l[j + 1]
    BY <1>1, <2>1, RemoveElems
  <2> DEFINE w == RemoveAt(l, 1)
  <2> HIDE DEF w
  <2>3. w \in Seq(BlockRec) /\ Len(w) = 1 /\ w[1] = l[2]
    BY <1>1, <2>2 DEF w
  <2> QED
    BY <1>1, <2>3 DEF One, w
<1> QED
  BY <1>2, <1>3 DEF r

(* A list of two, of which the second is cut. *)
LEMMA TakeSecond ==
    ASSUME NEW a, PmOK(a), NEW f \in Nat, NEW m \in Nat, NEW g \in Nat, NEW k \in Nat, m > 0,
           Two(a.list, Blk(f, m), Blk(g, k)), NEW n \in Nat, m < n, n < k
    PROVE  LET r == default_alloc_pages(a, n)
           IN  PmOK(r.a) /\ r.page = g /\ Two(r.a.list, Blk(f, m), Blk(g + n, k - n))
<1> DEFINE l == a.list
           r == default_alloc_pages(a, n)
           c == Blk(g + n, k - n)
<1>1. /\ l \in Seq(BlockRec) /\ Len(l) = 2 /\ l[1] = Blk(f, m) /\ l[2] = Blk(g, k)
      /\ Blk(f, m).n = m /\ Blk(g, k).base = g /\ Blk(g, k).n = k
  BY BlkIs DEF Two
<1>2. PmOK(r.a) /\ r.page = g /\ r.a.list = [l EXCEPT ![2] = c]
  <2>1. PICK i \in 1..Len(a.list) : i = 2 /\ a.list[i].n >= n /\ n > 0 /\ \A j \in 1..(i - 1) : a.list[j].n < n
    <3>1. \A j \in 1..(2 - 1) : j = 1
      OBVIOUS
    <3> QED
      BY <1>1, <3>1
  <2>2. /\ PmOK(r.a) /\ r.page = l[i].base
        /\ l[i].n > n => r.a.list = [l EXCEPT ![i] = Blk(l[i].base + n, l[i].n - n)]
    BY <2>1, FirstFit
  <2> HIDE DEF r, l
  <2> QED
    BY <1>1, <2>1, <2>2
<1>3. c \in BlockRec
  BY DEF Blk, BlockRec
<1> HIDE DEF r, l, c
<1>4. Two([l EXCEPT ![2] = c], Blk(f, m), c)
  BY <1>1, <1>3 DEF Two
<1> QED
  BY <1>2, <1>4 DEF r, c

(* More pages than there are. *)
LEMMA TakeNothing ==
    ASSUME NEW a, NEW n \in Nat, n > a.nr_free \/ (a.list = << >> /\ n > 0)
    PROVE  default_alloc_pages(a, n).a = a /\ default_alloc_pages(a, n).page = NoFrame
<1>1. n > a.nr_free \/ Roomy(a, n) = {}
  BY DEF Roomy
<1>2. default_alloc_pages(a, n) = [a |-> a, page |-> NoFrame]
  BY <1>1 DEF default_alloc_pages
<1> QED
  BY <1>2

(* Where default_list_add puts a block. *)
Put(l, b) == InsertAt(l, Behind(l, b.base), b)

(* What default_free_pages leaves: the rest of the pass with the merged    *)
(* block.                                                                  *)
LEMMA FreedList ==
    ASSUME NEW a, NEW f, NEW n
    PROVE  LET x == MergeAll(a.list, Blk(f, n))
           IN  default_free_pages(a, f, n).list = Put(x.rest, x.b)
<1> DEFINE b == Blk(f, n)
           x == MergeAll(a.list, b)
           ok == a.ok /\ Span(b) \subseteq Frames
                      /\ \A i \in 1..Len(a.list) : a.list[i].base \notin Span(b)
           q == [list |-> x.rest, nr_free |-> a.nr_free + b.n, ok |-> ok]
           i == Behind(q.list, x.b.base)
           good == q.ok /\ (i <= Len(q.list) => x.b.base + x.b.n <= q.list[i].base)
                        /\ \A j \in 1..(i - 1) : q.list[j].base + q.list[j].n <= x.b.base
<1>1. default_free_pages(a, f, n) = default_list_add(q, x.b)
  BY DEF default_free_pages, FreeMerged, Blk
<1> HIDE DEF x, ok, b
<1>2. default_list_add(q, x.b) = [q EXCEPT !.list = InsertAt(q.list, i, x.b), !.ok = good]
  BY DEF default_list_add, InsertBlock, list_add_before
<1> HIDE DEF good
<1>3. default_list_add(q, x.b).list = InsertAt(x.rest, Behind(x.rest, x.b.base), x.b)
  BY <1>2
<1> QED
  BY <1>1, <1>3 DEF Put, x, b

(* The place i is behind the blocks with a smaller base. *)
Place(l, b, i) ==
    /\ l \in Seq(BlockRec) /\ b \in BlockRec /\ i \in 1..(Len(l) + 1)
    /\ i <= Len(l) => b.base < l[i].base
    /\ \A j \in 1..(i - 1) : l[j].base <= b.base

(* The list r is l with b as its block i. *)
With(l, b, i, r) ==
    /\ r \in Seq(BlockRec) /\ Len(r) = Len(l) + 1
    /\ \A j \in 1..(Len(l) + 1) : r[j] = IF j < i THEN l[j] ELSE IF j = i THEN b ELSE l[j - 1]

(* A block is put at its place. *)
LEMMA PutAt ==
    ASSUME NEW l, NEW b, NEW i, Place(l, b, i)
    PROVE  With(l, b, i, Put(l, b))
<1>0. /\ l \in Seq(BlockRec) /\ b \in BlockRec /\ i \in 1..(Len(l) + 1)
      /\ i <= Len(l) => b.base < l[i].base
      /\ \A j \in 1..(i - 1) : l[j].base <= b.base
  BY DEF Place
<1> DEFINE T == {k \in 1..(Len(l) + 1) : k = Len(l) + 1 \/ b.base < l[k].base}
<1>1. Len(l) \in Nat /\ b.base \in Nat /\ \A k \in 1..Len(l) : l[k].base \in Nat
  BY <1>0, BlockFields DEF BlockRec
<1>2. i \in T /\ T \in SUBSET Nat
  BY <1>0, <1>1
<1>3. \A k \in T : i <= k
  BY <1>0, <1>1
<1>4. Behind(l, b.base) = Min(T)
  BY DEF Behind
<1> HIDE DEF T
<1>5. Min(T) \in T /\ \A k \in T : Min(T) <= k
  BY <1>2, MinIs
<1>6. PICK m \in Nat : m = Min(T)
  BY <1>2, <1>5
<1>7. m <= i /\ i <= m /\ i \in Nat
  BY <1>0, <1>1, <1>2, <1>3, <1>5, <1>6
<1>8. m = i
  BY <1>7
<1>9. Put(l, b) = InsertAt(l, i, b)
  BY <1>4, <1>6, <1>8 DEF Put
<1>10. With(l, b, i, InsertAt(l, i, b))
  <2>1. Inserted(BlockRec, l, i, b, InsertAt(l, i, b))
    BY <1>0, InsertAtIs
  <2> QED
    BY <2>1, Zenon DEF Inserted, With
<1> QED
  BY <1>9, <1>10

(* Into the empty list. *)
LEMMA PutFirst ==
    ASSUME NEW l, NEW b \in BlockRec, None(l)
    PROVE  One(Put(l, b), b)
<1> DEFINE r == Put(l, b)
<1>1. l \in Seq(BlockRec) /\ Len(l) = 0
  BY DEF None
<1>2. Place(l, b, 1)
  BY <1>1 DEF Place
<1>3. With(l, b, 1, r)
  BY <1>2, PutAt
<1> HIDE DEF r
<1>4. r \in Seq(BlockRec) /\ Len(r) = 1 /\ r[1] = b
  BY <1>1, <1>3 DEF With
<1>5. One(r, b)
  BY <1>4 DEF One
<1> QED
  BY <1>5 DEF r

(* Before or behind a single block. *)
LEMMA PutSecond ==
    ASSUME NEW l, NEW b \in BlockRec, NEW p \in BlockRec, One(l, p)
    PROVE  /\ b.base < p.base => Two(Put(l, b), b, p)
           /\ p.base <= b.base => Two(Put(l, b), p, b)
<1> DEFINE r == Put(l, b)
<1>1. l \in Seq(BlockRec) /\ Len(l) = 1 /\ l[1] = p /\ b.base \in Nat /\ p.base \in Nat
  BY DEF One, BlockRec
<1> HIDE DEF r
<1>3. ASSUME b.base < p.base
      PROVE  Two(r, b, p)
  <2>1. Place(l, b, 1)
    BY <1>1, <1>3 DEF Place
  <2>2. With(l, b, 1, r)
    BY <2>1, PutAt DEF r
  <2>3. r \in Seq(BlockRec)
    BY <2>2 DEF With
  <2>4. r[1] = b /\ r[2] = p /\ Len(r) = 2
    BY <1>1, <2>2 DEF With
  <2> QED
    BY <2>3, <2>4 DEF Two
<1>4. ASSUME p.base <= b.base
      PROVE  Two(r, p, b)
  <2>1. Place(l, b, 2)
    BY <1>1, <1>4 DEF Place
  <2>2. With(l, b, 2, r)
    BY <2>1, PutAt DEF r
  <2>3. r \in Seq(BlockRec)
    BY <2>2 DEF With
  <2>4. r[1] = p /\ r[2] = b /\ Len(r) = 2
    BY <1>1, <2>2 DEF With
  <2> QED
    BY <2>3, <2>4 DEF Two
<1> QED
  BY <1>3, <1>4 DEF r

(* The pass so far has left nothing behind, or one block. *)
Clean(x, b) == x \in PassRec /\ x.b = b /\ None(x.rest)
Behind1(x, b, p) == x \in PassRec /\ x.b = b /\ One(x.rest, p)

(* The turns of the passes over such lists. *)
LEMMA Turns ==
    ASSUME NEW x, NEW f \in Nat, NEW n \in Nat, n > 0, NEW g \in Nat, NEW k \in Nat, k > 0
    PROVE  /\ Clean(x, Blk(f, n)) /\ g + k = f => Clean(Join(x, Blk(g, k)), Blk(g, k + n))
           /\ Clean(x, Blk(f, n)) /\ f + n = g => Clean(Join(x, Blk(g, k)), Blk(f, n + k))
           /\ Clean(x, Blk(f, n)) /\ g + k # f /\ f + n # g =>
                 Behind1(Join(x, Blk(g, k)), Blk(f, n), Blk(g, k))
           /\ \A p : Behind1(x, Blk(f, n), p) /\ f + n = g =>
                 Behind1(Join(x, Blk(g, k)), Blk(f, n + k), p)
<1> DEFINE b == Blk(f, n)
           p == Blk(g, k)
           y == Join(x, p)
<1>1. /\ b \in BlockRec /\ b.base = f /\ b.n = n
      /\ p \in BlockRec /\ p.base = g /\ p.n = k
  BY BlkIs
<1> HIDE DEF b, p
<1>2. ASSUME x \in PassRec, x.b = b
      PROVE  /\ y \in PassRec
             /\ f + n = g => y.b = [base |-> f, n |-> n + k] /\ y.rest = x.rest
             /\ g + k = f => y.b = [base |-> g, n |-> k + n] /\ y.rest = x.rest
             /\ f + n # g /\ g + k # f => y.b = b /\ y.rest = Append(x.rest, p)
  BY <1>1, <1>2, JoinIs
<1> HIDE DEF y
<1>3. ASSUME Clean(x, b), g + k = f
      PROVE  Clean(y, Blk(g, k + n))
  BY <1>2, <1>3 DEF Clean, Blk
<1>4. ASSUME Clean(x, b), f + n = g
      PROVE  Clean(y, Blk(f, n + k))
  BY <1>2, <1>4 DEF Clean, Blk
<1>5. ASSUME Clean(x, b), g + k # f, f + n # g
      PROVE  Behind1(y, b, p)
  <2>1. x \in PassRec /\ x.b = b /\ x.rest \in Seq(BlockRec) /\ Len(x.rest) = 0
    BY <1>5 DEF Clean, None
  <2>2. One(Append(x.rest, p), p)
    BY <1>1, <2>1 DEF One
  <2> QED
    BY <1>2, <1>5, <2>1, <2>2 DEF Behind1
<1>6. ASSUME NEW z, Behind1(x, b, z), f + n = g
      PROVE  Behind1(y, Blk(f, n + k), z)
  BY <1>2, <1>6 DEF Behind1, Blk
<1> QED
  BY <1>3, <1>4, <1>5, <1>6 DEF y, b, p

(* The passes over such lists. *)
LEMMA SmallPass ==
    ASSUME NEW l, NEW b \in BlockRec, NEW p \in BlockRec, NEW q \in BlockRec
    PROVE  /\ None(l) => Clean(MergeAll(l, b), b)
           /\ One(l, p) => \E x : Clean(x, b) /\ MergeAll(l, b) = Join(x, p)
           /\ Two(l, p, q) => \E x : Clean(x, b) /\ MergeAll(l, b) = Join(Join(x, p), q)
<1> DEFINE x0 == [b |-> b, rest |-> << >>]
           P == Passed(l, b)
<1>1. ASSUME l \in Seq(BlockRec)
      PROVE  /\ P[0] = x0 /\ x0 \in PassRec
             /\ \A i \in 1..Len(l) : P[i] = Join(P[i - 1], l[i])
  <2>1. x0 \in PassRec
    BY DEF PassRec
  <2> QED
    BY <1>1, <2>1, PassedDef
<1>2. x0 \in PassRec => Clean(x0, b)
  BY DEF Clean, None
<1>3. MergeAll(l, b) = P[Len(l)]
  BY DEF MergeAll
<1> HIDE DEF P, x0
<1>4. ASSUME None(l)
      PROVE  Clean(MergeAll(l, b), b)
  BY <1>1, <1>2, <1>3, <1>4 DEF None
<1>5. ASSUME One(l, p)
      PROVE  \E x : Clean(x, b) /\ MergeAll(l, b) = Join(x, p)
  <2>1. 1 \in 1..Len(l) /\ l \in Seq(BlockRec) /\ l[1] = p /\ Len(l) = 1 /\ 1 - 1 = 0
    BY <1>5 DEF One
  <2>2. P[1] = Join(P[1 - 1], l[1])
    BY <1>1, <2>1
  <2> QED
    BY <1>1, <1>2, <1>3, <2>1, <2>2
<1>6. ASSUME Two(l, p, q)
      PROVE  \E x : Clean(x, b) /\ MergeAll(l, b) = Join(Join(x, p), q)
  <2>1. /\ 1 \in 1..Len(l) /\ 2 \in 1..Len(l) /\ l \in Seq(BlockRec) /\ l[1] = p /\ l[2] = q
        /\ Len(l) = 2 /\ 1 - 1 = 0 /\ 2 - 1 = 1
    BY <1>6 DEF Two
  <2>2. P[1] = Join(P[1 - 1], l[1]) /\ P[2] = Join(P[2 - 1], l[2])
    BY <1>1, <2>1
  <2> QED
    BY <1>1, <1>2, <1>3, <2>1, <2>2
<1> QED
  BY <1>4, <1>5, <1>6

(* Which frames such lists do not hold. *)
LEMMA SmallApart ==
    ASSUME NEW l, NEW f, NEW n, NEW b, NEW c
    PROVE  /\ None(l) => Apart(l, f, n)
           /\ One(l, b) /\ Disjoint(f, n, b.base, b.n) => Apart(l, f, n)
           /\ Two(l, b, c) /\ Disjoint(f, n, b.base, b.n) /\ Disjoint(f, n, c.base, c.n) => Apart(l, f, n)
<1>1. ASSUME None(l)
      PROVE  Apart(l, f, n)
  BY <1>1 DEF None, Apart
<1>2. ASSUME One(l, b), Disjoint(f, n, b.base, b.n)
      PROVE  Apart(l, f, n)
  <2>1. \A i \in 1..Len(l) : i = 1
    BY <1>2 DEF One
  <2> QED
    BY <1>2, <2>1 DEF One, Apart
<1>3. ASSUME Two(l, b, c), Disjoint(f, n, b.base, b.n), Disjoint(f, n, c.base, c.n)
      PROVE  Apart(l, f, n)
  <2>1. \A i \in 1..Len(l) : i = 1 \/ i = 2
    BY <1>3 DEF Two
  <2> QED
    BY <1>3, <2>1 DEF Two, Apart
<1> QED
  BY <1>1, <1>2, <1>3

(* The first block. *)
LEMMA GiveToNone ==
    ASSUME NEW a, PmOK(a), NEW f \in Nat, NEW n \in Nat, Region(f, n), None(a.list)
    PROVE  LET c == default_free_pages(a, f, n)
           IN  PmOK(c) /\ One(c.list, Blk(f, n))
<1> DEFINE c == default_free_pages(a, f, n)
           b == Blk(f, n)
           x == MergeAll(a.list, b)
<1>1. PmOK(c)
  BY SmallApart, FreeList
<1>2. b \in BlockRec
  BY BlkIs DEF Region
<1>3. c.list = Put(x.rest, x.b)
  BY FreedList
<1> HIDE DEF c, b
<1>4. Clean(x, b)
  BY <1>2, SmallPass
<1> HIDE DEF x
<1>5. One(c.list, b)
  BY <1>2, <1>3, <1>4, PutFirst DEF Clean
<1> QED
  BY <1>1, <1>5 DEF c, b

(* A list of one block: the frames come behind it, in front of it, or apart from it. *)
LEMMA GiveToOne ==
    ASSUME NEW a, PmOK(a), NEW f \in Nat, NEW n \in Nat, Region(f, n),
           NEW g \in Nat, NEW k \in Nat, k > 0, One(a.list, Blk(g, k)), f + n <= g \/ g + k <= f
    PROVE  LET c == default_free_pages(a, f, n)
           IN  /\ PmOK(c)
               /\ g + k = f => One(c.list, Blk(g, k + n))
               /\ f + n = g => One(c.list, Blk(f, n + k))
               /\ f + n < g => Two(c.list, Blk(f, n), Blk(g, k))
               /\ g + k < f => Two(c.list, Blk(g, k), Blk(f, n))
<1> DEFINE c == default_free_pages(a, f, n)
           b == Blk(f, n)
           p == Blk(g, k)
           y == MergeAll(a.list, b)
<1>1. n > 0 /\ b \in BlockRec /\ p \in BlockRec /\ b.base = f /\ b.n = n /\ p.base = g /\ p.n = k
  BY BlkIs DEF Region
<1>2. PmOK(c)
  <2>1. Disjoint(f, n, p.base, p.n) /\ One(a.list, p)
    BY <1>1 DEF Disjoint
  <2>2. Apart(a.list, f, n)
    <3> HIDE DEF p
    <3> QED
      BY <2>1, SmallApart
  <2> QED
    BY <2>2, FreeList
<1>3. c.list = Put(y.rest, y.b)
  BY FreedList
<1> HIDE DEF c
<1>4. PICK x : Clean(x, b) /\ y = Join(x, p)
  <2>1. One(a.list, p)
    OBVIOUS
  <2> HIDE DEF b, p
  <2> QED
    BY <1>1, <2>1, SmallPass
<1> HIDE DEF y
<1>5. ASSUME g + k = f
      PROVE  One(c.list, Blk(g, k + n))
  <2>1. Clean(y, Blk(g, k + n))
    BY <1>1, <1>4, <1>5, Turns
  <2>2. Blk(g, k + n) \in BlockRec
    BY <1>1 DEF Blk, BlockRec
  <2> QED
    BY <1>3, <2>1, <2>2, PutFirst DEF Clean
<1>6. ASSUME f + n = g
      PROVE  One(c.list, Blk(f, n + k))
  <2>1. Clean(y, Blk(f, n + k))
    BY <1>1, <1>4, <1>6, Turns
  <2>2. Blk(f, n + k) \in BlockRec
    BY <1>1 DEF Blk, BlockRec
  <2> QED
    BY <1>3, <2>1, <2>2, PutFirst DEF Clean
<1>7. ASSUME g + k # f, f + n # g
      PROVE  Behind1(y, b, p)
  BY <1>1, <1>4, <1>7, Turns
<1> HIDE DEF b, p
<1>8. ASSUME f + n < g
      PROVE  Two(c.list, b, p)
  <2>1. g + k # f /\ f + n # g /\ b.base < p.base
    BY <1>1, <1>8
  <2> QED
    BY <1>1, <1>3, <1>7, <2>1, PutSecond DEF Behind1
<1>9. ASSUME g + k < f
      PROVE  Two(c.list, p, b)
  <2>1. g + k # f /\ f + n # g /\ p.base <= b.base
    BY <1>1, <1>9
  <2> QED
    BY <1>1, <1>3, <1>7, <2>1, PutSecond DEF Behind1
<1> QED
  BY <1>2, <1>5, <1>6, <1>8, <1>9 DEF c, b, p

(* A list of two blocks, between which the frames are. *)
LEMMA GiveToTwo ==
    ASSUME NEW a, PmOK(a), NEW f \in Nat, NEW n \in Nat, Region(f, n),
           NEW g \in Nat, NEW k \in Nat, k > 0, NEW h \in Nat, NEW m \in Nat, m > 0,
           Two(a.list, Blk(g, k), Blk(h, m)), g + k <= f, f + n <= h
    PROVE  LET c == default_free_pages(a, f, n)
           IN  /\ PmOK(c)
               /\ g + k = f /\ f + n < h => Two(c.list, Blk(g, k + n), Blk(h, m))
               /\ g + k = f /\ f + n = h => One(c.list, Blk(g, (k + n) + m))
               /\ g + k < f /\ f + n = h => Two(c.list, Blk(g, k), Blk(f, n + m))
<1> DEFINE c == default_free_pages(a, f, n)
           b == Blk(f, n)
           p == Blk(g, k)
           q == Blk(h, m)
           y == MergeAll(a.list, b)
<1>1. /\ n > 0 /\ b \in BlockRec /\ p \in BlockRec /\ b.base = f /\ b.n = n /\ p.base = g /\ p.n = k
      /\ q \in BlockRec /\ q.base = h /\ q.n = m
  BY BlkIs DEF Region
<1>2. PmOK(c)
  <2>1. Disjoint(f, n, p.base, p.n) /\ Disjoint(f, n, q.base, q.n) /\ Two(a.list, p, q)
    BY <1>1 DEF Disjoint
  <2>2. Apart(a.list, f, n)
    <3> HIDE DEF p, q
    <3> QED
      BY <2>1, SmallApart
  <2> QED
    BY <2>2, FreeList
<1>3. c.list = Put(y.rest, y.b)
  BY FreedList
<1> HIDE DEF c
<1>4. PICK x : Clean(x, b) /\ y = Join(Join(x, p), q)
  <2>1. Two(a.list, p, q)
    OBVIOUS
  <2> HIDE DEF b, p, q
  <2> QED
    BY <1>1, <2>1, SmallPass
<1> HIDE DEF y
<1> DEFINE z == Join(x, p)
           kn == k + n
           bp == Blk(g, kn)
<1>5. ASSUME g + k = f
      PROVE  Clean(z, bp)
  BY <1>1, <1>4, <1>5, Turns
<1>6. ASSUME g + k < f
      PROVE  Behind1(z, b, p)
  <2>1. g + k # f /\ f + n # g
    BY <1>1, <1>6
  <2> QED
    BY <1>1, <1>4, <2>1, Turns
<1>7. kn \in Nat /\ kn > 0 /\ bp \in BlockRec /\ bp.base = g /\ bp.n = kn /\ y = Join(z, q)
  BY <1>1, <1>4, BlkIs
<1>8. ASSUME g + k = f, f + n < h
      PROVE  Two(c.list, bp, q)
  <2>1. h + m # g /\ g + kn # h
    BY <1>1, <1>8
  <2> HIDE DEF z, kn
  <2>2. Behind1(y, bp, q)
    BY <1>5, <1>7, <1>8, <2>1, Turns
  <2>3. bp.base < q.base
    BY <1>1, <1>7, <1>8
  <2> HIDE DEF bp, q
  <2> QED
    BY <1>1, <1>3, <1>7, <2>2, <2>3, PutSecond DEF Behind1
<1>9. ASSUME g + k = f, f + n = h
      PROVE  One(c.list, Blk(g, kn + m))
  <2>1. g + kn = h
    BY <1>1, <1>9
  <2> HIDE DEF z, kn
  <2>2. Clean(y, Blk(g, kn + m))
    BY <1>5, <1>7, <1>9, <2>1, Turns
  <2>3. Blk(g, kn + m) \in BlockRec
    BY <1>7 DEF Blk, BlockRec
  <2> QED
    BY <1>3, <2>2, <2>3, PutFirst DEF Clean
<1>10. ASSUME g + k < f, f + n = h
       PROVE  Two(c.list, p, Blk(f, n + m))
  <2> HIDE DEF z
  <2> DEFINE u == Blk(f, n + m)
  <2>1. Behind1(y, u, p)
    <3> HIDE DEF p
    <3> QED
      BY <1>1, <1>6, <1>7, <1>10, Turns
  <2>2. u \in BlockRec /\ u.base = f
    BY <1>1, BlkIs
  <2>3. p.base <= u.base
    BY <1>1, <1>10, <2>2
  <2> HIDE DEF p, u
  <2> QED
    BY <1>1, <1>3, <2>1, <2>2, <2>3, PutSecond DEF Behind1, u
<1> QED
  BY <1>2, <1>8, <1>9, <1>10 DEF c, b, p, q

-----------------------------------------------------------------------------
(* The self test *)

TestRec == [a : PmRec, got : Seq(Int), store : Seq(BlockRec), nr_free_store : Nat]

(* The test has called alloc_pages m times and no assertion has failed. *)
Stands(t, m) == t \in TestRec /\ PmOK(t.a) /\ Len(t.got) = m

(* From t to u what was put aside and the first m pages stay. *)
Kept(t, u, m) ==
    /\ u.store = t.store /\ u.nr_free_store = t.nr_free_store
    /\ \A i \in 1..m : u.got[i] = t.got[i]

(* The fields of the record of the test. *)
LEMMA TestFields ==
    ASSUME NEW t \in TestRec
    PROVE  /\ t = [a |-> t.a, got |-> t.got, store |-> t.store, nr_free_store |-> t.nr_free_store]
           /\ t.a \in PmRec /\ t.got \in Seq(Int) /\ t.store \in Seq(BlockRec) /\ t.nr_free_store \in Nat
           /\ t.a = [list |-> t.a.list, nr_free |-> t.a.nr_free, ok |-> t.a.ok]
           /\ t.a.list \in Seq(BlockRec) /\ t.a.nr_free \in Nat /\ t.a.ok \in BOOLEAN
<1>1. /\ t = [a |-> t.a, got |-> t.got, store |-> t.store, nr_free_store |-> t.nr_free_store]
      /\ t.a \in PmRec /\ t.got \in Seq(Int) /\ t.store \in Seq(BlockRec) /\ t.nr_free_store \in Nat
  BY DEF TestRec
<1> QED
  BY <1>1 DEF PmRec

(* A value whose fields are these is the record of the allocator. *)
LEMMA PmIs ==
    ASSUME NEW a, PmOK(a), NEW w \in BOOLEAN, w
    PROVE  LET c == [a EXCEPT !.ok = @ /\ w] IN PmOK(c) /\ c.list = a.list /\ c.nr_free = a.nr_free
<1> DEFINE v == a.ok /\ w
           c == [a EXCEPT !.ok = v]
<1>1. /\ a = [list |-> a.list, nr_free |-> a.nr_free, ok |-> a.ok]
      /\ a.list \in Seq(BlockRec) /\ a.nr_free \in Nat /\ a.ok
      /\ ListOK(a.list) /\ a.nr_free = Frees(a.list)
  BY DEF PmOK, PmRec
<1>2. v \in BOOLEAN /\ v
  BY <1>1
<1> HIDE DEF v
<1>3. c = [list |-> a.list, nr_free |-> a.nr_free, ok |-> v]
  BY <1>1
<1> HIDE DEF c
<1>4. c.list = a.list /\ c.nr_free = a.nr_free /\ c.ok = v /\ c \in PmRec
  BY <1>1, <1>2, <1>3 DEF PmRec
<1>5. PmOK(c)
  BY <1>1, <1>2, <1>4 DEF PmOK
<1> QED
  BY <1>4, <1>5 DEF c, v

(* The call of alloc_pages after the m-th has returned r. *)
Called(t, m, r) == t \in TestRec /\ m \in Nat /\ Len(t.got) = m /\ PmOK(r.a) /\ r.page \in Int

(* It leaves the test in u. *)
Adds(t, m, r, u) ==
    /\ Stands(u, m + 1) /\ Kept(t, u, m) /\ u.got[m + 1] = r.page
    /\ u.a.list = r.a.list /\ u.a.nr_free = r.a.nr_free

(* A call whose assertion holds adds its page to what the test has got. *)
LEMMA TookOK ==
    ASSUME NEW t, NEW m, NEW r, Called(t, m, r)
    PROVE  Adds(t, m, r, Took(t, r, TRUE))
<1> DEFINE c == [r.a EXCEPT !.ok = @ /\ TRUE]
           s == Append(t.got, r.page)
           u == Took(t, r, TRUE)
<1>0. t \in TestRec /\ m \in Nat /\ Len(t.got) = m /\ PmOK(r.a) /\ r.page \in Int
  BY DEF Called
<1>1. PmOK(c) /\ c.list = r.a.list /\ c.nr_free = r.a.nr_free
  BY <1>0, PmIs
<1>2. u = [t EXCEPT !.a = c, !.got = s]
  BY DEF Took
<1> HIDE DEF c, u
<1>3. /\ t = [a |-> t.a, got |-> t.got, store |-> t.store, nr_free_store |-> t.nr_free_store]
      /\ t.got \in Seq(Int) /\ t.store \in Seq(BlockRec) /\ t.nr_free_store \in Nat
  BY <1>0, TestFields
<1>4. s \in Seq(Int) /\ Len(s) = m + 1 /\ s[m + 1] = r.page /\ \A i \in 1..m : s[i] = t.got[i]
  BY <1>0, <1>3
<1> HIDE DEF s
<1>5. u = [a |-> c, got |-> s, store |-> t.store, nr_free_store |-> t.nr_free_store]
  BY <1>2, <1>3
<1>6. u.a = c /\ u.got = s /\ u.store = t.store /\ u.nr_free_store = t.nr_free_store
  BY <1>5
<1>7. u \in TestRec
  BY <1>1, <1>3, <1>4, <1>5 DEF TestRec, PmOK
<1>8. Stands(u, m + 1) /\ Kept(t, u, m) /\ u.got[m + 1] = r.page
  BY <1>1, <1>4, <1>6, <1>7 DEF Stands, Kept
<1> QED
  BY <1>1, <1>6, <1>8 DEF u, Adds

(* alloc_pages on a list of one block, as the checks call it. *)
LEMMA SomeOfOne ==
    ASSUME NEW t, NEW m \in Nat, Stands(t, m), NEW f \in Nat, NEW j \in Nat, One(t.a.list, Blk(f, j)),
           NEW n \in Nat, n > 0, n <= j, NEW u, u = TakeSome(t, n) \/ u = TakeAt(t, n, f)
    PROVE  /\ Stands(u, m + 1) /\ Kept(t, u, m) /\ u.got[m + 1] = f
           /\ n < j => One(u.a.list, Blk(f + n, j - n))
           /\ n = j => None(u.a.list)
<1> DEFINE r == default_alloc_pages(t.a, n)
<1>1. t \in TestRec /\ PmOK(t.a) /\ Len(t.got) = m
  BY DEF Stands
<1>2. /\ PmOK(r.a) /\ r.page = f
      /\ n < j => One(r.a.list, Blk(f + n, j - n))
      /\ n = j => None(r.a.list)
  BY <1>1, TakeOfOne
<1>3. u = Took(t, r, TRUE)
  <2>1. r.page # NoFrame
    <3> HIDE DEF r
    <3> QED
      BY <1>2 DEF NoFrame
  <2>2. TakeSome(t, n) = Took(t, r, TRUE)
    BY <2>1 DEF TakeSome
  <2>3. TakeAt(t, n, f) = Took(t, r, TRUE)
    BY <1>2 DEF TakeAt
  <2> HIDE DEF r
  <2> QED
    BY <2>2, <2>3
<1> HIDE DEF r
<1>4. /\ Stands(u, m + 1) /\ Kept(t, u, m) /\ u.got[m + 1] = r.page
      /\ u.a.list = r.a.list /\ u.a.nr_free = r.a.nr_free
  <2>1. Called(t, m, r)
    BY <1>1, <1>2 DEF Called
  <2>2. Adds(t, m, r, u)
    BY <1>3, <2>1, TookOK
  <2> QED
    BY <2>2 DEF Adds
<1> QED
  BY <1>2, <1>4

(* alloc_pages takes all of the first of two blocks, *)
LEMMA AtFirst ==
    ASSUME NEW t, NEW m \in Nat, Stands(t, m), NEW f \in Nat, NEW n \in Nat, n > 0,
           NEW c \in BlockRec, Two(t.a.list, Blk(f, n), c)
    PROVE  LET u == TakeAt(t, n, f)
           IN  Stands(u, m + 1) /\ Kept(t, u, m) /\ u.got[m + 1] = f /\ One(u.a.list, c)
<1> DEFINE r == default_alloc_pages(t.a, n)
           u == TakeAt(t, n, f)
<1>1. t \in TestRec /\ PmOK(t.a) /\ Len(t.got) = m
  BY DEF Stands
<1>2. PmOK(r.a) /\ r.page = f /\ One(r.a.list, c)
  BY <1>1, TakeFirst
<1>3. u = Took(t, r, TRUE)
  BY <1>2 DEF TakeAt
<1> HIDE DEF r, u
<1>4. /\ Stands(u, m + 1) /\ Kept(t, u, m) /\ u.got[m + 1] = r.page
      /\ u.a.list = r.a.list /\ u.a.nr_free = r.a.nr_free
  <2>1. Called(t, m, r)
    BY <1>1, <1>2 DEF Called
  <2>2. Adds(t, m, r, u)
    BY <1>3, <2>1, TookOK
  <2> QED
    BY <2>2 DEF Adds
<1> QED
  BY <1>2, <1>4 DEF u

(* or the front of the second. *)
LEMMA AtSecond ==
    ASSUME NEW t, NEW m \in Nat, Stands(t, m), NEW f \in Nat, NEW h \in Nat, NEW g \in Nat, NEW k \in Nat, h > 0,
           Two(t.a.list, Blk(f, h), Blk(g, k)), NEW n \in Nat, h < n, n < k
    PROVE  LET u == TakeAt(t, n, g)
           IN  /\ Stands(u, m + 1) /\ Kept(t, u, m) /\ u.got[m + 1] = g
               /\ Two(u.a.list, Blk(f, h), Blk(g + n, k - n))
<1> DEFINE r == default_alloc_pages(t.a, n)
           u == TakeAt(t, n, g)
<1>1. t \in TestRec /\ PmOK(t.a) /\ Len(t.got) = m
  BY DEF Stands
<1>2. PmOK(r.a) /\ r.page = g /\ Two(r.a.list, Blk(f, h), Blk(g + n, k - n))
  BY <1>1, TakeSecond
<1>3. u = Took(t, r, TRUE)
  BY <1>2 DEF TakeAt
<1> HIDE DEF r, u
<1>4. /\ Stands(u, m + 1) /\ Kept(t, u, m) /\ u.got[m + 1] = r.page
      /\ u.a.list = r.a.list /\ u.a.nr_free = r.a.nr_free
  <2>1. Called(t, m, r)
    BY <1>1, <1>2 DEF Called
  <2>2. Adds(t, m, r, u)
    BY <1>3, <2>1, TookOK
  <2> QED
    BY <2>2 DEF Adds
<1> QED
  BY <1>2, <1>4 DEF u

(* alloc_pages returns NULL where there are too few frames. *)
LEMMA NullStep ==
    ASSUME NEW t, NEW m \in Nat, Stands(t, m), NEW n \in Nat, Frees(t.a.list) < n
    PROVE  LET u == TakeNull(t, n)
           IN  Stands(u, m + 1) /\ Kept(t, u, m) /\ u.a.list = t.a.list
<1> DEFINE r == default_alloc_pages(t.a, n)
           u == TakeNull(t, n)
<1>1. t \in TestRec /\ PmOK(t.a) /\ Len(t.got) = m
  BY DEF Stands
<1>2. n > t.a.nr_free
  BY <1>1 DEF PmOK, PmRec
<1>3. r.a = t.a /\ r.page = NoFrame
  BY <1>2, TakeNothing
<1>4. u = Took(t, r, TRUE)
  BY <1>3 DEF TakeNull
<1>5. Called(t, m, r)
  BY <1>1, <1>3 DEF NoFrame, Called
<1> HIDE DEF r, u
<1>6. /\ Stands(u, m + 1) /\ Kept(t, u, m) /\ u.got[m + 1] = r.page
      /\ u.a.list = r.a.list /\ u.a.nr_free = r.a.nr_free
  <2>1. Adds(t, m, r, u)
    BY <1>4, <1>5, TookOK
  <2> QED
    BY <2>1 DEF Adds
<1> QED
  BY <1>3, <1>6 DEF u

(* From t to u only the allocator changes. *)
Moved(t, u, m) ==
    Stands(u, m) /\ u.got = t.got /\ u.store = t.store /\ u.nr_free_store = t.nr_free_store

(* A step that changes only the allocator. *)
LEMMA OtherPm ==
    ASSUME NEW t, NEW m, Stands(t, m), NEW c, PmOK(c)
    PROVE  LET u == [t EXCEPT !.a = c] IN Moved(t, u, m) /\ u.a = c
<1> DEFINE u == [t EXCEPT !.a = c]
<1>1. t \in TestRec /\ Len(t.got) = m
  BY DEF Stands
<1>2. /\ t = [a |-> t.a, got |-> t.got, store |-> t.store, nr_free_store |-> t.nr_free_store]
      /\ t.got \in Seq(Int) /\ t.store \in Seq(BlockRec) /\ t.nr_free_store \in Nat
  BY <1>1, TestFields
<1>3. u = [a |-> c, got |-> t.got, store |-> t.store, nr_free_store |-> t.nr_free_store]
  BY <1>2
<1> HIDE DEF u
<1>4. u.a = c /\ u.got = t.got /\ u.store = t.store /\ u.nr_free_store = t.nr_free_store
  BY <1>3
<1>5. u \in TestRec
  BY <1>2, <1>3 DEF TestRec, PmOK
<1>6. Moved(t, u, m)
  BY <1>1, <1>4, <1>5 DEF Moved, Stands
<1> QED
  BY <1>4, <1>6 DEF u

(* free_pages, as the checks call it. *)
LEMMA GiveOK ==
    ASSUME NEW t, NEW m, Stands(t, m), NEW p, NEW k, NEW n, NEW f, Page(t, p, k) = f,
           PmOK(default_free_pages(t.a, f, n))
    PROVE  LET u == Give(t, p, k, n) IN Moved(t, u, m) /\ u.a = default_free_pages(t.a, f, n)
<1> DEFINE c == default_free_pages(t.a, f, n)
<1>1. Give(t, p, k, n) = Gave(t, c)
  BY DEF Give
<1> HIDE DEF c
<1>2. PmOK(c)
  BY DEF c
<1>3. Gave(t, c) = [t EXCEPT !.a = c]
  BY DEF Gave
<1> QED
  BY <1>1, <1>2, <1>3, OtherPm DEF c

(* An assertion that holds. *)
LEMMA MustOK ==
    ASSUME NEW t, NEW m, Stands(t, m)
    PROVE  LET u == Must(t, TRUE) IN Moved(t, u, m) /\ u.a.list = t.a.list /\ u.a.nr_free = t.a.nr_free
<1> DEFINE a == t.a
           c == [a EXCEPT !.ok = @ /\ TRUE]
<1>1. PmOK(a)
  BY DEF Stands
<1>2. PmOK(c) /\ c.list = a.list /\ c.nr_free = a.nr_free
  <2> HIDE DEF a
  <2> QED
    BY <1>1, PmIs
<1>3. Must(t, TRUE) = [t EXCEPT !.a = c]
  BY DEF Must
<1> HIDE DEF c
<1> QED
  BY <1>2, <1>3, OtherPm

(* The list as it is put back. *)
Stored(t, b) == One(t.store, b) /\ ListOK(t.store) /\ t.nr_free_store = Frees(t.store)
NoneStored(t) == None(t.store) /\ ListOK(t.store) /\ t.nr_free_store = Frees(t.store)

(* The empty list with its counter. *)
LEMMA EmptyOK ==
    ASSUME NEW a, a \in PmRec, a.ok, a.list = << >>, a.nr_free = 0
    PROVE  PmOK(a) /\ None(a.list)
<1>1. None(a.list)
  BY DEF None
<1>2. Frees(a.list) = 0
  <2>1. [base |-> 0, n |-> 1] \in BlockRec
    BY DEF BlockRec
  <2> QED
    BY <1>1, <2>1, SmallFrees
<1>3. ListOK(a.list)
  BY DEF ListOK
<1> QED
  BY <1>1, <1>2, <1>3 DEF PmOK

(* List and counter are put aside, with nothing called in between. *)
LEMMA AsideOK ==
    ASSUME NEW t, NEW m, Stands(t, m)
    PROVE  LET u == CountAside(ListAside(t))
           IN  /\ Stands(u, m) /\ u.got = t.got /\ None(u.a.list)
               /\ u.store = t.a.list /\ u.nr_free_store = t.a.nr_free
<1> DEFINE ta == t.a
           x == t.a.list
           k == t.a.nr_free
           o == t.a.ok
           c == [list |-> << >>, nr_free |-> 0, ok |-> o]
           v == ListAside(t)
           u == CountAside(v)
<1>1. t \in TestRec /\ Len(t.got) = m /\ PmOK(t.a)
  BY DEF Stands
<1>2. /\ t = [a |-> t.a, got |-> t.got, store |-> t.store, nr_free_store |-> t.nr_free_store]
      /\ t.got \in Seq(Int) /\ x \in Seq(BlockRec) /\ k \in Nat /\ o \in BOOLEAN /\ o
      /\ ta = [list |-> x, nr_free |-> k, ok |-> o]
  BY <1>1, TestFields DEF PmOK
<1>3. v = [t EXCEPT !.a = [ta EXCEPT !.list = << >>], !.store = x]
  BY DEF ListAside
<1> HIDE DEF x, k, o, v, ta
<1>4. v = [a |-> [list |-> << >>, nr_free |-> k, ok |-> o], got |-> t.got, store |-> x,
           nr_free_store |-> t.nr_free_store]
  <2> DEFINE e == [list |-> << >>, nr_free |-> k, ok |-> o]
  <2>0. ta = [list |-> x, nr_free |-> k, ok |-> o]
    BY <1>2
  <2>1. [ta EXCEPT !.list = << >>] = e
    BY <2>0
  <2> HIDE DEF e
  <2>2. v = [a |-> e, got |-> t.got, store |-> x, nr_free_store |-> t.nr_free_store]
    BY <1>2, <1>3, <2>1
  <2> QED
    BY <2>2 DEF e
<1>5. u = [v EXCEPT !.a = [v.a EXCEPT !.nr_free = 0], !.nr_free_store = v.a.nr_free]
  BY DEF CountAside
<1> HIDE DEF u
<1>6. v.a = [list |-> << >>, nr_free |-> k, ok |-> o]
  BY <1>4
<1>7. [v.a EXCEPT !.nr_free = 0] = c /\ v.a.nr_free = k
  BY <1>6
<1> HIDE DEF c
<1>8. u = [a |-> c, got |-> t.got, store |-> x, nr_free_store |-> k]
  BY <1>4, <1>5, <1>7
<1>9. u.a = c /\ u.got = t.got /\ u.store = x /\ u.nr_free_store = k
  BY <1>8
<1>10. c \in PmRec /\ c.ok /\ c.list = << >> /\ c.nr_free = 0
  BY <1>2 DEF PmRec, c
<1>11. PmOK(c) /\ None(c.list)
  BY <1>10, EmptyOK
<1>12. u \in TestRec
  BY <1>2, <1>8, <1>10 DEF TestRec
<1>13. Stands(u, m)
  BY <1>1, <1>9, <1>11, <1>12 DEF Stands
<1> QED
  BY <1>9, <1>11, <1>13 DEF u, v, x, k

(* The list is empty but its counter is not yet zero: there is no page. *)
LEMMA AsideNull ==
    ASSUME NEW t, NEW m \in Nat, Stands(t, m)
    PROVE  LET u == CountAside(TakeNull(ListAside(t), 1))
           IN  /\ Stands(u, m + 1) /\ None(u.a.list) /\ \A i \in 1..m : u.got[i] = t.got[i]
               /\ u.store = t.a.list /\ u.nr_free_store = t.a.nr_free
<1> DEFINE ta == t.a
           x == t.a.list
           k == t.a.nr_free
           o == t.a.ok
           e == [list |-> << >>, nr_free |-> k, ok |-> o]
           c == [list |-> << >>, nr_free |-> 0, ok |-> o]
           s == Append(t.got, NoFrame)
           v == ListAside(t)
           y == TakeNull(v, 1)
           u == CountAside(y)
<1>1. t \in TestRec /\ Len(t.got) = m /\ PmOK(t.a)
  BY DEF Stands
<1>2. /\ t = [a |-> t.a, got |-> t.got, store |-> t.store, nr_free_store |-> t.nr_free_store]
      /\ t.got \in Seq(Int) /\ x \in Seq(BlockRec) /\ k \in Nat /\ o \in BOOLEAN /\ o
      /\ ta = [list |-> x, nr_free |-> k, ok |-> o]
  BY <1>1, TestFields DEF PmOK
<1>3. v = [t EXCEPT !.a = [ta EXCEPT !.list = << >>], !.store = x]
  BY DEF ListAside
<1> HIDE DEF x, k, o, v, ta
<1>4. v = [a |-> e, got |-> t.got, store |-> x, nr_free_store |-> t.nr_free_store]
  <2>0. ta = [list |-> x, nr_free |-> k, ok |-> o]
    BY <1>2
  <2>1. [ta EXCEPT !.list = << >>] = e
    BY <2>0
  <2> HIDE DEF e
  <2> QED
    BY <1>2, <1>3, <2>1
<1>5. v.a = e /\ v.got = t.got
  BY <1>4
<1>6. default_alloc_pages(e, 1).a = e /\ default_alloc_pages(e, 1).page = NoFrame
  <2>1. e.list = << >>
    OBVIOUS
  <2> HIDE DEF e
  <2> QED
    BY <2>1, TakeNothing
<1>7. y = [v EXCEPT !.a = [e EXCEPT !.ok = @ /\ TRUE], !.got = s]
  <2> DEFINE r == default_alloc_pages(v.a, 1)
  <2>1. y = Took(v, r, r.page = NoFrame)
    BY DEF TakeNull
  <2>2. r.a = e /\ r.page = NoFrame
    BY <1>5, <1>6
  <2> HIDE DEF r, e
  <2>3. y = Took(v, r, TRUE)
    BY <2>1, <2>2
  <2> QED
    BY <1>5, <2>2, <2>3 DEF Took
<1>8. [e EXCEPT !.ok = @ /\ TRUE] = e
  BY <1>2
<1> HIDE DEF e, y
<1>9. y = [a |-> e, got |-> s, store |-> x, nr_free_store |-> t.nr_free_store]
  BY <1>4, <1>7, <1>8
<1>10. u = [y EXCEPT !.a = [y.a EXCEPT !.nr_free = 0], !.nr_free_store = y.a.nr_free]
  BY DEF CountAside
<1> HIDE DEF u
<1>11. y.a = e /\ e.nr_free = k /\ [e EXCEPT !.nr_free = 0] = c
  BY <1>9 DEF e
<1>12. s \in Seq(Int) /\ Len(s) = m + 1 /\ \A i \in 1..m : s[i] = t.got[i]
  BY <1>1, <1>2 DEF NoFrame
<1> HIDE DEF c, s
<1>13. u = [a |-> c, got |-> s, store |-> x, nr_free_store |-> k]
  BY <1>9, <1>10, <1>11
<1>14. u.a = c /\ u.got = s /\ u.store = x /\ u.nr_free_store = k
  BY <1>13
<1>15. c \in PmRec /\ c.ok /\ c.list = << >> /\ c.nr_free = 0
  BY <1>2 DEF PmRec, c
<1>16. PmOK(c) /\ None(c.list)
  BY <1>15, EmptyOK
<1>17. u \in TestRec
  BY <1>2, <1>12, <1>13, <1>15 DEF TestRec
<1>18. Stands(u, m + 1)
  BY <1>12, <1>14, <1>16, <1>17 DEF Stands
<1> QED
  BY <1>12, <1>14, <1>16, <1>18 DEF u, y, v, x, k

(* The list and its counter are put back. *)
LEMMA RestoreOK ==
    ASSUME NEW t, NEW m, Stands(t, m), ListOK(t.store), t.nr_free_store = Frees(t.store)
    PROVE  LET u == Restore(t) IN Moved(t, u, m) /\ u.a.list = t.store
<1> DEFINE ta == t.a
           l == t.a.list
           j == t.a.nr_free
           x == t.store
           k == t.nr_free_store
           o == t.a.ok
           c == [list |-> x, nr_free |-> k, ok |-> o]
<1>1. t \in TestRec /\ PmOK(t.a)
  BY DEF Stands
<1>2. /\ x \in Seq(BlockRec) /\ k \in Nat /\ o \in BOOLEAN /\ o
      /\ ta = [list |-> l, nr_free |-> j, ok |-> o]
  BY <1>1, TestFields DEF PmOK
<1>3. Restore(t) = [t EXCEPT !.a = [ta EXCEPT !.list = x, !.nr_free = k]]
  BY DEF Restore
<1>4. ListOK(x) /\ k = Frees(x)
  OBVIOUS
<1> HIDE DEF x, k, o, ta, l, j
<1>5. [ta EXCEPT !.list = x, !.nr_free = k] = c
  <2>1. ta = [list |-> l, nr_free |-> j, ok |-> o]
    BY <1>2
  <2>2. PICK y : y = [ta EXCEPT !.list = x, !.nr_free = k]
    OBVIOUS
  <2>3. y = [list |-> x, nr_free |-> k, ok |-> o]
    BY <2>1, <2>2
  <2> QED
    BY <2>2, <2>3
<1>6. PmOK(c) /\ c.list = x
  BY <1>2, <1>4 DEF PmOK, PmRec
<1> HIDE DEF c
<1>7. Restore(t) = [t EXCEPT !.a = c]
  BY <1>3, <1>5
<1> QED
  BY <1>6, <1>7, OtherPm DEF x

(* The steps of the test on lists of at most two blocks *)

(* free_pages to the empty list, *)
LEMMA GiveNone ==
    ASSUME NEW t, NEW m, Stands(t, m), NEW p, NEW k \in Nat, NEW n \in Nat, t.got[p] \in Nat,
           Region(t.got[p] + k, n), None(t.a.list)
    PROVE  LET u == Give(t, p, k, n)
           IN  Stands(u, m) /\ Kept(t, u, m) /\ One(u.a.list, Blk(t.got[p] + k, n))
<1> DEFINE f == t.got[p] + k
           c == default_free_pages(t.a, f, n)
           u == Give(t, p, k, n)
<1>1. f \in Nat /\ Page(t, p, k) = f
  BY DEF Page
<1>2. PmOK(t.a)
  BY DEF Stands
<1>3. Region(f, n)
  OBVIOUS
<1> HIDE DEF f
<1>4. PmOK(c) /\ One(c.list, Blk(f, n))
  BY <1>1, <1>2, <1>3, GiveToNone
<1>5. Moved(t, u, m) /\ u.a = c
  BY <1>1, <1>4, GiveOK
<1> HIDE DEF u, c
<1>6. Stands(u, m) /\ Kept(t, u, m) /\ One(u.a.list, Blk(f, n))
  BY <1>4, <1>5 DEF Moved, Kept
<1> QED
  BY <1>6 DEF f, u

(* to a list of one block, *)
LEMMA GiveOne ==
    ASSUME NEW t, NEW m, Stands(t, m), NEW p, NEW i \in Nat, NEW n \in Nat, NEW f \in Nat, t.got[p] + i = f,
           Region(f, n),
           NEW g \in Nat, NEW k \in Nat, k > 0, One(t.a.list, Blk(g, k)), f + n <= g \/ g + k <= f
    PROVE  LET u == Give(t, p, i, n)
           IN  /\ Stands(u, m) /\ Kept(t, u, m)
               /\ g + k = f => One(u.a.list, Blk(g, k + n))
               /\ f + n = g => One(u.a.list, Blk(f, n + k))
               /\ f + n < g => Two(u.a.list, Blk(f, n), Blk(g, k))
               /\ g + k < f => Two(u.a.list, Blk(g, k), Blk(f, n))
<1> DEFINE c == default_free_pages(t.a, f, n)
           u == Give(t, p, i, n)
<1>1. Page(t, p, i) = f
  BY DEF Page
<1>2. PmOK(t.a)
  BY DEF Stands
<1>4. /\ PmOK(c)
      /\ g + k = f => One(c.list, Blk(g, k + n))
      /\ f + n = g => One(c.list, Blk(f, n + k))
      /\ f + n < g => Two(c.list, Blk(f, n), Blk(g, k))
      /\ g + k < f => Two(c.list, Blk(g, k), Blk(f, n))
  BY <1>2, GiveToOne
<1>5. Moved(t, u, m) /\ u.a = c
  BY <1>1, <1>4, GiveOK
<1> HIDE DEF u, c
<1>6. Stands(u, m) /\ Kept(t, u, m)
  BY <1>5 DEF Moved, Kept
<1> QED
  BY <1>4, <1>5, <1>6 DEF u

(* and between two blocks. *)
LEMMA GiveTwo ==
    ASSUME NEW t, NEW m, Stands(t, m), NEW p, NEW i \in Nat, NEW n \in Nat, NEW f \in Nat, t.got[p] + i = f,
           Region(f, n),
           NEW g \in Nat, NEW k \in Nat, k > 0, NEW h \in Nat, NEW j \in Nat, j > 0,
           Two(t.a.list, Blk(g, k), Blk(h, j)), g + k <= f, f + n <= h
    PROVE  LET u == Give(t, p, i, n)
           IN  /\ Stands(u, m) /\ Kept(t, u, m)
               /\ g + k = f /\ f + n < h => Two(u.a.list, Blk(g, k + n), Blk(h, j))
               /\ g + k = f /\ f + n = h => One(u.a.list, Blk(g, (k + n) + j))
               /\ g + k < f /\ f + n = h => Two(u.a.list, Blk(g, k), Blk(f, n + j))
<1> DEFINE c == default_free_pages(t.a, f, n)
           u == Give(t, p, i, n)
<1>1. Page(t, p, i) = f
  BY DEF Page
<1>2. PmOK(t.a)
  BY DEF Stands
<1>4. /\ PmOK(c)
      /\ g + k = f /\ f + n < h => Two(c.list, Blk(g, k + n), Blk(h, j))
      /\ g + k = f /\ f + n = h => One(c.list, Blk(g, (k + n) + j))
      /\ g + k < f /\ f + n = h => Two(c.list, Blk(g, k), Blk(f, n + j))
  BY <1>2, GiveToTwo
<1>5. Moved(t, u, m) /\ u.a = c
  BY <1>1, <1>4, GiveOK
<1> HIDE DEF u, c
<1>6. Stands(u, m) /\ Kept(t, u, m)
  BY <1>5 DEF Moved, Kept
<1> QED
  BY <1>4, <1>5, <1>6 DEF u

(* An assertion that holds changes neither the list nor the pages. *)
LEMMA MustStep ==
    ASSUME NEW t, NEW m, Stands(t, m), NEW w, w = TRUE
    PROVE  LET u == Must(t, w) IN Stands(u, m) /\ Kept(t, u, m) /\ u.a.list = t.a.list
<1> DEFINE u == Must(t, TRUE)
<1>1. Moved(t, u, m) /\ u.a.list = t.a.list
  BY MustOK
<1>2. Must(t, w) = u
  OBVIOUS
<1> HIDE DEF u
<1> QED
  BY <1>1, <1>2 DEF Moved, Kept

(* Kept pages are kept over several steps. *)
LEMMA KeptTwice ==
    ASSUME NEW t, NEW u, NEW v, NEW m \in Nat, NEW k \in Nat, m <= k, Kept(t, u, m), Kept(u, v, k)
    PROVE  Kept(t, v, m)
<1> QED
  BY DEF Kept

(* Three pages in a row are side by side. *)
LEMMA ThreeTaken ==
    ASSUME NEW t, NEW m \in Nat, Stands(t, m), NEW f \in Nat, NEW j \in Nat, j >= 3, One(t.a.list, Blk(f, j))
    PROVE  LET u == TakeThree(t)
           IN  /\ Stands(u, m + 3) /\ Kept(t, u, m)
               /\ u.got[m + 1] = f /\ u.got[m + 2] = f + 1 /\ u.got[m + 3] = f + 2
               /\ j > 3 => One(u.a.list, Blk(f + 3, j - 3))
               /\ j = 3 => None(u.a.list)
<1> DEFINE a == TakeSome(t, 1)
           b == TakeSome(a, 1)
           c == TakeSome(b, 1)
<1>0. /\ j - 1 \in Nat /\ j - 2 \in Nat /\ f + 1 \in Nat /\ f + 2 \in Nat /\ m + 1 \in Nat /\ m + 2 \in Nat
      /\ 1 < j /\ 1 < j - 1 /\ 1 <= j - 2 /\ 1 \in Nat
      /\ (f + 1) + 1 = f + 2 /\ (j - 1) - 1 = j - 2 /\ (f + 2) + 1 = f + 3 /\ (j - 2) - 1 = j - 3
      /\ (m + 1) + 1 = m + 2 /\ (m + 2) + 1 = m + 3
      /\ (j > 3 => 1 < j - 2) /\ (j = 3 => 1 = j - 2)
  OBVIOUS
<1>1. Stands(a, m + 1) /\ Kept(t, a, m) /\ a.got[m + 1] = f /\ One(a.a.list, Blk(f + 1, j - 1))
  BY <1>0, SomeOfOne
<1> HIDE DEF a
<1>2. Stands(b, m + 2) /\ Kept(a, b, m + 1) /\ b.got[m + 2] = f + 1 /\ One(b.a.list, Blk(f + 2, j - 2))
  <2>1. /\ Stands(b, (m + 1) + 1) /\ Kept(a, b, m + 1) /\ b.got[(m + 1) + 1] = f + 1
        /\ One(b.a.list, Blk((f + 1) + 1, (j - 1) - 1))
    BY <1>0, <1>1, SomeOfOne
  <2> QED
    BY <1>0, <2>1
<1> HIDE DEF b
<1>3. /\ Stands(c, m + 3) /\ Kept(b, c, m + 2) /\ c.got[m + 3] = f + 2
      /\ j > 3 => One(c.a.list, Blk(f + 3, j - 3))
      /\ j = 3 => None(c.a.list)
  <2>1. /\ Stands(c, (m + 2) + 1) /\ Kept(b, c, m + 2) /\ c.got[(m + 2) + 1] = f + 2
        /\ 1 < j - 2 => One(c.a.list, Blk((f + 2) + 1, (j - 2) - 1))
        /\ 1 = j - 2 => None(c.a.list)
    BY <1>0, <1>2, SomeOfOne
  <2> QED
    BY <1>0, <2>1
<1> HIDE DEF c
<1>4. Kept(t, c, m)
  <2>1. Kept(t, b, m)
    BY <1>0, <1>1, <1>2, KeptTwice
  <2> QED
    BY <1>0, <2>1, <1>3, KeptTwice
<1>5. c.got[m + 1] = f /\ c.got[m + 2] = f + 1
  BY <1>0, <1>1, <1>2, <1>3 DEF Kept
<1>6. c = TakeThree(t)
  BY DEF TakeThree, a, b, c
<1> QED
  BY <1>3, <1>4, <1>5, <1>6

(* The three pages of basic_check, from the i-th on. *)
Three(t, i) == t.got[i] = 0 /\ t.got[i + 1] = 1 /\ t.got[i + 2] = 2

(* They stay what the test has got. *)
LEMMA ThreeKept ==
    ASSUME NEW t, NEW u, NEW m \in Nat, NEW i \in Nat \ {0}, i + 2 <= m, Three(t, i), Kept(t, u, m)
    PROVE  Three(u, i)
<1> QED
  BY DEF Kept, Three

(* basic_check gives its pages back to the empty list. *)
LEMMA ThreeToNone ==
    ASSUME NEW t, NEW m \in Nat, Stands(t, m), NEW i \in Nat \ {0}, i + 2 <= m, Three(t, i), None(t.a.list)
    PROVE  LET u == GiveThree(t, i) IN Stands(u, m) /\ Kept(t, u, m) /\ One(u.a.list, Blk(0, 3))
<1> DEFINE a == Give(t, i, 0, 1)
           b == Give(a, i + 1, 0, 1)
           c == Give(b, i + 2, 0, 1)
<1>0. Region(0, 1) /\ Region(1, 1) /\ Region(2, 1)
  BY PageAllocAssumption DEF Region
<1>1. Stands(a, m) /\ Kept(t, a, m) /\ One(a.a.list, Blk(0, 1))
  <2>1. t.got[i] \in Nat /\ t.got[i] + 0 = 0
    BY DEF Three
  <2> QED
    BY <1>0, <2>1, GiveNone
<1> HIDE DEF a
<1>2. Stands(b, m) /\ Kept(a, b, m) /\ One(b.a.list, Blk(0, 2))
  <2>0. Three(a, i)
    BY <1>1, ThreeKept
  <2>1. a.got[i + 1] + 0 = 1
    BY <2>0 DEF Three
  <2>2. Stands(b, m) /\ Kept(a, b, m) /\ One(b.a.list, Blk(0, 1 + 1))
    <3>1. 0 + 1 = 1
      OBVIOUS
    <3> QED
      BY <1>0, <1>1, <2>1, <3>1, GiveOne
  <2>3. 1 + 1 = 2
    OBVIOUS
  <2> QED
    BY <2>2, <2>3
<1> HIDE DEF b
<1>3. Kept(t, b, m)
  BY <1>1, <1>2, KeptTwice
<1>4. Stands(c, m) /\ Kept(b, c, m) /\ One(c.a.list, Blk(0, 3))
  <2>0. Three(b, i)
    BY <1>3, ThreeKept
  <2>1. b.got[i + 2] + 0 = 2
    BY <2>0 DEF Three
  <2>2. Stands(c, m) /\ Kept(b, c, m) /\ One(c.a.list, Blk(0, 2 + 1))
    <3>1. 0 + 2 = 2
      OBVIOUS
    <3> QED
      BY <1>0, <1>2, <2>1, <3>1, GiveOne
  <2>3. 2 + 1 = 3
    OBVIOUS
  <2> QED
    BY <2>2, <2>3
<1> HIDE DEF c
<1>5. Kept(t, c, m)
  BY <1>3, <1>4, KeptTwice
<1>6. GiveThree(t, i) = c
  BY DEF GiveThree, a, b, c
<1> QED
  BY <1>4, <1>5, <1>6

(* It gives them back to what it had left of the list. *)
LEMMA ThreeToRest ==
    ASSUME NEW t, NEW m \in Nat, Stands(t, m), NEW i \in Nat \ {0}, i + 2 <= m, Three(t, i),
           One(t.a.list, Blk(3, NPages - 3))
    PROVE  LET u == GiveThree(t, i) IN Stands(u, m) /\ Kept(t, u, m) /\ One(u.a.list, Blk(0, NPages))
<1> DEFINE r == NPages - 3
           a == Give(t, i, 0, 1)
           b == Give(a, i + 1, 0, 1)
           c == Give(b, i + 2, 0, 1)
<1>0. /\ Region(0, 1) /\ Region(1, 1) /\ Region(2, 1)
      /\ r \in Nat /\ r > 0 /\ 3 + r = NPages
  BY PageAllocAssumption DEF Region
<1> HIDE DEF r
<1>a. One(t.a.list, Blk(3, r))
  BY DEF r
<1>1. Stands(a, m) /\ Kept(t, a, m) /\ Two(a.a.list, Blk(0, 1), Blk(3, r))
  <2>1. t.got[i] + 0 = 0 /\ 0 + 1 < 3 /\ 0 + 1 <= 3
    BY DEF Three
  <2> QED
    BY <1>0, <1>a, <2>1, GiveOne
<1> HIDE DEF a
<1>2. Stands(b, m) /\ Kept(a, b, m) /\ Two(b.a.list, Blk(0, 2), Blk(3, r))
  <2>0. Three(a, i)
    BY <1>1, ThreeKept
  <2>1. a.got[i + 1] + 0 = 1
    BY <2>0 DEF Three
  <2>2. Stands(b, m) /\ Kept(a, b, m) /\ Two(b.a.list, Blk(0, 1 + 1), Blk(3, r))
    <3>1. 0 + 1 = 1 /\ 1 + 1 < 3 /\ 1 + 1 <= 3 /\ 0 + 1 <= 1
      OBVIOUS
    <3> QED
      BY <1>0, <1>1, <2>1, <3>1, GiveTwo
  <2>3. 1 + 1 = 2
    OBVIOUS
  <2> QED
    BY <2>2, <2>3
<1> HIDE DEF b
<1>3. Kept(t, b, m)
  BY <1>1, <1>2, KeptTwice
<1>4. Stands(c, m) /\ Kept(b, c, m) /\ One(c.a.list, Blk(0, NPages))
  <2>0. Three(b, i)
    BY <1>3, ThreeKept
  <2>1. b.got[i + 2] + 0 = 2
    BY <2>0 DEF Three
  <2>2. Stands(c, m) /\ Kept(b, c, m) /\ One(c.a.list, Blk(0, (2 + 1) + r))
    <3>1. 0 + 2 = 2 /\ 2 + 1 = 3 /\ 2 + 1 <= 3 /\ 0 + 2 <= 2
      OBVIOUS
    <3> QED
      BY <1>0, <1>2, <2>1, <3>1, GiveTwo
  <2>3. (2 + 1) + r = NPages
    BY <1>0
  <2> QED
    BY <2>2, <2>3
<1> HIDE DEF c
<1>5. Kept(t, c, m)
  BY <1>3, <1>4, KeptTwice
<1>6. GiveThree(t, i) = c
  BY DEF GiveThree, a, b, c
<1> QED
  BY <1>4, <1>5, <1>6

(* Three pages of three calls differ. *)
LEMMA ThreeDiffer ==
    ASSUME NEW t, Stands(t, 3), Three(t, 1)
    PROVE  Cardinality(Range(t.got)) = 3
<1>1. t.got \in Seq(Int) /\ Len(t.got) = 3
  BY DEF Stands, TestRec
<1>2. DOMAIN t.got = 1..3
  BY <1>1
<1>3. t.got[1] = 0 /\ t.got[2] = 1 /\ t.got[3] = 2
  BY DEF Three
<1>4. Range(t.got) = {0, 1, 2}
  <2>1. 1..3 = {1, 2, 3}
    OBVIOUS
  <2> QED
    BY <1>2, <1>3, <2>1 DEF Range
<1>5. {0, 1, 2} = 0..2
  OBVIOUS
<1>6. PICK x \in Int, y \in Int : x = 0 /\ y = 2
  OBVIOUS
<1>7. Cardinality(x..y) = IF x > y THEN 0 ELSE y - x + 1
  BY FS_Interval
<1>a. ~(x > y) /\ y - x + 1 = 3
  BY <1>6
<1>8. Cardinality(x..y) = 3
  BY <1>7, <1>a
<1>9. Range(t.got) = x..y
  BY <1>4, <1>5, <1>6
<1> QED
  BY <1>8, <1>9

(* The empty list has no frames. *)
LEMMA NoneFrees ==
    ASSUME NEW l, None(l)
    PROVE  Frees(l) = 0
<1>1. [base |-> 0, n |-> 1] \in BlockRec
  BY DEF BlockRec
<1> QED
  BY <1>1, SmallFrees

(* A list of one block has its frames. *)
LEMMA OneFrees ==
    ASSUME NEW l, NEW f \in Nat, NEW n \in Nat, n > 0, One(l, Blk(f, n))
    PROVE  Frees(l) = n
<1>1. Blk(f, n) \in BlockRec /\ Blk(f, n).n = n
  BY BlkIs
<1> QED
  BY <1>1, SmallFrees

(* The assertion on nr_free. *)
LEMMA FreeStep ==
    ASSUME NEW t, NEW m, Stands(t, m), NEW n, Frees(t.a.list) = n
    PROVE  LET u == MustFree(t, n) IN Stands(u, m) /\ Kept(t, u, m) /\ u.a.list = t.a.list
<1>1. (t.a.nr_free = n) = TRUE
  BY DEF Stands, PmOK
<1> QED
  BY <1>1, MustStep DEF MustFree

(* What was put aside stays there. *)
LEMMA StoredKept ==
    ASSUME NEW t, NEW u, NEW m, Kept(t, u, m), NEW b
    PROVE  (Stored(t, b) => Stored(u, b)) /\ (NoneStored(t) => NoneStored(u))
<1> QED
  BY DEF Kept, Stored, NoneStored

(* The test begins. *)
LEMMA TestOK ==
    ASSUME NEW a, PmOK(a)
    PROVE  Stands(Test(a), 0) /\ Test(a).a = a
<1> DEFINE e == << >>
<1>1. e \in Seq(Int) /\ e \in Seq(BlockRec) /\ Len(e) = 0
  OBVIOUS
<1> HIDE DEF e
<1>2. Test(a) = [a |-> a, got |-> e, store |-> e, nr_free_store |-> 0]
  BY DEF Test, e
<1>3. a \in PmRec
  BY DEF PmOK
<1> QED
  BY <1>1, <1>2, <1>3 DEF Stands, TestRec

(* The first half of basic_check: three pages, then an empty list. *)
LEMMA BasicAlone ==
    ASSUME NEW t, Stands(t, 0), One(t.a.list, Blk(0, NPages))
    PROVE  LET u == CountAside(ListAside(MustDiffer(TakeThree(t))))
           IN  Stands(u, 3) /\ Three(u, 1) /\ None(u.a.list) /\ Stored(u, Blk(3, NPages - 3))
<1> DEFINE t1 == TakeThree(t)
           t2 == MustDiffer(t1)
           t3 == CountAside(ListAside(t2))
<1>1. Stands(t1, 3) /\ Three(t1, 1) /\ One(t1.a.list, Blk(3, NPages - 3))
  <2>1. /\ NPages \in Nat /\ NPages >= 3 /\ NPages > 3 /\ 0 \in Nat
    BY PageAllocAssumption
  <2>2. /\ Stands(t1, 0 + 3) /\ t1.got[0 + 1] = 0 /\ t1.got[0 + 2] = 0 + 1 /\ t1.got[0 + 3] = 0 + 2
        /\ One(t1.a.list, Blk(0 + 3, NPages - 3))
    BY <2>1, ThreeTaken
  <2> HIDE DEF t1
  <2>3. 0 + 3 = 3 /\ 0 + 1 = 1 /\ 0 + 2 = 2 /\ 1 + 1 = 2 /\ 1 + 2 = 3
    OBVIOUS
  <2> QED
    BY <2>2, <2>3 DEF Three
<1> HIDE DEF t1
<1>2. Stands(t2, 3) /\ Kept(t1, t2, 3) /\ t2.a.list = t1.a.list
  <2>1. (Cardinality(Range(t1.got)) = 3) = TRUE
    BY <1>1, ThreeDiffer
  <2> QED
    BY <1>1, <2>1, MustStep DEF MustDiffer
<1> HIDE DEF t2
<1>3. Three(t2, 1)
  BY <1>1, <1>2, ThreeKept
<1>4. PmOK(t2.a)
  BY <1>2 DEF Stands
<1>5. /\ Stands(t3, 3) /\ t3.got = t2.got /\ None(t3.a.list)
      /\ t3.store = t2.a.list /\ t3.nr_free_store = t2.a.nr_free
  BY <1>2, AsideOK
<1> HIDE DEF t3
<1>6. Three(t3, 1)
  BY <1>3, <1>5 DEF Three
<1>7. Stored(t3, Blk(3, NPages - 3))
  BY <1>1, <1>2, <1>4, <1>5 DEF Stored, PmOK
<1>8. t3 = CountAside(ListAside(MustDiffer(TakeThree(t))))
  BY DEF t1, t2, t3
<1> QED
  BY <1>5, <1>6, <1>7, <1>8

(* The second half: they go to the empty list and come from it again. *)
LEMMA BasicAgain ==
    ASSUME NEW t, Stands(t, 3), Three(t, 1), None(t.a.list), NEW b, Stored(t, b)
    PROVE  LET given == MustFree(GiveThree(TakeNull(t, 1), 1), 3)
               again == Give(TakeNull(TakeThree(given), 1), 5, 0, 1)
           IN  Stands(again, 8) /\ Three(again, 5) /\ One(again.a.list, Blk(0, 1)) /\ Stored(again, b)
<1> DEFINE t4 == TakeNull(t, 1)
           t5 == GiveThree(t4, 1)
           t6 == MustFree(t5, 3)
           t7 == TakeThree(t6)
           t8 == TakeNull(t7, 1)
           t9 == Give(t8, 5, 0, 1)
<1>0. /\ 3 + 1 = 4 /\ 4 + 3 = 7 /\ 7 + 1 = 8 /\ 4 + 1 = 5 /\ 4 + 2 = 6 /\ 5 + 1 = 6 /\ 5 + 2 = 7
      /\ 3 \in Nat /\ 4 \in Nat /\ 7 \in Nat /\ 8 \in Nat /\ 0 < 1 /\ 1 \in Nat \ {0} /\ 5 \in Nat \ {0}
      /\ 1 + 2 <= 3 /\ 1 + 2 <= 4 /\ 5 + 2 <= 7 /\ 5 + 2 <= 8 /\ 0 + 1 = 1 /\ 0 + 2 = 2
  OBVIOUS
<1>1. Stands(t4, 4) /\ Kept(t, t4, 3) /\ t4.a.list = t.a.list
  <2>1. Frees(t.a.list) < 1
    BY NoneFrees
  <2> QED
    BY <1>0, <2>1, NullStep
<1> HIDE DEF t4
<1>2. Three(t4, 1) /\ None(t4.a.list) /\ Stored(t4, b)
  BY <1>0, <1>1, ThreeKept, StoredKept
<1>3. Stands(t5, 4) /\ Kept(t4, t5, 4) /\ One(t5.a.list, Blk(0, 3))
  BY <1>0, <1>1, <1>2, ThreeToNone
<1> HIDE DEF t5
<1>4. Stands(t6, 4) /\ Kept(t5, t6, 4) /\ One(t6.a.list, Blk(0, 3))
  <2>1. Frees(t5.a.list) = 3
    BY <1>3, OneFrees
  <2> QED
    BY <1>3, <2>1, FreeStep
<1> HIDE DEF t6
<1>5. Stored(t6, b)
  BY <1>2, <1>3, <1>4, StoredKept
<1>6. Stands(t7, 7) /\ Kept(t6, t7, 4) /\ Three(t7, 5) /\ None(t7.a.list)
  <2>1. /\ Stands(t7, 4 + 3) /\ Kept(t6, t7, 4)
        /\ t7.got[4 + 1] = 0 /\ t7.got[4 + 2] = 0 + 1 /\ t7.got[4 + 3] = 0 + 2
        /\ None(t7.a.list)
    BY <1>0, <1>4, ThreeTaken
  <2> HIDE DEF t7
  <2> QED
    BY <1>0, <2>1 DEF Three
<1> HIDE DEF t7
<1>7. Stands(t8, 8) /\ Kept(t7, t8, 7) /\ t8.a.list = t7.a.list
  <2>1. Frees(t7.a.list) < 1
    BY <1>6, NoneFrees
  <2> QED
    BY <1>0, <1>6, <2>1, NullStep
<1> HIDE DEF t8
<1>8. Three(t8, 5) /\ None(t8.a.list) /\ Stored(t8, b)
  BY <1>0, <1>5, <1>6, <1>7, ThreeKept, StoredKept
<1>9. Stands(t9, 8) /\ Kept(t8, t9, 8) /\ One(t9.a.list, Blk(0, 1))
  <2>1. t8.got[5] \in Nat /\ t8.got[5] + 0 = 0
    BY <1>8 DEF Three
  <2>2. Region(0, 1)
    BY PageAllocAssumption DEF Region
  <2> QED
    BY <1>7, <1>8, <2>1, <2>2, GiveNone
<1> HIDE DEF t9
<1>10. Three(t9, 5) /\ Stored(t9, b)
  BY <1>0, <1>8, <1>9, ThreeKept, StoredKept
<1>11. t9 = Give(TakeNull(TakeThree(MustFree(GiveThree(TakeNull(t, 1), 1), 3)), 1), 5, 0, 1)
  BY DEF t4, t5, t6, t7, t8, t9
<1> QED
  BY <1>9, <1>10, <1>11

(* The end of basic_check: the list comes back, and the pages to it. *)
LEMMA BasicBack ==
    ASSUME NEW t, Stands(t, 8), Three(t, 5), One(t.a.list, Blk(0, 1)), Stored(t, Blk(3, NPages - 3))
    PROVE  LET taken == MustFree(TakeNull(TakeAt(t, 1, Page(t, 5, 0)), 1), 0)
               u == GiveThree(Restore(taken), 5)
           IN  Stands(u, 10) /\ One(u.a.list, Blk(0, NPages))
<1> DEFINE b == Blk(3, NPages - 3)
           t1 == TakeAt(t, 1, Page(t, 5, 0))
           t2 == TakeNull(t1, 1)
           t3 == MustFree(t2, 0)
           t4 == Restore(t3)
           t5 == GiveThree(t4, 5)
<1>0. /\ 8 + 1 = 9 /\ 9 + 1 = 10 /\ 8 \in Nat /\ 9 \in Nat /\ 10 \in Nat /\ 5 \in Nat \ {0}
      /\ 5 + 2 <= 8 /\ 5 + 2 <= 9 /\ 5 + 2 <= 10 /\ 1 <= 1 /\ 1 > 0
  OBVIOUS
<1>1. Page(t, 5, 0) = 0
  BY DEF Page, Three
<1>2. Stands(t1, 9) /\ Kept(t, t1, 8) /\ None(t1.a.list)
  <2>1. t1 = TakeAt(t, 1, 0)
    BY <1>1
  <2> HIDE DEF t1
  <2> QED
    BY <1>0, <2>1, SomeOfOne
<1> HIDE DEF t1
<1>3. Stands(t2, 10) /\ Kept(t1, t2, 9) /\ t2.a.list = t1.a.list
  <2>1. Frees(t1.a.list) < 1
    BY <1>2, NoneFrees
  <2> QED
    BY <1>0, <1>2, <2>1, NullStep
<1> HIDE DEF t2
<1>4. Stands(t3, 10) /\ Kept(t2, t3, 10)
  <2>1. Frees(t2.a.list) = 0
    BY <1>2, <1>3, NoneFrees
  <2> QED
    BY <1>3, <2>1, FreeStep
<1> HIDE DEF t3
<1>5. Stored(t3, b) /\ Three(t3, 5)
  <2>1. Stored(t1, b) /\ Three(t1, 5)
    BY <1>0, <1>2, ThreeKept, StoredKept
  <2>2. Stored(t2, b) /\ Three(t2, 5)
    BY <1>0, <1>3, <2>1, ThreeKept, StoredKept
  <2> QED
    BY <1>0, <1>4, <2>2, ThreeKept, StoredKept
<1>6. Stands(t4, 10) /\ Three(t4, 5) /\ One(t4.a.list, b)
  <2>1. Moved(t3, t4, 10) /\ t4.a.list = t3.store
    BY <1>4, <1>5, RestoreOK DEF Stored
  <2> HIDE DEF t4
  <2> QED
    BY <1>5, <2>1 DEF Moved, Stored, Three
<1> HIDE DEF t4
<1>7. Stands(t5, 10) /\ One(t5.a.list, Blk(0, NPages))
  BY <1>0, <1>6, ThreeToRest
<1> HIDE DEF t5
<1>8. t5 = GiveThree(Restore(MustFree(TakeNull(TakeAt(t, 1, Page(t, 5, 0)), 1), 0)), 5)
  BY DEF t1, t2, t3, t4, t5
<1> QED
  BY <1>7, <1>8

(* basic_check leaves the list as it was. *)
LEMMA BasicOK ==
    ASSUME NEW a, PmOK(a), One(a.list, Blk(0, NPages))
    PROVE  PmOK(basic_check(a)) /\ One(basic_check(a).list, Blk(0, NPages))
<1> DEFINE alone == CountAside(ListAside(MustDiffer(TakeThree(Test(a)))))
           again == Give(TakeNull(TakeThree(MustFree(GiveThree(TakeNull(alone, 1), 1), 3)), 1), 5, 0, 1)
           u == GiveThree(Restore(MustFree(TakeNull(TakeAt(again, 1, Page(again, 5, 0)), 1), 0)), 5)
<1>1. basic_check(a) = u.a
  BY DEF basic_check
<1>2. /\ Stands(alone, 3) /\ Three(alone, 1) /\ None(alone.a.list) /\ Stored(alone, Blk(3, NPages - 3))
  <2>1. Stands(Test(a), 0) /\ One(Test(a).a.list, Blk(0, NPages))
    BY TestOK
  <2> QED
    BY <2>1, BasicAlone
<1> HIDE DEF alone
<1>3. Stands(again, 8) /\ Three(again, 5) /\ One(again.a.list, Blk(0, 1)) /\ Stored(again, Blk(3, NPages - 3))
  BY <1>2, BasicAgain
<1> HIDE DEF again
<1>4. Stands(u, 10) /\ One(u.a.list, Blk(0, NPages))
  BY <1>3, BasicBack
<1> HIDE DEF u
<1> QED
  BY <1>1, <1>4 DEF Stands

(* default_check: the page that it takes first, and what it puts aside. *)
FromZero(t) == t.got[1] = 0
RestStored(t) ==
    /\ NPages > 5 => Stored(t, Blk(5, NPages - 5))
    /\ NPages = 5 => NoneStored(t)
Goes(t, m) == Stands(t, m) /\ FromZero(t) /\ RestStored(t)

(* A step that keeps the first page and what was put aside. *)
LEMMA GoesOn ==
    ASSUME NEW t, NEW m \in Nat, m > 0, Goes(t, m), NEW u, NEW k, Stands(u, k), Kept(t, u, m)
    PROVE  Goes(u, k)
<1>1. FromZero(u)
  BY DEF Goes, FromZero, Kept
<1>2. RestStored(u)
  BY StoredKept DEF Goes, RestStored
<1> QED
  BY <1>1, <1>2 DEF Goes

(* A block of the list is seen. *)
LEMMA HeadStep ==
    ASSUME NEW t, NEW m \in Nat, m > 0, Goes(t, m), NEW k \in Nat, NEW n \in Nat, n > 0,
           NEW b, NEW c, \/ One(t.a.list, Blk(k, n))
                         \/ Two(t.a.list, Blk(k, n), c)
                         \/ Two(t.a.list, b, Blk(k, n))
    PROVE  LET u == MustHead(t, k, n) IN Goes(u, m) /\ u.a.list = t.a.list
<1> DEFINE u == MustHead(t, k, n)
<1>1. Page(t, 1, k) = k
  BY DEF Page, Goes, FromZero
<1>2. \E i \in 1..Len(t.a.list) : t.a.list[i] = Blk(k, n)
  BY DEF One, Two
<1>3. Heads(t, k, n) = TRUE
  BY <1>2 DEF Heads, Blk
<1>4. u = Must(t, Heads(t, k, n))
  BY <1>1 DEF MustHead
<1> HIDE DEF u
<1>5. Stands(u, m) /\ Kept(t, u, m) /\ u.a.list = t.a.list
  BY <1>3, <1>4, MustStep DEF Goes
<1> QED
  BY <1>5, GoesOn DEF u

(* The steps of default_check on what it has taken first. *)
LEMMA GoesNull ==
    ASSUME NEW t, NEW m \in Nat, m > 0, Goes(t, m), NEW n \in Nat, Frees(t.a.list) < n
    PROVE  LET u == TakeNull(t, n) IN Goes(u, m + 1) /\ u.a.list = t.a.list
<1> DEFINE u == TakeNull(t, n)
<1>1. Stands(u, m + 1) /\ Kept(t, u, m) /\ u.a.list = t.a.list
  BY NullStep DEF Goes
<1> HIDE DEF u
<1> QED
  BY <1>1, GoesOn DEF u

(* Pages counted from the first one, frame 0. *)
LEMMA GoesBack ==
    ASSUME NEW t, NEW k \in Nat, NEW n, FromZero(t)
    PROVE  TakeBack(t, k, n) = TakeAt(t, n, k) /\ t.got[1] + k = k /\ t.got[1] \in Nat
<1>1. Page(t, 1, k) = k
  BY DEF Page, FromZero
<1>2. t.got[1] + k = k /\ t.got[1] \in Nat
  BY DEF FromZero
<1> QED
  BY <1>1, <1>2 DEF TakeBack

(* default_check takes five pages, puts the list aside and gives three back. *)
LEMMA CheckHole ==
    ASSUME NEW t, Stands(t, 0), One(t.a.list, Blk(0, NPages))
    PROVE  LET five == TakeSome(t, 5)
               part == TakeNull(Give(CountAside(TakeNull(ListAside(five), 1)), 1, 2, 3), 4)
               three == TakeBack(MustHead(part, 2, 3), 2, 3)
               hole == Give(Give(TakeNull(three, 1), 1, 0, 1), 1, 2, 3)
           IN  Goes(hole, 5) /\ Two(hole.a.list, Blk(0, 1), Blk(2, 3))
<1> DEFINE t1 == TakeSome(t, 5)
           t2 == CountAside(TakeNull(ListAside(t1), 1))
           t3 == Give(t2, 1, 2, 3)
           t4 == TakeNull(t3, 4)
           t5 == MustHead(t4, 2, 3)
           t6 == TakeBack(t5, 2, 3)
           t7 == TakeNull(t6, 1)
           t8 == Give(t7, 1, 0, 1)
           t9 == Give(t8, 1, 2, 3)
<1>0. /\ 0 + 1 = 1 /\ 1 + 1 = 2 /\ 2 + 1 = 3 /\ 3 + 1 = 4 /\ 4 + 1 = 5
      /\ 1 \in Nat /\ 2 \in Nat /\ 3 \in Nat /\ 4 \in Nat /\ 5 \in Nat /\ 0 \in Nat
      /\ 1 > 0 /\ 2 > 0 /\ 3 > 0 /\ 4 > 0 /\ 5 > 0 /\ 3 < 4 /\ 0 < 1 /\ 3 <= 3
  OBVIOUS
<1>a. /\ NPages \in Nat /\ 5 <= NPages /\ (5 < NPages \/ 5 = NPages)
      /\ NPages > 5 => NPages - 5 \in Nat /\ NPages - 5 > 0
      /\ Region(0, 1) /\ Region(2, 3)
  BY PageAllocAssumption DEF Region
<1>1. /\ Stands(t1, 1) /\ t1.got[1] = 0
      /\ NPages > 5 => One(t1.a.list, Blk(5, NPages - 5))
      /\ NPages = 5 => None(t1.a.list)
  <2>1. /\ Stands(t1, 0 + 1) /\ t1.got[0 + 1] = 0
        /\ 5 < NPages => One(t1.a.list, Blk(0 + 5, NPages - 5))
        /\ 5 = NPages => None(t1.a.list)
    BY <1>0, <1>a, SomeOfOne
  <2> HIDE DEF t1
  <2>2. 0 + 5 = 5
    OBVIOUS
  <2> QED
    BY <1>0, <1>a, <2>1, <2>2
<1> HIDE DEF t1
<1>2. Goes(t2, 2) /\ None(t2.a.list)
  <2>1. /\ Stands(t2, 1 + 1) /\ None(t2.a.list) /\ \A i \in 1..1 : t2.got[i] = t1.got[i]
        /\ t2.store = t1.a.list /\ t2.nr_free_store = t1.a.nr_free
    BY <1>0, <1>1, AsideNull
  <2> HIDE DEF t2
  <2>2. FromZero(t2)
    BY <1>1, <2>1 DEF FromZero
  <2>3. ListOK(t1.a.list) /\ t1.a.nr_free = Frees(t1.a.list)
    BY <1>1 DEF Stands, PmOK
  <2>4. RestStored(t2)
    BY <1>1, <2>1, <2>3 DEF RestStored, Stored, NoneStored
  <2> QED
    BY <1>0, <2>1, <2>2, <2>4 DEF Goes
<1> HIDE DEF t2
<1>3. Goes(t3, 2) /\ One(t3.a.list, Blk(2, 3))
  <2>1. FromZero(t2) /\ Stands(t2, 2)
    BY <1>2 DEF Goes
  <2>2. t2.got[1] + 2 = 2 /\ t2.got[1] \in Nat
    BY <2>1, GoesBack
  <2>3. Stands(t3, 2) /\ Kept(t2, t3, 2) /\ One(t3.a.list, Blk(2, 3))
    BY <1>0, <1>a, <1>2, <2>1, <2>2, GiveNone
  <2> QED
    BY <1>0, <1>2, <2>3, GoesOn
<1> HIDE DEF t3
<1>4. Goes(t4, 3) /\ One(t4.a.list, Blk(2, 3))
  <2>1. Frees(t3.a.list) < 4
    BY <1>0, <1>3, OneFrees
  <2> QED
    BY <1>0, <1>3, <2>1, GoesNull
<1> HIDE DEF t4
<1>5. Goes(t5, 3) /\ One(t5.a.list, Blk(2, 3))
  BY <1>0, <1>4, HeadStep
<1> HIDE DEF t5
<1>6. Goes(t6, 4) /\ None(t6.a.list)
  <2>1. FromZero(t5) /\ Stands(t5, 3)
    BY <1>5 DEF Goes
  <2>2. t6 = TakeAt(t5, 3, 2)
    BY <2>1, GoesBack
  <2> HIDE DEF t6
  <2>3. Stands(t6, 3 + 1) /\ Kept(t5, t6, 3) /\ None(t6.a.list)
    BY <1>0, <1>5, <2>1, <2>2, SomeOfOne
  <2> QED
    BY <1>0, <1>5, <2>3, GoesOn
<1> HIDE DEF t6
<1>7. Goes(t7, 5) /\ None(t7.a.list)
  <2>1. Frees(t6.a.list) < 1
    BY <1>0, <1>6, NoneFrees
  <2> QED
    BY <1>0, <1>6, <2>1, GoesNull
<1> HIDE DEF t7
<1>8. Goes(t8, 5) /\ One(t8.a.list, Blk(0, 1))
  <2>1. FromZero(t7) /\ Stands(t7, 5)
    BY <1>7 DEF Goes
  <2>2. t7.got[1] + 0 = 0 /\ t7.got[1] \in Nat
    BY <2>1, GoesBack
  <2>3. Stands(t8, 5) /\ Kept(t7, t8, 5) /\ One(t8.a.list, Blk(0, 1))
    BY <1>0, <1>a, <1>7, <2>1, <2>2, GiveNone
  <2> QED
    BY <1>0, <1>7, <2>3, GoesOn
<1> HIDE DEF t8
<1>9. Goes(t9, 5) /\ Two(t9.a.list, Blk(0, 1), Blk(2, 3))
  <2>1. FromZero(t8) /\ Stands(t8, 5)
    BY <1>8 DEF Goes
  <2>2. t8.got[1] + 2 = 2
    BY <2>1, GoesBack
  <2>3. 0 + 1 < 2 /\ 0 + 1 <= 2
    OBVIOUS
  <2>4. Stands(t9, 5) /\ Kept(t8, t9, 5) /\ Two(t9.a.list, Blk(0, 1), Blk(2, 3))
    BY <1>0, <1>a, <1>8, <2>1, <2>2, <2>3, GiveOne
  <2> QED
    BY <1>0, <1>8, <2>4, GoesOn
<1> HIDE DEF t9
<1>10. t9 = Give(Give(TakeNull(TakeBack(MustHead(TakeNull(Give(CountAside(TakeNull(ListAside(TakeSome(t, 5)), 1)),
                 1, 2, 3), 4), 2, 3), 2, 3), 1), 1, 0, 1), 1, 2, 3)
  BY DEF t1, t2, t3, t4, t5, t6, t7, t8, t9
<1> QED
  BY <1>9, <1>10

(* It takes one page and two, and gives all five back one after the other. *)
LEMMA CheckAll ==
    ASSUME NEW t, Goes(t, 5), Two(t.a.list, Blk(0, 1), Blk(2, 3))
    PROVE  LET first == TakeBack(MustHead(MustHead(t, 0, 1), 2, 3), 0, 1)
               two == TakeBack(Give(first, 1, 0, 1), 2, 2)
               u == Give(Give(two, 1, 2, 2), 1, 1, 1)
           IN  Goes(u, 7) /\ One(u.a.list, Blk(0, 5))
<1> DEFINE t1 == MustHead(t, 0, 1)
           t2 == MustHead(t1, 2, 3)
           t3 == TakeBack(t2, 0, 1)
           t4 == Give(t3, 1, 0, 1)
           t5 == TakeBack(t4, 2, 2)
           t6 == Give(t5, 1, 2, 2)
           t7 == Give(t6, 1, 1, 1)
<1>0. /\ 5 + 1 = 6 /\ 6 + 1 = 7 /\ 0 \in Nat
      /\ 1 \in Nat /\ 2 \in Nat /\ 3 \in Nat /\ 4 \in Nat /\ 5 \in Nat /\ 6 \in Nat /\ 7 \in Nat
      /\ 1 > 0 /\ 2 > 0 /\ 3 > 0 /\ 5 > 0 /\ 6 > 0 /\ 7 > 0 /\ 1 < 2 /\ 2 < 3
      /\ 2 + 2 = 4 /\ 3 - 2 = 1 /\ 0 + 1 < 2 /\ 0 + 1 <= 2 /\ 2 + 2 <= 4 /\ 2 + 1 = 3
      /\ 0 + 1 = 1 /\ 1 + 1 = 2 /\ 0 + 1 <= 1 /\ 1 + 1 <= 2 /\ (1 + 1) + 3 = 5
  OBVIOUS
<1>a. Region(0, 1) /\ Region(2, 2) /\ Region(1, 1) /\ Blk(2, 3) \in BlockRec
  BY PageAllocAssumption, BlkIs DEF Region
<1>1. Goes(t1, 5) /\ Two(t1.a.list, Blk(0, 1), Blk(2, 3))
  BY <1>0, HeadStep
<1> HIDE DEF t1
<1>2. Goes(t2, 5) /\ Two(t2.a.list, Blk(0, 1), Blk(2, 3))
  BY <1>0, <1>1, HeadStep
<1> HIDE DEF t2
<1>3. Goes(t3, 6) /\ One(t3.a.list, Blk(2, 3))
  <2>1. FromZero(t2) /\ Stands(t2, 5)
    BY <1>2 DEF Goes
  <2>2. t3 = TakeAt(t2, 1, 0)
    BY <2>1, GoesBack
  <2> HIDE DEF t3
  <2>3. Stands(t3, 5 + 1) /\ Kept(t2, t3, 5) /\ One(t3.a.list, Blk(2, 3))
    BY <1>0, <1>a, <1>2, <2>1, <2>2, AtFirst
  <2> QED
    BY <1>0, <1>2, <2>3, GoesOn
<1> HIDE DEF t3
<1>4. Goes(t4, 6) /\ Two(t4.a.list, Blk(0, 1), Blk(2, 3))
  <2>1. FromZero(t3) /\ Stands(t3, 6)
    BY <1>3 DEF Goes
  <2>2. t3.got[1] + 0 = 0
    BY <2>1, GoesBack
  <2>3. Stands(t4, 6) /\ Kept(t3, t4, 6) /\ Two(t4.a.list, Blk(0, 1), Blk(2, 3))
    BY <1>0, <1>a, <1>3, <2>1, <2>2, GiveOne
  <2> QED
    BY <1>0, <1>3, <2>3, GoesOn
<1> HIDE DEF t4
<1>5. Goes(t5, 7) /\ Two(t5.a.list, Blk(0, 1), Blk(4, 1))
  <2>1. FromZero(t4) /\ Stands(t4, 6)
    BY <1>4 DEF Goes
  <2>2. t5 = TakeAt(t4, 2, 2)
    BY <2>1, GoesBack
  <2> HIDE DEF t5
  <2>3. Stands(t5, 6 + 1) /\ Kept(t4, t5, 6) /\ Two(t5.a.list, Blk(0, 1), Blk(2 + 2, 3 - 2))
    BY <1>0, <1>a, <1>4, <2>1, <2>2, AtSecond
  <2> QED
    BY <1>0, <1>4, <2>3, GoesOn
<1> HIDE DEF t5
<1>6. Goes(t6, 7) /\ Two(t6.a.list, Blk(0, 1), Blk(2, 3))
  <2>1. FromZero(t5) /\ Stands(t5, 7)
    BY <1>5 DEF Goes
  <2>2. t5.got[1] + 2 = 2
    BY <2>1, GoesBack
  <2>3. Stands(t6, 7) /\ Kept(t5, t6, 7) /\ Two(t6.a.list, Blk(0, 1), Blk(2, 2 + 1))
    BY <1>0, <1>a, <1>5, <2>1, <2>2, GiveTwo
  <2> QED
    BY <1>0, <1>5, <2>3, GoesOn
<1> HIDE DEF t6
<1>7. Goes(t7, 7) /\ One(t7.a.list, Blk(0, 5))
  <2>1. FromZero(t6) /\ Stands(t6, 7)
    BY <1>6 DEF Goes
  <2>2. t6.got[1] + 1 = 1
    BY <2>1, GoesBack
  <2>3. Stands(t7, 7) /\ Kept(t6, t7, 7) /\ One(t7.a.list, Blk(0, (1 + 1) + 3))
    BY <1>0, <1>a, <1>6, <2>1, <2>2, GiveTwo
  <2> QED
    BY <1>0, <1>6, <2>3, GoesOn
<1> HIDE DEF t7
<1>8. t7 = Give(Give(TakeBack(Give(TakeBack(MustHead(MustHead(t, 0, 1), 2, 3), 0, 1), 1, 0, 1), 2, 2),
                     1, 2, 2), 1, 1, 1)
  BY DEF t1, t2, t3, t4, t5, t6, t7
<1> QED
  BY <1>7, <1>8

(* The five pages are taken together and go back to the list. *)
LEMMA CheckBack ==
    ASSUME NEW t, Goes(t, 7), One(t.a.list, Blk(0, 5))
    PROVE  LET all == TakeNull(TakeSome(t, 5), 1)
               u == Give(Restore(MustFree(all, 0)), 8, 0, 5)
           IN  Stands(u, 9) /\ One(u.a.list, Blk(0, NPages))
<1> DEFINE t1 == TakeSome(t, 5)
           t2 == TakeNull(t1, 1)
           t3 == MustFree(t2, 0)
           t4 == Restore(t3)
           t5 == Give(t4, 8, 0, 5)
<1>0. /\ 7 + 1 = 8 /\ 8 + 1 = 9 /\ 0 \in Nat /\ 1 \in Nat /\ 5 \in Nat /\ 7 \in Nat /\ 8 \in Nat /\ 9 \in Nat
      /\ 5 > 0 /\ 5 <= 5 /\ 7 > 0 /\ 8 > 0 /\ 9 > 0 /\ 0 < 1 /\ 0 + 5 = 5 /\ 0 + 5 <= 5 /\ 8 \in 1..8
  OBVIOUS
<1>1. Goes(t1, 8) /\ t1.got[8] = 0 /\ None(t1.a.list)
  <2>0. Stands(t, 7)
    BY DEF Goes
  <2>1. Stands(t1, 7 + 1) /\ Kept(t, t1, 7) /\ t1.got[7 + 1] = 0 /\ None(t1.a.list)
    BY <1>0, <2>0, SomeOfOne, SMTT(60)
  <2> HIDE DEF t1
  <2> QED
    BY <1>0, <2>1, GoesOn
<1> HIDE DEF t1
<1>2. Stands(t2, 9) /\ Kept(t1, t2, 8) /\ t2.a.list = t1.a.list
  <2>1. Frees(t1.a.list) < 1
    BY <1>0, <1>1, NoneFrees
  <2>2. Stands(t1, 8)
    BY <1>1 DEF Goes
  <2> QED
    BY <1>0, <2>1, <2>2, NullStep
<1> HIDE DEF t2
<1>3. t2.got[8] = 0
  BY <1>0, <1>1, <1>2 DEF Kept
<1>4. Stands(t3, 9) /\ Kept(t2, t3, 9)
  <2>1. Frees(t2.a.list) = 0
    BY <1>1, <1>2, NoneFrees
  <2> QED
    BY <1>2, <2>1, FreeStep
<1> HIDE DEF t3
<1>5. t3.got[8] = 0
  <2>1. 8 \in 1..9
    OBVIOUS
  <2> QED
    BY <2>1, <1>3, <1>4 DEF Kept
<1>6. RestStored(t3)
  <2>1. RestStored(t1)
    BY <1>1 DEF Goes
  <2>2. RestStored(t2)
    BY <2>1, <1>2, StoredKept DEF RestStored
  <2> QED
    BY <2>2, <1>4, StoredKept DEF RestStored
<1>7. /\ NPages \in Nat /\ (NPages > 5 \/ NPages = 5) /\ Region(0, 5)
      /\ NPages > 5 => NPages - 5 \in Nat /\ NPages - 5 > 0 /\ 5 + (NPages - 5) = NPages
  BY PageAllocAssumption DEF Region
<1>8. ListOK(t3.store) /\ t3.nr_free_store = Frees(t3.store)
  BY <1>6, <1>7 DEF RestStored, Stored, NoneStored
<1>9. /\ Stands(t4, 9) /\ t4.got[8] = 0
      /\ NPages > 5 => One(t4.a.list, Blk(5, NPages - 5))
      /\ NPages = 5 => None(t4.a.list)
  <2>1. Moved(t3, t4, 9) /\ t4.a.list = t3.store
    BY <1>4, <1>8, RestoreOK
  <2> HIDE DEF t4
  <2> QED
    BY <1>5, <1>6, <2>1 DEF Moved, RestStored, Stored, NoneStored
<1> HIDE DEF t4
<1>10. t4.got[8] + 0 = 0 /\ t4.got[8] \in Nat
  BY <1>9
<1>11. Stands(t5, 9) /\ One(t5.a.list, Blk(0, NPages))
  <2>1. CASE NPages = 5
    <3>1. Stands(t5, 9) /\ One(t5.a.list, Blk(0, 5))
      BY <1>0, <1>7, <1>9, <1>10, <2>1, GiveNone
    <3> HIDE DEF t5
    <3> QED
      BY <2>1, <3>1
  <2>2. CASE NPages > 5
    <3>1. Stands(t5, 9) /\ One(t5.a.list, Blk(0, 5 + (NPages - 5)))
      <4> DEFINE r == NPages - 5
      <4>1. r \in Nat /\ r > 0 /\ One(t4.a.list, Blk(5, r)) /\ Stands(t4, 9)
        BY <1>7, <1>9, <2>2
      <4> HIDE DEF r
      <4>2. Stands(t5, 9) /\ One(t5.a.list, Blk(0, 5 + r))
        BY <1>0, <1>7, <1>10, <4>1, GiveOne
      <4> HIDE DEF t5
      <4> QED
        BY <4>2 DEF r
    <3> HIDE DEF t5
    <3> QED
      BY <1>7, <2>2, <3>1
  <2> QED
    BY <1>7, <2>1, <2>2
<1> HIDE DEF t5
<1>12. t5 = Give(Restore(MustFree(TakeNull(TakeSome(t, 5), 1), 0)), 8, 0, 5)
  BY DEF t1, t2, t3, t4, t5
<1> QED
  BY <1>11, <1>12

(* The counts at the end of default_check are those of its beginning. *)
LEMMA TotalStep ==
    ASSUME NEW t, NEW m, Stands(t, m), One(t.a.list, Blk(0, NPages)),
           NEW a, PmOK(a), One(a.list, Blk(0, NPages))
    PROVE  LET u == MustTotal(t, a) IN Stands(u, m) /\ One(u.a.list, Blk(0, NPages))
<1> DEFINE w == Total(a) = a.nr_free /\ Len(t.a.list) = Len(a.list) /\ Total(t.a) = Total(a)
           u == MustTotal(t, a)
<1>1. Total(a) = Frees(a.list) /\ Total(t.a) = Frees(t.a.list)
  BY DEF Total, Frees
<1>2. NPages \in Nat /\ NPages > 0
  BY PageAllocAssumption
<1>3. Frees(a.list) = NPages /\ Frees(t.a.list) = NPages
  BY <1>2, OneFrees
<1>4. a.nr_free = Frees(a.list)
  BY DEF PmOK
<1>5. Len(t.a.list) = Len(a.list)
  BY DEF One
<1>6. w = TRUE
  BY <1>1, <1>3, <1>4, <1>5
<1>7. u = Must(t, w)
  BY DEF MustTotal
<1> HIDE DEF u, w
<1>8. Stands(u, m) /\ u.a.list = t.a.list
  BY <1>6, <1>7, MustStep
<1> QED
  BY <1>8 DEF u

(* No assertion of default_check fails and it leaves the list as it was. *)
LEMMA CheckOK ==
    ASSUME NEW a, PmOK(a), One(a.list, Blk(0, NPages))
    PROVE  PmOK(default_check(a)) /\ One(default_check(a).list, Blk(0, NPages))
<1> DEFINE t == Test(basic_check(a))
           hole == Give(Give(TakeNull(TakeBack(MustHead(TakeNull(Give(CountAside(TakeNull(ListAside(TakeSome(t, 5)),
                     1)), 1, 2, 3), 4), 2, 3), 2, 3), 1), 1, 0, 1), 1, 2, 3)
           five == Give(Give(TakeBack(Give(TakeBack(MustHead(MustHead(hole, 0, 1), 2, 3), 0, 1), 1, 0, 1), 2, 2),
                     1, 2, 2), 1, 1, 1)
           back == Give(Restore(MustFree(TakeNull(TakeSome(five, 5), 1), 0)), 8, 0, 5)
           u == MustTotal(back, a)
<1>1. default_check(a) = u.a
  BY DEF default_check
<1>2. Stands(t, 0) /\ One(t.a.list, Blk(0, NPages))
  <2>1. PmOK(basic_check(a)) /\ One(basic_check(a).list, Blk(0, NPages))
    BY BasicOK
  <2> QED
    BY <2>1, TestOK
<1> HIDE DEF t
<1>3. Goes(hole, 5) /\ Two(hole.a.list, Blk(0, 1), Blk(2, 3))
  BY <1>2, CheckHole
<1> HIDE DEF hole
<1>4. Goes(five, 7) /\ One(five.a.list, Blk(0, 5))
  BY <1>3, CheckAll
<1> HIDE DEF five
<1>5. Stands(back, 9) /\ One(back.a.list, Blk(0, NPages))
  BY <1>4, CheckBack
<1> HIDE DEF back
<1>6. Stands(u, 9) /\ One(u.a.list, Blk(0, NPages))
  BY <1>5, TotalStep
<1> HIDE DEF u
<1> QED
  BY <1>1, <1>6 DEF Stands

(* The counter of the allocator is set. *)
LEMMA SetFree ==
    ASSUME NEW l, NEW n, NEW x
    PROVE  [[list |-> l, nr_free |-> n, ok |-> TRUE] EXCEPT !.nr_free = x] = [list |-> l, nr_free |-> x, ok |-> TRUE]
<1>1. PICK w \in BOOLEAN : w
  OBVIOUS
<1> DEFINE d == [list |-> l, nr_free |-> n, ok |-> w]
           c == [list |-> l, nr_free |-> x, ok |-> w]
<1>2. [d EXCEPT !.nr_free = x] = c
  OBVIOUS
<1>3. d = [list |-> l, nr_free |-> n, ok |-> TRUE]
  BY <1>1
<1>4. c = [list |-> l, nr_free |-> x, ok |-> TRUE]
  BY <1>1
<1> HIDE DEF c, d
<1> QED
  BY <1>2, <1>3, <1>4

(* page_init makes one block of all frames. *)
LEMMA InitOK == PmOK(page_init) /\ One(page_init.list, Blk(0, NPages))
<1> DEFINE e == << >>
           a == [list |-> e, nr_free |-> NPages, ok |-> TRUE]
           b == Blk(0, NPages)
           c == default_list_add(a, b)
<1>0. NPages \in Nat /\ NPages > 0
  BY PageAllocAssumption
<1>1. e \in Seq(BlockRec) /\ Len(e) = 0
  OBVIOUS
<1>2. page_init = c
  <2>0. 0 + NPages = NPages
    BY <1>0
  <2> DEFINE d == [list |-> e, nr_free |-> 0, ok |-> TRUE]
             x == 0 + NPages
  <2>1. [d EXCEPT !.nr_free = @ + NPages] = [list |-> e, nr_free |-> x, ok |-> TRUE]
    <3> HIDE DEF e
    <3>1. d.nr_free + NPages = x
      OBVIOUS
    <3> HIDE DEF x
    <3>2. [d EXCEPT !.nr_free = x] = [list |-> e, nr_free |-> x, ok |-> TRUE]
      BY SetFree
    <3> HIDE DEF d
    <3> QED
      BY <3>1, <3>2
  <2>2. [default_init EXCEPT !.nr_free = @ + NPages] = a
    BY <2>0, <2>1 DEF default_init
  <2> QED
    BY <2>2 DEF page_init, default_init_memmap, Blk
<1> HIDE DEF e
<1>3. a \in PmRec /\ a.list = e /\ a.ok = TRUE /\ a.nr_free = NPages
  BY <1>0, <1>1 DEF PmRec
<1>4. b \in BlockRec /\ b.base = 0 /\ b.n = NPages
  BY <1>0, BlkIs
<1>5. ListOK(a.list) /\ None(e)
  BY <1>1, <1>3 DEF ListOK, None
<1>6. Frees(e) = 0
  BY <1>5, NoneFrees
<1>7. c.list = Put(e, b)
  BY DEF default_list_add, InsertBlock, Put, list_add_before
<1>8. One(Put(e, b), b)
  BY <1>4, <1>5, PutFirst
<1> HIDE DEF a, b
<1>9. /\ c \in PmRec /\ ListOK(c.list)
      /\ Frees(c.list) = Frees(a.list) + b.n
      /\ c.ok = a.ok /\ c.nr_free = a.nr_free
  <2>1. b.base + b.n <= NPages
    BY <1>0, <1>4
  <2>2. \A i \in 1..Len(a.list) : FALSE
    BY <1>1, <1>3
  <2> QED
    BY <1>3, <1>4, <1>5, <2>1, <2>2, ListAdd
<1> HIDE DEF c
<1>10. Frees(c.list) = NPages
  BY <1>0, <1>3, <1>4, <1>6, <1>9
<1>11. PmOK(c)
  BY <1>3, <1>9, <1>10 DEF PmOK
<1> QED
  BY <1>2, <1>7, <1>8, <1>11 DEF b

-----------------------------------------------------------------------------
(* Orders *)

(* Halving is what its recursion says, and ends. *)
LEMMA HalvedDef ==
    ASSUME NEW size \in Nat
    PROVE  \A o \in 0..size : Halved(size)[o] \in Nat /\ (Halved(size)[o] + o <= size \/ Halved(size)[o] = 0)
<1> DEFINE step == [i \in Nat |-> [v \in Nat |-> v \div 2]]
           Body(f) == [o \in 0..size |-> IF o = 0 THEN size ELSE f[o - 1] \div 2]
           left == CHOOSE f : f = Body(f)
<1>1. \A v \in Nat : v \div 2 \in Nat
  OBVIOUS
<1>2. step \in [Nat -> [Nat -> Nat]]
  BY <1>1
<1>3. PICK g \in [0..size -> Nat] : g[0] = size /\ \A i \in 1..size : g[i] = step[i][g[i - 1]]
  <2> DEFINE V == Nat
             a == size
  <2>1. a \in V /\ size \in Nat /\ step \in [Nat -> [V -> V]]
    BY <1>2
  <2> HIDE DEF step, V, a
  <2>2. LoopRuns(V, a, size, step) # {}
    BY <2>1, LoopValues
  <2> QED
    BY <2>2 DEF V, a, LoopRuns
<1>4. ASSUME NEW i \in 1..size
      PROVE  g[i] = g[i - 1] \div 2
  <2>1. i \in Nat /\ g[i - 1] \in Nat
    OBVIOUS
  <2>2. step[i][g[i - 1]] = g[i - 1] \div 2
    BY <2>1
  <2> QED
    BY <1>3, <2>2
<1>5. g = Body(g)
  <2>1. \A i \in 0..size : g[i] = Body(g)[i]
    BY <1>3, <1>4
  <2> QED
    BY <2>1
<1>6. left = Body(left)
  BY <1>5
<1>7. Halved(size) = left
  BY DEF Halved
<1> HIDE DEF left
<1>8. left[0] = size /\ \A i \in 1..size : left[i] = left[i - 1] \div 2
  BY <1>6
<1>9. \A o \in 0..size : left[o] \in Nat /\ (left[o] + o <= size \/ left[o] = 0)
  <2> DEFINE T == {o \in Nat : o <= size => left[o] \in Nat /\ (left[o] + o <= size \/ left[o] = 0)}
  <2>1. 0 \in T
    BY <1>8
  <2>2. ASSUME NEW n \in 0..(size - 1), n \in T
        PROVE  n + 1 \in T
    <3>1. left[n] \in Nat /\ (left[n] + n <= size \/ left[n] = 0)
      BY <2>2
    <3>2. PICK v \in Nat : v = left[n]
      BY <3>1
    <3>3. left[n + 1] = v \div 2
      <4>1. n + 1 \in 1..size /\ (n + 1) - 1 = n
        OBVIOUS
      <4> QED
        BY <1>8, <3>2, <4>1
    <3>4. v \div 2 \in Nat /\ (v > 0 => (v \div 2) + 1 <= v) /\ (v = 0 => v \div 2 = 0)
      OBVIOUS
    <3>5. PICK w \in Nat : w = v \div 2
      BY <3>4
    <3>6. w + (n + 1) <= size \/ w = 0
      <4>1. v + n <= size \/ v = 0
        BY <3>1, <3>2
      <4>2. v > 0 => w + 1 <= v
        BY <3>4, <3>5
      <4>3. v = 0 => w = 0
        BY <3>4, <3>5
      <4> QED
        BY <4>1, <4>2, <4>3
    <3>7. left[n + 1] = w
      BY <3>3, <3>5
    <3> QED
      BY <3>6, <3>7
  <2> HIDE DEF T
  <2>3. \A n \in 0..size : n \in T
    BY <2>1, <2>2, BoundedInduction
  <2> QED
    BY <2>3 DEF T
<1> QED
  BY <1>7, <1>9

(* 1 << order is what its recursion says. *)
LEMMA PagesSome ==
    ASSUME NEW order \in Nat
    PROVE  PagesOf(order) \in Nat /\ PagesOf(order) > 0
<1> DEFINE step == [i \in Nat |-> [v \in Nat |-> 2 * v]]
           Body(f) == [o \in 0..order |-> IF o = 0 THEN 1 ELSE 2 * f[o - 1]]
           pages == CHOOSE f : f = Body(f)
<1>2. step \in [Nat -> [Nat -> Nat]]
  OBVIOUS
<1>3. PICK g \in [0..order -> Nat] : g[0] = 1 /\ \A i \in 1..order : g[i] = step[i][g[i - 1]]
  <2> DEFINE V == Nat
             a == 1
  <2>1. a \in V /\ order \in Nat /\ step \in [Nat -> [V -> V]]
    BY <1>2
  <2> HIDE DEF step, V, a
  <2>2. LoopRuns(V, a, order, step) # {}
    BY <2>1, LoopValues
  <2> QED
    BY <2>2 DEF V, a, LoopRuns
<1>4. ASSUME NEW i \in 1..order
      PROVE  g[i] = 2 * g[i - 1]
  <2>1. i \in Nat /\ g[i - 1] \in Nat
    OBVIOUS
  <2>2. step[i][g[i - 1]] = 2 * g[i - 1]
    BY <2>1
  <2> QED
    BY <1>3, <2>2
<1>5. g = Body(g)
  <2>1. \A i \in 0..order : g[i] = Body(g)[i]
    BY <1>3, <1>4
  <2> QED
    BY <2>1
<1>6. pages = Body(pages)
  BY <1>5
<1>7. Shifted(order) = pages
  BY DEF Shifted
<1> HIDE DEF pages
<1>8. pages[0] = 1 /\ \A i \in 1..order : pages[i] = 2 * pages[i - 1]
  BY <1>6
<1>9. \A o \in 0..order : pages[o] \in Nat /\ pages[o] > 0
  <2> DEFINE T == {o \in Nat : o <= order => pages[o] \in Nat /\ pages[o] > 0}
  <2>1. 0 \in T
    BY <1>8
  <2>2. ASSUME NEW n \in 0..(order - 1), n \in T
        PROVE  n + 1 \in T
    <3>1. n + 1 \in 1..order /\ (n + 1) - 1 = n
      OBVIOUS
    <3>2. pages[n + 1] = 2 * pages[n]
      BY <1>8, <3>1
    <3> QED
      BY <2>2, <3>2
  <2> HIDE DEF T
  <2>3. \A n \in 0..order : n \in T
    BY <2>1, <2>2, BoundedInduction
  <2> QED
    BY <2>3 DEF T
<1> QED
  BY <1>7, <1>9 DEF PagesOf

(* find_order ends. *)
LEMMA OrderIs ==
    ASSUME NEW size \in Nat
    PROVE  find_order(size) \in Nat
<1> DEFINE S == {o \in 0..size : Halved(size)[o] <= PAGE_SIZE}
<1>1. Halved(size)[size] = 0
  <2>1. size \in 0..size
    OBVIOUS
  <2>2. Halved(size)[size] \in Nat /\ (Halved(size)[size] + size <= size \/ Halved(size)[size] = 0)
    BY <2>1, HalvedDef
  <2> QED
    BY <2>2
<1>2. PAGE_SIZE \in Nat
  BY KmallocAssumption DEF PAGE_SIZE
<1>3. size \in S
  BY <1>1, <1>2
<1>4. S \in SUBSET Nat
  OBVIOUS
<1>5. find_order(size) = 0 \/ find_order(size) = Min(S)
  BY DEF find_order
<1> HIDE DEF S
<1>6. Min(S) \in Nat
  BY <1>3, <1>4, MinIs
<1> QED
  BY <1>5, <1>6

-----------------------------------------------------------------------------
(* Who holds which frames *)

FrameOf(b) == b.pages \div PageUnits
CountOf(b) == PagesOf(b.order)

(* The frames of callers, L, are apart from the free ones and from each other. *)
HeldPages(L, l) ==
    /\ \A o \in L : o[1] = "pages" => Region(o[2], o[3]) /\ Apart(l, o[2], o[3])
    /\ \A o, q \in L : o[1] = "pages" /\ q[1] = "pages" /\ o # q => Disjoint(o[2], o[3], q[2], q[3])

(* So are those of the big blocks, B. *)
HeldBig(B, l) ==
    /\ \A i \in 1..Len(B) : Region(FrameOf(B[i]), CountOf(B[i])) /\ Apart(l, FrameOf(B[i]), CountOf(B[i]))
    /\ \A i, j \in 1..Len(B) : i # j => Disjoint(FrameOf(B[i]), CountOf(B[i]), FrameOf(B[j]), CountOf(B[j]))

HeldBoth(L, B) ==
    \A o \in L, i \in 1..Len(B) : o[1] = "pages" => Disjoint(o[2], o[3], FrameOf(B[i]), CountOf(B[i]))

Listed(B) == \E S : B \in Seq(S)

Exact(a, L, B) == PmOK(a) /\ Listed(B) /\ HeldPages(L, a.list) /\ HeldBig(B, a.list) /\ HeldBoth(L, B)

(* The n frames from f on have just left the free ones. *)
Fresh(L, B, l, f, n) ==
    /\ Region(f, n) /\ Apart(l, f, n)
    /\ \A o \in L : o[1] = "pages" => Disjoint(o[2], o[3], f, n)
    /\ \A i \in 1..Len(B) : Disjoint(FrameOf(B[i]), CountOf(B[i]), f, n)

(* alloc_pages takes frames that nobody holds. *)
LEMMA ExactTake ==
    ASSUME NEW a, NEW L, NEW B, Exact(a, L, B), NEW n \in Nat, n > 0
    PROVE  LET r == default_alloc_pages(a, n)
           IN  /\ Exact(r.a, L, B)
               /\ r.page = NoFrame => r.a = a
               /\ r.page # NoFrame => Fresh(L, B, r.a.list, r.page, n)
<1> DEFINE r == default_alloc_pages(a, n)
<1>1. /\ PmOK(r.a)
      /\ r.page = NoFrame => r.a = a
      /\ r.page # NoFrame =>
            /\ Region(r.page, n) /\ Apart(r.a.list, r.page, n)
            /\ \A f, k \in Nat : k > 0 =>
                  (Apart(a.list, f, k) <=> Apart(r.a.list, f, k) /\ Disjoint(f, k, r.page, n))
  BY AllocList DEF Exact
<1> HIDE DEF r
<1>2. CASE r.page = NoFrame
  BY <1>1, <1>2 DEF r
<1>3. CASE r.page # NoFrame
  <2>1. \A f, k : Region(f, k) /\ Apart(a.list, f, k) => Apart(r.a.list, f, k) /\ Disjoint(f, k, r.page, n)
    BY <1>1, <1>3 DEF Region
  <2>2. \A o \in L : o[1] = "pages" => Apart(r.a.list, o[2], o[3]) /\ Disjoint(o[2], o[3], r.page, n)
    BY <2>1 DEF Exact, HeldPages
  <2>3. \A i \in 1..Len(B) : /\ Apart(r.a.list, FrameOf(B[i]), CountOf(B[i]))
                             /\ Disjoint(FrameOf(B[i]), CountOf(B[i]), r.page, n)
    BY <2>1 DEF Exact, HeldBig
  <2>4. HeldPages(L, r.a.list)
    BY <2>2 DEF Exact, HeldPages
  <2>5. HeldBig(B, r.a.list)
    BY <2>3 DEF Exact, HeldBig
  <2>6. Exact(r.a, L, B)
    BY <1>1, <2>4, <2>5 DEF Exact
  <2>7. Fresh(L, B, r.a.list, r.page, n)
    BY <1>1, <1>3, <2>2, <2>3 DEF Fresh
  <2> QED
    BY <1>3, <2>6, <2>7 DEF r
<1> QED
  BY <1>2, <1>3

(* A caller gets frames, or an object. *)
LEMMA ExactPages ==
    ASSUME NEW a, NEW L, NEW B, Exact(a, L, B), NEW f, NEW n, Fresh(L, B, a.list, f, n)
    PROVE  Exact(a, L \cup {<<"pages", f, n>>}, B)
<1> DEFINE x == <<"pages", f, n>>
           M == L \cup {x}
<1>1. x[1] = "pages" /\ x[2] = f /\ x[3] = n
  OBVIOUS
<1> HIDE DEF x
<1>2. \A o \in M : o \in L \/ o = x
  OBVIOUS
<1>3. \A o \in L : o[1] = "pages" => Disjoint(o[2], o[3], f, n) /\ Disjoint(f, n, o[2], o[3])
  BY Mutual DEF Fresh, Region, Exact, HeldPages
<1>4. HeldPages(M, a.list)
  <2>1. \A o \in M : o[1] = "pages" => Region(o[2], o[3]) /\ Apart(a.list, o[2], o[3])
    BY <1>1, <1>2 DEF Exact, HeldPages, Fresh
  <2>2. \A o, q \in M : o[1] = "pages" /\ q[1] = "pages" /\ o # q => Disjoint(o[2], o[3], q[2], q[3])
    BY <1>1, <1>2, <1>3 DEF Exact, HeldPages
  <2> QED
    BY <2>1, <2>2 DEF HeldPages
<1>5. HeldBoth(M, B)
  <2>1. \A i \in 1..Len(B) : Disjoint(f, n, FrameOf(B[i]), CountOf(B[i]))
    BY Mutual DEF Fresh, Region, Exact, HeldBig
  <2> QED
    BY <1>1, <1>2, <2>1 DEF Exact, HeldBoth
<1> QED
  BY <1>4, <1>5 DEF Exact, x

(* An object that is not of whole pages has no part in it. *)
LEMMA ExactObject ==
    ASSUME NEW a, NEW L, NEW B, Exact(a, L, B), NEW f, NEW n
    PROVE  Exact(a, L \cup {<<"object", f, n>>}, B)
<1> DEFINE x == <<"object", f, n>>
           M == L \cup {x}
<1>1. x[1] # "pages"
  OBVIOUS
<1> HIDE DEF x
<1>2. \A o \in M : o[1] = "pages" => o \in L
  BY <1>1
<1> HIDE DEF M
<1>3. HeldPages(M, a.list) /\ HeldBoth(M, B)
  BY <1>2 DEF Exact, HeldPages, HeldBoth
<1> QED
  BY <1>3 DEF Exact, M, x

(* A caller gives an object back. *)
LEMMA ExactLess ==
    ASSUME NEW a, NEW L, NEW B, Exact(a, L, B), NEW M \in SUBSET L
    PROVE  Exact(a, M, B)
<1>1. HeldPages(M, a.list) /\ HeldBoth(M, B)
  BY DEF Exact, HeldPages, HeldBoth
<1> QED
  BY <1>1 DEF Exact

(* A big block gets frames. *)
LEMMA ExactBig ==
    ASSUME NEW a, NEW L, NEW B, Exact(a, L, B), NEW b, Fresh(L, B, a.list, FrameOf(b), CountOf(b))
    PROVE  Exact(a, L, <<b>> \o B)
<1> DEFINE C == <<b>> \o B
           m == Len(B)
<1>1. PICK S : B \in Seq(S)
  BY DEF Exact, Listed
<1>2. B \in Seq(S \cup {b}) /\ <<b>> \in Seq(S \cup {b}) /\ m \in Nat
  BY <1>1
<1>3. /\ C \in Seq(S \cup {b}) /\ Len(C) = m + 1 /\ C[1] = b
      /\ \A i \in 2..(m + 1) : C[i] = B[i - 1]
  BY <1>2
<1>4. Listed(C)
  BY <1>3 DEF Listed
<1> HIDE DEF C
<1>5. ASSUME NEW i \in 1..Len(C)
      PROVE  (i = 1 /\ C[i] = b) \/ (i - 1 \in 1..m /\ C[i] = B[i - 1])
  BY <1>2, <1>3
<1>6. \A i \in 1..m : /\ Disjoint(FrameOf(B[i]), CountOf(B[i]), FrameOf(b), CountOf(b))
                      /\ Disjoint(FrameOf(b), CountOf(b), FrameOf(B[i]), CountOf(B[i]))
  BY Mutual DEF Fresh, Region, Exact, HeldBig
<1>7. HeldBig(C, a.list)
  <2>1. \A i \in 1..Len(C) : Region(FrameOf(C[i]), CountOf(C[i])) /\ Apart(a.list, FrameOf(C[i]), CountOf(C[i]))
    BY <1>5 DEF Fresh, Exact, HeldBig
  <2>2. ASSUME NEW i \in 1..Len(C), NEW j \in 1..Len(C), i # j
        PROVE  Disjoint(FrameOf(C[i]), CountOf(C[i]), FrameOf(C[j]), CountOf(C[j]))
    <3>1. CASE i = 1
      <4>1. C[i] = b /\ j - 1 \in 1..m /\ C[j] = B[j - 1]
        BY <1>3, <1>5, <2>2, <3>1
      <4> QED
        BY <1>6, <4>1
    <3>2. CASE j = 1
      <4>1. C[j] = b /\ i - 1 \in 1..m /\ C[i] = B[i - 1]
        BY <1>3, <1>5, <2>2, <3>2
      <4> QED
        BY <1>6, <4>1
    <3>3. CASE i # 1 /\ j # 1
      <4>1. i - 1 \in 1..m /\ C[i] = B[i - 1] /\ j - 1 \in 1..m /\ C[j] = B[j - 1]
        BY <1>5, <3>3
      <4>2. i - 1 # j - 1
        BY <1>2, <1>3, <2>2
      <4>3. \A u, v \in 1..m : u # v => Disjoint(FrameOf(B[u]), CountOf(B[u]), FrameOf(B[v]), CountOf(B[v]))
        BY DEF Exact, HeldBig
      <4> HIDE DEF m
      <4>4. PICK u \in 1..m, v \in 1..m : u = i - 1 /\ v = j - 1
        BY <4>1
      <4> QED
        BY <4>1, <4>2, <4>3, <4>4
    <3> QED
      BY <3>1, <3>2, <3>3
  <2> QED
    BY <2>1, <2>2 DEF HeldBig
<1>8. HeldBoth(L, C)
  <2>1. ASSUME NEW o \in L, NEW i \in 1..Len(C), o[1] = "pages"
        PROVE  Disjoint(o[2], o[3], FrameOf(C[i]), CountOf(C[i]))
    <3>1. Disjoint(o[2], o[3], FrameOf(b), CountOf(b))
      BY <2>1 DEF Fresh
    <3>2. \A k \in 1..m : Disjoint(o[2], o[3], FrameOf(B[k]), CountOf(B[k]))
      BY <2>1 DEF Exact, HeldBoth
    <3> QED
      BY <1>5, <3>1, <3>2
  <2> QED
    BY <2>1 DEF HeldBoth
<1> QED
  BY <1>4, <1>7, <1>8 DEF Exact, C

(* A caller gives frames back. *)
LEMMA ExactFree ==
    ASSUME NEW a, NEW L, NEW B, Exact(a, L, B), NEW x \in L, x[1] = "pages"
    PROVE  Exact(default_free_pages(a, x[2], x[3]), L \ {x}, B)
<1> DEFINE c == default_free_pages(a, x[2], x[3])
           M == L \ {x}
<1>1. PmOK(a) /\ Region(x[2], x[3]) /\ Apart(a.list, x[2], x[3])
  BY DEF Exact, HeldPages
<1>2. /\ PmOK(c)
      /\ \A g, k \in Nat : k > 0 => (Apart(c.list, g, k) <=> Apart(a.list, g, k) /\ Disjoint(g, k, x[2], x[3]))
  BY <1>1, FreeList
<1> HIDE DEF c
<1>3. \A g, k : Region(g, k) /\ Apart(a.list, g, k) /\ Disjoint(g, k, x[2], x[3]) => Apart(c.list, g, k)
  BY <1>2 DEF Region
<1>4. HeldPages(M, c.list)
  BY <1>3 DEF Exact, HeldPages
<1>5. HeldBig(B, c.list)
  <2>1. ASSUME NEW i \in 1..Len(B)
        PROVE  Disjoint(FrameOf(B[i]), CountOf(B[i]), x[2], x[3])
    <3>1. Disjoint(x[2], x[3], FrameOf(B[i]), CountOf(B[i])) /\ Region(FrameOf(B[i]), CountOf(B[i]))
      BY DEF Exact, HeldBoth, HeldBig
    <3> QED
      BY <1>1, <3>1, Mutual DEF Region
  <2> QED
    BY <1>3, <2>1 DEF Exact, HeldBig
<1>6. HeldBoth(M, B)
  BY DEF Exact, HeldBoth
<1> QED
  BY <1>2, <1>4, <1>5, <1>6 DEF Exact, c

(* A big block gives its frames back and leaves the list. *)
LEMMA ExactFreeBig ==
    ASSUME NEW a, NEW L, NEW B, Exact(a, L, B), NEW i \in 1..Len(B)
    PROVE  Exact(default_free_pages(a, FrameOf(B[i]), CountOf(B[i])), L, RemoveAt(B, i))
<1> DEFINE f == FrameOf(B[i])
           n == CountOf(B[i])
           c == default_free_pages(a, f, n)
           C == RemoveAt(B, i)
           m == Len(B)
<1>1. PmOK(a) /\ Region(f, n) /\ Apart(a.list, f, n)
  BY DEF Exact, HeldBig
<1>a. /\ \A j \in 1..Len(B) : j # i => Disjoint(FrameOf(B[j]), CountOf(B[j]), f, n)
      /\ \A o \in L : o[1] = "pages" => Disjoint(o[2], o[3], f, n)
  BY DEF Exact, HeldBig, HeldBoth
<1> HIDE DEF f, n
<1>2. /\ PmOK(c)
      /\ \A g, k \in Nat : k > 0 => (Apart(c.list, g, k) <=> Apart(a.list, g, k) /\ Disjoint(g, k, f, n))
  BY <1>1, FreeList
<1> HIDE DEF c
<1>3. \A g, k : Region(g, k) /\ Apart(a.list, g, k) /\ Disjoint(g, k, f, n) => Apart(c.list, g, k)
  BY <1>2 DEF Region
<1>4. HeldPages(L, c.list)
  BY <1>3, <1>a DEF Exact, HeldPages
<1>5. PICK S : B \in Seq(S)
  BY DEF Exact, Listed
<1>6. /\ C \in Seq(S) /\ Len(C) = m - 1 /\ m \in Nat
      /\ \A j \in 1..(m - 1) : C[j] = IF j < i THEN B[j] ELSE B[j + 1]
  <2>1. /\ RemoveAt(B, i) \in Seq(S) /\ Len(RemoveAt(B, i)) = Len(B) - 1
        /\ \A j \in 1..(Len(B) - 1) : RemoveAt(B, i)[j] = IF j < i THEN B[j] ELSE B[j + 1]
    BY <1>5, RemoveElems, Zenon
  <2>2. m \in Nat
    BY <1>5
  <2> QED
    BY <2>1, <2>2
<1>7. Listed(C)
  BY <1>6 DEF Listed
<1> HIDE DEF C
<1>8. ASSUME NEW j \in 1..Len(C)
      PROVE  /\ C[j] = B[IF j < i THEN j ELSE j + 1]
             /\ (IF j < i THEN j ELSE j + 1) \in 1..m
             /\ (IF j < i THEN j ELSE j + 1) # i
  BY <1>6
<1>9. HeldBig(C, c.list)
  <2>1. ASSUME NEW j \in 1..Len(C)
        PROVE  Region(FrameOf(C[j]), CountOf(C[j])) /\ Apart(c.list, FrameOf(C[j]), CountOf(C[j]))
    <3>1. PICK u \in 1..m : u # i /\ C[j] = B[u]
      BY <1>8
    <3>2. Region(FrameOf(B[u]), CountOf(B[u])) /\ Apart(a.list, FrameOf(B[u]), CountOf(B[u]))
      BY DEF Exact, HeldBig
    <3> QED
      BY <1>3, <1>a, <3>1, <3>2
  <2>2. ASSUME NEW j \in 1..Len(C), NEW k \in 1..Len(C), j # k
        PROVE  Disjoint(FrameOf(C[j]), CountOf(C[j]), FrameOf(C[k]), CountOf(C[k]))
    <3>1. PICK u \in 1..m, v \in 1..m : u # v /\ C[j] = B[u] /\ C[k] = B[v]
      <4> DEFINE u == IF j < i THEN j ELSE j + 1
                 v == IF k < i THEN k ELSE k + 1
      <4>1. u \in 1..m /\ v \in 1..m /\ C[j] = B[u] /\ C[k] = B[v]
        BY <1>8
      <4>2. u # v
        BY <1>6, <2>2
      <4> HIDE DEF u, v
      <4> QED
        BY <4>1, <4>2
    <3> QED
      BY <3>1 DEF Exact, HeldBig
  <2> QED
    BY <2>1, <2>2 DEF HeldBig
<1>10. HeldBoth(L, C)
  <2>1. ASSUME NEW j \in 1..Len(C)
        PROVE  \E u \in 1..m : C[j] = B[u]
    BY <1>8
  <2> QED
    BY <2>1 DEF Exact, HeldBoth
<1> QED
  BY <1>2, <1>4, <1>7, <1>9, <1>10 DEF Exact, c, C, f, n

(* The frame of an address that AddrOf gives. *)
LEMMA FrameBack ==
    ASSUME NEW f \in Nat
    PROVE  AddrOf(f) \div PageUnits = f
<1> DEFINE x == AddrOf(f)
           q == x \div PageUnits
<1>1. PageUnits \in Nat \ {0} /\ x = PageUnits * f /\ x \in Int
  BY KmallocAssumption DEF AddrOf
<1>2. q \in Int /\ x % PageUnits \in 0..(PageUnits - 1) /\ x = PageUnits * q + (x % PageUnits)
  BY <1>1
<1> HIDE DEF x, q
<1>3. PICK r \in 0..(PageUnits - 1) : x = PageUnits * q + r
  BY <1>2
<1>4. f = q
  <2>1. PICK s \in Int, t \in Int : s = PageUnits * q /\ t = PageUnits * f
    BY <1>1, <1>2
  <2>2. t = s + r
    BY <1>1, <1>3, <2>1
  <2>3. -PageUnits < s - t /\ s - t < PageUnits
    BY <1>1, <2>1, <2>2
  <2>4. -PageUnits < PageUnits * q - PageUnits * f /\ PageUnits * q - PageUnits * f < PageUnits
    BY <2>1, <2>3
  <2> QED
    BY <1>1, <1>2, <2>4, NearMultiples
<1> QED
  BY <1>4 DEF q, x

-----------------------------------------------------------------------------
(* What the calls do to the allocator *)

IsHeap(h) == h = [pm |-> h.pm, slob |-> h.slob, free |-> h.free, ret |-> h.ret, panic |-> h.panic]

(* From h to u only the list of slobs changes. *)
SlobOnly(h, u) == IsHeap(u) /\ u.pm = h.pm /\ u.panic = h.panic

(* The fields of a heap. *)
LEMMA HeapFields ==
    ASSUME NEW p, NEW s, NEW f, NEW r, NEW w
    PROVE  LET u == [pm |-> p, slob |-> s, free |-> f, ret |-> r, panic |-> w]
           IN  IsHeap(u) /\ u.pm = p /\ u.slob = s /\ u.free = f /\ u.ret = r /\ u.panic = w
BY DEF IsHeap

(* An update of the slobs, of slobfree or of the result leaves the frames. *)
LEMMA HeapSet ==
    ASSUME NEW h, IsHeap(h), NEW s, NEW f, NEW r, NEW u,
           \/ u = [h EXCEPT !.slob = s]
           \/ u = [h EXCEPT !.free = f, !.slob = s]
           \/ u = [h EXCEPT !.slob = s, !.free = f, !.ret = r]
    PROVE  SlobOnly(h, u)
<1>1. PICK p, q, g, t, w : h = [pm |-> p, slob |-> q, free |-> g, ret |-> t, panic |-> w]
  BY DEF IsHeap
<1>2. [h EXCEPT !.slob = s] = [pm |-> p, slob |-> s, free |-> g, ret |-> t, panic |-> w]
  BY <1>1
<1> DEFINE h1 == [h EXCEPT !.free = f]
           h2 == [h EXCEPT !.slob = s]
           h3 == [h2 EXCEPT !.free = f]
<1>a. h1 = [pm |-> p, slob |-> q, free |-> f, ret |-> t, panic |-> w]
  BY <1>1
<1>b. h3 = [pm |-> p, slob |-> s, free |-> f, ret |-> t, panic |-> w]
  <2>1. h2 = [pm |-> p, slob |-> s, free |-> g, ret |-> t, panic |-> w]
    BY <1>2
  <2> HIDE DEF h2
  <2> QED
    BY <2>1
<1>3. [h EXCEPT !.free = f, !.slob = s] = [pm |-> p, slob |-> s, free |-> f, ret |-> t, panic |-> w]
  <2>1. [h EXCEPT !.free = f, !.slob = s] = [h1 EXCEPT !.slob = s]
    OBVIOUS
  <2> HIDE DEF h1
  <2> QED
    BY <1>a, <2>1
<1>4. [h EXCEPT !.slob = s, !.free = f, !.ret = r] = [pm |-> p, slob |-> s, free |-> f, ret |-> r, panic |-> w]
  <2>1. [h EXCEPT !.slob = s, !.free = f, !.ret = r] = [h3 EXCEPT !.ret = r]
    OBVIOUS
  <2> HIDE DEF h3
  <2> QED
    BY <1>b, <2>1
<1>5. h.pm = p /\ h.panic = w
  BY <1>1
<1> HIDE DEF h1, h2, h3
<1>6. \E x, y, z : u = [pm |-> p, slob |-> x, free |-> y, ret |-> z, panic |-> w]
  BY <1>2, <1>3, <1>4
<1> QED
  BY <1>5, <1>6, HeapFields DEF SlobOnly

(* So do slob_free, *)
LEMMA FreeKeeps ==
    ASSUME NEW h, IsHeap(h), NEW b, NEW units
    PROVE  SlobOnly(h, slob_free(h, b, units))
<1>1. PICK s, f : slob_free(h, b, units) = [h EXCEPT !.free = f, !.slob = s]
  BY Zenon DEF slob_free
<1> QED
  BY <1>1, HeapSet, Zenon

(* and the loss of a header. *)
LEMMA WithoutKeeps ==
    ASSUME NEW h, IsHeap(h), NEW b
    PROVE  SlobOnly(h, Without(h, b))
<1>1. PICK s : Without(h, b) = [h EXCEPT !.slob = s]
  BY Zenon DEF Without
<1> QED
  BY <1>1, HeapSet, Zenon

(* The heap between calls. *)
LEMMA HeapIs == IsHeap(Heap) /\ Heap.pm = pm /\ Heap.panic = "none"
BY HeapFields DEF Heap

(* The heap in the middle of a call, whose callers hold L and B. *)
HeapOK(h, L, B) == IsHeap(h) /\ Exact(h.pm, L, B) /\ h.panic # "boot"

(* A step on the slobs keeps who holds which frames. *)
LEMMA SlobOK ==
    ASSUME NEW h, NEW L, NEW B, HeapOK(h, L, B), NEW u, SlobOnly(h, u)
    PROVE  HeapOK(u, L, B)
BY DEF HeapOK, SlobOnly

(* The heap u with these fields. *)
Ends(u, p, r, w) == IsHeap(u) /\ u.pm = p /\ u.ret = r /\ u.panic = w

(* A call stops the kernel, or changes the frames. *)
LEMMA HeapStops ==
    ASSUME NEW h, IsHeap(h), NEW x, NEW r, NEW u, u = [h EXCEPT !.panic = x, !.ret = r]
    PROVE  Ends(u, h.pm, r, x)
<1>1. PICK p, q, g, t, w : h = [pm |-> p, slob |-> q, free |-> g, ret |-> t, panic |-> w]
  BY DEF IsHeap
<1> DEFINE h1 == [h EXCEPT !.panic = x]
<1>2. h1 = [pm |-> p, slob |-> q, free |-> g, ret |-> t, panic |-> x]
  BY <1>1
<1>3. u = [h1 EXCEPT !.ret = r]
  OBVIOUS
<1> HIDE DEF h1
<1>4. u = [pm |-> p, slob |-> q, free |-> g, ret |-> r, panic |-> x]
  BY <1>2, <1>3
<1>5. h.pm = p
  BY <1>1
<1> QED
  BY <1>4, <1>5 DEF IsHeap, Ends

(* The cut of slob_alloc changes only the slobs, or hands out the arena. *)
LEMMA CutOK ==
    ASSUME NEW h, NEW L, NEW B, HeapOK(h, L, B), NEW units
    PROVE  HeapOK(Cut(h, units), L, B)
<1> DEFINE u == Cut(h, units)
<1>1. PICK x, y : x = "arena" /\ y = NULL
  OBVIOUS
<1>2. \/ u = [h EXCEPT !.panic = x, !.ret = y]
      \/ \E s, f, r : u = [h EXCEPT !.slob = s, !.free = f, !.ret = r]
  BY <1>1, Zenon DEF Cut
<1>3. IsHeap(h)
  BY DEF HeapOK
<1> HIDE DEF u
<1>4. CASE u = [h EXCEPT !.panic = x, !.ret = y]
  <2>1. Ends(u, h.pm, y, x)
    BY <1>3, <1>4, HeapStops, Zenon
  <2>2. IsHeap(u) /\ u.pm = h.pm /\ u.panic = "arena"
    BY <1>1, <2>1 DEF Ends
  <2> QED
    BY <2>2 DEF HeapOK, u
<1>5. CASE \E s, f, r : u = [h EXCEPT !.slob = s, !.free = f, !.ret = r]
  <2>1. SlobOnly(h, u)
    BY <1>3, <1>5, HeapSet, Zenon
  <2> QED
    BY <2>1, SlobOK DEF u
<1> QED
  BY <1>2, <1>4, <1>5

(* The frames are those of the allocator after the call. *)
LEMMA HeapTakes ==
    ASSUME NEW h, IsHeap(h), NEW x, NEW r, NEW u, u = [h EXCEPT !.pm = x, !.ret = r]
    PROVE  Ends(u, x, r, h.panic)
<1>1. PICK p, q, g, t, w : h = [pm |-> p, slob |-> q, free |-> g, ret |-> t, panic |-> w]
  BY DEF IsHeap
<1> DEFINE h1 == [h EXCEPT !.pm = x]
<1>2. h1 = [pm |-> x, slob |-> q, free |-> g, ret |-> t, panic |-> w]
  BY <1>1
<1>3. u = [h1 EXCEPT !.ret = r]
  OBVIOUS
<1> HIDE DEF h1
<1>4. u = [pm |-> x, slob |-> q, free |-> g, ret |-> r, panic |-> w]
  BY <1>2, <1>3
<1>5. h.panic = w
  BY <1>1
<1> QED
  BY <1>4, <1>5 DEF IsHeap, Ends

(* alloc_pages *)
LEMMA AllocStep ==
    ASSUME NEW h, NEW L, NEW B, HeapOK(h, L, B), NEW n \in Nat, n > 0
    PROVE  LET u == alloc_pages(h, n)
           IN  HeapOK(u, L, B) /\ (u.ret # NULL => Fresh(L, B, u.pm.list, u.ret, n))
<1> DEFINE r == default_alloc_pages(h.pm, n)
           u == alloc_pages(h, n)
<1>1. /\ Exact(r.a, L, B)
      /\ r.page # NoFrame => Fresh(L, B, r.a.list, r.page, n)
  BY ExactTake DEF HeapOK
<1>2. u = Allocated(h, n, r)
  BY DEF alloc_pages
<1>3. NULL = NoFrame
  BY DEF NULL, NoFrame
<1> HIDE DEF r, u
<1>4. \/ u = [h EXCEPT !.panic = "swap_out", !.ret = NULL]
      \/ u = [h EXCEPT !.pm = r.a, !.ret = r.page]
  BY <1>2 DEF Allocated
<1>5. CASE u = [h EXCEPT !.panic = "swap_out", !.ret = NULL]
  <2>0. IsHeap(h)
    BY DEF HeapOK
  <2>a. PICK x, y : x = "swap_out" /\ y = NULL
    OBVIOUS
  <2>b. u = [h EXCEPT !.panic = x, !.ret = y]
    BY <1>5, <2>a
  <2>c. Ends(u, h.pm, y, x)
    BY <2>0, <2>b, HeapStops, Zenon
  <2>1. IsHeap(u) /\ u.pm = h.pm /\ u.ret = NULL /\ u.panic = "swap_out"
    BY <2>a, <2>c DEF Ends
  <2> QED
    BY <2>1 DEF HeapOK, u
<1>6. CASE u = [h EXCEPT !.pm = r.a, !.ret = r.page]
  <2>0. IsHeap(h)
    BY DEF HeapOK
  <2>a. PICK x, y : x = r.a /\ y = r.page
    OBVIOUS
  <2>b. u = [h EXCEPT !.pm = x, !.ret = y]
    BY <1>6, <2>a
  <2>c. Ends(u, x, y, h.panic)
    BY <2>0, <2>b, HeapTakes, Zenon
  <2>1. IsHeap(u) /\ u.pm = r.a /\ u.ret = r.page /\ u.panic = h.panic
    BY <2>a, <2>c DEF Ends
  <2> QED
    BY <1>1, <1>3, <2>1 DEF HeapOK, u
<1> QED
  BY <1>4, <1>5, <1>6

(* slob_alloc, which may take one page *)
LEMMA SlobAllocStep ==
    ASSUME NEW h, NEW L, NEW B, HeapOK(h, L, B), NEW size
    PROVE  HeapOK(slob_alloc(h, size), L, B)
<1> DEFINE u == slob_alloc(h, size)
           n == SLOB_UNITS(size)
           p == alloc_pages(h, 1)
<1>1. \/ u = [h EXCEPT !.panic = "size", !.ret = NULL]
      \/ u = Cut(h, n)
      \/ u = Grown(p, n)
  BY DEF slob_alloc
<1>2. HeapOK(p, L, B)
  BY AllocStep
<1> HIDE DEF u, n, p
<1>3. CASE u = [h EXCEPT !.panic = "size", !.ret = NULL]
  <2>0. IsHeap(h)
    BY DEF HeapOK
  <2>a. PICK x, y : x = "size" /\ y = NULL
    OBVIOUS
  <2>b. u = [h EXCEPT !.panic = x, !.ret = y]
    BY <1>3, <2>a
  <2>c. Ends(u, h.pm, y, x)
    BY <2>0, <2>b, HeapStops, Zenon
  <2>1. IsHeap(u) /\ u.pm = h.pm /\ u.panic = "size"
    BY <2>a, <2>c DEF Ends
  <2> QED
    BY <2>1 DEF HeapOK, u
<1>4. CASE u = Cut(h, n)
  BY <1>4, CutOK DEF u
<1>5. CASE u = Grown(p, n)
  <2> DEFINE v == slob_free(p, AddrOf(p.ret), PageUnits)
  <2>1. u = p \/ u = Cut(v, n)
    BY <1>5 DEF Grown
  <2>2. HeapOK(v, L, B)
    <3>1. IsHeap(p)
      BY <1>2 DEF HeapOK
    <3>2. SlobOnly(p, v)
      BY <3>1, FreeKeeps
    <3> HIDE DEF v
    <3> QED
      BY <1>2, <3>2, SlobOK
  <2> HIDE DEF v
  <2>3. HeapOK(Cut(v, n), L, B)
    BY <2>2, CutOK
  <2> QED
    BY <1>2, <2>1, <2>3 DEF u
<1> QED
  BY <1>1, <1>3, <1>4, <1>5

-----------------------------------------------------------------------------
(* The invariant *)

(* Until check_alloc_page the list is as page_init made it; then the free  *)
(* frames, the frames that callers hold and those of the big blocks are    *)
(* apart.                                                                  *)
PagesInv ==
    /\ Exact(pm, live, bigblocks)
    /\ panic = "boot" => One(pm.list, Blk(0, NPages)) /\ live = {} /\ bigblocks = << >>

(* Without callers only the free list counts. *)
LEMMA ExactNone ==
    ASSUME NEW a, PmOK(a)
    PROVE  Exact(a, {}, << >>)
<1> DEFINE e == << >>
<1>1. e \in Seq({}) /\ Len(e) = 0
  OBVIOUS
<1> HIDE DEF e
<1>2. Listed(e)
  BY <1>1 DEF Listed
<1>3. HeldPages({}, a.list) /\ HeldBig(e, a.list) /\ HeldBoth({}, e)
  BY <1>1 DEF HeldPages, HeldBig, HeldBoth
<1> QED
  BY <1>2, <1>3 DEF Exact, e

(* The initial state has the invariant. *)
LEMMA InitPages == Init => PagesInv
<1>1. PmOK(page_init) /\ One(page_init.list, Blk(0, NPages))
  BY InitOK
<1>2. Exact(page_init, {}, << >>)
  BY <1>1, ExactNone
<1> QED
  BY <1>1, <1>2 DEF Init, PagesInv

(* A call that leaves a heap with the frames of its callers. *)
LEMMA Adopted ==
    ASSUME NEW h, HeapOK(h, live', bigblocks'), Adopt(h)
    PROVE  PagesInv'
<1>1. pm' = h.pm /\ panic' = h.panic
  BY DEF Adopt
<1>2. Exact(h.pm, live', bigblocks') /\ h.panic # "boot"
  BY DEF HeapOK
<1>3. Exact(pm', live', bigblocks') /\ panic' # "boot"
  BY <1>1, <1>2
<1> QED
  BY <1>3 DEF PagesInv

(* A call begins with the invariant. *)
LEMMA HeapNow ==
    ASSUME PagesInv
    PROVE  HeapOK(Heap, live, bigblocks)
BY HeapIs DEF PagesInv, HeapOK

(* pmm_init runs its test. *)
LEMMA PmmInitStep ==
    ASSUME PagesInv, PmmInit
    PROVE  PagesInv'
<1>1. One(pm.list, Blk(0, NPages)) /\ live = {} /\ bigblocks = << >> /\ PmOK(pm)
  BY DEF PagesInv, PmmInit, Exact
<1>2. PmOK(default_check(pm))
  BY <1>1, CheckOK
<1>3. Exact(default_check(pm), {}, << >>)
  BY <1>2, ExactNone
<1>4. pm' = default_check(pm) /\ live' = {} /\ bigblocks' = << >> /\ panic' = "none"
  BY <1>1 DEF PmmInit
<1>5. Exact(pm', live', bigblocks') /\ panic' # "boot"
  BY <1>3, <1>4
<1> QED
  BY <1>5 DEF PagesInv

(* swap_init keeps the invariant. *)
LEMMA SwapInitStep ==
    ASSUME PagesInv, SwapInit
    PROVE  PagesInv'
BY DEF PagesInv, SwapInit

(* Nothing changes when kfree would free a big block in place of a header. *)
LEMMA KfreeAliasStep ==
    ASSUME PagesInv, KfreeAlias
    PROVE  PagesInv'
BY DEF PagesInv, KfreeAlias

(* kmalloc of a small object *)
LEMMA SmallStep ==
    ASSUME PagesInv, NEW size, kmalloc_small(size)
    PROVE  PagesInv'
<1>1. PICK h \in {slob_alloc(Heap, size + SLOB_UNIT)} :
         Adopt(h) /\ Got(IF h.ret = NULL THEN NULL ELSE h.ret + 1, size)
  BY DEF kmalloc_small
<1>2. HeapOK(h, live, bigblocks)
  BY <1>1, HeapNow, SlobAllocStep
<1>3. bigblocks' = bigblocks
  BY DEF kmalloc_small
<1>4. live' = live \/ \E x : live' = live \cup {<<"object", x, size>>}
  BY <1>1 DEF Got
<1>5. Exact(h.pm, live, bigblocks) /\ IsHeap(h) /\ h.panic # "boot"
  BY <1>2 DEF HeapOK
<1>6. Exact(h.pm, live', bigblocks)
  <2>1. CASE live' = live
    BY <1>5, <2>1
  <2>2. ASSUME NEW x, live' = live \cup {<<"object", x, size>>}
        PROVE  Exact(h.pm, live', bigblocks)
    <3>1. Exact(h.pm, live \cup {<<"object", x, size>>}, bigblocks)
      BY <1>5, ExactObject
    <3> QED
      BY <2>2, <3>1
  <2> QED
    BY <1>4, <2>1, <2>2
<1>7. HeapOK(h, live', bigblocks')
  BY <1>3, <1>5, <1>6 DEF HeapOK
<1> QED
  BY <1>1, <1>7, Adopted

(* kmalloc of whole pages: the record comes from the list of slobs, and    *)
(* goes back there when there are no pages.                                *)
LEMMA BigStep ==
    ASSUME PagesInv, NEW size \in Nat, kmalloc_big(size)
    PROVE  PagesInv'
<1>1. PICK h \in {slob_alloc(Heap, BigBytes)} :
         \/ h.ret = NULL /\ Adopt(h) /\ UNCHANGED <<live, bigblocks>>
         \/ /\ h.ret # NULL
            /\ \E p \in {alloc_pages(Without(h, h.ret), PagesOf(find_order(size)))} :
                 KmallocPages(p, h.ret, size)
  BY DEF kmalloc_big
<1>2. HeapOK(h, live, bigblocks)
  BY <1>1, HeapNow, SlobAllocStep
<1>3. CASE h.ret = NULL /\ Adopt(h) /\ UNCHANGED <<live, bigblocks>>
  <2>1. HeapOK(h, live', bigblocks')
    BY <1>2, <1>3
  <2> QED
    BY <1>3, <2>1, Adopted
<1>4. ASSUME NEW p, p = alloc_pages(Without(h, h.ret), PagesOf(find_order(size))), KmallocPages(p, h.ret, size)
      PROVE  PagesInv'
  <2> DEFINE w == Without(h, h.ret)
             o == find_order(size)
             n == PagesOf(o)
             bb == h.ret
  <2>1. HeapOK(w, live, bigblocks)
    <3>1. IsHeap(h)
      BY <1>2 DEF HeapOK
    <3>2. SlobOnly(h, w)
      BY <3>1, WithoutKeeps
    <3> HIDE DEF w
    <3> QED
      BY <1>2, <3>2, SlobOK
  <2>2. o \in Nat /\ n \in Nat /\ n > 0
    BY OrderIs, PagesSome
  <2>3. p = alloc_pages(w, n)
    BY <1>4
  <2> HIDE DEF w, n
  <2>4. HeapOK(p, live, bigblocks) /\ (p.ret # NULL => Fresh(live, bigblocks, p.pm.list, p.ret, n))
    BY <2>1, <2>2, <2>3, AllocStep
  <2>5. IsHeap(p) /\ Exact(p.pm, live, bigblocks) /\ p.panic # "boot"
    BY <2>4 DEF HeapOK
  <2>6. CASE p.ret = NULL
    <3> DEFINE v == IF p.panic = "none" THEN slob_free(p, bb, SLOB_UNITS(BigBytes)) ELSE p
    <3>1. Adopt(v) /\ live' = live /\ bigblocks' = bigblocks
      BY <1>4, <2>6 DEF KmallocPages
    <3>2. SlobOnly(p, slob_free(p, bb, SLOB_UNITS(BigBytes)))
      BY <2>5, FreeKeeps
    <3>3. HeapOK(slob_free(p, bb, SLOB_UNITS(BigBytes)), live, bigblocks)
      BY <2>4, <3>2, SlobOK
    <3>4. HeapOK(v, live, bigblocks)
      BY <2>4, <3>3
    <3> HIDE DEF v
    <3>5. HeapOK(v, live', bigblocks')
      BY <3>1, <3>4
    <3> QED
      BY <3>1, <3>5, Adopted
  <2>7. CASE p.ret # NULL
    <3> DEFINE b == [order |-> o, pages |-> AddrOf(p.ret), bb |-> bb]
    <3>1. Adopt(p) /\ bigblocks' = <<b>> \o bigblocks /\ Got(AddrOf(p.ret), size)
      BY <1>4, <2>7 DEF KmallocPages
    <3>2. live' = live \/ live' = live \cup {<<"object", AddrOf(p.ret), size>>}
      BY <3>1 DEF Got
    <3>3. Fresh(live, bigblocks, p.pm.list, p.ret, n)
      BY <2>4, <2>7
    <3>4. p.ret \in Nat
      BY <3>3 DEF Fresh, Region
    <3>5. b.order = o /\ b.pages = AddrOf(p.ret)
      OBVIOUS
    <3> HIDE DEF b, o
    <3>6. FrameOf(b) = p.ret
      BY <3>4, <3>5, FrameBack DEF FrameOf
    <3>7. CountOf(b) = n
      BY <3>5 DEF CountOf, n
    <3>8. Exact(p.pm, live, <<b>> \o bigblocks)
      BY <2>5, <3>3, <3>6, <3>7, ExactBig
    <3> DEFINE B == <<b>> \o bigblocks
               x == AddrOf(p.ret)
    <3> HIDE DEF B, x
    <3>9. Exact(p.pm, live', B)
      <4>1. Exact(p.pm, live, B)
        BY <3>8 DEF B
      <4>2. Exact(p.pm, live \cup {<<"object", x, size>>}, B)
        BY <4>1, ExactObject
      <4>3. live' = live \/ live' = live \cup {<<"object", x, size>>}
        BY <3>2 DEF x
      <4> QED
        BY <4>1, <4>2, <4>3
    <3>10. bigblocks' = B
      BY <3>1 DEF B
    <3>11. HeapOK(p, live', bigblocks')
      BY <2>5, <3>9, <3>10 DEF HeapOK
    <3> QED
      BY <3>1, <3>11, Adopted
  <2> QED
    BY <2>6, <2>7
<1> QED
  BY <1>1, <1>3, <1>4

(* kfree of an object *)
LEMMA KfreeStep ==
    ASSUME PagesInv, Kfree
    PROVE  PagesInv'
<1>1. PICK o \in live : kfree(o[2]) /\ live' = live \ {o}
  BY DEF Kfree
<1> DEFINE a == o[2]
<1>2. HeapOK(Heap, live, bigblocks)
  BY HeapNow
<1>3. Exact(pm, live, bigblocks)
  BY DEF PagesInv
<1>4. live' \in SUBSET live
  BY <1>1
<1>5. CASE BigAt(a) # {}
  <2> DEFINE i == Min(BigAt(a))
             b == bigblocks[i]
             u == free_pages(Heap, a \div PageUnits, PagesOf(b.order))
             v == slob_free(u, b.bb, SLOB_UNITS(BigBytes))
  <2>1. bigblocks' = list_del(bigblocks, i) /\ Adopt(v)
    BY <1>1, <1>5 DEF kfree
  <2>2. i \in 1..Len(bigblocks) /\ b.pages = a
    <3>1. BigAt(a) \in SUBSET Nat
      BY DEF BigAt
    <3>2. i \in BigAt(a)
      BY <1>5, <3>1, MinIs
    <3> QED
      BY <3>2 DEF BigAt
  <2>3. u = free_pages(Heap, FrameOf(b), CountOf(b))
    BY <2>2 DEF FrameOf, CountOf
  <2> HIDE DEF u, v
  <2>4. IsHeap(u) /\ u.pm = default_free_pages(pm, FrameOf(b), CountOf(b)) /\ u.panic = "none"
    <3> DEFINE c == default_free_pages(pm, FrameOf(b), CountOf(b))
    <3>1. u = [Heap EXCEPT !.pm = c]
      BY <2>3, HeapIs DEF free_pages
    <3> HIDE DEF c
    <3>2. u = [pm |-> c, slob |-> slob, free |-> slobfree, ret |-> NULL, panic |-> "none"]
      BY <3>1 DEF Heap
    <3> QED
      BY <3>2, HeapFields DEF c
  <2>5. Exact(u.pm, live, RemoveAt(bigblocks, i))
    <3> HIDE DEF i
    <3> QED
      BY <1>3, <2>2, <2>4, ExactFreeBig
  <2>6. Exact(u.pm, live', bigblocks')
    BY <1>4, <2>1, <2>5, ExactLess DEF list_del
  <2>7. HeapOK(u, live', bigblocks')
    BY <2>4, <2>6 DEF HeapOK
  <2>8. SlobOnly(u, v)
    BY <2>4, FreeKeeps DEF v
  <2>9. HeapOK(v, live', bigblocks')
    BY <2>7, <2>8, SlobOK
  <2> QED
    BY <2>1, <2>9, Adopted
<1>6. CASE BigAt(a) = {}
  <2> DEFINE u == Without(Heap, a - 1)
             v == slob_free(u, a - 1, slob[a - 1].units)
  <2>1. Adopt(v) /\ bigblocks' = bigblocks
    BY <1>1, <1>6 DEF kfree
  <2>2. SlobOnly(Heap, u)
    BY HeapIs, WithoutKeeps
  <2> HIDE DEF u
  <2>3. IsHeap(u)
    BY <2>2 DEF SlobOnly
  <2>4. SlobOnly(u, v)
    BY <2>3, FreeKeeps
  <2> HIDE DEF v
  <2>5. HeapOK(v, live, bigblocks)
    BY <1>2, <2>2, <2>4, SlobOK
  <2>6. Exact(v.pm, live', bigblocks)
    BY <1>4, <2>5, ExactLess DEF HeapOK
  <2>7. HeapOK(v, live', bigblocks')
    BY <2>1, <2>5, <2>6 DEF HeapOK
  <2> QED
    BY <2>1, <2>7, Adopted
<1> QED
  BY <1>5, <1>6

(* alloc_pages for page tables, user pages and stacks *)
LEMMA AllocPagesStep ==
    ASSUME PagesInv, NEW n \in Nat, n > 0, AllocPages(n)
    PROVE  PagesInv'
<1>1. PICK h : /\ h = alloc_pages(Heap, n)
               /\ Adopt(h)
               /\ live' = IF h.ret = NULL THEN live ELSE live \cup {<<"pages", h.ret, n>>}
  BY DEF AllocPages
<1>2. bigblocks' = bigblocks
  BY DEF AllocPages
<1>3. HeapOK(h, live, bigblocks) /\ (h.ret # NULL => Fresh(live, bigblocks, h.pm.list, h.ret, n))
  BY <1>1, HeapNow, AllocStep
<1>4. Exact(h.pm, live, bigblocks) /\ IsHeap(h) /\ h.panic # "boot"
  BY <1>3 DEF HeapOK
<1>5. h.ret # NULL => Exact(h.pm, live \cup {<<"pages", h.ret, n>>}, bigblocks)
  BY <1>3, <1>4, ExactPages
<1>6. Exact(h.pm, live', bigblocks)
  BY <1>1, <1>4, <1>5
<1>7. HeapOK(h, live', bigblocks')
  BY <1>2, <1>4, <1>6 DEF HeapOK
<1> QED
  BY <1>1, <1>7, Adopted

(* free_pages keeps the invariant. *)
LEMMA FreePagesStep ==
    ASSUME PagesInv, FreePages
    PROVE  PagesInv'
<1>1. PICK o \in live : o[1] = "pages" /\ Adopt(free_pages(Heap, o[2], o[3])) /\ live' = live \ {o}
  BY DEF FreePages
<1>2. bigblocks' = bigblocks
  BY DEF FreePages
<1> DEFINE u == free_pages(Heap, o[2], o[3])
           c == default_free_pages(pm, o[2], o[3])
<1>3. IsHeap(u) /\ u.pm = c /\ u.panic = "none"
  <2>1. u = [Heap EXCEPT !.pm = c]
    BY HeapIs DEF free_pages
  <2> HIDE DEF c, u
  <2>2. u = [pm |-> c, slob |-> slob, free |-> slobfree, ret |-> NULL, panic |-> "none"]
    BY <2>1 DEF Heap
  <2> QED
    BY <2>2, HeapFields
<1>4. Exact(c, live \ {o}, bigblocks)
  BY <1>1, ExactFree DEF PagesInv
<1> HIDE DEF c, u
<1>5. Exact(u.pm, live', bigblocks')
  BY <1>1, <1>2, <1>3, <1>4
<1>6. HeapOK(u, live', bigblocks')
  BY <1>3, <1>5 DEF HeapOK
<1> QED
  BY <1>1, <1>6, Adopted DEF u

(* Every step keeps the invariant. *)
LEMMA NextPages == PagesInv /\ [Next]_vars => PagesInv'
<1> SUFFICES ASSUME PagesInv, [Next]_vars
             PROVE  PagesInv'
  OBVIOUS
<1>1. CASE PmmInit
  BY <1>1, PmmInitStep
<1>2. CASE SwapInit
  BY <1>2, SwapInitStep
<1>3. ASSUME NEW size \in Sizes, Kmalloc(size)
      PROVE  PagesInv'
  <2>1. size \in Nat
    BY KmallocAssumption
  <2>2. kmalloc_small(size) \/ kmalloc_big(size)
    BY <1>3 DEF Kmalloc, kmalloc
  <2> QED
    BY <2>1, <2>2, SmallStep, BigStep
<1>4. CASE Kfree
  BY <1>4, KfreeStep
<1>5. ASSUME NEW n \in {1, 2}, AllocPages(n)
      PROVE  PagesInv'
  BY <1>5, AllocPagesStep
<1>6. CASE FreePages
  BY <1>6, FreePagesStep
<1>7. CASE KfreeAlias
  BY <1>7, KfreeAliasStep
<1>8. CASE UNCHANGED vars
  BY <1>8 DEF PagesInv, vars
<1> QED
  BY <1>1, <1>2, <1>3, <1>4, <1>5, <1>6, <1>7, <1>8 DEF Next

(* The invariant implies the property. *)
LEMMA PagesMeans == PagesInv => PagesExact
<1> SUFFICES ASSUME PagesInv
             PROVE  PagesExact
  OBVIOUS
<1> DEFINE l == pm.list
<1>1. PmOK(pm) /\ HeldPages(live, l) /\ HeldBig(bigblocks, l)
  BY DEF PagesInv, Exact
<1>2. pm.ok /\ ListOK(l) /\ pm.nr_free = Frees(l)
  BY <1>1 DEF PmOK
<1>3. pm.nr_free = Total(pm)
  BY <1>2 DEF Total, Frees
<1>4. /\ l \in Seq(BlockRec) /\ Len(l) \in Nat
      /\ \A i \in 1..Len(l) : l[i].base \in Nat /\ l[i].n \in Nat
  BY <1>2, BlockFields DEF ListOK
<1> HIDE DEF l
<1>5. ASSUME NEW i \in 1..(Len(l) - 1)
      PROVE  l[i].base + l[i].n < l[i + 1].base
  <2>1. i \in 1..Len(l) /\ i + 1 \in 1..Len(l) /\ i < i + 1
    BY <1>4
  <2> QED
    BY <1>2, <2>1 DEF ListOK
<1>6. ASSUME NEW i \in 1..Len(l), NEW f, NEW n, Region(f, n), Apart(l, f, n)
      PROVE  Span(l[i]) \cap Span([base |-> f, n |-> n]) = {}
  <2>1. PICK x \in Nat, y \in Nat, g \in Nat, k \in Nat : x = f /\ y = n /\ g = l[i].base /\ k = l[i].n
    BY <1>4, <1>6 DEF Region
  <2>2. Disjoint(f, n, l[i].base, l[i].n)
    BY <1>6 DEF Apart
  <2>3. x + y <= g \/ g + k <= x
    BY <2>1, <2>2 DEF Disjoint
  <2>4. g..(g + k - 1) \cap x..(x + y - 1) = {}
    BY <2>3
  <2>5. Span(l[i]) = g..(g + k - 1) /\ Span([base |-> f, n |-> n]) = x..(x + y - 1)
    BY <2>1 DEF Span
  <2> QED
    BY <2>4, <2>5
<1>7. ASSUME NEW i \in 1..Len(l), NEW x \in Span(l[i]), x \in HeldFrames
      PROVE  FALSE
  <2>1. \/ \E o \in live : o[1] = "pages" /\ x \in Span([base |-> o[2], n |-> o[3]])
        \/ \E j \in 1..Len(bigblocks) :
              x \in Span([base |-> bigblocks[j].pages \div PageUnits, n |-> PagesOf(bigblocks[j].order)])
    BY <1>7 DEF HeldFrames
  <2>2. ASSUME NEW o \in live, o[1] = "pages", x \in Span([base |-> o[2], n |-> o[3]])
        PROVE  FALSE
    <3>1. Region(o[2], o[3]) /\ Apart(l, o[2], o[3])
      BY <1>1, <2>2 DEF HeldPages
    <3>2. Span(l[i]) \cap Span([base |-> o[2], n |-> o[3]]) = {}
      BY <1>6, <3>1
    <3> QED
      BY <1>7, <2>2, <3>2
  <2>3. ASSUME NEW j \in 1..Len(bigblocks),
               x \in Span([base |-> bigblocks[j].pages \div PageUnits, n |-> PagesOf(bigblocks[j].order)])
        PROVE  FALSE
    <3>1. PICK f, n : f = FrameOf(bigblocks[j]) /\ n = CountOf(bigblocks[j])
      OBVIOUS
    <3>2. Region(f, n) /\ Apart(l, f, n)
      BY <1>1, <3>1 DEF HeldBig
    <3>3. x \in Span([base |-> f, n |-> n])
      BY <2>3, <3>1 DEF FrameOf, CountOf
    <3> QED
      BY <1>6, <1>7, <3>2, <3>3
  <2> QED
    BY <2>1, <2>2, <2>3
<1> QED
  BY <1>2, <1>3, <1>5, <1>7 DEF PagesExact, l

(* For every number of frames from five on, every set of sizes and every   *)
(* order of the calls of alloc_pages, free_pages, kmalloc and kfree,       *)
(* failed ones included: the free list is in order of address with no two  *)
(* blocks that touch, nr_free counts its frames, none of them is in the    *)
(* hands of a caller or of a big block, and no assertion of default_pmm.c  *)
(* has failed, those of basic_check and default_check included.            *)
THEOREM FreeListExact == Spec => []PagesExact
<1>1. Init => PagesInv
  BY InitPages
<1>2. PagesInv /\ [Next]_vars => PagesInv'
  BY NextPages
<1>3. PagesInv => PagesExact
  BY PagesMeans
<1> QED
  BY <1>1, <1>2, <1>3, PTL DEF Spec

-----------------------------------------------------------------------------
(* The blocks of the heap.  s is slob: the headers of the free blocks and  *)
(* of the small objects.                                                   *)

SlobRec == [units : Nat \ {0}, next : Int]

(* The free blocks: who takes a block sets its next to NULL. *)
Ringed(s) == {b \in DOMAIN s : s[b].next # NULL}

(* y is the next address of R behind x, or the first when x is the last. *)
Follows(R, x, y) ==
    \/ x < y /\ \A z \in R : z <= x \/ y <= z
    \/ \A z \in R : y <= z /\ z <= x

(* The free blocks, the arena among them, are a ring in order of address. *)
Shape(s) ==
    /\ s \in [DOMAIN s -> SlobRec]
    /\ \A x \in DOMAIN s : x = arena \/ x \in Nat
    /\ arena \in Ringed(s) /\ s[arena].units = 1
    /\ \A x \in Ringed(s) : s[x].next \in Ringed(s) /\ Follows(Ringed(s), x, s[x].next)

(* u is one of the n units from b on. *)
In(u, b, n) == b <= u /\ u < b + n

(* The units U are those of the blocks of s and of K, pairs of an address  *)
(* and a size, and all of these are apart.                                 *)
Cells(s, U, K) ==
    /\ \A k \in K : k[1] \in Nat /\ k[2] \in Nat \ {0}
    /\ \A u \in Nat : u \in U <=> \/ \E b \in DOMAIN s : b # arena /\ In(u, b, s[b].units)
                                  \/ \E k \in K : In(u, k[1], k[2])
    /\ \A x, y \in DOMAIN s : x < y => x + s[x].units <= y
    /\ \A x \in DOMAIN s, k \in K : x # arena => Disjoint(x, s[x].units, k[1], k[2])
    /\ \A k, j \in K : k # j => Disjoint(k[1], k[2], j[1], j[2])

Linked(s, U, K) == Shape(s) /\ Cells(s, U, K) /\ \E top \in Nat : \A u \in U : u <= top

-----------------------------------------------------------------------------
(* The ring of free blocks *)

(* A set of addresses up to top has a greatest element. *)
LEMMA Greatest ==
    ASSUME NEW X, X # {}, \A x \in X : x = arena \/ x \in Nat, NEW top \in Nat, \A x \in X : x <= top
    PROVE  \E m \in X : \A x \in X : x <= m
<1>0. arena = -2
  BY DEF arena
<1>1. \A x \in X : x \in Int /\ top - x \in Nat
  BY <1>0
<1> DEFINE T == {n \in Nat : \E x \in X : n = top - x}
<1>2. PICK y \in X : TRUE
  OBVIOUS
<1>3. T \in SUBSET Nat /\ T # {}
  BY <1>1, <1>2
<1>4. \A x \in X : top - x \in T
  BY <1>1
<1>5. \A n \in T : \E x \in X : n = top - x
  OBVIOUS
<1> HIDE DEF T
<1>6. PICK n \in T : \A k \in T : n <= k
  BY <1>3, LeastNat
<1>7. PICK m \in X : n = top - m
  BY <1>5
<1>8. ASSUME NEW x \in X
      PROVE  x <= m
  <2>1. n <= top - x
    BY <1>4, <1>6
  <2>2. x \in Int /\ m \in Int
    BY <1>1
  <2> QED
    BY <1>7, <2>1, <2>2
<1> QED
  BY <1>8

(* The blocks of a ring are numbers, and next leads from one to the next. *)
LEMMA RingFields ==
    ASSUME NEW s, Shape(s)
    PROVE  /\ \A x \in Ringed(s) : /\ x \in DOMAIN s /\ x \in Int /\ arena <= x
                                   /\ s[x].next \in Ringed(s) /\ s[x].next \in Int
                                   /\ s[x].units \in Nat /\ s[x].units > 0
                                   /\ Follows(Ringed(s), x, s[x].next)
           /\ arena \in Ringed(s)
<1>0. arena = -2
  BY DEF arena
<1>1. ASSUME NEW x \in Ringed(s)
      PROVE  x \in DOMAIN s /\ x \in Int /\ arena <= x
  BY <1>0 DEF Shape, Ringed
<1>2. ASSUME NEW x \in Ringed(s)
      PROVE  s[x].next \in Ringed(s) /\ Follows(Ringed(s), x, s[x].next)
  BY DEF Shape
<1>3. ASSUME NEW x \in Ringed(s)
      PROVE  s[x].units \in Nat /\ s[x].units > 0
  BY <1>1 DEF Shape, SlobRec
<1>4. arena \in Ringed(s)
  BY DEF Shape
<1> QED
  BY <1>1, <1>2, <1>3, <1>4

(* No two blocks have the same next. *)
LEMMA NextOne ==
    ASSUME NEW s, Shape(s), NEW x \in Ringed(s), NEW y \in Ringed(s), s[x].next = s[y].next
    PROVE  x = y
<1>1. PICK a \in Int, b \in Int, c \in Int : a = x /\ b = y /\ c = s[x].next
  BY RingFields
<1>2. Follows(Ringed(s), a, c) /\ Follows(Ringed(s), b, c) /\ a \in Ringed(s) /\ b \in Ringed(s) /\ c \in Ringed(s)
  BY <1>1, RingFields
<1>3. a = b
  BY <1>2 DEF Follows
<1> QED
  BY <1>1, <1>3

(* Who starts at a block and follows next meets all of them. *)
LEMMA RingClosed ==
    ASSUME NEW s, Shape(s), NEW top \in Nat, \A x \in Ringed(s) : x <= top,
           NEW X \in SUBSET Ringed(s), X # {}, \A x \in X : s[x].next \in X
    PROVE  X = Ringed(s)
<1> DEFINE R == Ringed(s)
<1>1. \A x \in R : /\ x \in Int /\ arena <= x /\ s[x].next \in R /\ s[x].next \in Int
                   /\ Follows(R, x, s[x].next)
  BY RingFields
<1>2. \A x \in R : x = arena \/ x \in Nat
  BY DEF Shape, Ringed
<1>3. arena \in R /\ arena \in Int
  BY RingFields
<1> HIDE DEF R
<1>4. arena \in X
  <2>1. PICK m \in X : \A x \in X : x <= m
    <3>1. \A x \in X : (x = arena \/ x \in Nat) /\ x <= top
      BY <1>2 DEF R
    <3> QED
      BY <3>1, Greatest
  <2>2. m \in R /\ s[m].next \in X /\ s[m].next <= m
    BY <2>1 DEF R
  <2>3. s[m].next <= arena
    BY <1>1, <1>3, <2>2 DEF Follows
  <2>4. s[m].next = arena
    BY <1>1, <1>3, <2>2, <2>3
  <2> QED
    BY <2>2, <2>4
<1>5. SUFFICES ASSUME NEW y0 \in R, y0 \notin X PROVE FALSE
  BY DEF R
<1> DEFINE T == {n \in Nat : n \in R /\ n \notin X}
<1>6. y0 \in T
  BY <1>2, <1>4, <1>5
<1>7. PICK y \in T : \A k \in T : y <= k
  <2>1. T \in SUBSET Nat /\ T # {}
    BY <1>6
  <2> HIDE DEF T
  <2> QED
    BY <2>1, LeastNat
<1> DEFINE Y == {x \in R : x < y}
<1>8. PICK p \in Y : \A x \in Y : x <= p
  <2>1. arena \in Y
    BY <1>1, <1>3, <1>7 DEF arena
  <2>2. \A x \in Y : (x = arena \/ x \in Nat) /\ x <= top
    BY <1>2 DEF R
  <2> HIDE DEF Y
  <2> QED
    BY <2>1, <2>2, Greatest
<1>9. p \in X
  BY <1>2, <1>4, <1>7, <1>8
<1>10. PICK a \in Int, b \in Int, c \in Int : a = p /\ b = s[p].next /\ c = y
  BY <1>1, <1>8
<1>11. a < c /\ a \in R /\ b \in R /\ c \in R /\ Follows(R, a, b) /\ \A x \in R : x < c => x <= a
  BY <1>1, <1>7, <1>8, <1>10
<1>12. b = c
  BY <1>1, <1>11 DEF Follows
<1> QED
  BY <1>7, <1>9, <1>10, <1>12

(* Ring is what its recursion says. *)
LEMMA RingDef ==
    ASSUME NEW h, Shape(h.slob), h.free \in Ringed(h.slob), RingLen(h) \in Nat
    PROVE  /\ Ring(h) \in [0..RingLen(h) -> Ringed(h.slob)]
           /\ Ring(h)[0] = h.free
           /\ \A i \in 1..RingLen(h) : Ring(h)[i] = h.slob[Ring(h)[i - 1]].next
<1> DEFINE m == RingLen(h)
           s == h.slob
           a == h.free
           V == Ringed(s)
           step == [i \in Nat |-> [v \in V |-> s[v].next]]
           Body(f) == [i \in 0..m |-> IF i = 0 THEN a ELSE s[f[i - 1]].next]
           walk == CHOOSE f : f = Body(f)
<1>1. \A v \in V : s[v].next \in V
  BY RingFields
<1>2. m \in Nat /\ a \in V
  OBVIOUS
<1>7. Ring(h) = walk
  BY DEF Ring
<1> HIDE DEF m, s, a, V
<1>3. step \in [Nat -> [V -> V]]
  BY <1>1
<1>4. PICK g \in [0..m -> V] : g[0] = a /\ \A i \in 1..m : g[i] = step[i][g[i - 1]]
  <2> HIDE DEF step
  <2>2. LoopRuns(V, a, m, step) # {}
    BY <1>2, <1>3, LoopValues
  <2> QED
    BY <2>2 DEF LoopRuns
<1>5. ASSUME NEW i \in 1..m
      PROVE  g[i] = s[g[i - 1]].next
  <2>1. i \in Nat /\ g[i - 1] \in V
    BY <1>2
  <2>2. step[i][g[i - 1]] = s[g[i - 1]].next
    BY <2>1
  <2> QED
    BY <1>4, <2>2
<1>6. g = Body(g)
  <2>1. \A i \in 0..m : g[i] = Body(g)[i]
    BY <1>4, <1>5
  <2> QED
    BY <2>1
<1>8. walk = Body(walk)
  BY <1>6
<1> HIDE DEF walk
<1>9. walk[0] = a /\ DOMAIN walk = 0..m /\ \A i \in 1..m : walk[i] = s[walk[i - 1]].next
  BY <1>2, <1>8
<1>10. \A i \in 0..m : walk[i] \in V
  <2> DEFINE T == {k \in Nat : k <= m => walk[k] \in V}
  <2>1. 0 \in T
    BY <1>2, <1>9
  <2>2. ASSUME NEW n \in 0..(m - 1), n \in T
        PROVE  n + 1 \in T
    <3>1. n + 1 \in 1..m /\ (n + 1) - 1 = n /\ walk[n] \in V
      BY <1>2, <2>2
    <3>2. walk[n + 1] = s[walk[n]].next
      BY <1>9, <3>1
    <3>3. walk[n + 1] \in V
      BY <1>1, <3>1, <3>2
    <3> QED
      BY <3>1, <3>3
  <2> HIDE DEF T
  <2>3. \A i \in 0..m : i \in T
    BY <1>2, <2>1, <2>2, BoundedInduction
  <2> QED
    BY <1>2, <2>3 DEF T
<1>11. walk = [i \in 0..m |-> walk[i]]
  BY <1>8
<1>12. walk \in [0..m -> V]
  BY <1>10, <1>11
<1> QED
  BY <1>7, <1>9, <1>12 DEF m, s, a, V

(* The number of blocks that a search passes at most. *)
LEMMA RingFinite ==
    ASSUME NEW h, Shape(h.slob), NEW top \in Nat, \A x \in DOMAIN h.slob : x <= top
    PROVE  /\ IsFiniteSet(DOMAIN h.slob) /\ RingLen(h) \in Nat
           /\ IsFiniteSet(Ringed(h.slob)) /\ Cardinality(Ringed(h.slob)) \in Nat
           /\ Cardinality(Ringed(h.slob)) <= RingLen(h)
<1> DEFINE D == DOMAIN h.slob
           R == Ringed(h.slob)
<1>1. D \in SUBSET ((-2)..top)
  BY DEF Shape, arena
<1>2. R \in SUBSET D
  BY DEF Ringed
<1> HIDE DEF D, R
<1>3. IsFiniteSet((-2)..top)
  BY FS_Interval
<1>4. IsFiniteSet(D) /\ Cardinality(D) \in Nat
  BY <1>1, <1>3, FS_Subset, FS_CardinalityType
<1>5. IsFiniteSet(R) /\ Cardinality(R) \in Nat /\ Cardinality(R) <= Cardinality(D)
  BY <1>2, <1>4, FS_Subset, FS_CardinalityType
<1> QED
  BY <1>4, <1>5 DEF RingLen, D, R

(* The walk comes back to its start. *)
LEMMA RingReturns ==
    ASSUME NEW s, Shape(s), NEW n \in Nat, NEW w \in [0..n -> Ringed(s)],
           \A i \in 1..n : w[i] = s[w[i - 1]].next,
           IsFiniteSet(Ringed(s)), Cardinality(Ringed(s)) \in Nat, Cardinality(Ringed(s)) <= n
    PROVE  \E i \in 1..n : w[i] = w[0]
<1> DEFINE R == Ringed(s)
           S == 0..n
           T == {i \in S : \E j \in S : i < j /\ w[i] = w[j]}
<1>1. IsFiniteSet(S) /\ Cardinality(S) = n + 1
  BY FS_Interval
<1>2. \E x, y \in S : x # y /\ w[x] = w[y]
  <2>1. Cardinality(R) < Cardinality(S) /\ w \in [S -> R] /\ IsFiniteSet(R)
    BY <1>1
  <2> HIDE DEF R, S
  <2> QED
    BY <1>1, <2>1, FS_PigeonHole
<1>3. T \in SUBSET Nat /\ T # {}
  BY <1>2
<1>4. PICK i \in T : \A k \in T : i <= k
  <2> HIDE DEF T
  <2> QED
    BY <1>3, LeastNat
<1>5. PICK j \in S : i < j /\ w[i] = w[j]
  BY <1>4
<1>6. i = 0
  <2> SUFFICES ASSUME i # 0 PROVE FALSE
    OBVIOUS
  <2>1. i \in 1..n /\ j \in 1..n /\ i - 1 \in S /\ j - 1 \in S /\ i - 1 < j - 1
    BY <1>4, <1>5
  <2>2. s[w[i - 1]].next = s[w[j - 1]].next
    BY <1>5, <2>1
  <2>3. w[i - 1] \in R /\ w[j - 1] \in R
    BY <2>1
  <2>4. w[i - 1] = w[j - 1]
    BY <2>2, <2>3, NextOne
  <2>5. i - 1 \in T
    BY <2>1, <2>4
  <2> QED
    BY <1>4, <2>1, <2>5
<1> QED
  BY <1>5, <1>6

(* The search goes once round the ring. *)
Walks(h) ==
    /\ LastOf(h) \in Nat \ {0}
    /\ Ring(h)[0] = h.free /\ Ring(h)[LastOf(h)] = h.free
    /\ \A i \in 0..LastOf(h) : Ring(h)[i] \in Ringed(h.slob)
    /\ \A i \in 1..LastOf(h) : Ring(h)[i] = h.slob[Ring(h)[i - 1]].next
    /\ \A x \in Ringed(h.slob) : \E i \in 1..LastOf(h) : Ring(h)[i] = x

Bounded(s) == \E top \in Nat : \A x \in DOMAIN s : x <= top

(* Every walk from slobfree passes all free blocks before it is back. *)
LEMMA RingAll ==
    ASSUME NEW h, Shape(h.slob), h.free \in Ringed(h.slob), Bounded(h.slob)
    PROVE  Walks(h)
<1> DEFINE R == Ringed(h.slob)
           w == Ring(h)
           n == RingLen(h)
           B == {i \in 1..n : w[i] = h.free}
           m == LastOf(h)
<1>1. PICK top \in Nat : \A x \in DOMAIN h.slob : x <= top
  BY DEF Bounded
<1>2. n \in Nat /\ IsFiniteSet(R) /\ Cardinality(R) \in Nat /\ Cardinality(R) <= n
  BY <1>1, RingFinite
<1>3. w \in [0..n -> R] /\ w[0] = h.free /\ \A i \in 1..n : w[i] = h.slob[w[i - 1]].next
  BY <1>2, RingDef
<1>4. \E i \in 1..n : w[i] = w[0]
  <2> HIDE DEF w, n
  <2> QED
    BY <1>2, <1>3, RingReturns
<1>5. m = Min(B)
  BY DEF LastOf
<1> HIDE DEF w, n, m
<1>6. B \in SUBSET Nat /\ B # {}
  BY <1>2, <1>3, <1>4
<1>7. m \in B
  <2> HIDE DEF B
  <2> QED
    BY <1>5, <1>6, MinIs
<1>8. m \in Nat \ {0} /\ m \in 1..n /\ w[m] = h.free
  BY <1>2, <1>7
<1>9. \A i \in 0..m : w[i] \in R
  BY <1>2, <1>3, <1>8
<1>10. \A i \in 1..m : w[i] = h.slob[w[i - 1]].next
  BY <1>2, <1>3, <1>8
<1> DEFINE X == {x \in R : \E i \in 1..m : w[i] = x}
<1>11. X \in SUBSET R /\ X # {}
  BY <1>8, <1>9
<1>12. ASSUME NEW x \in X
       PROVE  h.slob[x].next \in X
  <2>1. PICK i \in 1..m : w[i] = x
    BY <1>12
  <2>2. h.slob[x].next \in R
    BY <1>12, RingFields
  <2>3. CASE i < m
    <3>1. i + 1 \in 1..m /\ (i + 1) - 1 = i
      BY <1>8, <2>3
    <3>2. w[i + 1] = h.slob[x].next
      BY <1>10, <2>1, <3>1
    <3> QED
      BY <2>2, <3>1, <3>2
  <2>4. CASE i = m
    <3>1. 1 \in 1..m /\ 1 - 1 = 0
      BY <1>8
    <3>2. x = w[0]
      BY <1>3, <1>8, <2>1, <2>4
    <3>3. w[1] = h.slob[x].next
      BY <1>10, <3>1, <3>2
    <3> QED
      BY <2>2, <3>1, <3>3
  <2> QED
    BY <1>8, <2>3, <2>4
<1>13. \A x \in R : x <= top
  BY <1>1 DEF Ringed
<1>14. X = R
  <2> HIDE DEF X
  <2> QED
    BY <1>11, <1>12, <1>13, RingClosed
<1>15. \A x \in R : \E i \in 1..m : w[i] = x
  BY <1>14
<1> QED
  BY <1>3, <1>8, <1>9, <1>10, <1>15 DEF Walks, w, m

(* The free block in front of the address b. *)
InFront(s, b, cur) ==
    cur \in Ringed(s) /\ cur < b /\ \A z \in Ringed(s) : z <= cur \/ b < z

(* slob_free finds it, wherever the search begins. *)
LEMMA BeforeIs ==
    ASSUME NEW h, Shape(h.slob), h.free \in Ringed(h.slob), Bounded(h.slob),
           NEW b \in Nat, b \notin Ringed(h.slob)
    PROVE  InFront(h.slob, b, Before(h, b))
<1> DEFINE R == Ringed(h.slob)
           w == Ring(h)
           m == LastOf(h)
           s == h.slob
           here(cur) == LET nxt == s[cur].next
                        IN  \/ b > cur /\ b < nxt
                            \/ cur >= nxt /\ (b > cur \/ b < nxt)
           H == {i \in 0..m : here(w[i])}
<1>1. Before(h, b) = w[Min(H)]
  BY DEF Before
<1>2. Walks(h)
  BY RingAll
<1>3. /\ m \in Nat \ {0}
      /\ \A i \in 0..m : w[i] \in R
      /\ \A x \in R : \E i \in 1..m : w[i] = x
  BY <1>2 DEF Walks
<1>4. arena \in R /\ arena < b /\ arena \in Int
  BY RingFields DEF arena
<1>5. \A x \in R : /\ x \in Int /\ arena <= x /\ s[x].next \in R /\ s[x].next \in Int
                   /\ Follows(R, x, s[x].next)
  BY RingFields
<1>6. \A x \in R : x = arena \/ x \in Nat
  BY DEF Shape, Ringed
<1>7. b \notin R
  OBVIOUS
<1> HIDE DEF w, m, s, R
<1>8. PICK p \in R : p < b /\ \A x \in R : x < b => x <= p
  <2> DEFINE Y == {x \in R : x < b}
  <2>1. Y # {} /\ \A x \in Y : (x = arena \/ x \in Nat) /\ x <= b
    BY <1>4, <1>5, <1>6
  <2>2. \E p \in Y : \A x \in Y : x <= p
    <3> HIDE DEF Y
    <3> QED
      BY <2>1, Greatest
  <2> QED
    BY <2>2
<1>9. here(p)
  BY <1>5, <1>7, <1>8 DEF Follows
<1>10. ASSUME NEW x \in R, here(x)
       PROVE  x < b /\ \A z \in R : z <= x \/ b < z
  BY <1>4, <1>5, <1>7, <1>10 DEF Follows
<1> HIDE DEF here
<1>11. H \in SUBSET Nat /\ H # {}
  BY <1>3, <1>8, <1>9
<1>12. Min(H) \in H
  <2> HIDE DEF H
  <2> QED
    BY <1>11, MinIs
<1>13. w[Min(H)] \in R /\ here(w[Min(H)])
  BY <1>3, <1>12
<1> QED
  BY <1>1, <1>10, <1>13 DEF InFront, R, s

-----------------------------------------------------------------------------
(* What can be done to the blocks, seen block by block *)

Typed(t) == t \in [DOMAIN t -> SlobRec]

(* From s to t the blocks of X stay as they are. *)
Same(s, t, X) == \A a \in X : t[a].units = s[a].units /\ t[a].next = s[a].next

(* What is not free stays as it is. *)
SameHeld(s, t) ==
    /\ DOMAIN t \ Ringed(t) = DOMAIN s \ Ringed(s)
    /\ Same(s, t, DOMAIN s \ Ringed(s))

(* No two free blocks touch, but for those of E with their next. *)
NoTouchBut(s, E) == \A x \in Ringed(s) \ E : s[x].next # x + s[x].units

(* Every block of a heap is an address with its units. *)
LEMMA ShapeFields ==
    ASSUME NEW s, Shape(s)
    PROVE  /\ \A x \in DOMAIN s : /\ x \in Int /\ arena <= x /\ x # NULL /\ (x # arena => x \in Nat)
                                  /\ s[x].units \in Nat /\ s[x].units > 0 /\ s[x].next \in Int
           /\ \A x \in Ringed(s) : /\ x \in DOMAIN s /\ s[x].next \in Ringed(s) /\ s[x].next # NULL
                                   /\ Follows(Ringed(s), x, s[x].next)
           /\ \A x \in DOMAIN s : x \in Ringed(s) <=> s[x].next # NULL
           /\ arena \in Ringed(s) /\ s[arena].units = 1
<1>1. ASSUME NEW x \in DOMAIN s
      PROVE  x \in Int /\ arena <= x /\ x # NULL /\ (x # arena => x \in Nat)
  BY DEF Shape, arena, NULL
<1>2. ASSUME NEW x \in DOMAIN s
      PROVE  s[x].units \in Nat /\ s[x].units > 0 /\ s[x].next \in Int
  BY DEF Shape, SlobRec
<1>3. ASSUME NEW x \in Ringed(s)
      PROVE  /\ x \in DOMAIN s /\ s[x].next \in Ringed(s) /\ s[x].next # NULL
             /\ Follows(Ringed(s), x, s[x].next)
  BY DEF Shape, Ringed
<1>4. \A x \in DOMAIN s : x \in Ringed(s) <=> s[x].next # NULL
  BY DEF Ringed
<1>5. arena \in Ringed(s) /\ s[arena].units = 1
  BY DEF Shape
<1> QED
  BY <1>1, <1>2, <1>3, <1>4, <1>5

(* The block b of n units is put on the list behind cur. *)
Puts(s, t, cur, b, n) ==
    /\ Typed(t) /\ DOMAIN t = DOMAIN s \cup {b}
    /\ t[b].units = n /\ t[b].next = s[cur].next
    /\ t[cur].units = s[cur].units /\ t[cur].next = b
    /\ Same(s, t, DOMAIN s \ {cur, b})

(* The list with it is in order, *)
LEMMA PutsShape ==
    ASSUME NEW s, Shape(s), NEW cur, NEW b \in Nat, b \notin DOMAIN s, InFront(s, b, cur),
           NEW n \in Nat, NEW t, Puts(s, t, cur, b, n)
    PROVE  Shape(t) /\ Ringed(t) = Ringed(s) \cup {b} /\ SameHeld(s, t)
<1> DEFINE R == Ringed(s)
           D == DOMAIN s
<1>1. /\ \A x \in D : x \in Int /\ arena <= x /\ x # NULL /\ (x # arena => x \in Nat)
      /\ \A x \in R : x \in D /\ s[x].next \in R /\ s[x].next # NULL /\ Follows(R, x, s[x].next)
      /\ \A x \in D : x \in R <=> s[x].next # NULL
      /\ arena \in R /\ s[arena].units = 1
  BY ShapeFields
<1>2. cur \in R /\ cur < b /\ b \notin R /\ \A z \in R : z <= cur \/ b < z
  BY DEF InFront, Ringed
<1>3. /\ DOMAIN t = D \cup {b} /\ t[b].next = s[cur].next /\ t[cur].next = b /\ t[cur].units = s[cur].units
      /\ \A a \in D \ {cur, b} : t[a].units = s[a].units /\ t[a].next = s[a].next
  BY DEF Puts, Same
<1>4. b # NULL /\ b # arena /\ arena <= b /\ arena \in Int /\ b \notin D
  BY DEF NULL, arena
<1> HIDE DEF R, D
<1>5. Ringed(t) = R \cup {b}
  <2>1. \A x \in D \cup {b} : t[x].next # NULL <=> x \in R \cup {b}
    BY <1>1, <1>2, <1>3, <1>4
  <2> QED
    BY <1>1, <1>3, <2>1 DEF Ringed
<1>6. ASSUME NEW x \in R \cup {b}
      PROVE  t[x].next \in R \cup {b} /\ Follows(R \cup {b}, x, t[x].next)
  <2>1. CASE x = b
    <3>1. PICK c \in Int, y \in Int : c = cur /\ y = s[cur].next
      BY <1>1, <1>2
    <3>2. Follows(R \cup {b}, b, y)
      BY <1>1, <1>2, <1>4, <3>1 DEF Follows
    <3> QED
      BY <1>1, <1>2, <1>3, <2>1, <3>1, <3>2
  <2>2. CASE x = cur
    <3>1. Follows(R \cup {b}, cur, b)
      BY <1>1, <1>2, <1>4 DEF Follows
    <3> QED
      BY <1>3, <2>2, <3>1
  <2>3. CASE x # b /\ x # cur
    <3>1. x \in R /\ x \in D /\ t[x].next = s[x].next
      BY <1>1, <1>3, <2>3
    <3>2. PICK c \in Int, y \in Int, v \in Int : c = cur /\ y = s[x].next /\ v = x
      BY <1>1, <1>2, <3>1
    <3>3. v # c /\ v \in R /\ y \in R /\ c \in R /\ Follows(R, v, y)
      BY <1>1, <1>2, <2>3, <3>1, <3>2
    <3>4. Follows(R \cup {b}, v, y)
      BY <1>1, <1>2, <1>4, <3>2, <3>3 DEF Follows
    <3> QED
      BY <1>1, <3>1, <3>2, <3>4
  <2> QED
    BY <2>1, <2>2, <2>3
<1>7. \A x \in DOMAIN t : x = arena \/ x \in Nat
  BY <1>1, <1>3
<1>8. arena \in R \cup {b} /\ t[arena].units = 1
  <2>1. CASE cur = arena
    BY <1>1, <1>3, <2>1
  <2>2. CASE cur # arena
    BY <1>1, <1>3, <1>4, <2>2
  <2> QED
    BY <1>1, <2>1, <2>2
<1>9. Shape(t)
  BY <1>5, <1>6, <1>7, <1>8 DEF Shape, Puts, Typed
<1>10. DOMAIN t \ Ringed(t) = D \ R /\ D \ R \in SUBSET (D \ {cur, b})
  BY <1>2, <1>3, <1>4, <1>5
<1>11. SameHeld(s, t)
  BY <1>3, <1>10 DEF SameHeld, Same, D, R
<1> QED
  BY <1>5, <1>9, <1>11 DEF R

(* no unit is lost, *)
LEMMA PutsCells ==
    ASSUME NEW s, NEW U, NEW K, Shape(s), Cells(s, U, K), NEW cur \in DOMAIN s, NEW b \in Nat, NEW n \in Nat,
           <<b, n>> \in K, NEW t, Puts(s, t, cur, b, n)
    PROVE  b \notin DOMAIN s /\ Cells(t, U, K \ {<<b, n>>})
<1> DEFINE D == DOMAIN s
           J == K \ {<<b, n>>}
<1>1. /\ \A k \in K : k[1] \in Nat /\ k[2] \in Nat \ {0}
      /\ \A u \in Nat : u \in U <=> \/ \E a \in D : a # arena /\ In(u, a, s[a].units)
                                    \/ \E k \in K : In(u, k[1], k[2])
      /\ \A x, y \in D : x < y => x + s[x].units <= y
      /\ \A x \in D, k \in K : x # arena => Disjoint(x, s[x].units, k[1], k[2])
      /\ \A k, j \in K : k # j => Disjoint(k[1], k[2], j[1], j[2])
  BY DEF Cells
<1>2. /\ \A x \in D : /\ x \in Int /\ arena <= x /\ (x # arena => x \in Nat)
                      /\ s[x].units \in Nat /\ s[x].units > 0
      /\ arena \in D /\ s[arena].units = 1
  BY ShapeFields
<1>3. /\ DOMAIN t = D \cup {b} /\ t[b].units = n
      /\ \A a \in D \ {b} : t[a].units = s[a].units
  BY DEF Puts, Same
<1>4. PICK k0 \in K : k0 = <<b, n>>
  OBVIOUS
<1>5. k0[1] = b /\ k0[2] = n
  BY <1>4
<1>6. n > 0 /\ b # arena /\ arena = -2
  BY <1>1, <1>5 DEF arena
<1>7. \A x \in D : x # arena => Disjoint(x, s[x].units, b, n)
  BY <1>1, <1>5
<1>8. \A k \in J : Disjoint(b, n, k[1], k[2])
  BY <1>1, <1>4, <1>5
<1> HIDE DEF D
<1>9. b \notin D
  BY <1>2, <1>6, <1>7 DEF Disjoint
<1>10. \A a \in D : t[a].units = s[a].units /\ a # b
  BY <1>3, <1>9
<1>11. \A k \in J : k \in K /\ k[1] \in Nat /\ k[2] \in Nat \ {0}
  BY <1>1
<1>12. ASSUME NEW u \in Nat
       PROVE  u \in U <=> \/ \E a \in D \cup {b} : a # arena /\ In(u, a, t[a].units)
                          \/ \E k \in J : In(u, k[1], k[2])
  <2>1. (\E k \in K : In(u, k[1], k[2])) <=> In(u, b, n) \/ \E k \in J : In(u, k[1], k[2])
    BY <1>4, <1>5
  <2>2. (\E a \in D \cup {b} : a # arena /\ In(u, a, t[a].units)) <=>
           (\E a \in D : a # arena /\ In(u, a, s[a].units)) \/ In(u, b, n)
    BY <1>3, <1>6, <1>10
  <2> QED
    BY <1>1, <2>1, <2>2
<1>13. ASSUME NEW x \in D \cup {b}, NEW y \in D \cup {b}, x < y
       PROVE  x + t[x].units <= y
  <2>1. CASE x \in D /\ y \in D
    BY <1>1, <1>10, <1>13, <2>1
  <2>2. CASE x = b /\ y \in D
    BY <1>2, <1>3, <1>6, <1>7, <1>13, <2>2 DEF Disjoint
  <2>3. CASE x \in D /\ y = b
    BY <1>2, <1>3, <1>6, <1>7, <1>10, <1>13, <2>3 DEF Disjoint
  <2>4. CASE x = b /\ y = b
    BY <1>13, <2>4
  <2> QED
    BY <2>1, <2>2, <2>3, <2>4
<1>14. ASSUME NEW x \in D \cup {b}, NEW k \in J, x # arena
       PROVE  Disjoint(x, t[x].units, k[1], k[2])
  BY <1>1, <1>3, <1>8, <1>10, <1>11, <1>14
<1>15. \A k, j \in J : k # j => Disjoint(k[1], k[2], j[1], j[2])
  BY <1>1, <1>11
<1>16. Cells(t, U, J)
  BY <1>3, <1>11, <1>12, <1>13, <1>14, <1>15 DEF Cells
<1> QED
  BY <1>9, <1>16 DEF D

(* and only b and cur may touch what follows them. *)
LEMMA PutsTouch ==
    ASSUME NEW s, Shape(s), NEW cur, NEW b, NEW n, NEW t, Puts(s, t, cur, b, n),
           Ringed(t) = Ringed(s) \cup {b}, NoTouchBut(s, {})
    PROVE  NoTouchBut(t, {cur, b})
<1> SUFFICES ASSUME NEW x \in Ringed(t) \ {cur, b} PROVE t[x].next # x + t[x].units
  BY DEF NoTouchBut
<1>1. x \in Ringed(s) /\ x \in DOMAIN s \ {cur, b}
  BY DEF Ringed
<1>2. t[x].units = s[x].units /\ t[x].next = s[x].next
  BY <1>1 DEF Puts, Same
<1>3. s[x].next # x + s[x].units
  BY <1>1 DEF NoTouchBut
<1> QED
  BY <1>2, <1>3

(* The free block x takes in y, its next, which begins where x ends. *)
Joins(s, t, x, y) ==
    /\ Typed(t) /\ DOMAIN t = DOMAIN s \ {y}
    /\ t[x].units = s[x].units + s[y].units /\ t[x].next = s[y].next
    /\ Same(s, t, DOMAIN s \ {x, y})

(* Then neither of them is the arena. *)
LEMMA JoinsApart ==
    ASSUME NEW s, Shape(s), NEW x \in Ringed(s), s[x].next = x + s[x].units
    PROVE  LET y == s[x].next
           IN  /\ x \in Nat /\ y \in Nat /\ x < y /\ y # arena /\ x # arena /\ y \in Ringed(s)
               /\ \A z \in Ringed(s) : z <= x \/ y <= z
<1>1. /\ \A z \in DOMAIN s : /\ z \in Int /\ arena <= z /\ z # NULL /\ (z # arena => z \in Nat)
                             /\ s[z].units \in Nat /\ s[z].units > 0
      /\ \A z \in Ringed(s) : z \in DOMAIN s /\ s[z].next \in Ringed(s) /\ Follows(Ringed(s), z, s[z].next)
      /\ arena \in Ringed(s) /\ s[arena].units = 1
  BY ShapeFields
<1>2. PICK n \in Nat, y \in Int : n > 0 /\ n = s[x].units /\ y = s[x].next /\ y \in Ringed(s)
  BY <1>1
<1>3. x \in Int /\ y = x + n /\ arena <= x /\ arena \in Int
  BY <1>1, <1>2
<1>4. x # arena
  <2> SUFFICES ASSUME x = arena PROVE FALSE
    OBVIOUS
  <2>1. y = NULL
    BY <1>1, <1>2, <1>3 DEF arena, NULL
  <2> QED
    BY <1>1, <1>2, <2>1
<1>5. x < y /\ y # arena /\ x \in Nat /\ y \in Nat
  BY <1>1, <1>2, <1>3, <1>4
<1>6. Follows(Ringed(s), x, y)
  BY <1>1, <1>2
<1>7. \A z \in Ringed(s) : z <= x \/ y <= z
  BY <1>1, <1>2, <1>3, <1>5, <1>6 DEF Follows
<1> QED
  BY <1>2, <1>4, <1>5, <1>7

(* The list stays in order, *)
LEMMA JoinsShape ==
    ASSUME NEW s, Shape(s), NEW x \in Ringed(s), s[x].next = x + s[x].units,
           NEW t, Joins(s, t, x, s[x].next)
    PROVE  Shape(t) /\ Ringed(t) = Ringed(s) \ {s[x].next} /\ SameHeld(s, t)
<1> DEFINE R == Ringed(s)
           D == DOMAIN s
<1>1. /\ \A z \in D : z \in Int /\ arena <= z /\ z # NULL /\ (z # arena => z \in Nat)
      /\ \A z \in R : z \in D /\ s[z].next \in R /\ s[z].next # NULL /\ Follows(R, z, s[z].next)
      /\ \A z \in D : z \in R <=> s[z].next # NULL
      /\ arena \in R /\ s[arena].units = 1
  BY ShapeFields
<1>2. PICK y \in Nat : y = s[x].next
  BY JoinsApart
<1>3. x \in Nat /\ x < y /\ y # arena /\ x # arena /\ y \in R /\ \A z \in R : z <= x \/ y <= z
  BY <1>2, JoinsApart
<1>4. /\ DOMAIN t = D \ {y} /\ t[x].next = s[y].next
      /\ \A a \in D \ {x, y} : t[a].units = s[a].units /\ t[a].next = s[a].next
  BY <1>2 DEF Joins, Same
<1>5. x \in R
  OBVIOUS
<1> HIDE DEF R, D
<1>6. Ringed(t) = R \ {y}
  <2>1. \A z \in D \ {y} : t[z].next # NULL <=> z \in R \ {y}
    BY <1>1, <1>3, <1>4, <1>5
  <2> QED
    BY <1>1, <1>4, <2>1 DEF Ringed
<1>7. PICK c \in Int : c = s[y].next
  BY <1>1, <1>3
<1>8. c \in R /\ Follows(R, y, c) /\ Follows(R, x, y) /\ c # y
  <2>1. c \in R /\ Follows(R, y, c) /\ Follows(R, x, y)
    BY <1>1, <1>2, <1>3, <1>5, <1>7
  <2>2. c # y
    BY <1>1, <1>3, <1>5, <2>1 DEF Follows
  <2> QED
    BY <2>1, <2>2
<1>9. ASSUME NEW z \in R \ {y}
      PROVE  t[z].next \in R \ {y} /\ Follows(R \ {y}, z, t[z].next)
  <2>1. CASE z = x
    <3>1. Follows(R \ {y}, x, c)
      BY <1>1, <1>3, <1>5, <1>8 DEF Follows
    <3> QED
      BY <1>4, <1>7, <1>8, <2>1, <3>1
  <2>2. CASE z # x
    <3>1. z \in R /\ z \in D /\ t[z].next = s[z].next
      BY <1>1, <1>4, <2>2
    <3>2. PICK v \in Int, d \in Int : v = z /\ d = s[z].next
      BY <1>1, <3>1
    <3>3. v # x /\ v # y /\ v \in R /\ d \in R /\ Follows(R, v, d)
      BY <1>1, <1>9, <2>2, <3>1, <3>2
    <3>4. d # y
      BY <1>1, <1>3, <1>5, <3>3 DEF Follows
    <3>5. Follows(R \ {y}, v, d)
      BY <3>3 DEF Follows
    <3> QED
      BY <3>1, <3>2, <3>3, <3>4, <3>5
  <2> QED
    BY <2>1, <2>2
<1>10. \A z \in DOMAIN t : z = arena \/ z \in Nat
  BY <1>1, <1>4
<1>11. arena \in R \ {y} /\ t[arena].units = 1
  BY <1>1, <1>3, <1>4
<1>12. Shape(t)
  BY <1>6, <1>9, <1>10, <1>11 DEF Shape, Joins, Typed
<1>13. DOMAIN t \ Ringed(t) = D \ R /\ D \ R \in SUBSET (D \ {x, y})
  BY <1>3, <1>4, <1>5, <1>6
<1>14. SameHeld(s, t)
  BY <1>4, <1>13 DEF SameHeld, Same, D, R
<1> QED
  BY <1>2, <1>6, <1>12, <1>14 DEF R

(* no unit is lost, *)
LEMMA JoinsCells ==
    ASSUME NEW s, NEW U, NEW K, Shape(s), Cells(s, U, K), NEW x \in Ringed(s), s[x].next = x + s[x].units,
           NEW t, Joins(s, t, x, s[x].next)
    PROVE  Cells(t, U, K)
<1> DEFINE D == DOMAIN s
<1>1. /\ \A k \in K : k[1] \in Nat /\ k[2] \in Nat \ {0}
      /\ \A u \in Nat : u \in U <=> \/ \E a \in D : a # arena /\ In(u, a, s[a].units)
                                    \/ \E k \in K : In(u, k[1], k[2])
      /\ \A v, z \in D : v < z => v + s[v].units <= z
      /\ \A v \in D, k \in K : v # arena => Disjoint(v, s[v].units, k[1], k[2])
      /\ \A k, j \in K : k # j => Disjoint(k[1], k[2], j[1], j[2])
  BY DEF Cells
<1>2. /\ \A z \in D : /\ z \in Int /\ arena <= z /\ (z # arena => z \in Nat)
                      /\ s[z].units \in Nat /\ s[z].units > 0
      /\ x \in D /\ s[x].next \in D
  BY ShapeFields
<1>3. PICK y \in Nat, n \in Nat, m \in Nat : y = s[x].next /\ n = s[x].units /\ m = s[y].units
  BY <1>2, JoinsApart
<1>4. x \in Nat /\ y = x + n /\ y # arena /\ x # arena /\ y \in D /\ n > 0 /\ m > 0 /\ y # x
  BY <1>2, <1>3, JoinsApart
<1>5. /\ DOMAIN t = D \ {y} /\ t[x].units = n + m
      /\ \A a \in D \ {x, y} : t[a].units = s[a].units
  BY <1>3 DEF Joins, Same
<1> HIDE DEF D
<1>6. ASSUME NEW u \in Nat
      PROVE  (\E a \in D : a # arena /\ In(u, a, s[a].units)) <=>
             (\E a \in D \ {y} : a # arena /\ In(u, a, t[a].units))
  <2>1. In(u, x, n + m) <=> In(u, x, n) \/ In(u, y, m)
    BY <1>4 DEF In
  <2>2. ASSUME NEW a \in D, a # arena, In(u, a, s[a].units)
        PROVE  \E c \in D \ {y} : c # arena /\ In(u, c, t[c].units)
    BY <1>2, <1>3, <1>4, <1>5, <2>1, <2>2
  <2>3. ASSUME NEW a \in D \ {y}, a # arena, In(u, a, t[a].units)
        PROVE  \E c \in D : c # arena /\ In(u, c, s[c].units)
    BY <1>2, <1>3, <1>4, <1>5, <2>1, <2>3
  <2> QED
    BY <2>2, <2>3
<1>7. ASSUME NEW v \in D \ {y}, NEW z \in D \ {y}, v < z
      PROVE  v + t[v].units <= z
  <2>1. CASE v = x
    <3>0. x < z /\ z \in Int /\ z # y /\ z \in D /\ x \in D
      BY <1>2, <1>7, <2>1
    <3>3. x + n <= z
      BY <1>1, <1>3, <3>0
    <3>1. y < z
      BY <1>4, <3>0, <3>3
    <3>2. y + m <= z
      BY <1>1, <1>3, <1>4, <3>0, <3>1
    <3> QED
      BY <1>4, <1>5, <2>1, <3>0, <3>2
  <2>2. CASE v # x
    BY <1>1, <1>5, <1>7, <2>2
  <2> QED
    BY <2>1, <2>2
<1>8. ASSUME NEW v \in D \ {y}, NEW k \in K, v # arena
      PROVE  Disjoint(v, t[v].units, k[1], k[2])
  <2>1. CASE v = x
    <3>1. Disjoint(x, n, k[1], k[2]) /\ Disjoint(y, m, k[1], k[2]) /\ k[1] \in Nat /\ k[2] \in Nat \ {0}
      BY <1>1, <1>2, <1>3, <1>4
    <3>2. Disjoint(x, n + m, k[1], k[2])
      BY <1>4, <3>1 DEF Disjoint
    <3> QED
      BY <1>5, <2>1, <3>2
  <2>2. CASE v # x
    BY <1>1, <1>5, <1>8, <2>2
  <2> QED
    BY <2>1, <2>2
<1>9. \A u \in Nat : u \in U <=> \/ \E a \in D \ {y} : a # arena /\ In(u, a, t[a].units)
                                 \/ \E k \in K : In(u, k[1], k[2])
  BY <1>1, <1>6
<1> QED
  BY <1>1, <1>5, <1>7, <1>8, <1>9 DEF Cells

(* and x touches what follows only if y did. *)
LEMMA JoinsTouch ==
    ASSUME NEW s, Shape(s), NEW x \in Ringed(s), s[x].next = x + s[x].units,
           NEW t, Joins(s, t, x, s[x].next), Ringed(t) = Ringed(s) \ {s[x].next},
           NEW E, s[x].next \notin E, NoTouchBut(s, E)
    PROVE  NoTouchBut(t, E \ {x})
<1>1. PICK y : y = s[x].next
  OBVIOUS
<1>2. y \in Ringed(s) /\ x \in Int /\ s[x].units \in Nat /\ s[y].units \in Nat
  BY <1>1, ShapeFields
<1>3. ASSUME NEW z \in Ringed(t) \ (E \ {x})
      PROVE  t[z].next # z + t[z].units
  <2>1. CASE z = x
    <3>1. s[y].next # y + s[y].units
      BY <1>1, <1>2 DEF NoTouchBut
    <3>2. t[x].units = s[x].units + s[y].units /\ t[x].next = s[y].next
      BY <1>1 DEF Joins
    <3> QED
      BY <1>1, <1>2, <2>1, <3>1, <3>2
  <2>2. CASE z # x
    <3>1. z \in Ringed(s) \ E /\ z \in DOMAIN s \ {x, y}
      BY <1>1, <1>3, <2>2 DEF Ringed
    <3>2. t[z].units = s[z].units /\ t[z].next = s[z].next
      BY <1>1, <3>1 DEF Joins, Same
    <3> QED
      BY <3>1, <3>2 DEF NoTouchBut
  <2> QED
    BY <2>1, <2>2
<1> QED
  BY <1>3 DEF NoTouchBut

(* The free block c is cut into its first n units and the rest. *)
Splits(s, t, c, n) ==
    /\ Typed(t) /\ DOMAIN t = DOMAIN s \cup {c + n}
    /\ t[c].units = n /\ t[c].next = c + n
    /\ t[c + n].units = s[c].units - n /\ t[c + n].next = s[c].next
    /\ Same(s, t, DOMAIN s \ {c, c + n})

(* The rest begins where nothing began. *)
LEMMA SplitsApart ==
    ASSUME NEW s, NEW U, NEW K, Shape(s), Cells(s, U, K), NEW c \in Ringed(s), c # arena,
           NEW n \in Nat, n > 0, n < s[c].units
    PROVE  /\ c \in Nat /\ c + n \in Nat /\ c < c + n /\ c + n \notin DOMAIN s
           /\ \A z \in DOMAIN s : z <= c \/ c + n < z
<1>1. \A z \in DOMAIN s : z \in Int /\ (z # arena => z \in Nat) /\ s[z].units \in Nat
  BY ShapeFields
<1>2. c \in DOMAIN s /\ \A z \in DOMAIN s : c < z => c + s[c].units <= z
  BY DEF Cells, Ringed
<1>3. c \in Nat /\ c + n \in Nat /\ c < c + n
  BY <1>1, <1>2
<1>4. \A z \in DOMAIN s : z <= c \/ c + n < z
  BY <1>1, <1>2, <1>3
<1> QED
  BY <1>3, <1>4

(* The list stays in order, *)
LEMMA SplitsShape ==
    ASSUME NEW s, NEW U, NEW K, Shape(s), Cells(s, U, K), NEW c \in Ringed(s), c # arena,
           NEW n \in Nat, n > 0, n < s[c].units, NEW t, Splits(s, t, c, n)
    PROVE  Shape(t) /\ Ringed(t) = Ringed(s) \cup {c + n} /\ SameHeld(s, t)
<1> DEFINE R == Ringed(s)
           D == DOMAIN s
<1>1. /\ \A z \in D : z \in Int /\ arena <= z /\ z # NULL /\ (z # arena => z \in Nat)
      /\ \A z \in R : z \in D /\ s[z].next \in R /\ s[z].next # NULL /\ Follows(R, z, s[z].next)
      /\ \A z \in D : z \in R <=> s[z].next # NULL
      /\ arena \in R /\ s[arena].units = 1
  BY ShapeFields
<1>2. PICK r \in Nat : r = c + n
  BY SplitsApart
<1>3. c \in Nat /\ c < r /\ r \notin D /\ (\A z \in D : z <= c \/ r < z) /\ r # NULL /\ r # arena /\ arena <= r
  BY <1>2, SplitsApart DEF NULL, arena
<1>4. /\ DOMAIN t = D \cup {r} /\ t[c].next = r /\ t[r].next = s[c].next
      /\ \A a \in D \ {c, r} : t[a].units = s[a].units /\ t[a].next = s[a].next
  BY <1>2 DEF Splits, Same
<1>5. c \in R /\ c # arena
  OBVIOUS
<1> HIDE DEF R, D
<1>6. Ringed(t) = R \cup {r}
  <2>1. \A z \in D \cup {r} : t[z].next # NULL <=> z \in R \cup {r}
    BY <1>1, <1>3, <1>4, <1>5
  <2> QED
    BY <1>1, <1>4, <2>1 DEF Ringed
<1>7. ASSUME NEW z \in R \cup {r}
      PROVE  t[z].next \in R \cup {r} /\ Follows(R \cup {r}, z, t[z].next)
  <2>1. CASE z = r
    <3>1. PICK y \in Int : y = s[c].next
      BY <1>1, <1>5
    <3>2. Follows(R \cup {r}, r, y)
      BY <1>1, <1>3, <1>5, <3>1 DEF Follows
    <3> QED
      BY <1>1, <1>4, <1>5, <2>1, <3>1, <3>2
  <2>2. CASE z = c
    <3>1. Follows(R \cup {r}, c, r)
      BY <1>1, <1>3 DEF Follows
    <3> QED
      BY <1>4, <2>2, <3>1
  <2>3. CASE z # r /\ z # c
    <3>1. z \in R /\ z \in D /\ t[z].next = s[z].next
      BY <1>1, <1>4, <2>3
    <3>2. PICK y \in Int, v \in Int : y = s[z].next /\ v = z
      BY <1>1, <3>1
    <3>3. v # c /\ v \in R /\ y \in R /\ Follows(R, v, y)
      BY <1>1, <2>3, <3>1, <3>2
    <3>4. Follows(R \cup {r}, v, y)
      BY <1>1, <1>3, <1>5, <3>2, <3>3 DEF Follows
    <3> QED
      BY <1>1, <3>1, <3>2, <3>4
  <2> QED
    BY <2>1, <2>2, <2>3
<1>8. \A z \in DOMAIN t : z = arena \/ z \in Nat
  BY <1>1, <1>4
<1>9. arena \in R \cup {r} /\ t[arena].units = 1
  BY <1>1, <1>3, <1>4, <1>5
<1>10. Shape(t)
  BY <1>6, <1>7, <1>8, <1>9 DEF Shape, Splits, Typed
<1>11. DOMAIN t \ Ringed(t) = D \ R /\ D \ R \in SUBSET (D \ {c, r})
  BY <1>3, <1>4, <1>5, <1>6
<1>12. SameHeld(s, t)
  BY <1>4, <1>11 DEF SameHeld, Same, D, R
<1> QED
  BY <1>2, <1>6, <1>10, <1>12 DEF R

(* no unit is lost, *)
LEMMA SplitsCells ==
    ASSUME NEW s, NEW U, NEW K, Shape(s), Cells(s, U, K), NEW c \in Ringed(s), c # arena,
           NEW n \in Nat, n > 0, n < s[c].units, NEW t, Splits(s, t, c, n)
    PROVE  Cells(t, U, K)
<1> DEFINE D == DOMAIN s
<1>1. /\ \A k \in K : k[1] \in Nat /\ k[2] \in Nat \ {0}
      /\ \A u \in Nat : u \in U <=> \/ \E a \in D : a # arena /\ In(u, a, s[a].units)
                                    \/ \E k \in K : In(u, k[1], k[2])
      /\ \A v, z \in D : v < z => v + s[v].units <= z
      /\ \A v \in D, k \in K : v # arena => Disjoint(v, s[v].units, k[1], k[2])
      /\ \A k, j \in K : k # j => Disjoint(k[1], k[2], j[1], j[2])
  BY DEF Cells
<1>2. /\ \A z \in D : /\ z \in Int /\ arena <= z /\ (z # arena => z \in Nat)
                      /\ s[z].units \in Nat /\ s[z].units > 0
      /\ c \in D
  BY ShapeFields
<1>3. PICK r \in Nat, m \in Nat : r = c + n /\ m = s[c].units - n
  BY <1>2, SplitsApart
<1>4. c \in Nat /\ c < r /\ r \notin D /\ (\A z \in D : z <= c \/ r < z) /\ m > 0 /\ s[c].units = n + m /\ r # arena
  BY <1>2, <1>3, SplitsApart DEF arena
<1>5. /\ DOMAIN t = D \cup {r} /\ t[c].units = n /\ t[r].units = m
      /\ \A a \in D \ {c, r} : t[a].units = s[a].units
  BY <1>3 DEF Splits, Same
<1>6. c # arena
  OBVIOUS
<1> HIDE DEF D
<1>7. ASSUME NEW u \in Nat
      PROVE  (\E a \in D : a # arena /\ In(u, a, s[a].units)) <=>
             (\E a \in D \cup {r} : a # arena /\ In(u, a, t[a].units))
  <2>1. In(u, c, n + m) <=> In(u, c, n) \/ In(u, r, m)
    BY <1>3, <1>4 DEF In
  <2>2. ASSUME NEW a \in D, a # arena, In(u, a, s[a].units)
        PROVE  \E e \in D \cup {r} : e # arena /\ In(u, e, t[e].units)
    BY <1>2, <1>4, <1>5, <1>6, <2>1, <2>2
  <2>3. ASSUME NEW a \in D \cup {r}, a # arena, In(u, a, t[a].units)
        PROVE  \E e \in D : e # arena /\ In(u, e, s[e].units)
    BY <1>2, <1>4, <1>5, <1>6, <2>1, <2>3
  <2> QED
    BY <2>2, <2>3
<1>8. ASSUME NEW v \in D \cup {r}, NEW z \in D \cup {r}, v < z
      PROVE  v + t[v].units <= z
  <2>0. v \in Int /\ z \in Int
    BY <1>2
  <2>1. CASE v = c
    <3>1. z = r \/ r < z
      BY <1>4, <1>8, <2>0, <2>1
    <3> QED
      BY <1>3, <1>5, <2>0, <2>1, <3>1
  <2>2. CASE v = r
    <3>1. z \in D /\ c < z
      BY <1>4, <1>8, <2>0, <2>2
    <3>2. c + (n + m) <= z
      BY <1>1, <1>2, <1>4, <3>1
    <3> QED
      BY <1>3, <1>4, <1>5, <2>0, <2>2, <3>2
  <2>3. CASE v # c /\ v # r /\ z = r
    <3>1. v \in D /\ v < c
      BY <1>4, <1>8, <2>0, <2>3
    <3>2. v + s[v].units <= c /\ s[v].units \in Nat
      BY <1>1, <1>2, <3>1
    <3>3. t[v].units = s[v].units
      BY <1>5, <2>3, <3>1
    <3> QED
      BY <1>4, <2>0, <2>3, <3>2, <3>3
  <2>4. CASE v # c /\ v # r /\ z # r
    <3>1. v \in D /\ z \in D /\ t[v].units = s[v].units
      BY <1>5, <2>4
    <3> QED
      BY <1>1, <1>8, <3>1
  <2> QED
    BY <2>1, <2>2, <2>3, <2>4
<1>9. ASSUME NEW v \in D \cup {r}, NEW k \in K, v # arena
      PROVE  Disjoint(v, t[v].units, k[1], k[2])
  <2>1. Disjoint(c, n + m, k[1], k[2]) /\ k[1] \in Nat /\ k[2] \in Nat \ {0}
    BY <1>1, <1>2, <1>4, <1>6
  <2>2. Disjoint(c, n, k[1], k[2]) /\ Disjoint(r, m, k[1], k[2])
    BY <1>3, <1>4, <2>1 DEF Disjoint
  <2>3. CASE v = c \/ v = r
    BY <1>5, <2>2, <2>3
  <2>4. CASE v # c /\ v # r
    BY <1>1, <1>5, <1>9, <2>4
  <2> QED
    BY <2>3, <2>4
<1>10. \A u \in Nat : u \in U <=> \/ \E a \in D \cup {r} : a # arena /\ In(u, a, t[a].units)
                                  \/ \E k \in K : In(u, k[1], k[2])
  BY <1>1, <1>7
<1> QED
  BY <1>1, <1>5, <1>8, <1>9, <1>10 DEF Cells

(* and only c touches what follows it. *)
LEMMA SplitsTouch ==
    ASSUME NEW s, NEW U, NEW K, Shape(s), Cells(s, U, K), NEW c \in Ringed(s), c # arena,
           NEW n \in Nat, n > 0, n < s[c].units, NEW t, Splits(s, t, c, n),
           Ringed(t) = Ringed(s) \cup {c + n}, NoTouchBut(s, {})
    PROVE  NoTouchBut(t, {c})
<1>1. PICK r \in Nat : r = c + n
  BY SplitsApart
<1>2. c \in Nat /\ s[c].units \in Nat
  BY ShapeFields, SplitsApart
<1>3. ASSUME NEW z \in Ringed(t) \ {c}
      PROVE  t[z].next # z + t[z].units
  <2>1. CASE z = r
    <3>1. s[c].next # c + s[c].units
      BY DEF NoTouchBut
    <3>2. t[r].units = s[c].units - n /\ t[r].next = s[c].next
      BY <1>1 DEF Splits
    <3>3. r + (s[c].units - n) = c + s[c].units
      BY <1>1, <1>2
    <3> QED
      BY <2>1, <3>1, <3>2, <3>3
  <2>2. CASE z # r
    <3>1. z \in Ringed(s) /\ z \in DOMAIN s \ {c, r}
      BY <1>1, <1>3, <2>2 DEF Ringed
    <3>2. t[z].units = s[z].units /\ t[z].next = s[z].next
      BY <1>1, <3>1 DEF Splits, Same
    <3> QED
      BY <3>1, <3>2 DEF NoTouchBut
  <2> QED
    BY <2>1, <2>2
<1> QED
  BY <1>3 DEF NoTouchBut

(* The free block c, next of prev, leaves the list. *)
Takes(s, t, prev, c) ==
    /\ Typed(t) /\ DOMAIN t = DOMAIN s
    /\ t[c].units = s[c].units /\ t[c].next = NULL
    /\ t[prev].units = s[prev].units /\ t[prev].next = s[c].next
    /\ Same(s, t, DOMAIN s \ {prev, c})

(* From s to t only c, of n units, is held more. *)
HeldMore(s, t, c, n) ==
    /\ c \in Ringed(s) /\ c # arena /\ t[c].units = n
    /\ DOMAIN t \ Ringed(t) = (DOMAIN s \ Ringed(s)) \cup {c}
    /\ Same(s, t, DOMAIN s \ Ringed(s))

(* The block in front of c is another one, below it. *)
LEMMA TakesApart ==
    ASSUME NEW s, Shape(s), NEW c \in Ringed(s), c # arena, NEW prev \in Ringed(s), s[prev].next = c
    PROVE  prev \in Int /\ c \in Nat /\ prev < c
<1>1. /\ \A z \in DOMAIN s : z \in Int /\ arena <= z /\ (z # arena => z \in Nat)
      /\ \A z \in Ringed(s) : z \in DOMAIN s /\ Follows(Ringed(s), z, s[z].next)
      /\ arena \in Ringed(s)
  BY ShapeFields
<1>2. Follows(Ringed(s), prev, c) /\ prev \in Int /\ c \in Nat /\ arena \in Int /\ arena <= c
  BY <1>1
<1>3. prev < c
  BY <1>1, <1>2 DEF Follows
<1> QED
  BY <1>2, <1>3

(* The list stays in order, *)
LEMMA TakesShape ==
    ASSUME NEW s, Shape(s), NEW c \in Ringed(s), c # arena, NEW prev \in Ringed(s), s[prev].next = c,
           NEW t, Takes(s, t, prev, c)
    PROVE  Shape(t) /\ Ringed(t) = Ringed(s) \ {c} /\ HeldMore(s, t, c, s[c].units)
<1> DEFINE R == Ringed(s)
           D == DOMAIN s
<1>1. /\ \A z \in D : z \in Int /\ arena <= z /\ z # NULL /\ (z # arena => z \in Nat)
      /\ \A z \in R : z \in D /\ s[z].next \in R /\ s[z].next # NULL /\ Follows(R, z, s[z].next)
      /\ \A z \in D : z \in R <=> s[z].next # NULL
      /\ arena \in R /\ s[arena].units = 1
  BY ShapeFields
<1>2. prev \in Int /\ c \in Nat /\ prev < c /\ prev \in R /\ c \in R /\ s[prev].next = c /\ c # arena
  BY TakesApart
<1>3. /\ DOMAIN t = D /\ t[c].next = NULL /\ t[prev].next = s[c].next /\ t[prev].units = s[prev].units
      /\ t[c].units = s[c].units
      /\ \A a \in D \ {prev, c} : t[a].units = s[a].units /\ t[a].next = s[a].next
  BY DEF Takes, Same
<1> HIDE DEF R, D
<1>4. Ringed(t) = R \ {c}
  <2>1. \A z \in D : t[z].next # NULL <=> z \in R \ {c}
    BY <1>1, <1>2, <1>3
  <2> QED
    BY <1>1, <1>3, <2>1 DEF Ringed
<1>5. ASSUME NEW z \in R \ {c}
      PROVE  t[z].next \in R \ {c} /\ Follows(R \ {c}, z, t[z].next)
  <2>1. CASE z = prev
    <3>1. PICK y \in Int : y = s[c].next
      BY <1>1, <1>2
    <3>2. y \in R /\ Follows(R, c, y) /\ Follows(R, prev, c)
      BY <1>1, <1>2, <3>1
    <3>3. y # c
      BY <1>1, <1>2, <3>2 DEF Follows
    <3>4. Follows(R \ {c}, prev, y)
      BY <1>1, <1>2, <3>2 DEF Follows
    <3> QED
      BY <1>3, <2>1, <3>1, <3>2, <3>3, <3>4
  <2>2. CASE z # prev
    <3>1. z \in R /\ z \in D /\ t[z].next = s[z].next
      BY <1>1, <1>3, <1>5, <2>2
    <3>2. PICK v \in Int, d \in Int : v = z /\ d = s[z].next
      BY <1>1, <3>1
    <3>3. v # prev /\ v # c /\ v \in R /\ d \in R /\ Follows(R, v, d)
      BY <1>1, <1>5, <2>2, <3>1, <3>2
    <3>4. d # c
      <4>1. Follows(R, prev, c)
        BY <1>1, <1>2
      <4> QED
        BY <1>1, <1>2, <3>3, <4>1 DEF Follows
    <3>5. Follows(R \ {c}, v, d)
      BY <3>3 DEF Follows
    <3> QED
      BY <3>1, <3>2, <3>3, <3>4, <3>5
  <2> QED
    BY <2>1, <2>2
<1>6. \A z \in DOMAIN t : z = arena \/ z \in Nat
  BY <1>1, <1>3
<1>7. arena \in R \ {c} /\ t[arena].units = 1
  BY <1>1, <1>2, <1>3
<1>8. Shape(t)
  BY <1>4, <1>5, <1>6, <1>7 DEF Shape, Takes, Typed
<1>9. DOMAIN t \ Ringed(t) = (D \ R) \cup {c} /\ D \ R \in SUBSET (D \ {prev, c})
  BY <1>1, <1>2, <1>3, <1>4
<1>10. HeldMore(s, t, c, s[c].units)
  BY <1>2, <1>3, <1>9 DEF HeldMore, Same, D, R
<1> QED
  BY <1>4, <1>8, <1>10 DEF R

(* no unit is lost, *)
LEMMA TakesCells ==
    ASSUME NEW s, NEW U, NEW K, Cells(s, U, K), NEW prev, NEW c, NEW t, Takes(s, t, prev, c)
    PROVE  Cells(t, U, K)
<1>1. DOMAIN t = DOMAIN s /\ \A a \in DOMAIN s : t[a].units = s[a].units
  BY DEF Takes, Same
<1>2. /\ \A k \in K : k[1] \in Nat /\ k[2] \in Nat \ {0}
      /\ \A u \in Nat : u \in U <=> \/ \E a \in DOMAIN s : a # arena /\ In(u, a, s[a].units)
                                    \/ \E k \in K : In(u, k[1], k[2])
      /\ \A v, z \in DOMAIN s : v < z => v + s[v].units <= z
      /\ \A v \in DOMAIN s, k \in K : v # arena => Disjoint(v, s[v].units, k[1], k[2])
      /\ \A k, j \in K : k # j => Disjoint(k[1], k[2], j[1], j[2])
  BY DEF Cells
<1>3. \A u \in Nat : u \in U <=> \/ \E a \in DOMAIN t : a # arena /\ In(u, a, t[a].units)
                                 \/ \E k \in K : In(u, k[1], k[2])
  BY <1>1, <1>2
<1>4. \A v, z \in DOMAIN t : v < z => v + t[v].units <= z
  BY <1>1, <1>2
<1>5. \A v \in DOMAIN t, k \in K : v # arena => Disjoint(v, t[v].units, k[1], k[2])
  BY <1>1, <1>2
<1> QED
  BY <1>2, <1>3, <1>4, <1>5 DEF Cells

(* and no two blocks touch. *)
LEMMA TakesTouch ==
    ASSUME NEW s, NEW U, NEW K, Shape(s), Cells(s, U, K), NEW c \in Ringed(s), c # arena,
           NEW prev \in Ringed(s), s[prev].next = c, NEW t, Takes(s, t, prev, c),
           Ringed(t) = Ringed(s) \ {c}, NoTouchBut(s, {c})
    PROVE  NoTouchBut(t, {})
<1>1. prev \in Int /\ c \in Nat /\ prev < c
  BY TakesApart
<1>2. /\ \A z \in DOMAIN s : z \in Int /\ arena <= z /\ s[z].units \in Nat /\ s[z].units > 0
      /\ \A z \in Ringed(s) : z \in DOMAIN s /\ s[z].next \in Ringed(s) /\ Follows(Ringed(s), z, s[z].next)
      /\ arena \in Ringed(s)
  BY ShapeFields
<1>3. ASSUME NEW z \in Ringed(t)
      PROVE  t[z].next # z + t[z].units
  <2>1. CASE z = prev
    <3>1. PICK y \in Int, n \in Nat : y = s[c].next /\ n = s[prev].units
      BY <1>2
    <3>2. t[prev].next = y /\ t[prev].units = n
      BY <3>1 DEF Takes
    <3>3. prev + n <= c /\ n > 0
      BY <1>1, <1>2, <3>1 DEF Cells
    <3>4. Follows(Ringed(s), c, y) /\ arena \in Int /\ arena <= prev
      BY <1>2, <3>1
    <3>5. y # prev + n
      BY <1>1, <1>2, <3>3, <3>4 DEF Follows
    <3> QED
      BY <2>1, <3>2, <3>5
  <2>2. CASE z # prev
    <3>1. z \in Ringed(s) \ {c} /\ z \in DOMAIN s \ {prev, c}
      BY <1>2, <1>3, <2>2
    <3>2. t[z].units = s[z].units /\ t[z].next = s[z].next
      BY <3>1 DEF Takes, Same
    <3> QED
      BY <3>1, <3>2 DEF NoTouchBut
  <2> QED
    BY <2>1, <2>2
<1> QED
  BY <1>3 DEF NoTouchBut

(* The header of the held block c goes. *)
Drops(s, t, c) ==
    /\ Typed(t) /\ DOMAIN t = DOMAIN s \ {c}
    /\ Same(s, t, DOMAIN s \ {c})

(* The free blocks stay as they are, and the units of c are others' *)
LEMMA DropsAll ==
    ASSUME NEW s, NEW U, NEW K, Shape(s), Cells(s, U, K), NoTouchBut(s, {}),
           NEW c \in DOMAIN s \ Ringed(s), NEW t, Drops(s, t, c)
    PROVE  /\ Shape(t) /\ Ringed(t) = Ringed(s) /\ Cells(t, U, K \cup {<<c, s[c].units>>}) /\ NoTouchBut(t, {})
           /\ c \in Nat /\ s[c].units \in Nat \ {0} /\ <<c, s[c].units>> \notin K
<1> DEFINE R == Ringed(s)
           D == DOMAIN s
<1>1. /\ \A z \in D : /\ z \in Int /\ arena <= z /\ z # NULL /\ (z # arena => z \in Nat)
                      /\ s[z].units \in Nat /\ s[z].units > 0
      /\ \A z \in R : z \in D /\ s[z].next \in R /\ s[z].next # NULL /\ Follows(R, z, s[z].next)
      /\ \A z \in D : z \in R <=> s[z].next # NULL
      /\ arena \in R /\ s[arena].units = 1
  BY ShapeFields
<1>2. DOMAIN t = D \ {c} /\ \A a \in D \ {c} : t[a].units = s[a].units /\ t[a].next = s[a].next
  BY DEF Drops, Same
<1>3. c \in D /\ c \notin R /\ c # arena /\ c \in Nat
  BY <1>1
<1>4. PICK n \in Nat : n > 0 /\ n = s[c].units
  BY <1>1, <1>3
<1>5. PICK k0 : k0 = <<c, n>>
  OBVIOUS
<1>6. k0[1] = c /\ k0[2] = n
  BY <1>5
<1>7. /\ \A k \in K : k[1] \in Nat /\ k[2] \in Nat \ {0}
      /\ \A u \in Nat : u \in U <=> \/ \E a \in D : a # arena /\ In(u, a, s[a].units)
                                    \/ \E k \in K : In(u, k[1], k[2])
      /\ \A v, z \in D : v < z => v + s[v].units <= z
      /\ \A v \in D, k \in K : v # arena => Disjoint(v, s[v].units, k[1], k[2])
      /\ \A k, j \in K : k # j => Disjoint(k[1], k[2], j[1], j[2])
  BY DEF Cells
<1>8. \A z \in R : s[z].next # z + s[z].units
  BY DEF NoTouchBut
<1> HIDE DEF R, D
<1>9. Ringed(t) = R
  BY <1>1, <1>2, <1>3 DEF Ringed
<1>10. \A z \in R : t[z].units = s[z].units /\ t[z].next = s[z].next
  BY <1>1, <1>2, <1>3
<1>11. Shape(t)
  <2>1. \A z \in DOMAIN t : z = arena \/ z \in Nat
    BY <1>1, <1>2
  <2>2. \A z \in R : t[z].next \in R /\ Follows(R, z, t[z].next)
    BY <1>1, <1>10
  <2>3. arena \in R /\ t[arena].units = 1
    BY <1>1, <1>10
  <2> QED
    BY <1>9, <2>1, <2>2, <2>3 DEF Shape, Drops, Typed
<1>12. NoTouchBut(t, {})
  BY <1>8, <1>9, <1>10 DEF NoTouchBut
<1>13. \A v \in D \ {c} : v # arena => Disjoint(v, s[v].units, c, n)
  BY <1>1, <1>3, <1>4, <1>7 DEF Disjoint
<1>14. \A k \in K : Disjoint(c, n, k[1], k[2])
  BY <1>3, <1>4, <1>7
<1>15. \A k \in K : k # k0 /\ Disjoint(k[1], k[2], c, n)
  BY <1>3, <1>4, <1>6, <1>7, <1>14 DEF Disjoint
<1> DEFINE J == K \cup {k0}
<1>16. \A k \in J : k[1] \in Nat /\ k[2] \in Nat \ {0}
  BY <1>3, <1>4, <1>6, <1>7
<1>17. ASSUME NEW u \in Nat
       PROVE  u \in U <=> \/ \E a \in D \ {c} : a # arena /\ In(u, a, t[a].units)
                          \/ \E k \in J : In(u, k[1], k[2])
  <2>1. (\E k \in J : In(u, k[1], k[2])) <=> In(u, c, n) \/ \E k \in K : In(u, k[1], k[2])
    BY <1>6
  <2>2. (\E a \in D : a # arena /\ In(u, a, s[a].units)) <=>
           (\E a \in D \ {c} : a # arena /\ In(u, a, t[a].units)) \/ In(u, c, n)
    BY <1>2, <1>3, <1>4
  <2> QED
    BY <1>7, <2>1, <2>2
<1>18. \A v, z \in D \ {c} : v < z => v + t[v].units <= z
  BY <1>2, <1>7
<1>19. ASSUME NEW v \in D \ {c}, NEW k \in J, v # arena
       PROVE  Disjoint(v, t[v].units, k[1], k[2])
  BY <1>2, <1>6, <1>7, <1>13, <1>19
<1>20. \A k, j \in J : k # j => Disjoint(k[1], k[2], j[1], j[2])
  BY <1>6, <1>7, <1>14, <1>15
<1>21. Cells(t, U, J)
  BY <1>2, <1>16, <1>17, <1>18, <1>19, <1>20 DEF Cells
<1> QED
  BY <1>3, <1>4, <1>5, <1>9, <1>11, <1>12, <1>15, <1>21 DEF R

(* More units, the n from b on, none of which was there. *)
MoreUnits(U, V, b, n) ==
    /\ \A u \in Nat : u \in V <=> u \in U \/ In(u, b, n)
    /\ \A u \in Nat : u \in U => ~In(u, b, n)

(* They are apart from all blocks. *)
LEMMA GrowsCells ==
    ASSUME NEW s, NEW U, NEW K, Shape(s), Cells(s, U, K), NEW V, NEW b \in Nat, NEW n \in Nat, n > 0,
           MoreUnits(U, V, b, n)
    PROVE  Cells(s, V, K \cup {<<b, n>>}) /\ <<b, n>> \notin K
<1> DEFINE D == DOMAIN s
<1>1. \A z \in D : /\ z \in Int /\ (z # arena => z \in Nat) /\ s[z].units \in Nat /\ s[z].units > 0
  BY ShapeFields
<1>2. /\ \A k \in K : k[1] \in Nat /\ k[2] \in Nat \ {0}
      /\ \A u \in Nat : u \in U <=> \/ \E a \in D : a # arena /\ In(u, a, s[a].units)
                                    \/ \E k \in K : In(u, k[1], k[2])
      /\ \A v, z \in D : v < z => v + s[v].units <= z
      /\ \A v \in D, k \in K : v # arena => Disjoint(v, s[v].units, k[1], k[2])
      /\ \A k, j \in K : k # j => Disjoint(k[1], k[2], j[1], j[2])
  BY DEF Cells
<1>3. PICK k0 : k0 = <<b, n>>
  OBVIOUS
<1>4. k0[1] = b /\ k0[2] = n
  BY <1>3
<1>5. /\ \A u \in Nat : u \in V <=> u \in U \/ In(u, b, n)
      /\ \A u \in Nat : u \in U => ~In(u, b, n)
  BY DEF MoreUnits
<1> HIDE DEF D
<1>6. ASSUME NEW c \in Nat, NEW m \in Nat, m > 0, \A u \in Nat : In(u, c, m) => u \in U
      PROVE  Disjoint(c, m, b, n) /\ Disjoint(b, n, c, m)
  <2>1. ~(In(c, c, m) /\ In(c, b, n)) /\ ~(In(b, c, m) /\ In(b, b, n))
    BY <1>5, <1>6
  <2> QED
    BY <1>6, <2>1 DEF In, Disjoint
<1>7. \A v \in D : v # arena => Disjoint(v, s[v].units, b, n)
  BY <1>1, <1>2, <1>6
<1>8. \A k \in K : Disjoint(k[1], k[2], b, n) /\ Disjoint(b, n, k[1], k[2])
  BY <1>2, <1>6
<1> DEFINE J == K \cup {k0}
<1>9. \A k \in J : k[1] \in Nat /\ k[2] \in Nat \ {0}
  BY <1>2, <1>4
<1>10. ASSUME NEW u \in Nat
       PROVE  u \in V <=> \/ \E a \in D : a # arena /\ In(u, a, s[a].units)
                          \/ \E k \in J : In(u, k[1], k[2])
  BY <1>2, <1>4, <1>5
<1>11. \A v \in D, k \in J : v # arena => Disjoint(v, s[v].units, k[1], k[2])
  BY <1>2, <1>4, <1>7
<1>12. \A k, j \in J : k # j => Disjoint(k[1], k[2], j[1], j[2])
  BY <1>2, <1>4, <1>8
<1>13. k0 \notin K
  BY <1>2, <1>4, <1>8 DEF Disjoint
<1>14. Cells(s, V, J)
  BY <1>2, <1>9, <1>10, <1>11, <1>12 DEF Cells, D
<1> QED
  BY <1>3, <1>13, <1>14

-----------------------------------------------------------------------------
(* slob_free *)

(* The blocks with b among them, as blk, and without those of G: b hangs   *)
(* behind cur, or sinks into it.                                           *)
Laid(s, b, G, blk) == [a \in (DOMAIN s \cup {b}) \ G |-> IF a = b THEN blk ELSE s[a]]
Hung(s, cur, b, G, blk) == [Laid(s, b, G, blk) EXCEPT ![cur].next = b]
Sunk(s, cur, b, G, blk) ==
    [[a \in DOMAIN Laid(s, b, G, blk) \ {b} |-> Laid(s, b, G, blk)[a]] EXCEPT
       ![cur] = [units |-> @.units + blk.units, next |-> blk.next]]

(* The fields of a header. *)
LEMMA RecFields ==
    ASSUME NEW r \in SlobRec
    PROVE  /\ r.units \in Nat \ {0} /\ r.next \in Int
           /\ r = [units |-> r.units, next |-> r.next]
           /\ \A v : [r EXCEPT !.next = v].units = r.units /\ [r EXCEPT !.next = v].next = v
           /\ \A v \in Int : [r EXCEPT !.next = v] \in SlobRec
BY DEF SlobRec

(* A header is its fields. *)
LEMMA RecOf ==
    ASSUME NEW n, NEW v
    PROVE  /\ [units |-> n, next |-> v].units = n /\ [units |-> n, next |-> v].next = v
           /\ n \in Nat /\ n > 0 /\ v \in Int => [units |-> n, next |-> v] \in SlobRec
BY DEF SlobRec

(* What these functions hold. *)
Hangs(s, t, cur, b, G, blk) ==
    /\ Typed(t) /\ DOMAIN t = (DOMAIN s \cup {b}) \ G
    /\ t[b] = blk /\ t[cur].units = s[cur].units /\ t[cur].next = b
    /\ \A a \in DOMAIN s \ (G \cup {cur}) : t[a] = s[a]
Sinks(s, t, cur, G, blk) ==
    /\ Typed(t) /\ DOMAIN t = DOMAIN s \ G
    /\ t[cur].units = s[cur].units + blk.units /\ t[cur].next = blk.next
    /\ \A a \in DOMAIN s \ (G \cup {cur}) : t[a] = s[a]

(* They hold it. *)
LEMMA LaidPoints ==
    ASSUME NEW s, Typed(s), NEW b \in Int, b \notin DOMAIN s, NEW G \in SUBSET DOMAIN s,
           NEW cur \in DOMAIN s \ G, NEW blk \in SlobRec
    PROVE  /\ Hangs(s, Hung(s, cur, b, G, blk), cur, b, G, blk)
           /\ Sinks(s, Sunk(s, cur, b, G, blk), cur, G, blk)
<1> DEFINE D == DOMAIN s
           l == Laid(s, b, G, blk)
           t == Hung(s, cur, b, G, blk)
           k == [a \in DOMAIN l \ {b} |-> l[a]]
           u == Sunk(s, cur, b, G, blk)
<1>1. DOMAIN l = (D \cup {b}) \ G /\ l[b] = blk /\ \A a \in D \ G : l[a] = s[a]
  BY DEF Laid
<1>2. \A a \in D : s[a] \in SlobRec
  BY DEF Typed
<1>3. t = [l EXCEPT ![cur].next = b] /\ u = [k EXCEPT ![cur] = [units |-> @.units + blk.units, next |-> blk.next]]
  BY DEF Hung, Sunk
<1>4. cur # b /\ cur \in DOMAIN l /\ l[cur] = s[cur]
  BY <1>1
<1> HIDE DEF l, t, u
<1>5. DOMAIN t = (D \cup {b}) \ G /\ t[cur] = [s[cur] EXCEPT !.next = b] /\ \A a \in DOMAIN l : a # cur => t[a] = l[a]
  BY <1>1, <1>3, <1>4
<1>6. t[b] = blk /\ \A a \in D \ (G \cup {cur}) : t[a] = s[a]
  BY <1>1, <1>4, <1>5
<1>7. t[cur].units = s[cur].units /\ t[cur].next = b /\ t[cur] \in SlobRec
  BY <1>2, <1>5, RecFields
<1>8. Typed(t)
  <2>1. \A a \in DOMAIN t : t[a] \in SlobRec
    BY <1>1, <1>2, <1>5, <1>6, <1>7
  <2>2. t = [a \in DOMAIN t |-> t[a]]
    BY <1>1, <1>3 DEF Laid, l
  <2> QED
    BY <2>1, <2>2 DEF Typed
<1>9. DOMAIN k = D \ G /\ k[cur] = s[cur] /\ \A a \in D \ G : k[a] = s[a]
  BY <1>1, <1>4
<1>10. PICK r : r = [units |-> s[cur].units + blk.units, next |-> blk.next]
  OBVIOUS
<1>11. r \in SlobRec /\ r.units = s[cur].units + blk.units /\ r.next = blk.next
  BY <1>2, <1>10, RecFields, RecOf
<1>12. u = [k EXCEPT ![cur] = r]
  BY <1>3, <1>4, <1>9, <1>10
<1>13. DOMAIN u = D \ G /\ u[cur] = r /\ \A a \in D \ (G \cup {cur}) : u[a] = s[a]
  <2> HIDE DEF k
  <2> QED
    BY <1>9, <1>12
<1>14. Typed(u)
  <2>1. \A a \in DOMAIN u : u[a] \in SlobRec
    BY <1>2, <1>11, <1>13
  <2>2. u = [a \in DOMAIN u |-> u[a]]
    BY <1>12
  <2> QED
    BY <2>1, <2>2 DEF Typed
<1> QED
  BY <1>5, <1>6, <1>7, <1>8, <1>11, <1>13, <1>14 DEF t, u, Hangs, Sinks

(* The blocks of the heap between two calls: f is slobfree. *)
Sound(s, f, U, K) == Linked(s, U, K) /\ NoTouchBut(s, {}) /\ f \in Ringed(s)

(* The blocks are not without end. *)
LEMMA LinkedBounded ==
    ASSUME NEW s, NEW U, NEW K, Linked(s, U, K)
    PROVE  Bounded(s)
<1>1. PICK top \in Nat : \A u \in U : u <= top
  BY DEF Linked
<1>2. Shape(s) /\ Cells(s, U, K)
  BY DEF Linked
<1>3. ASSUME NEW x \in DOMAIN s
      PROVE  x <= top
  <2>1. x \in Int /\ arena <= x /\ (x # arena => x \in Nat) /\ s[x].units \in Nat /\ s[x].units > 0
    BY <1>2, ShapeFields
  <2>2. CASE x = arena
    BY <2>2 DEF arena
  <2>3. CASE x # arena
    <3>1. In(x, x, s[x].units)
      BY <2>1 DEF In
    <3>2. x \in U
      BY <1>2, <2>1, <2>3, <3>1 DEF Cells
    <3> QED
      BY <1>1, <3>2
  <2> QED
    BY <2>2, <2>3
<1> QED
  BY <1>3 DEF Bounded

(* Blocks in order that cover the units U; those of E may touch what follows. *)
Blocks(s, U, K, E) == Shape(s) /\ Cells(s, U, K) /\ NoTouchBut(s, E)

(* A block that is put on the list *)
LEMMA PutsAll ==
    ASSUME NEW s, NEW U, NEW K, Blocks(s, U, K, {}), NEW cur, NEW b \in Nat, NEW n \in Nat, <<b, n>> \in K,
           InFront(s, b, cur), NEW t, Puts(s, t, cur, b, n)
    PROVE  Blocks(t, U, K \ {<<b, n>>}, {cur, b}) /\ Ringed(t) = Ringed(s) \cup {b} /\ SameHeld(s, t)
<1>1. Shape(s) /\ Cells(s, U, K) /\ NoTouchBut(s, {}) /\ cur \in DOMAIN s
  BY DEF Blocks, InFront, Ringed
<1>2. b \notin DOMAIN s /\ Cells(t, U, K \ {<<b, n>>})
  BY <1>1, PutsCells
<1>3. Shape(t) /\ Ringed(t) = Ringed(s) \cup {b} /\ SameHeld(s, t)
  BY <1>1, <1>2, PutsShape
<1>4. NoTouchBut(t, {cur, b})
  BY <1>1, <1>3, PutsTouch
<1> QED
  BY <1>2, <1>3, <1>4 DEF Blocks

(* and one that grows over the next. *)
LEMMA JoinsAll ==
    ASSUME NEW s, NEW U, NEW K, NEW E, Blocks(s, U, K, E), NEW x \in Ringed(s), NEW y,
           y = s[x].next, y = x + s[x].units, y \notin E, NEW t, Joins(s, t, x, y)
    PROVE  Blocks(t, U, K, E \ {x}) /\ Ringed(t) = Ringed(s) \ {y} /\ SameHeld(s, t)
<1>1. Shape(s) /\ Cells(s, U, K) /\ NoTouchBut(s, E)
  BY DEF Blocks
<1>5. s[x].next = x + s[x].units /\ Joins(s, t, x, s[x].next) /\ s[x].next \notin E
  OBVIOUS
<1>2. Cells(t, U, K)
  BY <1>1, <1>5, JoinsCells
<1>3. Shape(t) /\ Ringed(t) = Ringed(s) \ {y} /\ SameHeld(s, t)
  BY <1>1, <1>5, JoinsShape
<1>4. NoTouchBut(t, E \ {x})
  BY <1>1, <1>3, <1>5, JoinsTouch
<1> QED
  BY <1>2, <1>3, <1>4 DEF Blocks

(* What two steps leave as it is. *)
LEMMA HeldTwice ==
    ASSUME NEW s, NEW t, NEW u, SameHeld(s, t), SameHeld(t, u)
    PROVE  SameHeld(s, u)
BY DEF SameHeld, Same

(* A block that does not touch needs no exception. *)
LEMMA TouchLess ==
    ASSUME NEW s, NEW U, NEW K, NEW E, Blocks(s, U, K, E), NEW x, s[x].next # x + s[x].units,
           NEW F, F = E \ {x}
    PROVE  Blocks(s, U, K, F)
BY DEF Blocks, NoTouchBut

(* A block that others hold has no header. *)
LEMMA NoHeader ==
    ASSUME NEW s, NEW U, NEW K, Shape(s), Cells(s, U, K), NEW b \in Nat, NEW n \in Nat, <<b, n>> \in K
    PROVE  b \notin DOMAIN s /\ n > 0
<1>1. PICK k \in K : k = <<b, n>>
  OBVIOUS
<1>2. k[1] = b /\ k[2] = n /\ b # arena
  BY <1>1 DEF arena
<1>3. n > 0
  BY <1>2 DEF Cells
<1>4. SUFFICES ASSUME b \in DOMAIN s PROVE FALSE
  BY <1>3
<1>5. s[b].units \in Nat /\ s[b].units > 0
  BY <1>4, ShapeFields
<1>6. Disjoint(b, s[b].units, b, n)
  BY <1>2, <1>4 DEF Cells
<1> QED
  BY <1>3, <1>5, <1>6 DEF Disjoint

(* A free block has n units. *)
HasRoom(s, n) == \E x \in Ringed(s) : s[x].units >= n

(* The list after slob_free, b behind cur *)
FreedSlob(s, cur, b, n) ==
    LET nxt == s[cur].next
        up == b + n = nxt
        blk == [units |-> IF up THEN n + s[nxt].units ELSE n, next |-> IF up THEN s[nxt].next ELSE nxt]
        gone == IF up THEN {nxt} ELSE {}
    IN  IF cur + s[cur].units = b THEN Sunk(s, cur, b, gone, blk) ELSE Hung(s, cur, b, gone, blk)

(* The block is in its place, and has grown over what it touches. *)
LEMMA SlobFreed ==
    ASSUME NEW s, NEW U, NEW K, Blocks(s, U, K, {}), NEW cur, NEW b \in Nat, NEW n \in Nat, <<b, n>> \in K,
           InFront(s, b, cur)
    PROVE  LET t == FreedSlob(s, cur, b, n)
           IN  Blocks(t, U, K \ {<<b, n>>}, {}) /\ cur \in Ringed(t) /\ SameHeld(s, t) /\ HasRoom(t, n)
<1> DEFINE D == DOMAIN s
           J == K \ {<<b, n>>}
<1>1. Shape(s) /\ Cells(s, U, K) /\ Typed(s)
  BY DEF Blocks, Shape, Typed
<1>2. cur \in D /\ cur \in Ringed(s) /\ cur < b /\ cur \in Int
  BY <1>1, ShapeFields DEF InFront, Ringed
<1>3. b \notin D /\ n > 0
  BY <1>1, NoHeader
<1>4. PICK nxt \in Int : nxt = s[cur].next /\ nxt \in Ringed(s) /\ nxt \in D
  BY <1>1, <1>2, ShapeFields
<1>5. PICK blk0 : blk0 = [units |-> n, next |-> nxt]
  OBVIOUS
<1>6. blk0.units = n /\ blk0.next = nxt /\ blk0 \in SlobRec
  BY <1>3, <1>4, <1>5, RecOf
<1>7. PICK t1 : t1 = Hung(s, cur, b, {}, blk0)
  OBVIOUS
<1>8. /\ Typed(t1) /\ DOMAIN t1 = D \cup {b}
      /\ t1[b] = blk0 /\ t1[cur].units = s[cur].units /\ t1[cur].next = b
      /\ \A a \in D \ {cur} : t1[a] = s[a]
  <2>1. {} \in SUBSET D /\ cur \in D \ {} /\ (D \cup {b}) \ {} = D \cup {b} /\ D \ ({} \cup {cur}) = D \ {cur}
    BY <1>2
  <2>2. Hangs(s, t1, cur, b, {}, blk0)
    BY <1>1, <1>3, <1>6, <1>7, <2>1, LaidPoints
  <2> QED
    BY <2>1, <2>2 DEF Hangs
<1>9. Puts(s, t1, cur, b, n)
  BY <1>4, <1>6, <1>8 DEF Puts, Same
<1>10. Blocks(t1, U, J, {cur, b}) /\ Ringed(t1) = Ringed(s) \cup {b} /\ SameHeld(s, t1)
  BY <1>9, PutsAll
<1>11. s[cur].units \in Nat /\ s[nxt].units \in Nat /\ s[nxt].units > 0 /\ s[nxt].next \in Int
  BY <1>1, <1>2, <1>4, ShapeFields
<1>12. CASE b + n # nxt
  <2>1. FreedSlob(s, cur, b, n) = IF cur + s[cur].units = b THEN Sunk(s, cur, b, {}, blk0) ELSE t1
    BY <1>4, <1>5, <1>7, <1>12 DEF FreedSlob
  <2>2. t1[b].next # b + t1[b].units
    BY <1>6, <1>8, <1>12
  <2>3. Blocks(t1, U, J, {cur})
    <3>1. {cur, b} \ {b} = {cur}
      BY <1>2
    <3> QED
      BY <1>10, <2>2, <3>1, TouchLess
  <2>4. CASE cur + s[cur].units # b
    <3>1. t1[cur].next # cur + t1[cur].units
      BY <1>8, <2>4
    <3>2. {cur} \ {cur} = {}
      OBVIOUS
    <3>3. Blocks(t1, U, J, {})
      BY <2>3, <3>1, <3>2, TouchLess
    <3>4. HasRoom(t1, n)
      BY <1>6, <1>8, <1>10 DEF HasRoom
    <3> QED
      BY <1>2, <1>10, <2>1, <2>4, <3>3, <3>4
  <2>5. CASE cur + s[cur].units = b
    <3>1. PICK u : u = Sunk(s, cur, b, {}, blk0)
      OBVIOUS
    <3>2. /\ Typed(u) /\ DOMAIN u = D
          /\ u[cur].units = s[cur].units + blk0.units /\ u[cur].next = blk0.next
          /\ \A a \in D \ {cur} : u[a] = s[a]
      <4>1. {} \in SUBSET D /\ cur \in D \ {} /\ D \ {} = D /\ D \ ({} \cup {cur}) = D \ {cur}
        BY <1>2
      <4>2. Sinks(s, u, cur, {}, blk0)
        BY <1>1, <1>3, <1>6, <3>1, <4>1, LaidPoints
      <4> QED
        BY <4>1, <4>2 DEF Sinks
    <3>3. Joins(t1, u, cur, b)
      BY <1>2, <1>3, <1>8, <3>2 DEF Joins, Same
    <3>4. cur \in Ringed(t1) /\ b = t1[cur].next /\ b = cur + t1[cur].units /\ b \notin {cur}
      BY <1>2, <1>8, <1>10, <2>5
    <3>5. Blocks(u, U, J, {cur} \ {cur}) /\ Ringed(u) = Ringed(t1) \ {b} /\ SameHeld(t1, u)
      BY <2>3, <3>3, <3>4, JoinsAll
    <3>6. {cur} \ {cur} = {} /\ cur \in Ringed(t1) \ {b}
      BY <1>2, <3>4
    <3>7. Blocks(u, U, J, {}) /\ cur \in Ringed(u)
      BY <3>5, <3>6
    <3>8. SameHeld(s, u)
      BY <1>10, <3>5, HeldTwice
    <3>9. HasRoom(u, n)
      BY <1>6, <1>11, <3>2, <3>7 DEF HasRoom
    <3> QED
      BY <2>1, <2>5, <3>1, <3>7, <3>8, <3>9
  <2> QED
    BY <2>4, <2>5
<1>13. CASE b + n = nxt
  <2>1. PICK blk : blk = [units |-> n + s[nxt].units, next |-> s[nxt].next]
    OBVIOUS
  <2>2. blk.units = n + s[nxt].units /\ blk.next = s[nxt].next /\ blk \in SlobRec
    BY <1>3, <1>11, <2>1, RecOf
  <2>3. PICK t2 : t2 = Hung(s, cur, b, {nxt}, blk)
    OBVIOUS
  <2>4. FreedSlob(s, cur, b, n) = IF cur + s[cur].units = b THEN Sunk(s, cur, b, {nxt}, blk) ELSE t2
    BY <1>4, <1>13, <2>1, <2>3 DEF FreedSlob
  <2>5. nxt # b /\ nxt # cur /\ {nxt} \in SUBSET D /\ cur \in D \ {nxt} /\ b \notin {cur}
    BY <1>2, <1>3, <1>4, <1>13
  <2>6. /\ Typed(t2) /\ DOMAIN t2 = (D \cup {b}) \ {nxt}
        /\ t2[b] = blk /\ t2[cur].units = s[cur].units /\ t2[cur].next = b
        /\ \A a \in D \ ({nxt} \cup {cur}) : t2[a] = s[a]
    <3>1. Hangs(s, t2, cur, b, {nxt}, blk)
      BY <1>1, <1>3, <2>2, <2>3, <2>5, LaidPoints
    <3> QED
      BY <3>1 DEF Hangs
  <2>7. Joins(t1, t2, b, nxt)
    <3>1. t1[nxt] = s[nxt]
      BY <1>4, <1>8, <2>5
    <3>2. DOMAIN t2 = DOMAIN t1 \ {nxt}
      BY <1>8, <2>6
    <3>3. t2[b].units = t1[b].units + t1[nxt].units /\ t2[b].next = t1[nxt].next
      BY <1>6, <1>8, <2>2, <2>6, <3>1
    <3>4. \A a \in DOMAIN t1 \ {b, nxt} : t2[a].units = t1[a].units /\ t2[a].next = t1[a].next
      <4>1. \A a \in D \ {nxt, cur} : t2[a] = t1[a]
        BY <1>8, <2>6
      <4>2. t2[cur].units = t1[cur].units /\ t2[cur].next = t1[cur].next
        BY <1>8, <2>6
      <4> QED
        BY <1>8, <4>1, <4>2
    <3> QED
      BY <2>6, <3>2, <3>3, <3>4 DEF Joins, Same
  <2>8. b \in Ringed(t1) /\ nxt = t1[b].next /\ nxt = b + t1[b].units /\ nxt \notin {cur, b}
    BY <1>6, <1>8, <1>10, <1>13, <2>5
  <2>9. Blocks(t2, U, J, {cur, b} \ {b}) /\ Ringed(t2) = Ringed(t1) \ {nxt} /\ SameHeld(t1, t2)
    BY <1>10, <2>7, <2>8, JoinsAll
  <2>10. Blocks(t2, U, J, {cur}) /\ cur \in Ringed(t2) /\ SameHeld(s, t2)
    <3>1. {cur, b} \ {b} = {cur} /\ cur \in Ringed(t1) \ {nxt}
      BY <1>2, <1>10, <2>5
    <3>2. SameHeld(s, t2)
      BY <1>10, <2>9, HeldTwice
    <3> QED
      BY <2>9, <3>1, <3>2
  <2>11. CASE cur + s[cur].units # b
    <3>1. t2[cur].next # cur + t2[cur].units
      BY <2>6, <2>11
    <3>2. {cur} \ {cur} = {}
      OBVIOUS
    <3>3. Blocks(t2, U, J, {})
      BY <2>10, <3>1, <3>2, TouchLess
    <3>4. HasRoom(t2, n)
      <4>1. b \in Ringed(t2)
        BY <1>10, <2>5, <2>9
      <4>2. t2[b].units >= n
        BY <1>11, <2>2, <2>6
      <4> QED
        BY <4>1, <4>2 DEF HasRoom
    <3> QED
      BY <2>4, <2>10, <2>11, <3>3, <3>4
  <2>12. CASE cur + s[cur].units = b
    <3>1. PICK u : u = Sunk(s, cur, b, {nxt}, blk)
      OBVIOUS
    <3>2. /\ Typed(u) /\ DOMAIN u = D \ {nxt}
          /\ u[cur].units = s[cur].units + blk.units /\ u[cur].next = blk.next
          /\ \A a \in D \ ({nxt} \cup {cur}) : u[a] = s[a]
      <4>1. Sinks(s, u, cur, {nxt}, blk)
        BY <1>1, <1>3, <2>2, <2>5, <3>1, LaidPoints
      <4> QED
        BY <4>1 DEF Sinks
    <3>3. Joins(t2, u, cur, b)
      <4>1. DOMAIN u = DOMAIN t2 \ {b}
        BY <1>3, <2>6, <3>2
      <4>2. \A a \in DOMAIN t2 \ {cur, b} : u[a] = t2[a]
        BY <2>6, <3>2
      <4>3. u[cur].units = t2[cur].units + t2[b].units /\ u[cur].next = t2[b].next
        BY <2>6, <3>2
      <4> QED
        BY <3>2, <4>1, <4>2, <4>3 DEF Joins, Same
    <3>4. b = t2[cur].next /\ b = cur + t2[cur].units
      BY <2>6, <2>12
    <3>5. Blocks(u, U, J, {cur} \ {cur}) /\ Ringed(u) = Ringed(t2) \ {b} /\ SameHeld(t2, u)
      BY <2>5, <2>10, <3>3, <3>4, JoinsAll
    <3>6. {cur} \ {cur} = {} /\ cur \in Ringed(t2) \ {b}
      BY <1>2, <2>10
    <3>7. Blocks(u, U, J, {}) /\ cur \in Ringed(u)
      BY <3>5, <3>6
    <3>8. SameHeld(s, u)
      BY <2>10, <3>5, HeldTwice
    <3>9. HasRoom(u, n)
      BY <1>11, <2>2, <3>2, <3>7 DEF HasRoom
    <3> QED
      BY <2>4, <2>12, <3>1, <3>7, <3>8, <3>9
  <2> QED
    BY <2>11, <2>12
<1> QED
  BY <1>12, <1>13

(* The heap u with these blocks, slobfree and result *)
Holds(h, u, s, f, r) == SlobOnly(h, u) /\ u.slob = s /\ u.free = f /\ u.ret = r

(* It holds them. *)
LEMMA HeapHolds ==
    ASSUME NEW h, NEW s, NEW f, NEW r, NEW u,
           u = [pm |-> h.pm, slob |-> s, free |-> f, ret |-> r, panic |-> h.panic]
    PROVE  Holds(h, u, s, f, r)
BY DEF Holds, SlobOnly, IsHeap

(* The blocks change, *)
LEMMA HeapBlocks ==
    ASSUME NEW h, IsHeap(h), NEW s, NEW u, u = [h EXCEPT !.slob = s]
    PROVE  Holds(h, u, s, h.free, h.ret)
<1>1. h = [pm |-> h.pm, slob |-> h.slob, free |-> h.free, ret |-> h.ret, panic |-> h.panic]
  BY DEF IsHeap
<1>2. u = [pm |-> h.pm, slob |-> s, free |-> h.free, ret |-> h.ret, panic |-> h.panic]
  BY <1>1
<1> QED
  BY <1>2, HeapHolds, Zenon

(* slobfree too, *)
LEMMA HeapFreed ==
    ASSUME NEW h, IsHeap(h), NEW s, NEW f, NEW u, u = [h EXCEPT !.free = f, !.slob = s]
    PROVE  Holds(h, u, s, f, h.ret)
<1>1. h = [pm |-> h.pm, slob |-> h.slob, free |-> h.free, ret |-> h.ret, panic |-> h.panic]
  BY DEF IsHeap
<1>2. u = [pm |-> h.pm, slob |-> s, free |-> f, ret |-> h.ret, panic |-> h.panic]
  BY <1>1
<1> QED
  BY <1>2, HeapHolds, Zenon

(* the result too. *)
LEMMA HeapCut ==
    ASSUME NEW h, IsHeap(h), NEW s, NEW f, NEW r, NEW u, u = [h EXCEPT !.slob = s, !.free = f, !.ret = r]
    PROVE  Holds(h, u, s, f, r)
<1>1. h = [pm |-> h.pm, slob |-> h.slob, free |-> h.free, ret |-> h.ret, panic |-> h.panic]
  BY DEF IsHeap
<1>2. u = [pm |-> h.pm, slob |-> s, free |-> f, ret |-> r, panic |-> h.panic]
  BY <1>1
<1> QED
  BY <1>2, HeapHolds, Zenon

(* slob_free searches the place of the block and puts it there. *)
LEMMA SlobFreeIs ==
    ASSUME NEW h, NEW b, NEW n
    PROVE  LET cur == Before(h, b)
           IN  slob_free(h, b, n) = [h EXCEPT !.free = cur, !.slob = FreedSlob(h.slob, cur, b, n)]
BY DEF slob_free, FreedSlob, Hung, Sunk, Laid

(* A block that somebody held is free. *)
LEMMA FreeSound ==
    ASSUME NEW h, IsHeap(h), NEW U, NEW K, Sound(h.slob, h.free, U, K), NEW b \in Nat, NEW n \in Nat,
           <<b, n>> \in K
    PROVE  LET u == slob_free(h, b, n)
           IN  /\ SlobOnly(h, u) /\ Sound(u.slob, u.free, U, K \ {<<b, n>>})
               /\ SameHeld(h.slob, u.slob) /\ HasRoom(u.slob, n)
<1>1. PICK s : s = h.slob
  OBVIOUS
<1>2. Linked(s, U, K) /\ NoTouchBut(s, {}) /\ h.free \in Ringed(s)
  BY <1>1 DEF Sound
<1>3. Shape(s) /\ Cells(s, U, K) /\ (\E top \in Nat : \A u \in U : u <= top) /\ Bounded(s)
  BY <1>2, LinkedBounded DEF Linked
<1>4. b \notin Ringed(s)
  BY <1>3, NoHeader DEF Ringed
<1>5. PICK cur : cur = Before(h, b)
  OBVIOUS
<1>6. InFront(s, b, cur)
  BY <1>1, <1>2, <1>3, <1>4, <1>5, BeforeIs
<1>7. PICK t : t = FreedSlob(s, cur, b, n)
  OBVIOUS
<1>8. Blocks(s, U, K, {})
  BY <1>2, <1>3 DEF Blocks
<1>9. Blocks(t, U, K \ {<<b, n>>}, {}) /\ cur \in Ringed(t) /\ SameHeld(s, t) /\ HasRoom(t, n)
  BY <1>6, <1>7, <1>8, SlobFreed
<1>10. PICK u : u = slob_free(h, b, n)
  OBVIOUS
<1>11. u = [h EXCEPT !.free = cur, !.slob = t]
  BY <1>1, <1>5, <1>7, <1>10, SlobFreeIs
<1>12. SlobOnly(h, u) /\ u.slob = t /\ u.free = cur
  <2>1. Holds(h, u, t, cur, h.ret)
    BY <1>11, HeapFreed, Zenon
  <2> QED
    BY <2>1 DEF Holds
<1>13. Sound(t, cur, U, K \ {<<b, n>>})
  BY <1>3, <1>9 DEF Sound, Linked, Blocks
<1> QED
  BY <1>1, <1>9, <1>10, <1>12, <1>13

-----------------------------------------------------------------------------
(* slob_alloc *)

(* c leaves the list as it is, or with n units only. *)
TakenOff(s, prev, c) == [s EXCEPT ![prev].next = s[c].next, ![c].next = NULL]
Halves(s, c, n) ==
    [a \in DOMAIN s \cup {c + n} |->
       IF a = c + n THEN [units |-> s[c].units - n, next |-> s[c].next] ELSE s[a]]
CutFrom(s, prev, c, n) ==
    [Halves(s, c, n) EXCEPT ![prev].next = c + n, ![c] = [units |-> n, next |-> NULL]]

(* A block of the right size leaves the list. *)
LEMMA TakenPoints ==
    ASSUME NEW s, Typed(s), NEW prev \in DOMAIN s, NEW c \in DOMAIN s, prev # c
    PROVE  Takes(s, TakenOff(s, prev, c), prev, c)
<1> DEFINE t == TakenOff(s, prev, c)
<1>1. \A a \in DOMAIN s : s[a] \in SlobRec
  BY DEF Typed
<1>2. t = [s EXCEPT ![prev].next = s[c].next, ![c].next = NULL]
  BY DEF TakenOff
<1> HIDE DEF t
<1>3. DOMAIN t = DOMAIN s
  BY <1>2
<1>4. t[prev] = [s[prev] EXCEPT !.next = s[c].next] /\ t[c] = [s[c] EXCEPT !.next = NULL]
  BY <1>2
<1>5. \A a \in DOMAIN s \ {prev, c} : t[a] = s[a]
  BY <1>2
<1>6. s[c].next \in Int /\ NULL \in Int
  BY <1>1, RecFields DEF NULL
<1>7. /\ t[prev].units = s[prev].units /\ t[prev].next = s[c].next /\ t[prev] \in SlobRec
      /\ t[c].units = s[c].units /\ t[c].next = NULL /\ t[c] \in SlobRec
  BY <1>1, <1>4, <1>6, RecFields
<1>8. Typed(t)
  <2>1. \A a \in DOMAIN t : t[a] \in SlobRec
    BY <1>1, <1>3, <1>5, <1>7
  <2>2. t = [a \in DOMAIN t |-> t[a]]
    BY <1>2
  <2> QED
    BY <2>1, <2>2 DEF Typed
<1> QED
  BY <1>3, <1>5, <1>7, <1>8 DEF Takes, Same, t

(* A larger one is cut first. *)
LEMMA CutPoints ==
    ASSUME NEW s, Typed(s), NEW prev \in DOMAIN s, NEW c \in DOMAIN s, prev # c, c \in Nat,
           NEW n \in Nat, n > 0, n < s[c].units, c + n \notin DOMAIN s
    PROVE  \E t : Splits(s, t, c, n) /\ Takes(t, CutFrom(s, prev, c, n), prev, c)
<1>1. \A a \in DOMAIN s : s[a] \in SlobRec
  BY DEF Typed
<1>2. PICK r \in Nat : r = c + n
  OBVIOUS
<1>3. PICK m \in Nat : m > 0 /\ m = s[c].units - n /\ s[c].units \in Nat
  <2>1. s[c].units \in Nat
    BY <1>1, RecFields
  <2> QED
    BY <2>1
<1>4. PICK d \in Int : d = s[c].next
  BY <1>1, RecFields
<1>0. PICK rr, rc, rn : /\ rr = [units |-> m, next |-> d]
                        /\ rc = [units |-> n, next |-> r]
                        /\ rn = [units |-> n, next |-> NULL]
  OBVIOUS
<1>5. /\ rr \in SlobRec /\ rr.units = m /\ rr.next = d
      /\ rc \in SlobRec /\ rc.units = n /\ rc.next = r
      /\ rn \in SlobRec /\ rn.units = n /\ rn.next = NULL
  <2>1. NULL \in Int
    BY DEF NULL
  <2> QED
    BY <1>0, <1>2, <1>3, <1>4, <2>1, RecOf
<1>6. r \notin DOMAIN s /\ r # c /\ r # prev
  BY <1>2
<1> DEFINE D == DOMAIN s
           t == [a \in D \cup {r} |-> IF a = r THEN rr ELSE IF a = c THEN rc ELSE s[a]]
           g == [a \in D \cup {r} |-> IF a = r THEN rr ELSE s[a]]
           u == CutFrom(s, prev, c, n)
<1>7. Halves(s, c, n) = g
  BY <1>0, <1>2, <1>3, <1>4 DEF Halves
<1>8. u = [g EXCEPT ![prev].next = r, ![c] = rn]
  BY <1>0, <1>2, <1>7 DEF CutFrom
<1>9. DOMAIN g = D \cup {r} /\ g[r] = rr /\ \A a \in D : g[a] = s[a]
  BY <1>6
<1>10. DOMAIN t = D \cup {r} /\ t[r] = rr /\ t[c] = rc /\ \A a \in D \ {c} : t[a] = s[a]
  BY <1>6
<1>11. Typed(t)
  <2>1. \A a \in D \cup {r} : t[a] \in SlobRec
    BY <1>1, <1>5, <1>10
  <2> HIDE DEF t
  <2>2. t = [a \in DOMAIN t |-> t[a]]
    BY DEF t
  <2> QED
    BY <1>10, <2>1, <2>2 DEF Typed
<1> HIDE DEF g, t, u
<1>12. Splits(s, t, c, n)
  <2>1. \A a \in D \ {c, r} : t[a] = s[a]
    BY <1>10
  <2> QED
    BY <1>2, <1>3, <1>4, <1>5, <1>10, <1>11, <2>1 DEF Splits, Same
<1>13. DOMAIN u = D \cup {r} /\ u[c] = rn /\ u[prev] = [g[prev] EXCEPT !.next = r]
       /\ \A a \in (D \cup {r}) \ {prev, c} : u[a] = g[a]
  <2>1. prev # c /\ prev \in DOMAIN g /\ c \in DOMAIN g
    BY <1>9
  <2> QED
    BY <1>8, <1>9, <2>1
<1>14. u[prev].units = s[prev].units /\ u[prev].next = r /\ u[prev] \in SlobRec
  BY <1>1, <1>9, <1>13, RecFields
<1>15. \A a \in (D \cup {r}) \ {prev, c} : u[a] = t[a]
  BY <1>9, <1>10, <1>13
<1>16. Typed(u)
  <2>1. \A a \in DOMAIN u : u[a] \in SlobRec
    <3>1. \A a \in DOMAIN t : t[a] \in SlobRec
      BY <1>11 DEF Typed
    <3> QED
      BY <1>5, <1>10, <1>13, <1>14, <1>15, <3>1
  <2>2. u = [a \in DOMAIN u |-> u[a]]
    BY <1>8 DEF g
  <2> QED
    BY <2>1, <2>2 DEF Typed
<1>17. t[prev] = s[prev]
  BY <1>10
<1>18. Takes(t, u, prev, c)
  BY <1>5, <1>10, <1>13, <1>14, <1>15, <1>16, <1>17 DEF Takes, Same
<1> QED
  BY <1>12, <1>18 DEF u

(* The search ends at c, behind prev; t are the blocks then. *)
EndsAt(h, n, prev, c) == prev = Ring(h)[Min(Fits(h, n)) - 1] /\ c = Ring(h)[Min(Fits(h, n))]
CutTo(h, n, t, prev, c) == Cut(h, n) = [h EXCEPT !.slob = t, !.free = prev, !.ret = c]

(* slob_alloc takes the first block of the walk that has room, *)
LEMMA CutWhole ==
    ASSUME NEW h, NEW n, NEW prev, NEW c, EndsAt(h, n, prev, c), c # arena, h.slob[c].units = n
    PROVE  CutTo(h, n, TakenOff(h.slob, prev, c), prev, c)
BY DEF Cut, TakenOff, EndsAt, CutTo

(* or its first units. *)
LEMMA CutPart ==
    ASSUME NEW h, NEW n, NEW prev, NEW c, EndsAt(h, n, prev, c), c # arena, h.slob[c].units # n
    PROVE  CutTo(h, n, CutFrom(h.slob, prev, c, n), prev, c)
BY DEF Cut, CutFrom, Halves, EndsAt, CutTo

(* It does not follow the heap when that block is the arena. *)
LEMMA CutArena ==
    ASSUME NEW h, NEW n, NEW prev, EndsAt(h, n, prev, arena)
    PROVE  Cut(h, n) = [h EXCEPT !.panic = "arena", !.ret = NULL]
BY DEF Cut, EndsAt

(* Two steps, of which the first holds no more. *)
LEMMA HeldCut ==
    ASSUME NEW s, NEW t, NEW u, NEW c \in Ringed(s), NEW n, SameHeld(s, t), HeldMore(t, u, c, n)
    PROVE  HeldMore(s, u, c, n)
BY DEF SameHeld, HeldMore, Same

(* A free block, or its first units, is somebody's. *)
LEMMA SlobCut ==
    ASSUME NEW s, NEW U, NEW K, Blocks(s, U, K, {}), NEW n \in Nat, n > 0, NEW prev \in Ringed(s),
           NEW c \in Ringed(s), c # arena, c = s[prev].next, s[c].units >= n
    PROVE  /\ s[c].units = n => LET t == TakenOff(s, prev, c)
                                IN  Blocks(t, U, K, {}) /\ prev \in Ringed(t) /\ HeldMore(s, t, c, n)
           /\ s[c].units # n => LET t == CutFrom(s, prev, c, n)
                                IN  Blocks(t, U, K, {}) /\ prev \in Ringed(t) /\ HeldMore(s, t, c, n)
<1>1. Shape(s) /\ Cells(s, U, K) /\ Typed(s) /\ NoTouchBut(s, {})
  BY DEF Blocks, Shape, Typed
<1>2. s[arena].units = 1 /\ s[c].units \in Nat /\ c \in DOMAIN s /\ prev \in DOMAIN s
  BY <1>1, ShapeFields
<1>3. c # arena
  OBVIOUS
<1>4. prev \in Int /\ c \in Nat /\ prev < c /\ prev # c
  BY <1>1, <1>3, TakesApart
<1>5. ASSUME s[c].units = n
      PROVE  LET t == TakenOff(s, prev, c)
             IN  Blocks(t, U, K, {}) /\ prev \in Ringed(t) /\ HeldMore(s, t, c, n)
  <2>1. PICK t : t = TakenOff(s, prev, c)
    OBVIOUS
  <2>2. Takes(s, t, prev, c)
    BY <1>1, <1>2, <1>4, <2>1, TakenPoints
  <2>3. Shape(t) /\ Ringed(t) = Ringed(s) \ {c} /\ HeldMore(s, t, c, n)
    BY <1>1, <1>3, <1>5, <2>2, TakesShape
  <2>4. Cells(t, U, K)
    BY <1>1, <2>2, TakesCells
  <2>5. NoTouchBut(s, {c})
    BY <1>1 DEF NoTouchBut
  <2>6. NoTouchBut(t, {})
    BY <1>1, <1>3, <2>2, <2>3, <2>5, TakesTouch
  <2> QED
    BY <1>4, <2>1, <2>3, <2>4, <2>6 DEF Blocks
<1>6. ASSUME s[c].units # n
      PROVE  LET t == CutFrom(s, prev, c, n)
             IN  Blocks(t, U, K, {}) /\ prev \in Ringed(t) /\ HeldMore(s, t, c, n)
  <2>1. PICK u : u = CutFrom(s, prev, c, n)
    OBVIOUS
  <2>2. n > 0 /\ n < s[c].units
    BY <1>2, <1>6
  <2>3. c + n \in Nat /\ c + n \notin DOMAIN s /\ c < c + n
    BY <1>1, <1>3, <2>2, SplitsApart
  <2>4. PICK t : Splits(s, t, c, n) /\ Takes(t, u, prev, c)
    BY <1>1, <1>2, <1>4, <2>1, <2>2, <2>3, CutPoints
  <2>5. Shape(t) /\ Ringed(t) = Ringed(s) \cup {c + n} /\ SameHeld(s, t)
    BY <1>1, <1>3, <2>2, <2>4, SplitsShape
  <2>6. Cells(t, U, K)
    BY <1>1, <1>3, <2>2, <2>4, SplitsCells
  <2>7. NoTouchBut(t, {c})
    BY <1>1, <1>3, <2>2, <2>4, <2>5, SplitsTouch
  <2>8. c \in Ringed(t) /\ prev \in Ringed(t)
    BY <2>5
  <2>9. t[prev].next = c /\ t[c].units = n
    <3>1. prev \in DOMAIN s \ {c, c + n}
      BY <1>2, <1>4, <2>3
    <3> QED
      BY <2>4, <3>1 DEF Splits, Same
  <2>10. Shape(u) /\ Ringed(u) = Ringed(t) \ {c} /\ HeldMore(t, u, c, n)
    BY <1>3, <2>4, <2>5, <2>8, <2>9, TakesShape
  <2>11. Cells(u, U, K)
    BY <2>4, <2>6, TakesCells
  <2>12. NoTouchBut(u, {})
    BY <1>3, <2>4, <2>5, <2>6, <2>7, <2>8, <2>9, <2>10, TakesTouch
  <2>13. HeldMore(s, u, c, n)
    BY <2>5, <2>10, HeldCut
  <2> QED
    BY <1>4, <2>1, <2>8, <2>10, <2>11, <2>12, <2>13 DEF Blocks
<1> QED
  BY <1>5, <1>6

(* The block that slob_alloc finds *)
Found(h, n) == Ring(h)[Min(Fits(h, n))]

(* When a block has room, slob_alloc returns one. *)
LEMMA CutSound ==
    ASSUME NEW h, IsHeap(h), NEW U, NEW K, Sound(h.slob, h.free, U, K), NEW n \in Nat, n > 0, Fits(h, n) # {},
           Found(h, n) # arena
    PROVE  LET u == Cut(h, n)
           IN  SlobOnly(h, u) /\ Sound(u.slob, u.free, U, K) /\ HeldMore(h.slob, u.slob, u.ret, n)
<1>1. PICK s : s = h.slob
  OBVIOUS
<1>2. Linked(s, U, K) /\ NoTouchBut(s, {}) /\ h.free \in Ringed(s)
  BY <1>1 DEF Sound
<1>3. Shape(s) /\ Cells(s, U, K) /\ (\E top \in Nat : \A u \in U : u <= top) /\ Bounded(s)
  BY <1>2, LinkedBounded DEF Linked
<1>4. Walks(h)
  BY <1>1, <1>2, <1>3, RingAll
<1>5. /\ LastOf(h) \in Nat /\ \A i \in 0..LastOf(h) : Ring(h)[i] \in Ringed(s)
      /\ \A i \in 1..LastOf(h) : Ring(h)[i] = s[Ring(h)[i - 1]].next
  BY <1>1, <1>4 DEF Walks
<1>6. PICK i : i = Min(Fits(h, n))
  OBVIOUS
<1>7. Fits(h, n) \in SUBSET Nat
  BY <1>5 DEF Fits
<1>8. i \in Fits(h, n)
  BY <1>6, <1>7, MinIs
<1>9. i \in 1..LastOf(h) /\ s[Ring(h)[i]].units >= n
  BY <1>1, <1>8 DEF Fits
<1>10. i - 1 \in 0..LastOf(h) /\ i \in 0..LastOf(h)
  BY <1>5, <1>9
<1>11. PICK prev, c : prev = Ring(h)[i - 1] /\ c = Ring(h)[i]
  OBVIOUS
<1>12. prev \in Ringed(s) /\ c \in Ringed(s) /\ c = s[prev].next /\ s[c].units >= n /\ c # arena
  <2>1. c # arena
    BY <1>6, <1>11 DEF Found
  <2> QED
    BY <1>5, <1>9, <1>10, <1>11, <2>1
<1>13. Blocks(s, U, K, {})
  BY <1>2, <1>3 DEF Blocks
<1>14. PICK u : u = Cut(h, n)
  OBVIOUS
<1>15. \E t : Holds(h, u, t, prev, c) /\ Blocks(t, U, K, {}) /\ prev \in Ringed(t) /\ HeldMore(s, t, c, n)
  <2>1. CASE s[c].units = n
    <3>1. PICK t : t = TakenOff(s, prev, c)
      OBVIOUS
    <3>2. Blocks(t, U, K, {}) /\ prev \in Ringed(t) /\ HeldMore(s, t, c, n)
      BY <1>12, <1>13, <2>1, <3>1, SlobCut
    <3>3. u = [h EXCEPT !.slob = t, !.free = prev, !.ret = c]
      <4>1. t = TakenOff(h.slob, prev, c) /\ h.slob[c].units = n
        BY <1>1, <2>1, <3>1
      <4>2. EndsAt(h, n, prev, c)
        BY <1>6, <1>11 DEF EndsAt
      <4>3. CutTo(h, n, t, prev, c)
        BY <1>12, <4>1, <4>2, CutWhole
      <4> QED
        BY <1>14, <4>3, Zenon DEF CutTo
    <3>4. Holds(h, u, t, prev, c)
      BY <3>3, HeapCut, Zenon
    <3> QED
      BY <3>2, <3>4
  <2>2. CASE s[c].units # n
    <3>1. PICK t : t = CutFrom(s, prev, c, n)
      OBVIOUS
    <3>2. Blocks(t, U, K, {}) /\ prev \in Ringed(t) /\ HeldMore(s, t, c, n)
      BY <1>12, <1>13, <2>2, <3>1, SlobCut
    <3>3. u = [h EXCEPT !.slob = t, !.free = prev, !.ret = c]
      <4>1. t = CutFrom(h.slob, prev, c, n) /\ h.slob[c].units # n
        BY <1>1, <2>2, <3>1
      <4>2. EndsAt(h, n, prev, c)
        BY <1>6, <1>11 DEF EndsAt
      <4>3. CutTo(h, n, t, prev, c)
        BY <1>12, <4>1, <4>2, CutPart
      <4> QED
        BY <1>14, <4>3, Zenon DEF CutTo
    <3>4. Holds(h, u, t, prev, c)
      BY <3>3, HeapCut, Zenon
    <3> QED
      BY <3>2, <3>4
  <2> QED
    BY <2>1, <2>2
<1>16. PICK t : Holds(h, u, t, prev, c) /\ Blocks(t, U, K, {}) /\ prev \in Ringed(t) /\ HeldMore(s, t, c, n)
  BY <1>15
<1>17. Sound(t, prev, U, K)
  BY <1>3, <1>16 DEF Sound, Linked, Blocks
<1>18. u.slob = t /\ u.free = prev /\ u.ret = c /\ SlobOnly(h, u)
  BY <1>16 DEF Holds
<1> QED
  BY <1>1, <1>14, <1>16, <1>17, <1>18

-----------------------------------------------------------------------------
(* The frames of the heap *)

(* A caller or a big block has frame x. *)
Held(L, B, x) ==
    \/ \E o \in L : o[1] = "pages" /\ In(x, o[2], o[3])
    \/ \E i \in 1..Len(B) : In(x, FrameOf(B[i]), CountOf(B[i]))

(* What is neither free nor held has gone to the list of slobs. *)
Slobbed(l, L, B) == {x \in Frames : Apart(l, x, 1) /\ ~Held(L, B, x)}
UnitsOf(F) == {u \in Nat : u \div PageUnits \in F}

(* The free frames m are those of l without the n from f on. *)
Gone(l, m, f, n) == \A x \in Nat : Apart(l, x, 1) <=> Apart(m, x, 1) /\ ~In(x, f, n)

(* The quotient is where the address is. *)
LEMMA DivIs ==
    ASSUME NEW n \in Nat \ {0}, NEW u \in Nat
    PROVE  u \div n \in Nat /\ n * (u \div n) <= u /\ u < n * (u \div n) + n
OBVIOUS

(* The units of a frame. *)
LEMMA InPage ==
    ASSUME NEW f \in Nat, NEW u \in Nat
    PROVE  /\ AddrOf(f) \in Nat /\ PageUnits \in Nat /\ PageUnits > 2
           /\ u \div PageUnits \in Nat
           /\ In(u, AddrOf(f), PageUnits) <=> u \div PageUnits = f
<1>1. PageUnits \in Nat \ {0} /\ PageUnits > 2
  BY KmallocAssumption
<1>2. PICK q \in Nat : q = u \div PageUnits /\ PageUnits * q <= u /\ u < PageUnits * q + PageUnits
  BY <1>1, DivIs
<1>3. PICK x \in Nat, y \in Nat : x = PageUnits * q /\ y = PageUnits * f
  BY <1>1
<1>4. AddrOf(f) = y
  BY <1>1, <1>3 DEF AddrOf
<1>5. ASSUME In(u, y, PageUnits)
      PROVE  q = f
  <2>1. y <= u /\ u < y + PageUnits
    BY <1>5 DEF In
  <2>2. -PageUnits < x - y /\ x - y < PageUnits
    BY <1>1, <1>2, <1>3, <2>1
  <2>3. -PageUnits < PageUnits * q - PageUnits * f /\ PageUnits * q - PageUnits * f < PageUnits
    BY <1>3, <2>2
  <2> QED
    BY <1>1, <2>3, NearMultiples
<1>6. ASSUME q = f
      PROVE  In(u, y, PageUnits)
  <2>1. x = y
    BY <1>3, <1>6
  <2> QED
    BY <1>2, <1>3, <2>1 DEF In
<1> QED
  BY <1>1, <1>2, <1>4, <1>5, <1>6

(* One frame is apart from others, or among them. *)
LEMMA DisjointOne ==
    ASSUME NEW x \in Nat, NEW f \in Nat, NEW n \in Nat
    PROVE  Disjoint(x, 1, f, n) <=> ~In(x, f, n)
BY DEF Disjoint, In

(* What default_alloc_pages takes from the list *)
LEMMA TakeGone ==
    ASSUME NEW a, PmOK(a), NEW n \in Nat, n > 0, default_alloc_pages(a, n).page # NoFrame
    PROVE  LET r == default_alloc_pages(a, n) IN Gone(a.list, r.a.list, r.page, n)
<1>1. PICK r : r = default_alloc_pages(a, n)
  OBVIOUS
<1>2. /\ Region(r.page, n)
      /\ \A f, k \in Nat : k > 0 =>
            (Apart(a.list, f, k) <=> Apart(r.a.list, f, k) /\ Disjoint(f, k, r.page, n))
  BY <1>1, AllocList
<1>3. r.page \in Nat
  BY <1>2 DEF Region
<1>4. ASSUME NEW x \in Nat
      PROVE  Apart(a.list, x, 1) <=> Apart(r.a.list, x, 1) /\ ~In(x, r.page, n)
  <2>1. Apart(a.list, x, 1) <=> Apart(r.a.list, x, 1) /\ Disjoint(x, 1, r.page, n)
    BY <1>2
  <2> QED
    BY <1>3, <2>1, DisjointOne
<1> QED
  BY <1>1, <1>4 DEF Gone

(* and default_free_pages gives back to it. *)
LEMMA FreeGone ==
    ASSUME NEW a, PmOK(a), NEW f, NEW n, Region(f, n), Apart(a.list, f, n)
    PROVE  Gone(default_free_pages(a, f, n).list, a.list, f, n)
<1>1. PICK c : c = default_free_pages(a, f, n)
  OBVIOUS
<1>2. \A g, k \in Nat : k > 0 => (Apart(c.list, g, k) <=> Apart(a.list, g, k) /\ Disjoint(g, k, f, n))
  BY <1>1, FreeList
<1>3. f \in Nat /\ n \in Nat
  BY DEF Region
<1>4. ASSUME NEW x \in Nat
      PROVE  Apart(c.list, x, 1) <=> Apart(a.list, x, 1) /\ ~In(x, f, n)
  <2>1. Apart(c.list, x, 1) <=> Apart(a.list, x, 1) /\ Disjoint(x, 1, f, n)
    BY <1>2
  <2> QED
    BY <1>3, <2>1, DisjointOne
<1> QED
  BY <1>1, <1>4 DEF Gone

(* Frames that go from the free ones to a holder, or back, are not of the heap. *)
LEMMA SlobbedSame ==
    ASSUME NEW l, NEW m, NEW f, NEW n, Gone(l, m, f, n), NEW L, NEW B, NEW M, NEW C,
           \A x \in Frames : Held(M, C, x) <=> Held(L, B, x) \/ In(x, f, n)
    PROVE  Slobbed(m, M, C) = Slobbed(l, L, B)
<1>1. \A x \in Frames : x \in Nat
  BY PageAllocAssumption DEF Frames
<1> QED
  BY <1>1 DEF Slobbed, Gone

(* Frames that nobody holds go to the heap. *)
LEMMA SlobbedMore ==
    ASSUME NEW l, NEW m, m \in Seq(BlockRec), NEW f, NEW n, Gone(l, m, f, n), NEW L, NEW B, Fresh(L, B, m, f, n),
           \A o \in L : o[1] = "pages" => Region(o[2], o[3]),
           \A i \in 1..Len(B) : Region(FrameOf(B[i]), CountOf(B[i]))
    PROVE  \A x \in Nat : /\ x \in Slobbed(m, L, B) <=> x \in Slobbed(l, L, B) \/ In(x, f, n)
                          /\ x \in Slobbed(l, L, B) => ~In(x, f, n)
<1>1. f \in Nat /\ n \in Nat /\ n > 0 /\ f + n <= NPages /\ Apart(m, f, n)
  BY DEF Fresh, Region
<1>2. \A i \in 1..Len(m) : m[i].base \in Nat /\ m[i].n \in Nat /\ Disjoint(f, n, m[i].base, m[i].n)
  BY <1>1, BlockFields DEF Apart
<1>3. ASSUME NEW x \in Nat, In(x, f, n)
      PROVE  x \in Frames /\ Apart(m, x, 1) /\ ~Held(L, B, x)
  <2>1. x \in Frames
    BY <1>1, <1>3, PageAllocAssumption DEF In, Frames
  <2>2. Apart(m, x, 1)
    <3>1. ASSUME NEW i \in 1..Len(m)
          PROVE  Disjoint(x, 1, m[i].base, m[i].n)
      <4>1. PICK g \in Nat, k \in Nat : g = m[i].base /\ k = m[i].n
        BY <1>2
      <4>2. Disjoint(f, n, g, k)
        BY <1>2, <4>1
      <4> QED
        BY <1>1, <1>3, <4>1, <4>2 DEF Disjoint, In
    <3> QED
      BY <3>1 DEF Apart
  <2>3. ASSUME NEW o \in L, o[1] = "pages"
        PROVE  ~In(x, o[2], o[3])
    <3>1. PICK g \in Nat, k \in Nat : g = o[2] /\ k = o[3]
      BY <2>3 DEF Region
    <3>2. Disjoint(g, k, f, n)
      BY <2>3, <3>1 DEF Fresh
    <3> QED
      BY <1>1, <1>3, <3>1, <3>2 DEF Disjoint, In
  <2>4. ASSUME NEW i \in 1..Len(B)
        PROVE  ~In(x, FrameOf(B[i]), CountOf(B[i]))
    <3>1. PICK g \in Nat, k \in Nat : g = FrameOf(B[i]) /\ k = CountOf(B[i])
      BY DEF Region
    <3>2. Disjoint(g, k, f, n)
      BY <3>1 DEF Fresh
    <3> QED
      BY <1>1, <1>3, <3>1, <3>2 DEF Disjoint, In
  <2> QED
    BY <2>1, <2>2, <2>3, <2>4 DEF Held
<1>4. \A x \in Nat : x \in Slobbed(l, L, B) => ~In(x, f, n)
  BY DEF Slobbed, Gone
<1>5. ASSUME NEW x \in Nat, ~In(x, f, n)
      PROVE  x \in Slobbed(m, L, B) <=> x \in Slobbed(l, L, B)
  BY <1>5 DEF Slobbed, Gone
<1>6. ASSUME NEW x \in Nat, In(x, f, n)
      PROVE  x \in Slobbed(m, L, B)
  BY <1>3, <1>6 DEF Slobbed
<1> QED
  BY <1>4, <1>5, <1>6

(* The heap grows by the units of a frame. *)
LEMMA UnitsMore ==
    ASSUME NEW F, NEW G, NEW f \in Nat,
           \A x \in Nat : /\ x \in G <=> x \in F \/ In(x, f, 1)
                          /\ x \in F => ~In(x, f, 1)
    PROVE  MoreUnits(UnitsOf(F), UnitsOf(G), AddrOf(f), PageUnits)
<1>1. \A x \in Nat : In(x, f, 1) <=> x = f
  BY DEF In
<1>2. ASSUME NEW u \in Nat
      PROVE  /\ u \in UnitsOf(G) <=> u \in UnitsOf(F) \/ In(u, AddrOf(f), PageUnits)
             /\ u \in UnitsOf(F) => ~In(u, AddrOf(f), PageUnits)
  <2>1. PICK q \in Nat : q = u \div PageUnits /\ (In(u, AddrOf(f), PageUnits) <=> q = f)
    BY InPage
  <2>2. (q \in G <=> q \in F \/ q = f) /\ (q \in F => q # f)
    BY <1>1
  <2>3. (u \in UnitsOf(G) <=> q \in G) /\ (u \in UnitsOf(F) <=> q \in F)
    BY <2>1 DEF UnitsOf
  <2> QED
    BY <2>1, <2>2, <2>3
<1> QED
  BY <1>2 DEF MoreUnits

(* No unit is behind the last frame. *)
LEMMA UnitsBounded ==
    ASSUME NEW F \in SUBSET Frames
    PROVE  \E top \in Nat : \A u \in UnitsOf(F) : u <= top
<1>1. NPages \in Nat /\ PageUnits \in Nat \ {0} /\ Frames = 0..(NPages - 1)
  BY PageAllocAssumption, KmallocAssumption DEF Frames
<1>2. PICK top \in Nat : top = PageUnits * NPages
  BY <1>1
<1>3. ASSUME NEW u \in UnitsOf(F)
      PROVE  u <= top
  <2>1. u \in Nat
    BY DEF UnitsOf
  <2>2. PICK q \in Nat : q = u \div PageUnits /\ u < PageUnits * q + PageUnits
    BY <1>1, <2>1, DivIs
  <2>3. q + 1 <= NPages
    BY <1>1, <2>2 DEF UnitsOf
  <2>4. PageUnits * (q + 1) <= PageUnits * NPages
    BY <1>1, <2>3
  <2>5. PageUnits * (q + 1) = PageUnits * q + PageUnits
    BY <1>1
  <2>6. PICK x \in Nat, y \in Nat : x = PageUnits * q /\ y = PageUnits * (q + 1)
    BY <1>1
  <2> QED
    BY <1>1, <1>2, <2>1, <2>2, <2>4, <2>5, <2>6
<1> QED
  BY <1>3

(* Who holds a frame, when a caller gets or gives back frames *)
LEMMA HeldPagesMore ==
    ASSUME NEW L, NEW B, NEW f, NEW n, NEW x
    PROVE  Held(L \cup {<<"pages", f, n>>}, B, x) <=> Held(L, B, x) \/ In(x, f, n)
<1>1. PICK p : p = <<"pages", f, n>>
  OBVIOUS
<1>2. p[1] = "pages" /\ p[2] = f /\ p[3] = n
  BY <1>1
<1>3. Held(L \cup {p}, B, x) <=> Held(L, B, x) \/ In(x, f, n)
  BY <1>2 DEF Held
<1> QED
  BY <1>1, <1>3

(* gives them back, *)
LEMMA HeldPagesLess ==
    ASSUME NEW L, NEW B, NEW p \in L, p[1] = "pages", NEW x
    PROVE  Held(L, B, x) <=> Held(L \ {p}, B, x) \/ In(x, p[2], p[3])
BY DEF Held

(* or has to do with objects only. *)
LEMMA HeldObject ==
    ASSUME NEW L, NEW B, NEW x
    PROVE  /\ \A a, z : Held(L \cup {<<"object", a, z>>}, B, x) <=> Held(L, B, x)
           /\ \A o \in L : o[1] = "object" => (Held(L \ {o}, B, x) <=> Held(L, B, x))
<1>1. ASSUME NEW a, NEW z
      PROVE  Held(L \cup {<<"object", a, z>>}, B, x) <=> Held(L, B, x)
  <2>1. PICK p : p = <<"object", a, z>>
    OBVIOUS
  <2>2. p[1] # "pages"
    BY <2>1
  <2>3. Held(L \cup {p}, B, x) <=> Held(L, B, x)
    BY <2>2 DEF Held
  <2> QED
    BY <2>1, <2>3
<1>2. ASSUME NEW o \in L, o[1] = "object"
      PROVE  Held(L \ {o}, B, x) <=> Held(L, B, x)
  <2>1. o[1] # "pages"
    BY <1>2
  <2> QED
    BY <2>1 DEF Held
<1> QED
  BY <1>1, <1>2

(* The list C is B with one more record, b, its k-th. *)
Among(B, C, k, b) ==
    /\ k \in 1..Len(C) /\ C[k] = b
    /\ \A j \in 1..Len(C) : j # k => \E i \in 1..Len(B) : C[j] = B[i]
    /\ \A i \in 1..Len(B) : \E j \in 1..Len(C) : j # k /\ C[j] = B[i]
    /\ \A i, j \in 1..Len(B) : i # j =>
          \E u, v \in 1..Len(C) : u # v /\ u # k /\ v # k /\ C[u] = B[i] /\ C[v] = B[j]
    /\ \A u, v \in 1..Len(C) : u # v /\ u # k /\ v # k =>
          \E i, j \in 1..Len(B) : i # j /\ C[u] = B[i] /\ C[v] = B[j]

(* Index by index *)
LEMMA AmongAt ==
    ASSUME NEW B, NEW C, NEW k, NEW b, Len(B) \in Nat, Len(C) = Len(B) + 1, k \in 1..Len(C), C[k] = b,
           \A j \in 1..Len(B) : B[j] = IF j < k THEN C[j] ELSE C[j + 1]
    PROVE  Among(B, C, k, b)
<1> DEFINE m == Len(B)
           n == Len(C)
           up == [j \in 1..m |-> IF j < k THEN j ELSE j + 1]
<1>1. m \in Nat /\ n = m + 1 /\ k \in 1..n /\ k \in Nat
  OBVIOUS
<1>2. \A j \in 1..m : up[j] \in 1..n /\ up[j] # k /\ C[up[j]] = B[j]
  <2>1. ASSUME NEW j \in 1..m
        PROVE  up[j] \in 1..n /\ up[j] # k /\ C[up[j]] = B[j]
    <3>1. up[j] = IF j < k THEN j ELSE j + 1
      OBVIOUS
    <3>2. B[j] = IF j < k THEN C[j] ELSE C[j + 1]
      OBVIOUS
    <3> HIDE DEF up, m, n
    <3> QED
      BY <1>1, <3>1, <3>2
  <2> QED
    BY <2>1
<1>3. \A i, j \in 1..m : i # j => up[i] # up[j]
  BY <1>1
<1>4. \A j \in 1..n : j # k => \E i \in 1..m : up[i] = j
  <2>1. ASSUME NEW j \in 1..n, j < k
        PROVE  \E i \in 1..m : up[i] = j
    <3>1. j \in 1..m
      BY <1>1, <2>1
    <3> QED
      BY <2>1, <3>1
  <2>2. ASSUME NEW j \in 1..n, j > k
        PROVE  \E i \in 1..m : up[i] = j
    <3>1. j - 1 \in 1..m /\ ~(j - 1 < k) /\ (j - 1) + 1 = j
      BY <1>1, <2>2
    <3>2. up[j - 1] = j
      BY <3>1
    <3> QED
      BY <3>1, <3>2
  <2> QED
    BY <1>1, <2>1, <2>2
<1>5. C[k] = b
  OBVIOUS
<1> HIDE DEF up, m, n
<1>6. \A u, v \in 1..n : u # v /\ u # k /\ v # k => \E i, j \in 1..m : i # j /\ C[u] = B[i] /\ C[v] = B[j]
  <2>1. SUFFICES ASSUME NEW u \in 1..n, NEW v \in 1..n, u # v, u # k, v # k
                 PROVE  \E i, j \in 1..m : i # j /\ C[u] = B[i] /\ C[v] = B[j]
    OBVIOUS
  <2>2. PICK i \in 1..m, j \in 1..m : up[i] = u /\ up[j] = v
    BY <1>4, <2>1
  <2> QED
    BY <1>2, <2>1, <2>2
<1>7. \A i, j \in 1..m : i # j =>
          \E u, v \in 1..n : u # v /\ u # k /\ v # k /\ C[u] = B[i] /\ C[v] = B[j]
  BY <1>2, <1>3
<1>8. \A j \in 1..n : j # k => \E i \in 1..m : C[j] = B[i]
  BY <1>2, <1>4
<1>9. \A i \in 1..m : \E j \in 1..n : j # k /\ C[j] = B[i]
  BY <1>2
<1> QED
  BY <1>1, <1>5, <1>6, <1>7, <1>8, <1>9 DEF Among, m, n

(* A record comes first, *)
LEMMA AmongFirst ==
    ASSUME NEW B, Listed(B), NEW b
    PROVE  Among(B, <<b>> \o B, 1, b)
<1> DEFINE C == <<b>> \o B
<1>1. PICK S : B \in Seq(S)
  BY DEF Listed
<1>2. B \in Seq(S \cup {b}) /\ <<b>> \in Seq(S \cup {b}) /\ Len(B) \in Nat
  BY <1>1
<1>3. Len(C) = Len(B) + 1 /\ C[1] = b /\ \A j \in 1..Len(B) : C[j + 1] = B[j]
  BY <1>2
<1>4. \A j \in 1..Len(B) : B[j] = IF j < 1 THEN C[j] ELSE C[j + 1]
  BY <1>2, <1>3
<1>5. 1 \in 1..Len(C)
  BY <1>2, <1>3
<1> HIDE DEF C
<1>6. Among(B, C, 1, b)
  BY <1>2, <1>3, <1>4, <1>5, AmongAt
<1> QED
  BY <1>6 DEF C

(* and one is taken out. *)
LEMMA AmongLess ==
    ASSUME NEW B, Listed(B), NEW i \in 1..Len(B)
    PROVE  Among(RemoveAt(B, i), B, i, B[i])
<1>1. PICK S : B \in Seq(S)
  BY DEF Listed
<1>2. /\ RemoveAt(B, i) \in Seq(S) /\ Len(RemoveAt(B, i)) = Len(B) - 1
      /\ \A j \in 1..(Len(B) - 1) : RemoveAt(B, i)[j] = IF j < i THEN B[j] ELSE B[j + 1]
  BY <1>1, RemoveElems, Zenon
<1>3. Len(B) \in Nat
  BY <1>1
<1>4. PICK A : A = RemoveAt(B, i)
  OBVIOUS
<1>5. Len(A) \in Nat /\ Len(B) = Len(A) + 1 /\ \A j \in 1..Len(A) : A[j] = IF j < i THEN B[j] ELSE B[j + 1]
  <2>1. Len(A) = Len(B) - 1 /\ Len(A) \in Nat
    BY <1>2, <1>3, <1>4
  <2> QED
    BY <1>2, <1>3, <1>4, <2>1
<1>6. Among(A, B, i, B[i])
  BY <1>5, AmongAt
<1> QED
  BY <1>4, <1>6

(* Who holds a frame, when a big block comes or goes. *)
LEMMA HeldAmong ==
    ASSUME NEW L, NEW B, NEW C, NEW k, NEW b, Among(B, C, k, b), NEW x
    PROVE  Held(L, C, x) <=> Held(L, B, x) \/ In(x, FrameOf(b), CountOf(b))
BY DEF Held, Among

-----------------------------------------------------------------------------
(* The heap in the middle of a call *)

(* The blocks of h, with what K holds, cover the units of its frames. *)
Parted(h, L, B, K) == Sound(h.slob, h.free, UnitsOf(Slobbed(h.pm.list, L, B)), K)

SameBlocks(h, u) == u.slob = h.slob /\ u.free = h.free

(* A call that stops the kernel or takes frames leaves the blocks. *)
LEMMA StopsSame ==
    ASSUME NEW h, IsHeap(h), NEW x, NEW r, NEW u, u = [h EXCEPT !.panic = x, !.ret = r]
    PROVE  SameBlocks(h, u)
<1>1. h = [pm |-> h.pm, slob |-> h.slob, free |-> h.free, ret |-> h.ret, panic |-> h.panic]
  BY DEF IsHeap
<1>2. u = [pm |-> h.pm, slob |-> h.slob, free |-> h.free, ret |-> r, panic |-> x]
  BY <1>1
<1> QED
  BY <1>2 DEF SameBlocks

(* So does one that takes them. *)
LEMMA TakesSame ==
    ASSUME NEW h, IsHeap(h), NEW x, NEW r, NEW u, u = [h EXCEPT !.pm = x, !.ret = r]
    PROVE  SameBlocks(h, u)
<1>1. h = [pm |-> h.pm, slob |-> h.slob, free |-> h.free, ret |-> h.ret, panic |-> h.panic]
  BY DEF IsHeap
<1>2. u = [pm |-> x, slob |-> h.slob, free |-> h.free, ret |-> r, panic |-> h.panic]
  BY <1>1
<1> QED
  BY <1>2 DEF SameBlocks

(* What alloc_pages does: no frames, or n of them from u.ret on. *)
PagesTaken(h, u, n) ==
    /\ SameBlocks(h, u)
    /\ u.ret = NULL => u.panic = "swap_out" \/ (u.panic = h.panic /\ u.pm = h.pm)
    /\ u.ret # NULL => u.panic = h.panic /\ Gone(h.pm.list, u.pm.list, u.ret, n)

(* It does that. *)
LEMMA AllocTakes ==
    ASSUME NEW h, NEW L, NEW B, HeapOK(h, L, B), NEW n \in Nat, n > 0
    PROVE  PagesTaken(h, alloc_pages(h, n), n)
<1> DEFINE r == default_alloc_pages(h.pm, n)
           u == alloc_pages(h, n)
<1>1. PmOK(h.pm)
  BY DEF HeapOK, Exact
<1>2. r.page = NoFrame => r.a = h.pm
  BY <1>1, AllocList
<1>3. r.page # NoFrame => Gone(h.pm.list, r.a.list, r.page, n)
  BY <1>1, TakeGone
<1>4. u = Allocated(h, n, r)
  BY DEF alloc_pages
<1>5. NULL = NoFrame /\ IsHeap(h)
  BY DEF NULL, NoFrame, HeapOK
<1> HIDE DEF r, u
<1>6. \/ u = [h EXCEPT !.panic = "swap_out", !.ret = NULL]
      \/ u = [h EXCEPT !.pm = r.a, !.ret = r.page]
  BY <1>4 DEF Allocated
<1>7. CASE u = [h EXCEPT !.panic = "swap_out", !.ret = NULL]
  <2>1. PICK x, y : x = "swap_out" /\ y = NULL
    OBVIOUS
  <2>2. u = [h EXCEPT !.panic = x, !.ret = y]
    BY <1>7, <2>1
  <2>3. Ends(u, h.pm, y, x)
    BY <1>5, <2>2, HeapStops, Zenon
  <2>4. SameBlocks(h, u)
    BY <1>5, <2>2, StopsSame, Zenon
  <2>5. u.ret = NULL /\ u.panic = "swap_out"
    BY <2>1, <2>3 DEF Ends
  <2>6. PagesTaken(h, u, n)
    BY <2>4, <2>5 DEF PagesTaken
  <2> QED
    BY <2>6 DEF u
<1>8. CASE u = [h EXCEPT !.pm = r.a, !.ret = r.page]
  <2>1. PICK x, y : x = r.a /\ y = r.page
    OBVIOUS
  <2>2. u = [h EXCEPT !.pm = x, !.ret = y]
    BY <1>8, <2>1
  <2>3. Ends(u, x, y, h.panic)
    BY <1>5, <2>2, HeapTakes, Zenon
  <2>4. SameBlocks(h, u)
    BY <1>5, <2>2, TakesSame, Zenon
  <2>5. u.pm = r.a /\ u.ret = r.page /\ u.panic = h.panic
    BY <2>1, <2>3 DEF Ends
  <2>6. PagesTaken(h, u, n)
    BY <1>2, <1>3, <1>5, <2>4, <2>5 DEF PagesTaken
  <2> QED
    BY <2>6 DEF u
<1> QED
  BY <1>6, <1>7, <1>8

(* Sizes in units *)
LEMMA UnitsIs ==
    ASSUME NEW size \in Nat
    PROVE  /\ SLOB_UNITS(size) \in Nat
           /\ size >= SLOB_UNIT => SLOB_UNITS(size) > 0
           /\ size + SLOB_UNIT < PAGE_SIZE => SLOB_UNITS(size) <= PageUnits
<1>1. SLOB_UNIT \in Nat \ {0} /\ PageUnits \in Nat
  BY KmallocAssumption
<1>2. PICK S \in Nat \ {0} : S = SLOB_UNIT
  BY <1>1
<1>3. PICK x \in Nat : x = size + S - 1
  OBVIOUS
<1>4. PICK q \in Nat : q = x \div S /\ S * q <= x /\ x < S * q + S
  BY DivIs
<1>5. SLOB_UNITS(size) = q
  BY <1>2, <1>3, <1>4 DEF SLOB_UNITS
<1>6. ASSUME size >= S
      PROVE  q > 0
  <2>1. q = 0 \/ q > 0
    OBVIOUS
  <2>2. q = 0 => S * q = 0
    OBVIOUS
  <2> QED
    BY <1>3, <1>4, <1>6, <2>1, <2>2
<1>7. ASSUME size + S < PAGE_SIZE
      PROVE  q <= PageUnits
  <2>1. PAGE_SIZE = S * PageUnits
    BY <1>1, <1>2 DEF PAGE_SIZE
  <2>2. SUFFICES ASSUME q > PageUnits PROVE FALSE
    BY <1>1
  <2>3. S * PageUnits <= S * q
    BY <1>1, <2>2
  <2>4. PICK y \in Nat, z \in Nat : y = S * q /\ z = S * PageUnits
    BY <1>1
  <2> QED
    BY <1>3, <1>4, <1>7, <2>1, <2>3, <2>4
<1> QED
  BY <1>2, <1>5, <1>6, <1>7

(* From s to t the block c, of n units, is held, and nothing else changes hands. *)
HeldOne(s, t, c, n) ==
    /\ c \in DOMAIN t \ Ringed(t) /\ c \notin DOMAIN s \ Ringed(s) /\ t[c].units = n
    /\ DOMAIN t \ Ringed(t) = (DOMAIN s \ Ringed(s)) \cup {c}
    /\ Same(s, t, DOMAIN s \ Ringed(s))

(* A cut does that, *)
LEMMA HeldIsOne ==
    ASSUME NEW s, NEW t, NEW u, NEW c, NEW n, SameHeld(s, t), HeldMore(t, u, c, n)
    PROVE  HeldOne(s, u, c, n)
<1>1. c \in Ringed(t) /\ DOMAIN u \ Ringed(u) = (DOMAIN t \ Ringed(t)) \cup {c}
  BY DEF HeldMore
<1>2. DOMAIN t \ Ringed(t) = DOMAIN s \ Ringed(s)
  BY DEF SameHeld
<1>3. Same(s, u, DOMAIN s \ Ringed(s))
  BY DEF SameHeld, HeldMore, Same
<1>4. u[c].units = n
  BY DEF HeldMore
<1> QED
  BY <1>1, <1>2, <1>3, <1>4 DEF HeldOne

(* on a list that has room for it. *)
LEMMA RoomFits ==
    ASSUME NEW h, NEW U, NEW K, Sound(h.slob, h.free, U, K), NEW n \in Nat, NEW m \in Nat, n <= m, HasRoom(h.slob, m)
    PROVE  Fits(h, n) # {}
<1>1. Linked(h.slob, U, K) /\ Shape(h.slob) /\ h.free \in Ringed(h.slob) /\ Bounded(h.slob)
  BY LinkedBounded DEF Sound, Linked
<1>2. Walks(h)
  BY <1>1, RingAll
<1>3. PICK x \in Ringed(h.slob) : h.slob[x].units >= m
  BY DEF HasRoom
<1>4. h.slob[x].units \in Nat
  BY <1>1, RingFields
<1>5. PICK i \in 1..LastOf(h) : Ring(h)[i] = x
  BY <1>2 DEF Walks
<1>6. h.slob[Ring(h)[i]].units >= n
  BY <1>3, <1>4, <1>5
<1>7. i \in Fits(h, n)
  BY <1>6 DEF Fits
<1> QED
  BY <1>7

(* A page more, not yet on the list. *)
LEMMA GrowSound ==
    ASSUME NEW s, NEW f, NEW U, NEW K, Sound(s, f, U, K), NEW V, NEW b \in Nat, NEW n \in Nat, n > 0,
           MoreUnits(U, V, b, n), \E top \in Nat : \A u \in V : u <= top
    PROVE  Sound(s, f, V, K \cup {<<b, n>>}) /\ <<b, n>> \notin K
<1>1. Shape(s) /\ Cells(s, U, K)
  BY DEF Sound, Linked
<1>2. Cells(s, V, K \cup {<<b, n>>}) /\ <<b, n>> \notin K
  BY <1>1, GrowsCells
<1> QED
  BY <1>2 DEF Sound, Linked

(* A frame that the list of slobs has taken. *)
LEMMA ParkedPage ==
    ASSUME NEW h, NEW L, NEW B, HeapOK(h, L, B), NEW K, Parted(h, L, B, K),
           NEW p, HeapOK(p, L, B), PagesTaken(h, p, 1), p.ret # NULL, Fresh(L, B, p.pm.list, p.ret, 1)
    PROVE  /\ Parted(p, L, B, K \cup {<<AddrOf(p.ret), PageUnits>>})
           /\ <<AddrOf(p.ret), PageUnits>> \notin K
           /\ AddrOf(p.ret) \in Nat /\ PageUnits \in Nat /\ p.panic = h.panic
<1> DEFINE F == Slobbed(h.pm.list, L, B)
           G == Slobbed(p.pm.list, L, B)
<1>1. PICK f \in Nat : f = p.ret
  BY DEF Fresh, Region
<1>2. /\ Gone(h.pm.list, p.pm.list, f, 1) /\ Fresh(L, B, p.pm.list, f, 1) /\ p.panic = h.panic
      /\ p.slob = h.slob /\ p.free = h.free
  BY <1>1 DEF PagesTaken, SameBlocks
<1>3. /\ p.pm.list \in Seq(BlockRec)
      /\ \A o \in L : o[1] = "pages" => Region(o[2], o[3])
      /\ \A i \in 1..Len(B) : Region(FrameOf(B[i]), CountOf(B[i]))
  BY DEF HeapOK, Exact, PmOK, ListOK, HeldPages, HeldBig
<1>4. \A x \in Nat : /\ x \in G <=> x \in F \/ In(x, f, 1)
                     /\ x \in F => ~In(x, f, 1)
  BY <1>2, <1>3, SlobbedMore
<1>5. G \in SUBSET Frames
  BY DEF Slobbed
<1>6. Sound(h.slob, h.free, UnitsOf(F), K)
  BY DEF Parted
<1> HIDE DEF F, G
<1>7. MoreUnits(UnitsOf(F), UnitsOf(G), AddrOf(f), PageUnits)
  BY <1>4, UnitsMore
<1>8. \E top \in Nat : \A u \in UnitsOf(G) : u <= top
  BY <1>5, UnitsBounded
<1>9. AddrOf(f) \in Nat /\ PageUnits \in Nat /\ PageUnits > 0
  BY InPage
<1>10. Sound(h.slob, h.free, UnitsOf(G), K \cup {<<AddrOf(f), PageUnits>>}) /\ <<AddrOf(f), PageUnits>> \notin K
  BY <1>6, <1>7, <1>8, <1>9, GrowSound
<1> QED
  BY <1>1, <1>2, <1>9, <1>10 DEF Parted, G

(* What slob_alloc does: it stops the kernel, finds nothing, or returns a block. *)
SlobGot(h, u, L, B, K, n) ==
    \/ u.panic # "none" /\ u.ret = NULL
    \/ u.panic = "none" /\ u.ret = NULL /\ Parted(u, L, B, K) /\ u.slob = h.slob
    \/ u.panic = "none" /\ u.ret # NULL /\ Parted(u, L, B, K) /\ HeldOne(h.slob, u.slob, u.ret, n)

(* A block from the list *)
LEMMA CutGot ==
    ASSUME NEW h, IsHeap(h), NEW L, NEW B, NEW K, Parted(h, L, B, K), h.panic = "none",
           NEW n \in Nat, n > 0, Fits(h, n) # {}, NEW s, SameHeld(s, h.slob)
    PROVE  LET u == Cut(h, n)
           IN  \/ u.panic # "none" /\ u.ret = NULL
               \/ u.panic = "none" /\ u.ret # NULL /\ Parted(u, L, B, K) /\ HeldOne(s, u.slob, u.ret, n)
<1>1. PICK u : u = Cut(h, n)
  OBVIOUS
<1>0. CASE Found(h, n) = arena
  <2>1. PICK x, y : x = "arena" /\ y = NULL
    OBVIOUS
  <2>2. PICK prev : EndsAt(h, n, prev, arena)
    BY <1>0 DEF Found, EndsAt
  <2>3. u = [h EXCEPT !.panic = x, !.ret = y]
    BY <1>1, <2>1, <2>2, CutArena
  <2>4. Ends(u, h.pm, y, x)
    BY <2>3, HeapStops, Zenon
  <2>5. u.panic # "none" /\ u.ret = NULL
    BY <2>1, <2>4 DEF Ends
  <2> QED
    BY <1>1, <2>5
<1>a. SUFFICES ASSUME Found(h, n) # arena
               PROVE  u.panic = "none" /\ u.ret # NULL /\ Parted(u, L, B, K) /\ HeldOne(s, u.slob, u.ret, n)
  BY <1>0, <1>1
<1>2. PICK U : U = UnitsOf(Slobbed(h.pm.list, L, B))
  OBVIOUS
<1>3. Sound(h.slob, h.free, U, K)
  BY <1>2 DEF Parted
<1>4. SlobOnly(h, u) /\ Sound(u.slob, u.free, U, K) /\ HeldMore(h.slob, u.slob, u.ret, n)
  BY <1>1, <1>3, <1>a, CutSound
<1>5. u.pm = h.pm /\ u.panic = "none"
  BY <1>4 DEF SlobOnly
<1>6. Parted(u, L, B, K)
  BY <1>2, <1>4, <1>5 DEF Parted
<1>7. HeldOne(s, u.slob, u.ret, n)
  BY <1>4, HeldIsOne
<1>8. u.ret # NULL
  <2>1. Shape(h.slob) /\ u.ret \in Ringed(h.slob)
    BY <1>3, <1>4 DEF Sound, Linked, HeldMore
  <2> QED
    BY <2>1, ShapeFields
<1> QED
  BY <1>1, <1>5, <1>6, <1>7, <1>8

(* The page joins the list. *)
LEMMA JoinList ==
    ASSUME NEW h, IsHeap(h), NEW L, NEW B, NEW K, NEW b \in Nat, NEW n \in Nat,
           Parted(h, L, B, K \cup {<<b, n>>}), <<b, n>> \notin K
    PROVE  LET u == slob_free(h, b, n)
           IN  SlobOnly(h, u) /\ Parted(u, L, B, K) /\ SameHeld(h.slob, u.slob) /\ HasRoom(u.slob, n)
<1>1. PICK u : u = slob_free(h, b, n)
  OBVIOUS
<1>2. PICK U : U = UnitsOf(Slobbed(h.pm.list, L, B))
  OBVIOUS
<1>3. PICK J : J = K \cup {<<b, n>>}
  OBVIOUS
<1>4. Sound(h.slob, h.free, U, J) /\ <<b, n>> \in J /\ J \ {<<b, n>>} = K
  BY <1>2, <1>3 DEF Parted
<1>5. /\ SlobOnly(h, u) /\ Sound(u.slob, u.free, U, J \ {<<b, n>>})
      /\ SameHeld(h.slob, u.slob) /\ HasRoom(u.slob, n)
  BY <1>1, <1>4, FreeSound
<1>6. u.pm = h.pm
  BY <1>5 DEF SlobOnly
<1>7. Parted(u, L, B, K)
  BY <1>2, <1>4, <1>5, <1>6 DEF Parted
<1> QED
  BY <1>1, <1>5, <1>7

(* slob_alloc *)
LEMMA SlobAllocGot ==
    ASSUME NEW h, NEW L, NEW B, HeapOK(h, L, B), NEW K, Parted(h, L, B, K), h.panic = "none",
           NEW size \in Nat, size >= SLOB_UNIT
    PROVE  SlobGot(h, slob_alloc(h, size), L, B, K, SLOB_UNITS(size))
<1> DEFINE u == slob_alloc(h, size)
           p == alloc_pages(h, 1)
<1>0. PICK n \in Nat : n = SLOB_UNITS(size) /\ n > 0 /\ (size + SLOB_UNIT < PAGE_SIZE => n <= PageUnits)
  BY UnitsIs
<1>1. IsHeap(h)
  BY DEF HeapOK
<1>2. \/ u = [h EXCEPT !.panic = "size", !.ret = NULL]
      \/ Fits(h, n) # {} /\ u = Cut(h, n)
      \/ ~(size + SLOB_UNIT >= PAGE_SIZE) /\ u = Grown(p, n)
  BY <1>0 DEF slob_alloc
<1>3. HeapOK(p, L, B) /\ (p.ret # NULL => Fresh(L, B, p.pm.list, p.ret, 1))
  BY AllocStep
<1>4. PagesTaken(h, p, 1)
  BY AllocTakes
<1>5. SameHeld(h.slob, h.slob)
  BY DEF SameHeld, Same
<1> HIDE DEF u, p
<1>6. CASE u = [h EXCEPT !.panic = "size", !.ret = NULL]
  <2>1. PICK x, y : x = "size" /\ y = NULL
    OBVIOUS
  <2>2. u = [h EXCEPT !.panic = x, !.ret = y]
    BY <1>6, <2>1
  <2>3. Ends(u, h.pm, y, x)
    BY <1>1, <2>2, HeapStops, Zenon
  <2>4. u.ret = NULL /\ u.panic # "none"
    BY <2>1, <2>3 DEF Ends
  <2>5. SlobGot(h, u, L, B, K, n)
    BY <2>4 DEF SlobGot
  <2> QED
    BY <1>0, <2>5 DEF u
<1>7. CASE Fits(h, n) # {} /\ u = Cut(h, n)
  <2>1. \/ u.panic # "none" /\ u.ret = NULL
        \/ u.panic = "none" /\ u.ret # NULL /\ Parted(u, L, B, K) /\ HeldOne(h.slob, u.slob, u.ret, n)
    BY <1>0, <1>1, <1>5, <1>7, CutGot
  <2>2. SlobGot(h, u, L, B, K, n)
    BY <2>1 DEF SlobGot
  <2> QED
    BY <1>0, <2>2 DEF u
<1>8. CASE ~(size + SLOB_UNIT >= PAGE_SIZE) /\ u = Grown(p, n)
  <2>0. n <= PageUnits
    <3>1. size + SLOB_UNIT \in Nat /\ PAGE_SIZE \in Nat
      BY KmallocAssumption DEF PAGE_SIZE
    <3>2. size + SLOB_UNIT < PAGE_SIZE
      BY <1>8, <3>1
    <3> QED
      BY <1>0, <3>2
  <2>1. CASE p.ret = NULL
    <3>1. u = p
      BY <1>8, <2>1 DEF Grown
    <3>2. p.slob = h.slob /\ p.free = h.free /\ (p.panic = "swap_out" \/ (p.panic = h.panic /\ p.pm = h.pm))
      BY <1>4, <2>1 DEF PagesTaken, SameBlocks
    <3>3. p.panic # "none" \/ (p.panic = "none" /\ Parted(p, L, B, K))
      BY <3>2 DEF Parted
    <3>4. SlobGot(h, u, L, B, K, n)
      BY <2>1, <3>1, <3>2, <3>3 DEF SlobGot
    <3> QED
      BY <1>0, <3>4 DEF u
  <2>2. CASE p.ret # NULL
    <3>1. PICK b, m : b = AddrOf(p.ret) /\ m = PageUnits
      OBVIOUS
    <3>2. /\ Parted(p, L, B, K \cup {<<b, m>>}) /\ <<b, m>> \notin K
          /\ b \in Nat /\ m \in Nat /\ p.panic = "none"
      BY <1>3, <1>4, <2>2, <3>1, ParkedPage
    <3>3. IsHeap(p) /\ SameHeld(h.slob, p.slob)
      BY <1>3, <1>4, <1>5 DEF HeapOK, PagesTaken, SameBlocks
    <3>4. PICK v : v = slob_free(p, b, m)
      OBVIOUS
    <3>5. SlobOnly(p, v) /\ Parted(v, L, B, K) /\ SameHeld(p.slob, v.slob) /\ HasRoom(v.slob, m)
      BY <3>2, <3>3, <3>4, JoinList
    <3>6. u = Cut(v, n)
      BY <1>8, <2>2, <3>1, <3>4 DEF Grown
    <3>7. IsHeap(v) /\ v.panic = "none"
      BY <3>2, <3>5 DEF SlobOnly
    <3>8. SameHeld(h.slob, v.slob)
      BY <3>3, <3>5, HeldTwice
    <3>9. Fits(v, n) # {}
      <4>1. PICK U : Sound(v.slob, v.free, U, K)
        BY <3>5 DEF Parted
      <4> QED
        BY <2>0, <3>1, <3>2, <3>5, <4>1, RoomFits
    <3>10. \/ u.panic # "none" /\ u.ret = NULL
           \/ u.panic = "none" /\ u.ret # NULL /\ Parted(u, L, B, K) /\ HeldOne(h.slob, u.slob, u.ret, n)
      BY <1>0, <3>5, <3>6, <3>7, <3>8, <3>9, CutGot
    <3>11. SlobGot(h, u, L, B, K, n)
      BY <3>10 DEF SlobGot
    <3> QED
      BY <1>0, <3>11 DEF u
  <2> QED
    BY <2>1, <2>2
<1> QED
  BY <1>2, <1>6, <1>7, <1>8

-----------------------------------------------------------------------------
(* The objects of callers *)

(* The blocks with a header that are not free *)
Taken(s) == DOMAIN s \ Ringed(s)

(* The units of a record, and what the records of B hold *)
RecUnits == SLOB_UNITS(BigBytes)
Records(B) == {<<B[i].bb, RecUnits>> : i \in 1..Len(B)}

(* A big block begins at address a. *)
Big(B, a) == \E i \in 1..Len(B) : B[i].pages = a

(* Objects from the list of slobs, and of whole pages *)
IsSmall(o) == o[1] = "object" /\ o[3] < PAGE_SIZE - SLOB_UNIT
IsLarge(o) == o[1] = "object" /\ ~(o[3] < PAGE_SIZE - SLOB_UNIT)

(* The small object o has a header with its size. *)
Headed(s, o) == o[2] - 1 \in Taken(s) /\ s[o[2] - 1].units = SLOB_UNITS(o[3] + SLOB_UNIT)

(* Every object has a header or is a big block, every header is of one     *)
(* small object, and every record of one big block.                        *)
ObjectsOK(s, L, B) ==
    /\ \A o \in L : IsSmall(o) => o[2] \in Nat /\ Headed(s, o)
    /\ \A o \in L : IsLarge(o) => Big(B, o[2])
    /\ \A x \in Taken(s) : \E o \in L : IsSmall(o) /\ o[2] = x + 1
    /\ \A o, q \in L : IsSmall(o) /\ IsSmall(q) /\ o # q => o[2] # q[2]
    /\ \A o, q \in L : IsLarge(o) /\ IsLarge(q) /\ o # q => o[2] # q[2]
    /\ \A i \in 1..Len(B) : B[i].pages = AddrOf(FrameOf(B[i])) /\ B[i].bb \in Nat
    /\ \A i, j \in 1..Len(B) : i # j => B[i].bb # B[j].bb

(* What happens to free blocks is nothing to the objects, *)
LEMMA ObjectsSame ==
    ASSUME NEW s, NEW t, NEW L, NEW B, ObjectsOK(s, L, B), SameHeld(s, t)
    PROVE  ObjectsOK(t, L, B)
<1>1. Taken(t) = Taken(s) /\ \A x \in Taken(s) : t[x].units = s[x].units
  BY DEF SameHeld, Same, Taken
<1>2. \A o : Headed(s, o) => Headed(t, o)
  BY <1>1 DEF Headed
<1> QED
  BY <1>1, <1>2 DEF ObjectsOK

(* nor are the frames of others. *)
LEMMA ObjectsPages ==
    ASSUME NEW s, NEW L, NEW B, ObjectsOK(s, L, B)
    PROVE  /\ \A f, n : ObjectsOK(s, L \cup {<<"pages", f, n>>}, B)
           /\ \A p \in L : p[1] = "pages" => ObjectsOK(s, L \ {p}, B)
<1>1. ASSUME NEW p, p[1] = "pages"
      PROVE  ObjectsOK(s, L \cup {p}, B) /\ ObjectsOK(s, L \ {p}, B)
  <2>1. p[1] # "object"
    BY <1>1
  <2>2. \A o : IsSmall(o) \/ IsLarge(o) => (o \in L <=> o \in L \cup {p}) /\ (o \in L <=> o \in L \ {p})
    BY <2>1 DEF IsSmall, IsLarge
  <2>3. ASSUME NEW M, \A o : IsSmall(o) \/ IsLarge(o) => (o \in L <=> o \in M)
        PROVE  ObjectsOK(s, M, B)
    <3>1. /\ \A o \in M : IsSmall(o) => o[2] \in Nat /\ Headed(s, o)
          /\ \A o \in M : IsLarge(o) => Big(B, o[2])
      BY <2>3 DEF ObjectsOK
    <3>2. \A x \in Taken(s) : \E o \in M : IsSmall(o) /\ o[2] = x + 1
      BY <2>3 DEF ObjectsOK
    <3>3. /\ \A o, q \in M : IsSmall(o) /\ IsSmall(q) /\ o # q => o[2] # q[2]
          /\ \A o, q \in M : IsLarge(o) /\ IsLarge(q) /\ o # q => o[2] # q[2]
      BY <2>3 DEF ObjectsOK
    <3> QED
      BY <3>1, <3>2, <3>3 DEF ObjectsOK
  <2> QED
    BY <2>2, <2>3
<1>2. ASSUME NEW f, NEW n
      PROVE  ObjectsOK(s, L \cup {<<"pages", f, n>>}, B)
  <2>1. PICK p : p = <<"pages", f, n>>
    OBVIOUS
  <2>2. p[1] = "pages"
    BY <2>1
  <2> QED
    BY <1>1, <2>1, <2>2
<1> QED
  BY <1>1, <1>2

(* A small object more *)
LEMMA ObjectsSmall ==
    ASSUME NEW s, NEW t, NEW L, NEW B, ObjectsOK(s, L, B), NEW c \in Nat, NEW z, z < PAGE_SIZE - SLOB_UNIT,
           HeldOne(s, t, c, SLOB_UNITS(z + SLOB_UNIT))
    PROVE  ObjectsOK(t, L \cup {<<"object", c + 1, z>>}, B)
<1>1. /\ Taken(t) = Taken(s) \cup {c} /\ c \notin Taken(s) /\ t[c].units = SLOB_UNITS(z + SLOB_UNIT)
      /\ \A x \in Taken(s) : t[x].units = s[x].units
  BY DEF HeldOne, Same, Taken
<1>2. PICK p : p = <<"object", c + 1, z>>
  OBVIOUS
<1>3. p[2] = c + 1 /\ p[3] = z /\ p[2] - 1 = c /\ p[2] \in Nat /\ IsSmall(p) /\ ~IsLarge(p)
  BY <1>2 DEF IsSmall, IsLarge
<1>4. \A o : Headed(s, o) => Headed(t, o)
  BY <1>1 DEF Headed
<1>5. Headed(t, p)
  BY <1>1, <1>3 DEF Headed
<1> DEFINE M == L \cup {p}
<1>6. /\ \A o \in M : IsSmall(o) => o[2] \in Nat /\ Headed(t, o)
      /\ \A o \in M : IsLarge(o) => Big(B, o[2])
  BY <1>3, <1>4, <1>5 DEF ObjectsOK
<1>7. \A x \in Taken(t) : \E o \in M : IsSmall(o) /\ o[2] = x + 1
  BY <1>1, <1>3 DEF ObjectsOK
<1>8. ASSUME NEW o \in L, IsSmall(o)
      PROVE  o[2] # p[2]
  <2>1. SUFFICES ASSUME o[2] = c + 1 PROVE FALSE
    BY <1>3
  <2>2. Headed(s, o)
    BY <1>8 DEF ObjectsOK
  <2>3. c \in Taken(s)
    BY <2>1, <2>2 DEF Headed
  <2> QED
    BY <1>1, <2>3
<1>9. /\ \A o, q \in M : IsSmall(o) /\ IsSmall(q) /\ o # q => o[2] # q[2]
      /\ \A o, q \in M : IsLarge(o) /\ IsLarge(q) /\ o # q => o[2] # q[2]
  BY <1>3, <1>8 DEF ObjectsOK
<1>10. ObjectsOK(t, M, B)
  BY <1>6, <1>7, <1>9 DEF ObjectsOK
<1> QED
  BY <1>2, <1>10

(* Where big blocks begin, with one more *)
LEMMA BigAmong ==
    ASSUME NEW B, NEW C, NEW k, NEW b, Among(B, C, k, b), NEW x
    PROVE  Big(C, x) <=> Big(B, x) \/ x = b.pages
<1>1. k \in 1..Len(C) /\ C[k] = b
  BY DEF Among
<1>2. ASSUME NEW j \in 1..Len(C), C[j].pages = x
      PROVE  Big(B, x) \/ x = b.pages
  <2>1. CASE j = k
    BY <1>1, <1>2, <2>1
  <2>2. CASE j # k
    <3>1. PICK i \in 1..Len(B) : C[j] = B[i]
      BY <2>2 DEF Among
    <3>2. B[i].pages = x
      BY <1>2, <3>1
    <3> QED
      BY <3>2 DEF Big
  <2> QED
    BY <2>1, <2>2
<1>3. ASSUME NEW i \in 1..Len(B), B[i].pages = x
      PROVE  Big(C, x)
  <2>1. PICK j \in 1..Len(C) : C[j] = B[i]
    BY DEF Among
  <2>2. C[j].pages = x
    BY <1>3, <2>1
  <2> QED
    BY <2>2 DEF Big
<1>4. Big(C, b.pages)
  BY <1>1 DEF Big
<1> QED
  BY <1>2, <1>3, <1>4 DEF Big

(* b, at address a, is the k-th of C, and was not of B; no large object of L is at a. *)
NewBig(L, B, C, k, b, a) ==
    /\ Among(B, C, k, b) /\ a \in Nat /\ b.pages = a /\ a = AddrOf(FrameOf(b)) /\ b.bb \in Nat
    /\ \A i \in 1..Len(B) : B[i].bb # b.bb
    /\ \A o \in L : IsLarge(o) => o[2] # a

(* A big block more *)
LEMMA ObjectsBig ==
    ASSUME NEW s, NEW L, NEW B, ObjectsOK(s, L, B), NEW C, NEW k, NEW b, NEW a, NewBig(L, B, C, k, b, a), NEW z,
           ~(z < PAGE_SIZE - SLOB_UNIT)
    PROVE  ObjectsOK(s, L \cup {<<"object", a, z>>}, C)
<1>0. /\ Among(B, C, k, b) /\ a \in Nat /\ b.pages = a /\ a = AddrOf(FrameOf(b)) /\ b.bb \in Nat
      /\ \A i \in 1..Len(B) : B[i].bb # b.bb
      /\ \A o \in L : IsLarge(o) => o[2] # a
  BY DEF NewBig
<1>1. PICK p : p = <<"object", a, z>>
  OBVIOUS
<1>2. p[2] = a /\ IsLarge(p) /\ ~IsSmall(p)
  BY <1>0, <1>1 DEF IsSmall, IsLarge
<1>3. \A x : Big(C, x) <=> Big(B, x) \/ x = a
  BY <1>0, BigAmong
<1> DEFINE M == L \cup {p}
<1>4. /\ \A o \in M : IsSmall(o) => o[2] \in Nat /\ Headed(s, o)
      /\ \A o \in M : IsLarge(o) => Big(C, o[2])
  BY <1>2, <1>3 DEF ObjectsOK
<1>5. \A x \in Taken(s) : \E o \in M : IsSmall(o) /\ o[2] = x + 1
  BY DEF ObjectsOK
<1>6. /\ \A o, q \in M : IsSmall(o) /\ IsSmall(q) /\ o # q => o[2] # q[2]
      /\ \A o, q \in M : IsLarge(o) /\ IsLarge(q) /\ o # q => o[2] # q[2]
  BY <1>0, <1>2 DEF ObjectsOK
<1>7. ASSUME NEW j \in 1..Len(C)
      PROVE  C[j].pages = AddrOf(FrameOf(C[j])) /\ C[j].bb \in Nat
  <2>1. CASE j = k
    BY <1>0, <2>1 DEF Among
  <2>2. CASE j # k
    <3>1. PICK i \in 1..Len(B) : C[j] = B[i]
      BY <1>0, <2>2 DEF Among
    <3>2. B[i].pages = AddrOf(FrameOf(B[i])) /\ B[i].bb \in Nat
      BY <1>0 DEF ObjectsOK
    <3> QED
      BY <1>0, <3>1, <3>2
  <2> QED
    BY <1>0, <2>1, <2>2
<1>8. ASSUME NEW i \in 1..Len(C), NEW j \in 1..Len(C), i # j
      PROVE  C[i].bb # C[j].bb
  <2>1. CASE i # k /\ j # k
    <3>1. PICK u \in 1..Len(B), v \in 1..Len(B) : u # v /\ C[i] = B[u] /\ C[j] = B[v]
      BY <1>0, <1>8, <2>1 DEF Among
    <3> QED
      BY <1>0, <3>1 DEF ObjectsOK
  <2>2. CASE i = k
    <3>1. PICK v \in 1..Len(B) : C[j] = B[v]
      BY <1>0, <1>8, <2>2 DEF Among
    <3> QED
      BY <1>0, <2>2, <3>1 DEF Among
  <2>3. CASE j = k
    <3>1. PICK v \in 1..Len(B) : C[i] = B[v]
      BY <1>0, <1>8, <2>3 DEF Among
    <3> QED
      BY <1>0, <2>3, <3>1 DEF Among
  <2> QED
    BY <1>0, <2>1, <2>2, <2>3
<1>9. ObjectsOK(s, M, C)
  BY <1>0, <1>4, <1>5, <1>6, <1>7, <1>8 DEF ObjectsOK
<1> QED
  BY <1>0, <1>1, <1>9

(* A small object less *)
LEMMA ObjectsLess ==
    ASSUME NEW s, NEW t, NEW L, NEW B, ObjectsOK(s, L, B), NEW o \in L, IsSmall(o),
           Taken(t) = Taken(s) \ {o[2] - 1}, \A x \in Taken(t) : t[x].units = s[x].units /\ x \in Int
    PROVE  ObjectsOK(t, L \ {o}, B)
<1>1. PICK a \in Nat : a = o[2]
  BY DEF ObjectsOK
<1> DEFINE M == L \ {o}
<1>2. ASSUME NEW q \in M, IsSmall(q)
      PROVE  q[2] \in Nat /\ Headed(t, q)
  <2>1. q[2] \in Nat /\ q[2] # a /\ Headed(s, q)
    BY <1>1, <1>2 DEF ObjectsOK
  <2>2. q[2] - 1 \in Taken(t)
    BY <1>1, <2>1 DEF Headed
  <2> QED
    BY <2>1, <2>2 DEF Headed
<1>3. ASSUME NEW x \in Taken(t)
      PROVE  \E q \in M : IsSmall(q) /\ q[2] = x + 1
  <2>1. PICK q \in L : IsSmall(q) /\ q[2] = x + 1
    BY DEF ObjectsOK
  <2>2. x \in Int /\ x # a - 1
    BY <1>1
  <2>3. q # o
    BY <1>1, <2>1, <2>2
  <2> QED
    BY <2>1, <2>3
<1>4. /\ \A p, q \in M : IsSmall(p) /\ IsSmall(q) /\ p # q => p[2] # q[2]
      /\ \A p, q \in M : IsLarge(p) /\ IsLarge(q) /\ p # q => p[2] # q[2]
      /\ \A q \in M : IsLarge(q) => Big(B, q[2])
  BY DEF ObjectsOK
<1> QED
  BY <1>2, <1>3, <1>4 DEF ObjectsOK

(* A big block less *)
LEMMA ObjectsBigLess ==
    ASSUME NEW s, NEW L, NEW C, ObjectsOK(s, L, C), NEW B, NEW k, NEW b, Among(B, C, k, b),
           NEW o \in L, IsLarge(o), b.pages = o[2]
    PROVE  ObjectsOK(s, L \ {o}, B) /\ \A i \in 1..Len(B) : B[i].bb # b.bb
<1>1. \A x : Big(C, x) <=> Big(B, x) \/ x = o[2]
  BY BigAmong
<1> DEFINE M == L \ {o}
<1>2. /\ \A q \in M : IsSmall(q) => q[2] \in Nat /\ Headed(s, q)
      /\ \A q \in M : IsLarge(q) => Big(B, q[2])
  BY <1>1 DEF ObjectsOK
<1>3. \A x \in Taken(s) : \E q \in M : IsSmall(q) /\ q[2] = x + 1
  BY DEF ObjectsOK, IsSmall, IsLarge
<1>4. /\ \A p, q \in M : IsSmall(p) /\ IsSmall(q) /\ p # q => p[2] # q[2]
      /\ \A p, q \in M : IsLarge(p) /\ IsLarge(q) /\ p # q => p[2] # q[2]
  BY DEF ObjectsOK
<1>5. ASSUME NEW i \in 1..Len(B)
      PROVE  B[i].pages = AddrOf(FrameOf(B[i])) /\ B[i].bb \in Nat
  <2>1. PICK j \in 1..Len(C) : C[j] = B[i]
    BY DEF Among
  <2>2. C[j].pages = AddrOf(FrameOf(C[j])) /\ C[j].bb \in Nat
    BY DEF ObjectsOK
  <2> QED
    BY <2>1, <2>2
<1>6. ASSUME NEW i \in 1..Len(B), NEW j \in 1..Len(B), i # j
      PROVE  B[i].bb # B[j].bb
  <2>1. PICK u \in 1..Len(C), v \in 1..Len(C) : u # v /\ C[u] = B[i] /\ C[v] = B[j]
    BY <1>6 DEF Among
  <2> QED
    BY <2>1 DEF ObjectsOK
<1>7. ASSUME NEW i \in 1..Len(B)
      PROVE  B[i].bb # b.bb
  <2>1. PICK j \in 1..Len(C) : j # k /\ C[j] = B[i]
    BY DEF Among
  <2>2. k \in 1..Len(C) /\ C[k] = b
    BY DEF Among
  <2> QED
    BY <2>1, <2>2 DEF ObjectsOK
<1> QED
  BY <1>2, <1>3, <1>4, <1>5, <1>6, <1>7 DEF ObjectsOK

(* The records, when a big block comes or goes *)
LEMMA RecordsAmong ==
    ASSUME NEW B, NEW C, NEW k, NEW b, Among(B, C, k, b), \A i \in 1..Len(B) : B[i].bb # b.bb
    PROVE  Records(C) = Records(B) \cup {<<b.bb, RecUnits>>} /\ <<b.bb, RecUnits>> \notin Records(B)
<1>1. ASSUME NEW r \in Records(C)
      PROVE  r \in Records(B) \cup {<<b.bb, RecUnits>>}
  <2>1. PICK j \in 1..Len(C) : r = <<C[j].bb, RecUnits>>
    BY DEF Records
  <2>2. CASE j = k
    BY <2>1, <2>2 DEF Among
  <2>3. CASE j # k
    <3>1. PICK i \in 1..Len(B) : C[j] = B[i]
      BY <2>3 DEF Among
    <3> QED
      BY <2>1, <3>1 DEF Records
  <2> QED
    BY <2>2, <2>3
<1>2. ASSUME NEW r \in Records(B)
      PROVE  r \in Records(C)
  <2>1. PICK i \in 1..Len(B) : r = <<B[i].bb, RecUnits>>
    BY DEF Records
  <2>2. PICK j \in 1..Len(C) : C[j] = B[i]
    BY DEF Among
  <2> QED
    BY <2>1, <2>2 DEF Records
<1>3. <<b.bb, RecUnits>> \in Records(C)
  BY DEF Records, Among
<1>4. <<b.bb, RecUnits>> \notin Records(B)
  BY DEF Records
<1> QED
  BY <1>1, <1>2, <1>3, <1>4

(* A page begins at a multiple of its units. *)
LEMMA AddrMod ==
    ASSUME NEW f \in Nat
    PROVE  AddrOf(f) \in Nat /\ AddrOf(f) % PageUnits = 0
<1>1. PageUnits \in Nat \ {0}
  BY KmallocAssumption
<1>2. PICK x \in Nat : x = AddrOf(f) /\ x = PageUnits * f + 0
  BY <1>1 DEF AddrOf
<1>3. 0 \in 0..(PageUnits - 1)
  BY <1>1
<1>4. x % PageUnits = 0
  BY <1>1, <1>2, <1>3, ModUnique
<1> QED
  BY <1>2, <1>4

(* kfree tells the big blocks from the others. *)
LEMMA BigIs ==
    ASSUME NEW s, NEW L, ObjectsOK(s, L, bigblocks),
           \A i \in 1..Len(bigblocks) : Region(FrameOf(bigblocks[i]), CountOf(bigblocks[i])), NEW a
    PROVE  Big(bigblocks, a) <=> BigAt(a) # {}
<1>1. ASSUME NEW i \in 1..Len(bigblocks), bigblocks[i].pages = a
      PROVE  a % PageUnits = 0
  <2>1. PICK f \in Nat : f = FrameOf(bigblocks[i])
    BY DEF Region
  <2>2. bigblocks[i].pages = AddrOf(f)
    BY <2>1 DEF ObjectsOK
  <2> QED
    BY <1>1, <2>2, AddrMod
<1> QED
  BY <1>1 DEF Big, BigAt

(* The header goes. *)
LEMMA WithoutDrops ==
    ASSUME NEW h, IsHeap(h), Shape(h.slob), NEW c
    PROVE  LET u == Without(h, c)
           IN  SlobOnly(h, u) /\ u.free = h.free /\ u.ret = h.ret /\ Drops(h.slob, u.slob, c)
<1> DEFINE t == [a \in DOMAIN h.slob \ {c} |-> h.slob[a]]
<1>1. PICK u : u = Without(h, c)
  OBVIOUS
<1>2. u = [h EXCEPT !.slob = t]
  BY <1>1 DEF Without
<1>3. h.slob \in [DOMAIN h.slob -> SlobRec]
  BY DEF Shape
<1>4. Drops(h.slob, t, c)
  BY <1>3 DEF Drops, Typed, Same
<1> HIDE DEF t
<1>5. Holds(h, u, t, h.free, h.ret)
  BY <1>2, HeapBlocks, Zenon
<1> QED
  BY <1>1, <1>4, <1>5 DEF Holds

(* The units of c are others'. *)
Dropped(h, u, L, B, K, c, n) ==
    /\ SlobOnly(h, u) /\ u.ret = h.ret /\ Parted(u, L, B, K \cup {<<c, n>>}) /\ <<c, n>> \notin K
    /\ Drops(h.slob, u.slob, c) /\ Ringed(u.slob) = Ringed(h.slob) /\ c \in Nat /\ n \in Nat

(* They are. *)
LEMMA DropParted ==
    ASSUME NEW h, IsHeap(h), NEW L, NEW B, NEW K, Parted(h, L, B, K), NEW c \in Taken(h.slob),
           NEW n, n = h.slob[c].units
    PROVE  Dropped(h, Without(h, c), L, B, K, c, n)
<1>1. PICK s : s = h.slob
  OBVIOUS
<1>2. PICK U : U = UnitsOf(Slobbed(h.pm.list, L, B))
  OBVIOUS
<1>3. Sound(s, h.free, U, K)
  BY <1>1, <1>2 DEF Parted
<1>4. Shape(s) /\ Cells(s, U, K) /\ NoTouchBut(s, {}) /\ (\E top \in Nat : \A u \in U : u <= top) /\ h.free \in Ringed(s)
  BY <1>3 DEF Sound, Linked
<1>5. PICK u : u = Without(h, c)
  OBVIOUS
<1>6. SlobOnly(h, u) /\ u.free = h.free /\ u.ret = h.ret /\ Drops(s, u.slob, c)
  BY <1>1, <1>4, <1>5, WithoutDrops
<1>7. PICK t : t = u.slob
  OBVIOUS
<1>8. c \in DOMAIN s \ Ringed(s) /\ n = s[c].units /\ Drops(s, t, c)
  BY <1>1, <1>6, <1>7 DEF Taken
<1>9. /\ Shape(t) /\ Ringed(t) = Ringed(s) /\ Cells(t, U, K \cup {<<c, n>>}) /\ NoTouchBut(t, {})
      /\ c \in Nat /\ n \in Nat /\ <<c, n>> \notin K
  BY <1>4, <1>8, DropsAll
<1>10. Sound(t, h.free, U, K \cup {<<c, n>>})
  BY <1>4, <1>9 DEF Sound, Linked
<1>11. u.pm = h.pm
  BY <1>6 DEF SlobOnly
<1>12. Parted(u, L, B, K \cup {<<c, n>>})
  BY <1>2, <1>6, <1>7, <1>10, <1>11 DEF Parted
<1> QED
  BY <1>1, <1>5, <1>6, <1>7, <1>9, <1>12 DEF Dropped

(* A block that is cut off and then has no header: nothing changes for others. *)
LEMMA OneDropped ==
    ASSUME NEW s, NEW t, NEW u, NEW c, NEW n, HeldOne(s, t, c, n), Drops(t, u, c), Ringed(u) = Ringed(t)
    PROVE  SameHeld(s, u)
<1>1. DOMAIN u \ Ringed(u) = DOMAIN s \ Ringed(s)
  BY DEF HeldOne, Drops
<1>2. \A a \in DOMAIN s \ Ringed(s) : a \in DOMAIN t \ {c}
  BY DEF HeldOne
<1>3. Same(s, u, DOMAIN s \ Ringed(s))
  BY <1>2 DEF HeldOne, Drops, Same
<1> QED
  BY <1>1, <1>3 DEF SameHeld

-----------------------------------------------------------------------------
(* The invariant of the heap *)

(* Objects are nothing to the frames of the heap. *)
LEMMA PartedObject ==
    ASSUME NEW h, NEW L, NEW B, NEW K, Parted(h, L, B, K)
    PROVE  /\ \A a, z : Parted(h, L \cup {<<"object", a, z>>}, B, K)
           /\ \A o \in L : o[1] = "object" => Parted(h, L \ {o}, B, K)
<1>1. ASSUME NEW a, NEW z
      PROVE  Parted(h, L \cup {<<"object", a, z>>}, B, K)
  <2>1. \A x : Held(L \cup {<<"object", a, z>>}, B, x) <=> Held(L, B, x)
    BY HeldObject
  <2>2. PICK M : M = L \cup {<<"object", a, z>>}
    OBVIOUS
  <2>3. Slobbed(h.pm.list, M, B) = Slobbed(h.pm.list, L, B)
    BY <2>1, <2>2 DEF Slobbed
  <2>4. Parted(h, M, B, K)
    BY <2>3 DEF Parted
  <2> QED
    BY <2>2, <2>4
<1>2. ASSUME NEW o \in L, o[1] = "object"
      PROVE  Parted(h, L \ {o}, B, K)
  <2>1. \A x : Held(L \ {o}, B, x) <=> Held(L, B, x)
    BY <1>2, HeldObject
  <2>2. Slobbed(h.pm.list, L \ {o}, B) = Slobbed(h.pm.list, L, B)
    BY <2>1 DEF Slobbed
  <2> QED
    BY <2>2 DEF Parted
<1> QED
  BY <1>1, <1>2

(* Between calls the units of the heap's frames are those of the blocks    *)
(* and of the records, and the blocks that are not free those of the small *)
(* objects.  Before the first call there is the arena.                     *)
HeapInv ==
    /\ panic = "none" => /\ Sound(slob, slobfree, UnitsOf(Slobbed(pm.list, live, bigblocks)), Records(bigblocks))
                         /\ ObjectsOK(slob, live, bigblocks)
    /\ panic = "boot" => slob = [b \in {arena} |-> [units |-> 1, next |-> arena]] /\ slobfree = arena

(* A call begins with it *)
LEMMA HeapBegins ==
    ASSUME PagesInv, HeapInv, panic = "none"
    PROVE  /\ HeapOK(Heap, live, bigblocks) /\ Parted(Heap, live, bigblocks, Records(bigblocks))
           /\ ObjectsOK(slob, live, bigblocks) /\ Listed(bigblocks)
           /\ Heap.slob = slob /\ Heap.pm = pm /\ Heap.panic = "none"
           /\ \A i \in 1..Len(bigblocks) : Region(FrameOf(bigblocks[i]), CountOf(bigblocks[i]))
<1>1. Heap.slob = slob /\ Heap.pm = pm /\ Heap.free = slobfree /\ Heap.panic = "none"
  BY HeapFields DEF Heap
<1>2. HeapOK(Heap, live, bigblocks)
  BY HeapNow
<1>3. Parted(Heap, live, bigblocks, Records(bigblocks)) /\ ObjectsOK(slob, live, bigblocks)
  BY <1>1 DEF Parted, HeapInv
<1>4. Listed(bigblocks) /\ HeldBig(bigblocks, pm.list)
  BY DEF PagesInv, Exact
<1> QED
  BY <1>1, <1>2, <1>3, <1>4 DEF HeldBig

(* What a call leaves when it has not stopped the kernel *)
Leaves(h, L, B) == Parted(h, L, B, Records(B)) /\ ObjectsOK(h.slob, L, B)

(* and ends with it. *)
LEMMA HeapEnds ==
    ASSUME NEW h, Adopt(h), h.panic # "boot", h.panic = "none" => Leaves(h, live', bigblocks')
    PROVE  HeapInv'
<1>1. pm' = h.pm /\ slob' = h.slob /\ slobfree' = h.free /\ panic' = h.panic
  BY DEF Adopt
<1>2. ASSUME panic' = "none"
      PROVE  /\ Sound(slob', slobfree', UnitsOf(Slobbed(pm'.list, live', bigblocks')), Records(bigblocks'))
             /\ ObjectsOK(slob', live', bigblocks')
  BY <1>1, <1>2 DEF Leaves, Parted
<1>3. panic' # "boot"
  BY <1>1
<1> QED
  BY <1>2, <1>3 DEF HeapInv

(* kmalloc of a small object *)
LEMMA SmallHeap ==
    ASSUME PagesInv, HeapInv, panic = "none", NEW size \in Nat, kmalloc_small(size)
    PROVE  HeapInv'
<1>1. PICK h : /\ h = slob_alloc(Heap, size + SLOB_UNIT)
               /\ Adopt(h) /\ Got(IF h.ret = NULL THEN NULL ELSE h.ret + 1, size)
  BY DEF kmalloc_small
<1>2. bigblocks' = bigblocks
  BY DEF kmalloc_small
<1>3. /\ HeapOK(Heap, live, bigblocks) /\ Parted(Heap, live, bigblocks, Records(bigblocks))
      /\ ObjectsOK(slob, live, bigblocks) /\ Heap.slob = slob /\ Heap.panic = "none"
      /\ \A i \in 1..Len(bigblocks) : Region(FrameOf(bigblocks[i]), CountOf(bigblocks[i]))
  BY HeapBegins
<1>4. SLOB_UNIT \in Nat /\ size + SLOB_UNIT \in Nat /\ size + SLOB_UNIT >= SLOB_UNIT
  BY KmallocAssumption
<1>5. PICK n \in Nat : n = SLOB_UNITS(size + SLOB_UNIT)
  BY <1>4, UnitsIs
<1>6. PICK K : K = Records(bigblocks)
  OBVIOUS
<1>7. SlobGot(Heap, h, live, bigblocks, K, n)
  BY <1>1, <1>3, <1>4, <1>5, <1>6, SlobAllocGot
<1>8. h.panic # "boot"
  BY <1>1, <1>3, SlobAllocStep DEF HeapOK
<1>9. CASE h.panic # "none"
  BY <1>1, <1>8, <1>9, HeapEnds
<1>10. CASE h.ret = NULL /\ Parted(h, live, bigblocks, K) /\ h.slob = Heap.slob
  <2>1. live' = live
    BY <1>1, <1>10 DEF Got
  <2>2. Leaves(h, live, bigblocks)
    BY <1>3, <1>6, <1>10 DEF Leaves
  <2> QED
    BY <1>1, <1>2, <1>8, <2>1, <2>2, HeapEnds
<1>11. CASE h.ret # NULL /\ Parted(h, live, bigblocks, K) /\ HeldOne(Heap.slob, h.slob, h.ret, n)
  <2>1. PICK c : c = h.ret
    OBVIOUS
  <2>2. c \in Taken(h.slob) /\ HeldOne(slob, h.slob, c, n)
    BY <1>3, <1>11, <2>1 DEF HeldOne, Taken
  <2>3. c \in Nat
    <3>1. Shape(h.slob)
      BY <1>11 DEF Parted, Sound, Linked
    <3>2. c \in DOMAIN h.slob /\ c # arena
      BY <2>2, <3>1 DEF Taken, Shape
    <3> QED
      BY <3>1, <3>2, ShapeFields
  <2>4. size < PAGE_SIZE - SLOB_UNIT
    BY DEF kmalloc_small
  <2>5. ObjectsOK(h.slob, live \cup {<<"object", c + 1, size>>}, bigblocks)
    BY <1>3, <1>5, <2>2, <2>3, <2>4, ObjectsSmall
  <2>6. live' = live \cup {<<"object", c + 1, size>>}
    <3>1. c + 1 # NULL
      BY <2>3 DEF NULL
    <3> QED
      BY <1>1, <1>11, <2>1, <3>1 DEF Got
  <2>7. Parted(h, live \cup {<<"object", c + 1, size>>}, bigblocks, K)
    BY <1>11, PartedObject
  <2>8. Leaves(h, live', bigblocks)
    BY <1>6, <2>5, <2>6, <2>7 DEF Leaves
  <2> QED
    BY <1>1, <1>2, <1>8, <2>8, HeapEnds
<1> QED
  BY <1>7, <1>9, <1>10, <1>11 DEF SlobGot

(* No large object begins where frames were free. *)
LEMMA FreshAddress ==
    ASSUME NEW s, NEW L, NEW B, ObjectsOK(s, L, B), NEW l, NEW f \in Nat, NEW m, Fresh(L, B, l, f, m),
           \A i \in 1..Len(B) : Region(FrameOf(B[i]), CountOf(B[i]))
    PROVE  \A o \in L : IsLarge(o) => o[2] # AddrOf(f)
<1> SUFFICES ASSUME NEW o \in L, IsLarge(o), o[2] = AddrOf(f) PROVE FALSE
  OBVIOUS
<1>1. PICK a \in Nat : a = o[2] /\ a = AddrOf(f) /\ a \div PageUnits = f
  BY FrameBack, AddrMod
<1>2. m \in Nat /\ m > 0
  BY DEF Fresh, Region
<1>3. PICK i \in 1..Len(B) : B[i].pages = a
  BY <1>1 DEF ObjectsOK, Big
<1>4. FrameOf(B[i]) = f
  BY <1>1, <1>3 DEF FrameOf
<1>5. PICK n \in Nat : n = CountOf(B[i]) /\ n > 0
  BY DEF Region
<1>6. Disjoint(f, n, f, m)
  BY <1>4, <1>5 DEF Fresh
<1> QED
  BY <1>2, <1>5, <1>6 DEF Disjoint

(* Frames for a big block, whose record c has n units *)
LEMMA BigGot ==
    ASSUME NEW w, NEW L, NEW B, NEW K, K = Records(B), NEW c \in Nat, NEW n, n = RecUnits,
           Parted(w, L, B, K \cup {<<c, n>>}), <<c, n>> \notin K, ObjectsOK(w.slob, L, B), Listed(B),
           \A i \in 1..Len(B) : Region(FrameOf(B[i]), CountOf(B[i])),
           NEW p, NEW m, PagesTaken(w, p, m), p.ret # NULL, Fresh(L, B, p.pm.list, p.ret, m),
           NEW b, b.pages = AddrOf(p.ret), CountOf(b) = m, b.bb = c,
           NEW z, ~(z < PAGE_SIZE - SLOB_UNIT)
    PROVE  AddrOf(p.ret) \in Nat /\ Leaves(p, L \cup {<<"object", AddrOf(p.ret), z>>}, <<b>> \o B)
<1>1. PICK f \in Nat : f = p.ret
  BY DEF Fresh, Region
<1>2. PICK a \in Nat : a = AddrOf(f) /\ a \div PageUnits = f
  BY FrameBack, AddrMod
<1>3. FrameOf(b) = f /\ b.pages = a
  BY <1>1, <1>2 DEF FrameOf
<1>4. PICK C : C = <<b>> \o B
  OBVIOUS
<1>5. Among(B, C, 1, b)
  BY <1>4, AmongFirst
<1>6. Gone(w.pm.list, p.pm.list, f, m) /\ p.slob = w.slob /\ p.free = w.free
  BY <1>1 DEF PagesTaken, SameBlocks
<1>7. \A x \in Frames : Held(L, C, x) <=> Held(L, B, x) \/ In(x, f, m)
  BY <1>3, <1>5, HeldAmong
<1>8. Slobbed(p.pm.list, L, C) = Slobbed(w.pm.list, L, B)
  BY <1>6, <1>7, SlobbedSame
<1>9. \A i \in 1..Len(B) : B[i].bb # c
  BY DEF Records
<1>10. Records(C) = K \cup {<<c, n>>}
  BY <1>5, <1>9, RecordsAmong
<1>11. Parted(p, L, C, Records(C))
  BY <1>6, <1>8, <1>10 DEF Parted
<1>12. Parted(p, L \cup {<<"object", a, z>>}, C, Records(C))
  BY <1>11, PartedObject
<1>13. \A o \in L : IsLarge(o) => o[2] # a
  <2>1. PICK s, l : s = w.slob /\ l = p.pm.list
    OBVIOUS
  <2>2. ObjectsOK(s, L, B) /\ Fresh(L, B, l, f, m)
    BY <1>1, <2>1
  <2> QED
    BY <1>2, <2>2, FreshAddress
<1>14. ObjectsOK(w.slob, L \cup {<<"object", a, z>>}, C)
  <2>1. a = AddrOf(FrameOf(b)) /\ b.bb \in Nat /\ \A i \in 1..Len(B) : B[i].bb # b.bb
    BY <1>2, <1>3, <1>9
  <2>2. PICK s : s = w.slob
    OBVIOUS
  <2>3. ObjectsOK(s, L, B)
    BY <2>2
  <2>4. NewBig(L, B, C, 1, b, a)
    BY <1>3, <1>5, <1>13, <2>1 DEF NewBig
  <2>5. ObjectsOK(s, L \cup {<<"object", a, z>>}, C)
    BY <2>3, <2>4, ObjectsBig
  <2> QED
    BY <2>2, <2>5
<1>15. Leaves(p, L \cup {<<"object", a, z>>}, C)
  BY <1>6, <1>12, <1>14 DEF Leaves
<1> QED
  BY <1>1, <1>2, <1>4, <1>15

(* No frames: the record goes back to the list. *)
LEMMA BigFails ==
    ASSUME NEW w, NEW L, NEW B, NEW K, K = Records(B), NEW c \in Nat, NEW n \in Nat,
           Parted(w, L, B, K \cup {<<c, n>>}), <<c, n>> \notin K, ObjectsOK(w.slob, L, B),
           NEW p, IsHeap(p), SameBlocks(w, p), p.pm = w.pm
    PROVE  Leaves(slob_free(p, c, n), L, B) /\ slob_free(p, c, n).panic = p.panic
<1>1. Parted(p, L, B, K \cup {<<c, n>>}) /\ ObjectsOK(p.slob, L, B)
  BY DEF Parted, SameBlocks
<1>2. PICK v : v = slob_free(p, c, n)
  OBVIOUS
<1>3. SlobOnly(p, v) /\ Parted(v, L, B, K) /\ SameHeld(p.slob, v.slob)
  BY <1>1, <1>2, JoinList
<1>4. ObjectsOK(v.slob, L, B)
  BY <1>1, <1>3, ObjectsSame
<1>5. Leaves(v, L, B) /\ v.panic = p.panic
  BY <1>3, <1>4 DEF Leaves, SlobOnly
<1> QED
  BY <1>2, <1>5

(* kmalloc of whole pages *)
LEMMA BigHeap ==
    ASSUME PagesInv, HeapInv, panic = "none", NEW size \in Nat, kmalloc_big(size)
    PROVE  HeapInv'
<1>1. PICK h : /\ h = slob_alloc(Heap, BigBytes)
               /\ \/ h.ret = NULL /\ Adopt(h) /\ UNCHANGED <<live, bigblocks>>
                  \/ /\ h.ret # NULL
                     /\ \E p \in {alloc_pages(Without(h, h.ret), PagesOf(find_order(size)))} :
                          KmallocPages(p, h.ret, size)
  BY DEF kmalloc_big
<1>2. /\ HeapOK(Heap, live, bigblocks) /\ Parted(Heap, live, bigblocks, Records(bigblocks))
      /\ ObjectsOK(slob, live, bigblocks) /\ Listed(bigblocks) /\ Heap.slob = slob /\ Heap.panic = "none"
      /\ \A i \in 1..Len(bigblocks) : Region(FrameOf(bigblocks[i]), CountOf(bigblocks[i]))
  BY HeapBegins
<1>3. BigBytes \in Nat /\ BigBytes >= SLOB_UNIT /\ ~(size < PAGE_SIZE - SLOB_UNIT)
  <2>1. SLOB_UNIT \in Nat /\ PAGE_SIZE \in Nat /\ size >= PAGE_SIZE - SLOB_UNIT
    BY KmallocAssumption DEF kmalloc_big, PAGE_SIZE
  <2> QED
    BY <2>1, KmallocAssumption
<1>4. PICK n \in Nat : n = RecUnits /\ n = SLOB_UNITS(BigBytes)
  BY <1>3, UnitsIs DEF RecUnits
<1>5. PICK K : K = Records(bigblocks)
  OBVIOUS
<1>6. SlobGot(Heap, h, live, bigblocks, K, n)
  BY <1>1, <1>2, <1>3, <1>4, <1>5, SlobAllocGot
<1>7. HeapOK(h, live, bigblocks)
  BY <1>1, <1>2, SlobAllocStep
<1>8. CASE h.ret = NULL
  <2>1. Adopt(h) /\ live' = live /\ bigblocks' = bigblocks
    BY <1>1, <1>8
  <2>2. ASSUME h.panic = "none"
        PROVE  Leaves(h, live, bigblocks)
    BY <1>2, <1>5, <1>6, <1>8, <2>2 DEF SlobGot, Leaves
  <2>3. h.panic # "boot"
    BY <1>7 DEF HeapOK
  <2> QED
    BY <2>1, <2>2, <2>3, HeapEnds
<1>9. CASE h.ret # NULL
  <2>1. PICK c : c = h.ret
    OBVIOUS
  <2>2. Parted(h, live, bigblocks, K) /\ HeldOne(slob, h.slob, c, n) /\ h.panic = "none" /\ IsHeap(h)
    BY <1>2, <1>6, <1>7, <1>9, <2>1 DEF SlobGot, HeapOK
  <2>3. c \in Taken(h.slob) /\ h.slob[c].units = n
    BY <2>2 DEF HeldOne, Taken
  <2>4. PICK w : w = Without(h, c)
    OBVIOUS
  <2>5. Dropped(h, w, live, bigblocks, K, c, n)
    BY <2>2, <2>3, <2>4, DropParted
  <2>6. /\ SlobOnly(h, w) /\ Parted(w, live, bigblocks, K \cup {<<c, n>>}) /\ <<c, n>> \notin K
        /\ Drops(h.slob, w.slob, c) /\ Ringed(w.slob) = Ringed(h.slob) /\ c \in Nat
    BY <2>5 DEF Dropped
  <2>7. ObjectsOK(w.slob, live, bigblocks)
    BY <1>2, <2>2, <2>6, OneDropped, ObjectsSame
  <2>8. HeapOK(w, live, bigblocks) /\ w.panic = "none"
    BY <1>7, <2>2, <2>6, SlobOK DEF SlobOnly
  <2>9. PICK o \in Nat : o = find_order(size)
    BY OrderIs
  <2>10. PICK m \in Nat : m = PagesOf(o) /\ m > 0
    BY PagesSome
  <2>11. PICK p : p = alloc_pages(w, m) /\ KmallocPages(p, c, size)
    BY <1>1, <1>9, <2>1, <2>4, <2>9, <2>10
  <2>12. HeapOK(p, live, bigblocks) /\ (p.ret # NULL => Fresh(live, bigblocks, p.pm.list, p.ret, m))
    BY <2>8, <2>10, <2>11, AllocStep
  <2>13. PagesTaken(w, p, m)
    BY <2>8, <2>10, <2>11, AllocTakes
  <2>14. IsHeap(p) /\ p.panic # "boot"
    BY <2>12 DEF HeapOK
  <2>15. CASE p.ret = NULL
    <3>1. PICK v : v = IF p.panic = "none" THEN slob_free(p, c, n) ELSE p
      OBVIOUS
    <3>2. Adopt(v) /\ live' = live /\ bigblocks' = bigblocks
      BY <1>4, <2>11, <2>15, <3>1 DEF KmallocPages
    <3>3. CASE p.panic # "none"
      BY <2>14, <3>1, <3>2, <3>3, HeapEnds
    <3>4. CASE p.panic = "none"
      <4>1. SameBlocks(w, p) /\ p.pm = w.pm
        BY <2>13, <2>15, <3>4 DEF PagesTaken
      <4>2. Leaves(v, live, bigblocks) /\ v.panic = "none"
        BY <1>5, <2>6, <2>7, <2>14, <3>1, <3>4, <4>1, BigFails
      <4> QED
        BY <3>2, <4>2, HeapEnds
    <3> QED
      BY <3>3, <3>4
  <2>16. CASE p.ret # NULL
    <3>1. PICK b : b = [order |-> o, pages |-> AddrOf(p.ret), bb |-> c]
      OBVIOUS
    <3>2. b.pages = AddrOf(p.ret) /\ b.bb = c /\ CountOf(b) = m
      BY <2>10, <3>1 DEF CountOf
    <3>3. Adopt(p) /\ bigblocks' = <<b>> \o bigblocks /\ Got(AddrOf(p.ret), size)
      BY <2>9, <2>11, <2>16, <3>1 DEF KmallocPages
    <3>4. /\ AddrOf(p.ret) \in Nat
          /\ Leaves(p, live \cup {<<"object", AddrOf(p.ret), size>>}, <<b>> \o bigblocks)
      BY <1>2, <1>3, <1>4, <1>5, <2>6, <2>7, <2>12, <2>13, <2>16, <3>2, BigGot
    <3>5. AddrOf(p.ret) # NULL
      BY <3>4 DEF NULL
    <3>6. live' = live \cup {<<"object", AddrOf(p.ret), size>>}
      BY <3>3, <3>5 DEF Got
    <3>7. Leaves(p, live', bigblocks')
      BY <3>3, <3>4, <3>6
    <3> QED
      BY <2>14, <3>3, <3>7, HeapEnds
  <2> QED
    BY <2>15, <2>16
<1> QED
  BY <1>8, <1>9

(* free_pages leaves the blocks. *)
LEMMA PagesFreed ==
    ASSUME NEW f, NEW n, NEW u, u = free_pages(Heap, f, n)
    PROVE  /\ IsHeap(u) /\ u.pm = default_free_pages(pm, f, n) /\ u.panic = "none"
           /\ u.slob = slob /\ u.free = slobfree
<1> DEFINE c == default_free_pages(pm, f, n)
<1>1. u = [Heap EXCEPT !.pm = c]
  BY HeapIs DEF free_pages
<1> HIDE DEF c
<1>2. u = [pm |-> c, slob |-> slob, free |-> slobfree, ret |-> NULL, panic |-> "none"]
  BY <1>1 DEF Heap
<1> QED
  BY <1>2, HeapFields DEF c

(* kfree of a big block: its frames go back, then its record. *)
LEMMA KfreeBig ==
    ASSUME PagesInv, HeapInv, panic = "none", NEW o \in live, IsLarge(o),
           NEW i \in 1..Len(bigblocks), NEW b, b = bigblocks[i], b.pages = o[2],
           NEW u, u = free_pages(Heap, FrameOf(b), CountOf(b))
    PROVE  LET v == slob_free(u, b.bb, RecUnits)
           IN  Leaves(v, live \ {o}, RemoveAt(bigblocks, i)) /\ v.panic = "none"
<1>1. PICK L, M, B, C : L = live /\ M = live \ {o} /\ B = RemoveAt(bigblocks, i) /\ C = bigblocks
  OBVIOUS
<1>2. /\ Sound(slob, slobfree, UnitsOf(Slobbed(pm.list, L, C)), Records(C))
      /\ ObjectsOK(slob, L, C)
  BY <1>1 DEF HeapInv
<1>3. PmOK(pm) /\ Listed(C) /\ Region(FrameOf(b), CountOf(b)) /\ Apart(pm.list, FrameOf(b), CountOf(b))
  BY <1>1 DEF PagesInv, Exact, HeldBig
<1>4. Among(B, C, i, b)
  BY <1>1, <1>3, AmongLess
<1>5. IsHeap(u) /\ u.panic = "none" /\ u.slob = slob /\ u.free = slobfree
  BY PagesFreed
<1>6. Gone(u.pm.list, pm.list, FrameOf(b), CountOf(b))
  BY <1>3, PagesFreed, FreeGone
<1>7. \A x \in Frames : Held(L, C, x) <=> Held(L, B, x) \/ In(x, FrameOf(b), CountOf(b))
  BY <1>4, HeldAmong
<1>8. Slobbed(pm.list, L, C) = Slobbed(u.pm.list, L, B)
  BY <1>6, <1>7, SlobbedSame
<1>9. o \in L /\ M = L \ {o}
  BY <1>1
<1>10. ObjectsOK(slob, M, B) /\ \A j \in 1..Len(B) : B[j].bb # b.bb
  BY <1>2, <1>4, <1>9, ObjectsBigLess
<1>11. PICK c \in Nat : c = b.bb
  BY <1>1, <1>2 DEF ObjectsOK
<1>12. PICK n \in Nat : n = RecUnits
  BY UnitsIs, KmallocAssumption DEF RecUnits
<1>13. Records(C) = Records(B) \cup {<<c, n>>} /\ <<c, n>> \notin Records(B)
  BY <1>4, <1>10, <1>11, <1>12, RecordsAmong
<1>14. Parted(u, L, B, Records(B) \cup {<<c, n>>})
  BY <1>2, <1>5, <1>8, <1>13 DEF Parted
<1>15. Parted(u, M, B, Records(B) \cup {<<c, n>>})
  BY <1>9, <1>14, PartedObject DEF IsLarge
<1>16. PICK v : v = slob_free(u, c, n)
  OBVIOUS
<1>17. SlobOnly(u, v) /\ Parted(v, M, B, Records(B)) /\ SameHeld(u.slob, v.slob)
  BY <1>5, <1>13, <1>15, <1>16, JoinList
<1>18. ObjectsOK(v.slob, M, B)
  BY <1>5, <1>10, <1>17, ObjectsSame
<1>19. Leaves(v, M, B) /\ v.panic = "none"
  BY <1>5, <1>17, <1>18 DEF Leaves, SlobOnly
<1> QED
  BY <1>1, <1>11, <1>12, <1>16, <1>19

(* kfree of a small object: its header tells how many units go back. *)
LEMMA KfreeSmall ==
    ASSUME PagesInv, HeapInv, panic = "none", NEW o \in live, IsSmall(o),
           NEW u, u = Without(Heap, o[2] - 1)
    PROVE  LET v == slob_free(u, o[2] - 1, slob[o[2] - 1].units)
           IN  Leaves(v, live \ {o}, bigblocks) /\ v.panic = "none"
<1>1. /\ HeapOK(Heap, live, bigblocks) /\ Parted(Heap, live, bigblocks, Records(bigblocks))
      /\ ObjectsOK(slob, live, bigblocks) /\ Heap.slob = slob /\ Heap.panic = "none"
  BY HeapBegins
<1>2. PICK L, B, K : L = live /\ B = bigblocks /\ K = Records(bigblocks)
  OBVIOUS
<1>3. Headed(slob, o)
  BY <1>1 DEF ObjectsOK
<1>4. PICK c, n : c = o[2] - 1 /\ n = slob[c].units /\ c \in Taken(Heap.slob)
  BY <1>1, <1>3 DEF Headed
<1>5. IsHeap(Heap)
  BY <1>1 DEF HeapOK
<1>6. u = Without(Heap, c) /\ n = Heap.slob[c].units /\ Parted(Heap, L, B, K)
  BY <1>1, <1>2, <1>4
<1>7. Dropped(Heap, u, L, B, K, c, n)
  BY <1>4, <1>5, <1>6, DropParted
<1>8. /\ SlobOnly(Heap, u) /\ Parted(u, L, B, K \cup {<<c, n>>}) /\ <<c, n>> \notin K
      /\ Drops(slob, u.slob, c) /\ Ringed(u.slob) = Ringed(slob) /\ c \in Nat /\ n \in Nat
  BY <1>1, <1>7 DEF Dropped
<1>9. IsHeap(u) /\ u.panic = "none"
  BY <1>1, <1>8 DEF SlobOnly
<1>10. PICK v : v = slob_free(u, c, n)
  OBVIOUS
<1>11. SlobOnly(u, v) /\ Parted(v, L, B, K) /\ SameHeld(u.slob, v.slob)
  BY <1>8, <1>9, <1>10, JoinList
<1>12. Parted(v, L \ {o}, B, K)
  BY <1>2, <1>11, PartedObject DEF IsSmall
<1>13. Taken(v.slob) = Taken(slob) \ {c}
  BY <1>8, <1>11 DEF Taken, SameHeld, Drops
<1>14. \A x \in Taken(v.slob) : v.slob[x].units = slob[x].units
  BY <1>8, <1>11 DEF Taken, SameHeld, Same, Drops
<1>15. \A x \in Taken(v.slob) : x \in Int
  <2>1. Shape(v.slob)
    BY <1>11 DEF Parted, Sound, Linked
  <2> QED
    BY <2>1, ShapeFields DEF Taken
<1>16. ObjectsOK(v.slob, L \ {o}, B)
  <2>1. PICK s, t : s = slob /\ t = v.slob
    OBVIOUS
  <2>2. /\ ObjectsOK(s, L, B) /\ o \in L
        /\ Taken(t) = Taken(s) \ {o[2] - 1} /\ \A x \in Taken(t) : t[x].units = s[x].units /\ x \in Int
    BY <1>1, <1>2, <1>4, <1>13, <1>14, <1>15, <2>1
  <2>3. ObjectsOK(t, L \ {o}, B)
    BY <2>2, ObjectsLess
  <2> QED
    BY <2>1, <2>3
<1>17. Leaves(v, L \ {o}, B) /\ v.panic = "none"
  BY <1>2, <1>9, <1>11, <1>12, <1>16 DEF Leaves, SlobOnly
<1> QED
  BY <1>2, <1>4, <1>10, <1>17

(* kfree *)
LEMMA KfreeHeap ==
    ASSUME PagesInv, HeapInv, Kfree
    PROVE  HeapInv'
<1>1. PICK o \in live : o[1] = "object" /\ ~Alias(o) /\ kfree(o[2]) /\ live' = live \ {o}
  BY DEF Kfree
<1>2. panic = "none"
  BY DEF Kfree
<1>3. PICK a : a = o[2]
  OBVIOUS
<1>4. Big(bigblocks, a) <=> BigAt(a) # {}
  BY <1>2, HeapBegins, BigIs
<1>5. CASE BigAt(a) # {}
  <2>1. PICK i : i = Min(BigAt(a))
    OBVIOUS
  <2>2. i \in 1..Len(bigblocks) /\ bigblocks[i].pages = a
    <3>1. BigAt(a) \in SUBSET Nat
      BY DEF BigAt
    <3>2. i \in BigAt(a)
      BY <1>5, <2>1, <3>1, MinIs
    <3> QED
      BY <3>2 DEF BigAt
  <2>3. PICK b : b = bigblocks[i]
    OBVIOUS
  <2>4. PICK u : u = free_pages(Heap, FrameOf(b), CountOf(b))
    OBVIOUS
  <2>5. PICK v : v = slob_free(u, b.bb, RecUnits)
    OBVIOUS
  <2>6. bigblocks' = RemoveAt(bigblocks, i) /\ Adopt(v)
    BY <1>1, <1>3, <1>5, <2>1, <2>2, <2>3, <2>4, <2>5 DEF kfree, list_del, FrameOf, CountOf, RecUnits
  <2>7. Leaves(v, live \ {o}, RemoveAt(bigblocks, i)) /\ v.panic = "none"
    <3>1. IsLarge(o)
      BY <1>1, <1>3, <1>5 DEF Alias, IsLarge
    <3> QED
      BY <1>1, <1>2, <1>3, <2>2, <2>3, <2>4, <2>5, <3>1, KfreeBig
  <2> QED
    BY <1>1, <2>6, <2>7, HeapEnds
<1>6. CASE BigAt(a) = {}
  <2>1. PICK u : u = Without(Heap, a - 1)
    OBVIOUS
  <2>2. PICK v : v = slob_free(u, a - 1, slob[a - 1].units)
    OBVIOUS
  <2>3. Adopt(v) /\ bigblocks' = bigblocks
    BY <1>1, <1>3, <1>6, <2>1, <2>2 DEF kfree
  <2>4. Leaves(v, live \ {o}, bigblocks) /\ v.panic = "none"
    <3>1. IsSmall(o)
      BY <1>1, <1>2, <1>3, <1>4, <1>6, HeapBegins DEF IsSmall, IsLarge, ObjectsOK
    <3> QED
      BY <1>1, <1>2, <1>3, <2>1, <2>2, <3>1, KfreeSmall
  <2> QED
    BY <1>1, <2>3, <2>4, HeapEnds
<1> QED
  BY <1>5, <1>6

(* alloc_pages *)
LEMMA AllocPagesHeap ==
    ASSUME PagesInv, HeapInv, NEW n \in Nat, n > 0, AllocPages(n)
    PROVE  HeapInv'
<1>1. PICK h : /\ h = alloc_pages(Heap, n)
               /\ Adopt(h)
               /\ live' = IF h.ret = NULL THEN live ELSE live \cup {<<"pages", h.ret, n>>}
  BY DEF AllocPages
<1>2. bigblocks' = bigblocks /\ panic = "none"
  BY DEF AllocPages
<1>3. /\ HeapOK(Heap, live, bigblocks) /\ Parted(Heap, live, bigblocks, Records(bigblocks))
      /\ ObjectsOK(slob, live, bigblocks) /\ Heap.slob = slob /\ Heap.panic = "none"
  BY <1>2, HeapBegins
<1>4. PagesTaken(Heap, h, n) /\ h.panic # "boot"
  BY <1>1, <1>3, AllocTakes, AllocStep DEF HeapOK
<1>5. h.slob = slob /\ h.free = Heap.free
  BY <1>3, <1>4 DEF PagesTaken, SameBlocks
<1>6. CASE h.ret = NULL /\ h.panic = "none"
  <2>1. h.pm = Heap.pm /\ live' = live
    BY <1>1, <1>4, <1>6 DEF PagesTaken
  <2>2. Leaves(h, live, bigblocks)
    BY <1>3, <1>5, <2>1 DEF Leaves, Parted
  <2> QED
    BY <1>1, <1>2, <1>4, <2>1, <2>2, HeapEnds
<1>7. CASE h.panic # "none"
  BY <1>1, <1>4, <1>7, HeapEnds
<1>8. CASE h.ret # NULL
  <2>1. PICK f, M : f = h.ret /\ M = live \cup {<<"pages", f, n>>}
    OBVIOUS
  <2>2. live' = M /\ Gone(Heap.pm.list, h.pm.list, f, n)
    BY <1>1, <1>4, <1>8, <2>1 DEF PagesTaken
  <2>3. \A x \in Frames : Held(M, bigblocks, x) <=> Held(live, bigblocks, x) \/ In(x, f, n)
    BY <2>1, HeldPagesMore
  <2>4. Slobbed(h.pm.list, M, bigblocks) = Slobbed(Heap.pm.list, live, bigblocks)
    BY <2>2, <2>3, SlobbedSame
  <2>5. Parted(h, M, bigblocks, Records(bigblocks))
    BY <1>3, <1>5, <2>4 DEF Parted
  <2>6. ObjectsOK(slob, M, bigblocks)
    BY <1>3, <2>1, ObjectsPages
  <2>7. Leaves(h, M, bigblocks)
    BY <1>5, <2>5, <2>6 DEF Leaves
  <2> QED
    BY <1>1, <1>2, <1>4, <2>2, <2>7, HeapEnds
<1> QED
  BY <1>6, <1>7, <1>8

(* free_pages *)
LEMMA FreePagesHeap ==
    ASSUME PagesInv, HeapInv, FreePages
    PROVE  HeapInv'
<1>1. PICK o \in live : o[1] = "pages" /\ Adopt(free_pages(Heap, o[2], o[3])) /\ live' = live \ {o}
  BY DEF FreePages
<1>2. bigblocks' = bigblocks /\ panic = "none"
  BY DEF FreePages
<1>3. PICK f, n : f = o[2] /\ n = o[3]
  OBVIOUS
<1>4. PICK u : u = free_pages(Heap, f, n)
  OBVIOUS
<1>5. IsHeap(u) /\ u.pm = default_free_pages(pm, f, n) /\ u.panic = "none" /\ u.slob = slob /\ u.free = slobfree
  BY <1>4, PagesFreed
<1>6. PmOK(pm) /\ Region(f, n) /\ Apart(pm.list, f, n)
  BY <1>1, <1>3 DEF PagesInv, Exact, HeldPages
<1>7. Gone(u.pm.list, pm.list, f, n)
  BY <1>5, <1>6, FreeGone
<1>8. PICK M : M = live \ {o}
  OBVIOUS
<1>9. \A x \in Frames : Held(live, bigblocks, x) <=> Held(M, bigblocks, x) \/ In(x, f, n)
  BY <1>1, <1>3, <1>8, HeldPagesLess
<1>10. Slobbed(pm.list, live, bigblocks) = Slobbed(u.pm.list, M, bigblocks)
  BY <1>7, <1>9, SlobbedSame
<1>11. Parted(u, M, bigblocks, Records(bigblocks))
  BY <1>2, <1>5, <1>10 DEF Parted, HeapInv
<1>12. ObjectsOK(slob, M, bigblocks)
  BY <1>1, <1>2, <1>8, ObjectsPages DEF HeapInv
<1>13. Leaves(u, M, bigblocks)
  BY <1>5, <1>11, <1>12 DEF Leaves
<1> QED
  BY <1>1, <1>2, <1>3, <1>4, <1>5, <1>8, <1>13, HeapEnds

(* The list of slobs is the arena at first. *)
LEMMA ArenaSound ==
    ASSUME NEW s, s = [b \in {arena} |-> [units |-> 1, next |-> arena]]
    PROVE  Sound(s, arena, {}, {}) /\ Taken(s) = {}
<1>0. arena = -2 /\ NULL = -1
  BY DEF arena, NULL
<1>2. DOMAIN s = {arena} /\ s[arena] = [units |-> 1, next |-> arena]
  OBVIOUS
<1>3. s[arena].units = 1 /\ s[arena].next = arena /\ s[arena] \in SlobRec
  BY <1>0, <1>2 DEF SlobRec
<1>4. Ringed(s) = {arena}
  BY <1>0, <1>2, <1>3 DEF Ringed
<1>5. s \in [DOMAIN s -> SlobRec]
  BY <1>2, <1>3
<1>6. Follows({arena}, arena, arena)
  BY <1>0 DEF Follows
<1>7. Shape(s)
  BY <1>2, <1>3, <1>4, <1>5, <1>6 DEF Shape
<1>8. Cells(s, {}, {})
  BY <1>0, <1>2 DEF Cells
<1>9. NoTouchBut(s, {})
  BY <1>0, <1>3, <1>4 DEF NoTouchBut
<1> QED
  BY <1>2, <1>4, <1>7, <1>8, <1>9 DEF Sound, Linked, Taken

(* pmm_init: no frame is of the heap yet. *)
LEMMA PmmInitHeap ==
    ASSUME PagesInv, HeapInv, PmmInit
    PROVE  HeapInv'
<1>1. One(pm.list, Blk(0, NPages)) /\ live = {} /\ bigblocks = << >> /\ PmOK(pm)
  BY DEF PagesInv, PmmInit, Exact
<1>2. One(default_check(pm).list, Blk(0, NPages))
  BY <1>1, CheckOK
<1>3. PICK l : l = default_check(pm).list
  OBVIOUS
<1>4. Len(l) = 1 /\ l[1].base = 0 /\ l[1].n = NPages
  BY <1>2, <1>3, PageAllocAssumption, BlkIs DEF One
<1>5. NPages \in Nat /\ Frames = 0..(NPages - 1)
  BY PageAllocAssumption DEF Frames
<1>6. \A x \in Frames : ~Apart(l, x, 1)
  <2>1. \A x \in Frames : ~Disjoint(x, 1, 0, NPages)
    BY <1>5 DEF Disjoint
  <2>2. 1 \in 1..Len(l)
    BY <1>4
  <2> QED
    BY <1>4, <2>1, <2>2 DEF Apart
<1>7. UnitsOf(Slobbed(l, {}, << >>)) = {}
  BY <1>6 DEF UnitsOf, Slobbed
<1>8. PICK e : e = << >>
  OBVIOUS
<1>9. Len(e) = 0
  BY <1>8
<1>10. Records(e) = {}
  BY <1>9 DEF Records
<1>11. Sound(slob, slobfree, {}, {}) /\ Taken(slob) = {}
  BY ArenaSound DEF HeapInv, PmmInit
<1>12. ObjectsOK(slob, {}, e)
  BY <1>9, <1>11 DEF ObjectsOK
<1>13. /\ pm' = default_check(pm) /\ slob' = slob /\ slobfree' = slobfree
       /\ live' = {} /\ bigblocks' = e /\ panic' = "none"
  BY <1>1, <1>8 DEF PmmInit
<1>14. Sound(slob', slobfree', UnitsOf(Slobbed(pm'.list, live', bigblocks')), Records(bigblocks'))
  BY <1>3, <1>7, <1>8, <1>10, <1>11, <1>13
<1>15. ObjectsOK(slob', live', bigblocks')
  BY <1>12, <1>13
<1> QED
  BY <1>13, <1>14, <1>15 DEF HeapInv

(* Every step keeps the invariant. *)
LEMMA NextHeap == PagesInv /\ HeapInv /\ [Next]_vars => HeapInv'
<1> SUFFICES ASSUME PagesInv, HeapInv, [Next]_vars
             PROVE  HeapInv'
  OBVIOUS
<1>1. CASE PmmInit
  BY <1>1, PmmInitHeap
<1>2. CASE SwapInit
  BY <1>2 DEF HeapInv, SwapInit
<1>3. ASSUME NEW size \in Sizes, Kmalloc(size)
      PROVE  HeapInv'
  <2>1. size \in Nat
    BY KmallocAssumption
  <2>2. kmalloc_small(size) \/ kmalloc_big(size)
    BY <1>3 DEF Kmalloc, kmalloc
  <2>3. panic = "none"
    BY <1>3 DEF Kmalloc
  <2> QED
    BY <2>1, <2>2, <2>3, SmallHeap, BigHeap
<1>4. CASE Kfree
  BY <1>4, KfreeHeap
<1>5. ASSUME NEW n \in {1, 2}, AllocPages(n)
      PROVE  HeapInv'
  BY <1>5, AllocPagesHeap
<1>6. CASE FreePages
  BY <1>6, FreePagesHeap
<1>7. CASE KfreeAlias
  BY <1>7 DEF HeapInv, KfreeAlias
<1>8. CASE UNCHANGED vars
  BY <1>8 DEF HeapInv, vars
<1> QED
  BY <1>1, <1>2, <1>3, <1>4, <1>5, <1>6, <1>7, <1>8 DEF Next

-----------------------------------------------------------------------------
(* What the invariant means *)

(* Sets that match one to one have the same size. *)
LEMMA SameSize ==
    ASSUME NEW S, IsFiniteSet(S), NEW T, NEW f \in [S -> T],
           \A x, y \in S : f[x] = f[y] => x = y, \A t \in T : \E x \in S : f[x] = t
    PROVE  IsFiniteSet(T) /\ Cardinality(T) = Cardinality(S)
<1>1. f \in Surjection(S, T)
  BY DEF Surjection
<1>2. f \in Injection(S, T)
  BY DEF Injection, IsInjective
<1> QED
  BY <1>1, <1>2, FS_Surjection

(* The units of a block. *)
LEMMA BlockIn ==
    ASSUME NEW b \in Nat, NEW n \in Nat, NEW u
    PROVE  u \in BlockUnits(b, n) <=> u \in Nat /\ In(u, b, n)
BY DEF BlockUnits, In

(* The blocks P, pairs of an address and a size, are apart. *)
Bricks(P) ==
    /\ \A p \in P : p[1] \in Nat /\ p[2] \in Nat /\ p[2] > 0
    /\ \A p, q \in P : p # q => Disjoint(p[1], p[2], q[1], q[2])

(* The units of each of them *)
Walls(P) == {BlockUnits(p[1], p[2]) : p \in P}

(* Blocks that are apart share no unit, no two of them are the same, and   *)
(* together they have the units of all.                                    *)
LEMMA Tiles ==
    ASSUME NEW P, Bricks(P)
    PROVE  LET H == Walls(P)
           IN  /\ \A x, y \in H : x # y => x \cap y = {}
               /\ \A u : u \in UNION H <=> u \in Nat /\ \E p \in P : In(u, p[1], p[2])
               /\ IsFiniteSet(P) => Cardinality(H) = Cardinality(P)
<1>0. /\ \A p \in P : p[1] \in Nat /\ p[2] \in Nat /\ p[2] > 0
      /\ \A p, q \in P : p # q => Disjoint(p[1], p[2], q[1], q[2])
  BY DEF Bricks
<1>a. PICK H : H = Walls(P)
  OBVIOUS
<1>b. H = {BlockUnits(p[1], p[2]) : p \in P}
  BY <1>a DEF Walls
<1>1. \A p \in P : p[1] \in BlockUnits(p[1], p[2])
  BY <1>0, BlockIn DEF In
<1>2. ASSUME NEW p \in P, NEW q \in P, p # q
      PROVE  BlockUnits(p[1], p[2]) \cap BlockUnits(q[1], q[2]) = {}
  <2>1. PICK a \in Nat, m \in Nat, b \in Nat, n \in Nat : a = p[1] /\ m = p[2] /\ b = q[1] /\ n = q[2]
    BY <1>0
  <2>2. Disjoint(a, m, b, n)
    BY <1>0, <1>2, <2>1
  <2>3. BlockUnits(a, m) \cap BlockUnits(b, n) = {}
    BY <2>2, BlockIn DEF Disjoint, In
  <2> QED
    BY <2>1, <2>3
<1>3. \A x, y \in H : x # y => x \cap y = {}
  BY <1>2, <1>b
<1>4. \A u : u \in UNION H <=> u \in Nat /\ \E p \in P : In(u, p[1], p[2])
  <2>1. \A u, p : p \in P => (u \in BlockUnits(p[1], p[2]) <=> u \in Nat /\ In(u, p[1], p[2]))
    BY <1>0, BlockIn
  <2>2. \A u : u \in UNION H <=> \E p \in P : u \in BlockUnits(p[1], p[2])
    BY <1>b
  <2> QED
    BY <2>1, <2>2
<1>5. ASSUME IsFiniteSet(P)
      PROVE  Cardinality(H) = Cardinality(P)
  <2> DEFINE f == [p \in P |-> BlockUnits(p[1], p[2])]
  <2>1. f \in [P -> H] /\ \A t \in H : \E x \in P : f[x] = t
    BY <1>b
  <2>2. ASSUME NEW p \in P, NEW q \in P, f[p] = f[q]
        PROVE  p = q
    <3>1. BlockUnits(p[1], p[2]) = BlockUnits(q[1], q[2])
      BY <2>2
    <3> QED
      BY <1>1, <1>2, <3>1
  <2> HIDE DEF f
  <2> QED
    BY <1>5, <2>1, <2>2, SameSize
<1> QED
  BY <1>a, <1>3, <1>4, <1>5

(* The free blocks of the walk are those of the ring. *)
LEMMA FreeBlocksIs ==
    ASSUME HeapInv, panic = "none"
    PROVE  FreeBlocks = Ringed(slob) \ {arena}
<1>1. Heap.slob = slob /\ Heap.free = slobfree
  BY HeapFields DEF Heap
<1>2. PICK U, K : Sound(slob, slobfree, U, K)
  BY DEF HeapInv
<1>3. Shape(slob) /\ slobfree \in Ringed(slob) /\ Bounded(slob)
  BY <1>2, LinkedBounded DEF Sound, Linked
<1>4. Walks(Heap)
  BY <1>1, <1>3, RingAll
<1>5. \A i \in 1..LastOf(Heap) : Ring(Heap)[i] \in Ringed(slob)
  BY <1>1, <1>4 DEF Walks
<1>6. \A x \in Ringed(slob) : \E i \in 1..LastOf(Heap) : Ring(Heap)[i] = x
  BY <1>1, <1>4 DEF Walks
<1> QED
  BY <1>5, <1>6 DEF FreeBlocks

(* The frames of the heap are those that the others do not have. *)
LEMMA SlobFramesIs ==
    ASSUME PagesInv
    PROVE  SlobFrames = Slobbed(pm.list, live, bigblocks)
<1>1. \A f, n, x : f \in Nat /\ n \in Nat /\ x \in Nat => (x \in Span([base |-> f, n |-> n]) <=> In(x, f, n))
  BY DEF Span, In
<1>2. PICK l : l = pm.list
  OBVIOUS
<1>3. /\ l \in Seq(BlockRec) /\ HeldPages(live, l) /\ HeldBig(bigblocks, l)
  BY <1>2 DEF PagesInv, Exact, PmOK, ListOK
<1>4. \A x \in Frames : x \in Nat
  BY PageAllocAssumption DEF Frames
<1>5. ASSUME NEW x \in Frames
      PROVE  Apart(l, x, 1) <=> \A i \in 1..Len(l) : x \notin Span(l[i])
  <2>1. ASSUME NEW i \in 1..Len(l)
        PROVE  Disjoint(x, 1, l[i].base, l[i].n) <=> x \notin Span(l[i])
    <3>1. l[i] \in BlockRec
      BY <1>3
    <3>2. PICK f \in Nat, n \in Nat : f = l[i].base /\ n = l[i].n
      BY <1>3, BlockFields
    <3>3. Disjoint(x, 1, f, n) <=> ~In(x, f, n)
      BY <1>4, DisjointOne
    <3>4. x \in Span(l[i]) <=> In(x, f, n)
      BY <1>4, <3>2 DEF Span, In
    <3> QED
      BY <3>2, <3>3, <3>4
  <2> QED
    BY <2>1 DEF Apart
<1>6. ASSUME NEW x \in Frames
      PROVE  (\E o \in live : o[1] = "pages" /\ In(x, o[2], o[3]))
               <=> x \in UNION {Span([base |-> o[2], n |-> o[3]]) : o \in {q \in live : q[1] = "pages"}}
  <2>1. \A o \in live : o[1] = "pages" => o[2] \in Nat /\ o[3] \in Nat
    BY <1>3 DEF HeldPages, Region
  <2>2. \A o \in live : o[1] = "pages" => (In(x, o[2], o[3]) <=> x \in Span([base |-> o[2], n |-> o[3]]))
    BY <1>1, <1>4, <2>1
  <2> QED
    BY <2>2
<1>7. ASSUME NEW x \in Frames
      PROVE  (\E i \in 1..Len(bigblocks) : In(x, FrameOf(bigblocks[i]), CountOf(bigblocks[i])))
               <=> x \in UNION {Span([base |-> bigblocks[i].pages \div PageUnits, n |-> PagesOf(bigblocks[i].order)]) :
                                  i \in 1..Len(bigblocks)}
  <2>1. \A i \in 1..Len(bigblocks) : FrameOf(bigblocks[i]) \in Nat /\ CountOf(bigblocks[i]) \in Nat
    BY <1>3 DEF HeldBig, Region
  <2>2. ASSUME NEW i \in 1..Len(bigblocks)
        PROVE  In(x, FrameOf(bigblocks[i]), CountOf(bigblocks[i]))
                 <=> x \in Span([base |-> bigblocks[i].pages \div PageUnits, n |-> PagesOf(bigblocks[i].order)])
    <3>1. PICK f \in Nat, n \in Nat : /\ f = FrameOf(bigblocks[i]) /\ f = bigblocks[i].pages \div PageUnits
                                      /\ n = CountOf(bigblocks[i]) /\ n = PagesOf(bigblocks[i].order)
      BY <2>1 DEF FrameOf, CountOf
    <3>2. In(x, f, n) <=> x \in Span([base |-> f, n |-> n])
      BY <1>1, <1>4
    <3> QED
      BY <3>1, <3>2
  <2> QED
    BY <2>2
<1> DEFINE X == UNION {Span(pm.list[i]) : i \in 1..Len(pm.list)}
           Y == UNION {Span([base |-> o[2], n |-> o[3]]) : o \in {q \in live : q[1] = "pages"}}
           Z == UNION {Span([base |-> bigblocks[i].pages \div PageUnits, n |-> PagesOf(bigblocks[i].order)]) :
                         i \in 1..Len(bigblocks)}
<1>8. SlobFrames = (Frames \ X) \ (Y \cup Z)
  BY DEF SlobFrames, HeldFrames
<1>9. ASSUME NEW x \in Frames
      PROVE  (Apart(l, x, 1) <=> x \notin X) /\ (Held(live, bigblocks, x) <=> x \in Y \/ x \in Z)
  <2>1. Apart(l, x, 1) <=> x \notin X
    BY <1>2, <1>5
  <2>2. Held(live, bigblocks, x) <=> x \in Y \/ x \in Z
    <3> HIDE DEF X
    <3> QED
      BY <1>6, <1>7, Zenon DEF Held
  <2> QED
    BY <2>1, <2>2
<1> HIDE DEF X, Y, Z
<1> QED
  BY <1>2, <1>8, <1>9 DEF Slobbed

(* The blocks X of s, with their units *)
Sized(s, X) == {<<b, s[b].units>> : b \in X}

(* A block is one with its units. *)
LEMMA SizedSize ==
    ASSUME NEW s, NEW X, IsFiniteSet(X)
    PROVE  IsFiniteSet(Sized(s, X)) /\ Cardinality(Sized(s, X)) = Cardinality(X)
<1> DEFINE f == [b \in X |-> <<b, s[b].units>>]
<1>1. f \in [X -> Sized(s, X)] /\ \A t \in Sized(s, X) : \E b \in X : f[b] = t
  BY DEF Sized
<1>2. \A b, c \in X : f[b] = f[c] => b = c
  OBVIOUS
<1> HIDE DEF f
<1> QED
  BY <1>1, <1>2, SameSize

(* The records are as many as the big blocks, *)
LEMMA RecordsSize ==
    ASSUME NEW s, NEW L, NEW B, Listed(B), ObjectsOK(s, L, B)
    PROVE  IsFiniteSet(Records(B)) /\ Cardinality(Records(B)) = Len(B)
<1>1. Len(B) \in Nat
  BY DEF Listed
<1>2. IsFiniteSet(1..Len(B)) /\ Cardinality(1..Len(B)) = Len(B)
  BY <1>1, FS_Interval
<1> DEFINE f == [i \in 1..Len(B) |-> <<B[i].bb, RecUnits>>]
<1>3. f \in [1..Len(B) -> Records(B)] /\ \A t \in Records(B) : \E i \in 1..Len(B) : f[i] = t
  BY DEF Records
<1>4. \A i, j \in 1..Len(B) : f[i] = f[j] => i = j
  <2>1. SUFFICES ASSUME NEW i \in 1..Len(B), NEW j \in 1..Len(B), f[i] = f[j] PROVE i = j
    OBVIOUS
  <2>2. B[i].bb = B[j].bb
    BY <2>1
  <2> HIDE DEF f
  <2> QED
    BY <2>2 DEF ObjectsOK
<1> HIDE DEF f
<1> QED
  BY <1>2, <1>3, <1>4, SameSize

(* and the small objects as many as the blocks that are taken. *)
LEMMA SmallSize ==
    ASSUME NEW s, ObjectsOK(s, live, bigblocks), IsFiniteSet(Taken(s)), \A x \in Taken(s) : x \in Int
    PROVE  /\ Cardinality(Small) = Cardinality(Taken(s))
           /\ \A o \in Small : o[2] - 1 \in Taken(s) /\ s[o[2] - 1].units = SLOB_UNITS(o[3] + SLOB_UNIT)
           /\ \A x \in Taken(s) : \E o \in Small : o[2] - 1 = x
<1>1. ASSUME NEW o \in Small
      PROVE  o \in live /\ IsSmall(o) /\ o[2] \in Nat /\ Headed(s, o)
  BY DEF Small, ObjectsOK, IsSmall
<1>2. \A o \in Small : o[2] - 1 \in Taken(s) /\ s[o[2] - 1].units = SLOB_UNITS(o[3] + SLOB_UNIT)
  BY <1>1 DEF Headed
<1>3. ASSUME NEW x \in Taken(s)
      PROVE  \E o \in Small : o[2] = x + 1 /\ o[2] - 1 = x
  <2>1. PICK o \in live : IsSmall(o) /\ o[2] = x + 1
    BY DEF ObjectsOK
  <2>2. o \in Small
    BY <2>1 DEF Small, IsSmall
  <2>3. o[2] - 1 = x
    BY <2>1
  <2> QED
    BY <2>1, <2>2, <2>3
<1>4. \A o, q \in Small : o[2] = q[2] => o = q
  BY <1>1 DEF ObjectsOK
<1> DEFINE f == [x \in Taken(s) |-> CHOOSE o \in Small : o[2] = x + 1]
<1>5. \A x \in Taken(s) : f[x] \in Small /\ f[x][2] = x + 1
  BY <1>3
<1>6. f \in [Taken(s) -> Small]
  BY <1>5
<1> HIDE DEF f
<1>7. \A x, y \in Taken(s) : f[x] = f[y] => x = y
  BY <1>5
<1>8. ASSUME NEW o \in Small
      PROVE  \E x \in Taken(s) : f[x] = o
  <2>1. PICK x \in Taken(s) : x = o[2] - 1
    BY <1>2
  <2>2. o[2] = x + 1
    BY <1>1, <2>1
  <2>3. f[x] = o
    BY <1>4, <1>5, <2>2
  <2> QED
    BY <2>3
<1>9. Cardinality(Small) = Cardinality(Taken(s))
  BY <1>6, <1>7, <1>8, SameSize
<1> QED
  BY <1>2, <1>3, <1>9

(* Every unit of the frames F is in one of the blocks P, which are apart. *)
Covers(P, F) ==
    /\ Bricks(P)
    /\ \A u \in Nat : u \in UnitsOf(F) <=> \E p \in P : In(u, p[1], p[2])

(* The blocks with a header and those of K do so. *)
LEMMA CellsCover ==
    ASSUME NEW s, NEW F, NEW K, Shape(s), Cells(s, UnitsOf(F), K), \A k \in K : k = <<k[1], k[2]>>
    PROVE  Covers(Sized(s, DOMAIN s \ {arena}) \cup K, F) /\ Sized(s, DOMAIN s \ {arena}) \cap K = {}
<1> DEFINE D == DOMAIN s \ {arena}
           Q == Sized(s, D)
<1>1. \A b \in D : b \in Nat /\ s[b].units \in Nat /\ s[b].units > 0
  BY ShapeFields
<1>2. \A q \in Q : q[1] \in D /\ q[2] = s[q[1]].units /\ q = <<q[1], q[2]>>
  BY DEF Sized
<1>3. ASSUME NEW b \in D
      PROVE  \E q \in Q : q[1] = b /\ q[2] = s[b].units
  <2>1. PICK q : q = <<b, s[b].units>>
    OBVIOUS
  <2>2. q \in Q
    BY <2>1 DEF Sized
  <2>3. q[1] = b /\ q[2] = s[b].units
    BY <2>1
  <2> QED
    BY <2>2, <2>3
<1> HIDE DEF Q
<1>4. /\ \A k \in K : k[1] \in Nat /\ k[2] \in Nat \ {0}
      /\ \A u \in Nat : u \in UnitsOf(F) <=> \/ \E b \in D : In(u, b, s[b].units)
                                             \/ \E k \in K : In(u, k[1], k[2])
      /\ \A x, y \in D : x < y => x + s[x].units <= y
      /\ \A x \in D, k \in K : Disjoint(x, s[x].units, k[1], k[2])
      /\ \A k, j \in K : k # j => Disjoint(k[1], k[2], j[1], j[2])
  <2>1. \A k \in K : k[1] \in Nat /\ k[2] \in Nat \ {0}
    BY DEF Cells
  <2>2. ASSUME NEW u \in Nat
        PROVE  u \in UnitsOf(F) <=> \/ \E b \in D : In(u, b, s[b].units)
                                   \/ \E k \in K : In(u, k[1], k[2])
    <3>1. u \in UnitsOf(F) <=> \/ \E b \in DOMAIN s : b # arena /\ In(u, b, s[b].units)
                              \/ \E k \in K : In(u, k[1], k[2])
      BY DEF Cells
    <3> QED
      BY <3>1
  <2>3. /\ \A x, y \in D : x < y => x + s[x].units <= y
        /\ \A x \in D, k \in K : Disjoint(x, s[x].units, k[1], k[2])
    BY DEF Cells
  <2>4. \A k, j \in K : k # j => Disjoint(k[1], k[2], j[1], j[2])
    BY DEF Cells
  <2> QED
    BY <2>1, <2>2, <2>3, <2>4
<1> HIDE DEF D
<1>5. \A p \in Q \cup K : p[1] \in Nat /\ p[2] \in Nat /\ p[2] > 0
  BY <1>1, <1>2, <1>4
<1>6. ASSUME NEW u \in Nat
      PROVE  u \in UnitsOf(F) <=> \E p \in Q \cup K : In(u, p[1], p[2])
  <2>1. (\E b \in D : In(u, b, s[b].units)) <=> \E q \in Q : In(u, q[1], q[2])
    <3>1. ASSUME NEW b \in D, In(u, b, s[b].units)
          PROVE  \E q \in Q : In(u, q[1], q[2])
      BY <1>3, <3>1
    <3>2. ASSUME NEW q \in Q, In(u, q[1], q[2])
          PROVE  \E b \in D : In(u, b, s[b].units)
      BY <1>2, <3>2
    <3> QED
      BY <3>1, <3>2
  <2> QED
    BY <1>4, <2>1
<1>7. ASSUME NEW p \in Q, NEW q \in Q, p # q
      PROVE  Disjoint(p[1], p[2], q[1], q[2])
  <2>1. PICK a \in Nat, m \in Nat, b \in Nat, n \in Nat :
           /\ a = p[1] /\ m = p[2] /\ b = q[1] /\ n = q[2] /\ a \in D /\ b \in D /\ m = s[a].units /\ n = s[b].units
    BY <1>1, <1>2
  <2>2. a # b
    BY <1>2, <1>7, <2>1
  <2>3. (a < b => a + m <= b) /\ (b < a => b + n <= a)
    BY <1>4, <2>1
  <2>4. Disjoint(a, m, b, n)
    BY <2>2, <2>3 DEF Disjoint
  <2> QED
    BY <2>1, <2>4
<1>8. ASSUME NEW q \in Q, NEW k \in K
      PROVE  q # k /\ Disjoint(q[1], q[2], k[1], k[2]) /\ Disjoint(k[1], k[2], q[1], q[2])
  <2>1. PICK a \in Nat, m \in Nat, b \in Nat, n \in Nat :
           a = q[1] /\ m = q[2] /\ b = k[1] /\ n = k[2] /\ m > 0 /\ n > 0
    BY <1>5
  <2>2. Disjoint(a, m, b, n)
    BY <1>2, <1>4, <2>1
  <2>3. Disjoint(b, n, a, m) /\ (a # b \/ m # n)
    BY <2>1, <2>2 DEF Disjoint
  <2> QED
    BY <2>1, <2>2, <2>3
<1>9. \A p, q \in Q \cup K : p # q => Disjoint(p[1], p[2], q[1], q[2])
  BY <1>4, <1>7, <1>8
<1>10. Covers(Q \cup K, F) /\ Q \cap K = {}
  BY <1>5, <1>6, <1>8, <1>9 DEF Covers, Bricks
<1> QED
  BY <1>10 DEF Q, D

(* The holdings are the units of the blocks with a header and of the records. *)
LEMMA HoldingsIs ==
    ASSUME NEW s, s = slob, FreeBlocks = Ringed(s) \ {arena}, arena \in Ringed(s),
           \A o \in Small : o[2] - 1 \in Taken(s) /\ s[o[2] - 1].units = SLOB_UNITS(o[3] + SLOB_UNIT),
           \A x \in Taken(s) : \E o \in Small : o[2] - 1 = x
    PROVE  Holdings = Walls(Sized(s, DOMAIN s \ {arena}) \cup Records(bigblocks))
<1> DEFINE D == DOMAIN s \ {arena}
           Q == Sized(s, D)
           K == Records(bigblocks)
           X == {BlockUnits(b, slob[b].units) : b \in FreeBlocks}
           Y == {BlockUnits(o[2] - 1, SLOB_UNITS(o[3] + SLOB_UNIT)) : o \in Small}
           Z == {BlockUnits(bigblocks[i].bb, SLOB_UNITS(BigBytes)) : i \in 1..Len(bigblocks)}
           H == {BlockUnits(p[1], p[2]) : p \in Q \cup K}
<1>1. Holdings = X \cup Y \cup Z
  BY DEF Holdings
<1>2. D = FreeBlocks \cup Taken(s)
  BY DEF Taken, Ringed
<1>3. \A q : q \in Q <=> \E b \in D : q = <<b, s[b].units>>
  BY DEF Sized
<1>4. \A q : q \in K <=> \E i \in 1..Len(bigblocks) : q = <<bigblocks[i].bb, RecUnits>>
  BY DEF Records
<1> HIDE DEF D, Q, K
<1>5. ASSUME NEW b \in D
      PROVE  BlockUnits(b, s[b].units) \in H
  <2>1. PICK p \in Q \cup K : p = <<b, s[b].units>>
    BY <1>3
  <2>2. BlockUnits(p[1], p[2]) = BlockUnits(b, s[b].units)
    BY <2>1
  <2> QED
    BY <2>2
<1>6. ASSUME NEW i \in 1..Len(bigblocks)
      PROVE  BlockUnits(bigblocks[i].bb, RecUnits) \in H
  <2>1. PICK p \in Q \cup K : p = <<bigblocks[i].bb, RecUnits>>
    BY <1>4
  <2>2. BlockUnits(p[1], p[2]) = BlockUnits(bigblocks[i].bb, RecUnits)
    BY <2>1
  <2> QED
    BY <2>2
<1>7. X \subseteq H
  BY <1>2, <1>5
<1>8. ASSUME NEW y \in Y
      PROVE  y \in H
  <2>1. PICK o \in Small : y = BlockUnits(o[2] - 1, SLOB_UNITS(o[3] + SLOB_UNIT))
    OBVIOUS
  <2>2. PICK b : b = o[2] - 1 /\ b \in Taken(s) /\ s[b].units = SLOB_UNITS(o[3] + SLOB_UNIT)
    OBVIOUS
  <2> HIDE DEF H
  <2> QED
    BY <1>2, <1>5, <2>1, <2>2
<1>9. Z \subseteq H
  BY <1>6 DEF RecUnits
<1>10. ASSUME NEW z \in H
       PROVE  z \in X \cup Y \cup Z
  <2>1. PICK p \in Q \cup K : z = BlockUnits(p[1], p[2])
    OBVIOUS
  <2>2. CASE p \in Q
    <3>1. PICK b \in D : p = <<b, s[b].units>>
      BY <1>3, <2>2
    <3>2. z = BlockUnits(b, s[b].units)
      BY <2>1, <3>1
    <3>3. CASE b \in FreeBlocks
      BY <3>2, <3>3
    <3>4. CASE b \in Taken(s)
      <4>1. PICK o \in Small : o[2] - 1 = b
        BY <3>4
      <4>2. z = BlockUnits(o[2] - 1, SLOB_UNITS(o[3] + SLOB_UNIT))
        BY <3>2, <4>1
      <4> QED
        BY <4>2
    <3> QED
      BY <1>2, <3>3, <3>4
  <2>3. CASE p \in K
    <3>1. PICK i \in 1..Len(bigblocks) : p = <<bigblocks[i].bb, RecUnits>>
      BY <1>4, <2>3
    <3>2. z = BlockUnits(bigblocks[i].bb, SLOB_UNITS(BigBytes))
      BY <2>1, <3>1 DEF RecUnits
    <3> QED
      BY <3>2
  <2> QED
    BY <2>2, <2>3
<1> HIDE DEF X, Y, Z, H
<1>11. Holdings = H
  BY <1>1, <1>7, <1>8, <1>9, <1>10
<1> QED
  BY <1>11 DEF H, Q, D, K, Walls

(* The units of frames. *)
LEMMA FrameUnits ==
    ASSUME NEW F \in SUBSET Nat
    PROVE  UNION {BlockUnits(AddrOf(f), PageUnits) : f \in F} = UnitsOf(F)
<1>1. ASSUME NEW u, NEW f \in F, u \in BlockUnits(AddrOf(f), PageUnits)
      PROVE  u \in UnitsOf(F)
  <2>1. AddrOf(f) \in Nat /\ PageUnits \in Nat
    BY InPage
  <2>2. u \in Nat /\ In(u, AddrOf(f), PageUnits)
    BY <1>1, <2>1, BlockIn
  <2>3. u \div PageUnits = f
    BY <2>2, InPage
  <2> QED
    BY <2>2, <2>3 DEF UnitsOf
<1>2. ASSUME NEW u \in UnitsOf(F)
      PROVE  \E f \in F : u \in BlockUnits(AddrOf(f), PageUnits)
  <2>1. u \in Nat /\ u \div PageUnits \in F
    BY DEF UnitsOf
  <2>2. PICK f \in F : u \div PageUnits = f
    BY <2>1
  <2>3. AddrOf(f) \in Nat /\ PageUnits \in Nat /\ In(u, AddrOf(f), PageUnits)
    BY <2>1, <2>2, InPage
  <2>4. u \in BlockUnits(AddrOf(f), PageUnits)
    BY <2>1, <2>3, BlockIn
  <2> QED
    BY <2>4
<1> QED
  BY <1>1, <1>2

(* A free block that another one touches is in front of it on the list. *)
LEMMA TouchIsNext ==
    ASSUME NEW s, NEW U, NEW K, Shape(s), Cells(s, U, K), NoTouchBut(s, {}),
           NEW b \in Ringed(s), b + s[b].units \in Ringed(s)
    PROVE  FALSE
<1>1. PICK x \in Int, n \in Nat, y \in Int, z \in Int : x = b /\ n = s[b].units /\ n > 0 /\ y = x + n /\ z = s[b].next
  BY RingFields
<1>2. x \in Ringed(s) /\ y \in Ringed(s) /\ z \in Ringed(s) /\ Follows(Ringed(s), x, z) /\ z # y
  BY <1>1, RingFields DEF NoTouchBut
<1>3. x < z => x + n <= z
  BY <1>1, <1>2 DEF Cells, Ringed
<1> QED
  BY <1>1, <1>2, <1>3 DEF Follows

(* The invariant implies the property. *)
LEMMA HeapMeans == PagesInv /\ HeapInv => HeapExact
<1> SUFFICES ASSUME PagesInv, HeapInv, panic = "none"
             PROVE  /\ UNION Holdings = UNION {BlockUnits(AddrOf(f), PageUnits) : f \in SlobFrames}
                    /\ \A x, y \in Holdings : x # y => x \cap y = {}
                    /\ Cardinality(Holdings) = Cardinality(FreeBlocks) + Cardinality(Small) + Len(bigblocks)
                    /\ \A b \in FreeBlocks : b + slob[b].units \notin FreeBlocks
  BY DEF HeapExact
<1>1. PICK s, F, K : s = slob /\ F = Slobbed(pm.list, live, bigblocks) /\ K = Records(bigblocks)
  OBVIOUS
<1>2. Sound(s, slobfree, UnitsOf(F), K) /\ ObjectsOK(s, live, bigblocks)
  BY <1>1 DEF HeapInv
<1>3. Shape(s) /\ Cells(s, UnitsOf(F), K) /\ NoTouchBut(s, {}) /\ Bounded(s)
  BY <1>2, LinkedBounded DEF Sound, Linked
<1>4. /\ Listed(bigblocks) /\ Len(bigblocks) \in Nat
      /\ \A i \in 1..Len(bigblocks) : Region(FrameOf(bigblocks[i]), CountOf(bigblocks[i]))
  BY HeapBegins DEF Listed
<1>5. FreeBlocks = Ringed(s) \ {arena} /\ arena \in Ringed(s)
  BY <1>1, <1>3, FreeBlocksIs DEF Shape
<1>7. \A x \in DOMAIN s : x \in Int
  BY <1>3, ShapeFields
<1>8. IsFiniteSet(DOMAIN s)
  <2>1. PICK top \in Nat : \A x \in DOMAIN s : x <= top
    BY <1>3 DEF Bounded
  <2>2. Heap.slob = s
    BY <1>1, HeapFields DEF Heap
  <2> QED
    BY <1>3, <2>1, <2>2, RingFinite
<1>9. FreeBlocks \in SUBSET DOMAIN s /\ Taken(s) \in SUBSET DOMAIN s
  BY <1>5 DEF Ringed, Taken
<1>10. IsFiniteSet(FreeBlocks) /\ IsFiniteSet(Taken(s))
  BY <1>8, <1>9, FS_Subset
<1>11. /\ Cardinality(Small) = Cardinality(Taken(s))
       /\ \A o \in Small : o[2] - 1 \in Taken(s) /\ s[o[2] - 1].units = SLOB_UNITS(o[3] + SLOB_UNIT)
       /\ \A x \in Taken(s) : \E o \in Small : o[2] - 1 = x
  <2>1. \A x \in Taken(s) : x \in Int
    BY <1>7, <1>9
  <2> QED
    BY <1>2, <1>10, <2>1, SmallSize
<1>12. PICK D, Q : D = DOMAIN s \ {arena} /\ Q = Sized(s, D)
  OBVIOUS
<1>13. Holdings = Walls(Q \cup K)
  BY <1>1, <1>5, <1>11, <1>12, HoldingsIs
<1>14. Covers(Q \cup K, F) /\ Q \cap K = {}
  <2>1. \A k \in K : k = <<k[1], k[2]>>
    BY <1>1 DEF Records
  <2> QED
    BY <1>3, <1>12, <2>1, CellsCover
<1>15. PICK P : P = Q \cup K
  OBVIOUS
<1>16. /\ \A x, y \in Holdings : x # y => x \cap y = {}
       /\ \A u : u \in UNION Holdings <=> u \in Nat /\ \E p \in P : In(u, p[1], p[2])
       /\ IsFiniteSet(P) => Cardinality(Holdings) = Cardinality(P)
  <2>1. Bricks(P) /\ Holdings = Walls(P)
    BY <1>13, <1>14, <1>15 DEF Covers
  <2> QED
    BY <2>1, Tiles
<1>17. UNION Holdings = UnitsOf(F)
  <2>1. \A u \in Nat : u \in UnitsOf(F) <=> \E p \in P : In(u, p[1], p[2])
    BY <1>14, <1>15 DEF Covers
  <2>2. \A u : u \in UnitsOf(F) => u \in Nat
    BY DEF UnitsOf
  <2> QED
    BY <1>16, <2>1, <2>2
<1>18. UNION {BlockUnits(AddrOf(f), PageUnits) : f \in SlobFrames} = UnitsOf(F)
  <2>1. SlobFrames = F
    BY <1>1, SlobFramesIs
  <2>2. F \in SUBSET Nat
    BY <1>1, PageAllocAssumption DEF Slobbed, Frames
  <2> QED
    BY <2>1, <2>2, FrameUnits
<1>19. IsFiniteSet(Q) /\ Cardinality(Q) = Cardinality(FreeBlocks) + Cardinality(Taken(s))
  <2>1. D = FreeBlocks \cup Taken(s) /\ FreeBlocks \cap Taken(s) = {}
    BY <1>5, <1>12 DEF Taken, Ringed
  <2>2. /\ IsFiniteSet(D)
        /\ Cardinality(D) = Cardinality(FreeBlocks) + Cardinality(Taken(s)) - Cardinality(FreeBlocks \cap Taken(s))
    BY <1>10, <2>1, FS_Union
  <2>3. Cardinality(FreeBlocks \cap Taken(s)) = 0
    BY <2>1, FS_EmptySet
  <2>4. Cardinality(FreeBlocks) \in Nat /\ Cardinality(Taken(s)) \in Nat
    BY <1>10, FS_CardinalityType
  <2>5. IsFiniteSet(Q) /\ Cardinality(Q) = Cardinality(D)
    BY <1>12, <2>2, SizedSize
  <2> QED
    BY <2>2, <2>3, <2>4, <2>5
<1>20. IsFiniteSet(K) /\ Cardinality(K) = Len(bigblocks)
  BY <1>1, <1>2, <1>4, RecordsSize
<1>21. IsFiniteSet(P) /\ Cardinality(P) = Cardinality(Q) + Len(bigblocks)
  <2>1. IsFiniteSet(P) /\ Cardinality(P) = Cardinality(Q) + Cardinality(K) - Cardinality(Q \cap K)
    BY <1>15, <1>19, <1>20, FS_Union
  <2>2. Cardinality(Q \cap K) = 0
    BY <1>14, FS_EmptySet
  <2>3. Cardinality(Q) \in Nat
    BY <1>19, FS_CardinalityType
  <2> QED
    BY <1>4, <1>20, <2>1, <2>2, <2>3
<1>22. Cardinality(Holdings) = Cardinality(FreeBlocks) + Cardinality(Small) + Len(bigblocks)
  BY <1>11, <1>16, <1>19, <1>21
<1>23. \A b \in FreeBlocks : b + slob[b].units \notin FreeBlocks
  BY <1>1, <1>3, <1>5, TouchIsNext
<1> QED
  BY <1>16, <1>17, <1>18, <1>22, <1>23

(* At first there is only the arena. *)
LEMMA InitHeap == Init => HeapInv
BY DEF Init, HeapInv

(* For every number of frames, every set of sizes, 0 among them, and every *)
(* order of the calls of kmalloc, kfree, alloc_pages and free_pages,       *)
(* failed ones included: every unit of the frames that the list of slobs   *)
(* has taken is in exactly one free block, small object or record of a big *)
(* block, each of them is there once, and no two free blocks touch.  The   *)
(* claim ends where an object of 0 bytes is the arena, or is freed and a   *)
(* big block begins at its address.                                        *)
THEOREM HeapIsExact == Spec => []HeapExact
<1>1. Init => PagesInv /\ HeapInv
  BY InitPages, InitHeap
<1>2. PagesInv /\ HeapInv /\ [Next]_vars => PagesInv' /\ HeapInv'
  BY NextPages, NextHeap
<1>3. PagesInv /\ HeapInv => HeapExact
  BY HeapMeans
<1> QED
  BY <1>1, <1>2, <1>3, PTL DEF Spec
=============================================================================
