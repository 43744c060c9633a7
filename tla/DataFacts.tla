------------------------------ MODULE DataFacts ------------------------------
(***************************************************************************)
(* Facts about data that the proofs of several components rest on.         *)
(*                                                                         *)
(* Induction is in a form that first-order provers can instantiate: the    *)
(* induction hypothesis is a set of numbers, not an operator.              *)
(***************************************************************************)
EXTENDS Sem, SequencesExt, NaturalsInduction, WellFoundedInduction, TLAPS

(* A set of naturals that is not empty has a least element. *)
LEMMA LeastNat ==
    ASSUME NEW T \in SUBSET Nat, T # {}
    PROVE  \E m \in T : \A k \in T : m <= k
<1> DEFINE R == {pair \in Nat \X Nat : pair[1] < pair[2]}
<1>1. IsWellFoundedOn(R, Nat)
  BY NatLessThanWellFounded, Zenon DEF OpToRel
<1>2. ASSUME NEW x \in Nat, NEW y \in Nat, y < x
      PROVE  <<y, x>> \in R
  BY <1>2
<1> HIDE DEF R
<1>3. \E x \in T : \A y \in T : ~(<<y, x>> \in R)
  BY <1>1, WFMin
<1>4. PICK x \in T : \A y \in T : ~(<<y, x>> \in R)
  BY <1>3
<1>5. ASSUME NEW k \in T
      PROVE  x <= k
  <2>1. k \in Nat /\ x \in Nat
    OBVIOUS
  <2>2. ~(k < x)
    BY <1>2, <1>4, <2>1
  <2> QED
    BY <2>1, <2>2
<1> QED
  BY <1>5

(* A set that has 0, and with a number its successor, has all numbers. *)
LEMMA SetInduction ==
    ASSUME NEW T,
           0 \in T,
           \A n \in Nat : n \in T => n + 1 \in T
    PROVE  \A n \in Nat : n \in T
<1> DEFINE Missing == Nat \ T
<1>1. SUFFICES ASSUME Missing # {}
               PROVE  FALSE
  OBVIOUS
<1>2. PICK m \in Missing : \A k \in Missing : m <= k
  <2> Missing \in SUBSET Nat
    OBVIOUS
  <2> HIDE DEF Missing
  <2> QED
    BY <1>1, LeastNat
<1>3. m # 0
  OBVIOUS
<1>4. m - 1 \in Nat /\ m - 1 \in T
  BY <1>2, <1>3
<1> QED
  BY <1>4

(* The same up to a bound. *)
LEMMA BoundedInduction ==
    ASSUME NEW T, NEW m \in Nat,
           0 \in T,
           \A n \in 0..(m - 1) : n \in T => n + 1 \in T
    PROVE  \A n \in 0..m : n \in T
<1> DEFINE U == {n \in Nat : n <= m => n \in T}
<1>1. 0 \in U
  OBVIOUS
<1>2. \A n \in Nat : n \in U => n + 1 \in U
  OBVIOUS
<1>3. \A n \in Nat : n \in U
  <2> HIDE DEF U
  <2> QED
    BY <1>1, <1>2, SetInduction
<1> QED
  BY <1>3

(* The values of a loop of m turns that starts with a and turns the value  *)
(* v of turn i into step[i][v].                                            *)
LoopRuns(V, a, m, step) ==
    {f \in [0..m -> V] : f[0] = a /\ \A i \in 1..m : f[i] = step[i][f[i - 1]]}

(* Such a loop has a value after every turn. *)
LEMMA LoopValues ==
    ASSUME NEW V, NEW a \in V, NEW m \in Nat, NEW step \in [Nat -> [V -> V]]
    PROVE  LoopRuns(V, a, m, step) # {}
<1> DEFINE Runs(n) == {f \in [0..n -> V] :
                          f[0] = a /\ \A i \in 1..n : f[i] = step[i][f[i - 1]]}
           T == {n \in Nat : Runs(n) # {}}
<1>1. 0 \in T
  <2>1. [i \in 0..0 |-> a] \in Runs(0)
    OBVIOUS
  <2> QED
    BY <2>1
<1>2. ASSUME NEW n \in Nat, n \in T
      PROVE  n + 1 \in T
  <2>1. PICK f \in Runs(n) : TRUE
    BY <1>2
  <2> DEFINE g == [i \in 0..(n + 1) |-> IF i <= n THEN f[i] ELSE step[n + 1][f[n]]]
  <2>2. f[n] \in V /\ step[n + 1][f[n]] \in V
    <3>1. f[n] \in V
      BY <2>1
    <3> QED
      BY <3>1
  <2>3. g \in [0..(n + 1) -> V]
    BY <2>1, <2>2
  <2>4. g[0] = a
    BY <2>1
  <2>5. \A i \in 1..(n + 1) : g[i] = step[i][g[i - 1]]
    BY <2>1
  <2>6. g \in Runs(n + 1)
    BY <2>3, <2>4, <2>5
  <2> HIDE DEF Runs, g
  <2> QED
    BY <2>6
<1>3. \A n \in Nat : n \in T
  <2> HIDE DEF T
  <2> QED
    BY <1>1, <1>2, SetInduction
<1> QED
  BY <1>3 DEF LoopRuns

-----------------------------------------------------------------------------
(* One semaphore *)

(* A semaphore of the processes in P. *)
SemRec(P) == [value : Nat, wait_queue : Seq(P)]

(* down of a semaphore with units left takes one. *)
LEMMA SemTake ==
    ASSUME NEW P, NEW s \in SemRec(P), s.value > 0
    PROVE  /\ sem_take(s) \in SemRec(P)
           /\ sem_take(s).value = s.value - 1
           /\ sem_take(s).wait_queue = s.wait_queue
BY DEF SemRec, sem_take

(* down of one without units puts the caller last in the queue. *)
LEMMA SemWait ==
    ASSUME NEW P, NEW s \in SemRec(P), NEW p \in P
    PROVE  /\ sem_wait(s, p) \in SemRec(P)
           /\ sem_wait(s, p).value = s.value
           /\ sem_wait(s, p).wait_queue = Append(s.wait_queue, p)
           /\ \A x : SleepsIn(sem_wait(s, p), x) <=> SleepsIn(s, x) \/ x = p
<1>1. /\ sem_wait(s, p) \in SemRec(P)
      /\ sem_wait(s, p).value = s.value
      /\ sem_wait(s, p).wait_queue = Append(s.wait_queue, p)
  BY DEF SemRec, sem_wait
<1> DEFINE q == s.wait_queue
           r == Append(q, p)
<1>2. q \in Seq(P)
  BY DEF SemRec
<1> HIDE DEF q
<1>3. /\ DOMAIN q = 1..Len(q) /\ DOMAIN r = 1..(Len(q) + 1) /\ Len(q) \in Nat
      /\ \A i \in 1..Len(q) : r[i] = q[i]
      /\ r[Len(q) + 1] = p
  BY <1>2
<1> HIDE DEF r
<1>4. \A x : (\E i \in DOMAIN r : r[i] = x) <=> (\E i \in DOMAIN q : q[i] = x) \/ x = p
  BY <1>3
<1> QED
  BY <1>1, <1>4 DEF SleepsIn, q, r

(* up adds a unit, or wakes the first of the queue. *)
LEMMA SemUp ==
    ASSUME NEW P, NEW s \in SemRec(P)
    PROVE  /\ sem_up(s) \in SemRec(P)
           /\ s.wait_queue = <<>> =>
                 sem_up(s).value = s.value + 1 /\ sem_up(s).wait_queue = <<>>
           /\ s.wait_queue # <<>> =>
                 sem_up(s).value = s.value /\ sem_up(s).wait_queue = Tail(s.wait_queue)
           /\ \A x : SleepsIn(sem_up(s), x) => SleepsIn(s, x)
           /\ \A x, y : SleepsIn(s, x) /\ SleepsIn(s, y) /\ x # y =>
                 SleepsIn(sem_up(s), x) \/ SleepsIn(sem_up(s), y)
<1> DEFINE q == s.wait_queue
<1>1. q \in Seq(P) /\ s.value \in Nat
  BY DEF SemRec
<1>2. CASE q = <<>>
  <2>1. /\ sem_up(s) \in SemRec(P)
        /\ sem_up(s).value = s.value + 1 /\ sem_up(s).wait_queue = q
    BY <1>2 DEF SemRec, sem_up
  <2> QED
    BY <1>2, <2>1 DEF SleepsIn
<1>3. CASE q # <<>>
  <2> DEFINE r == Tail(q)
  <2>1. /\ r \in Seq(P) /\ Len(q) \in Nat
        /\ DOMAIN q = 1..Len(q) /\ DOMAIN r = 1..(Len(q) - 1)
        /\ \A i \in 1..(Len(q) - 1) : r[i] = q[i + 1]
    BY <1>1, <1>3
  <2> HIDE DEF r
  <2>2. /\ sem_up(s) \in SemRec(P)
        /\ sem_up(s).value = s.value /\ sem_up(s).wait_queue = r
    BY <1>3, <2>1 DEF SemRec, sem_up, r
  <2>3. ASSUME NEW x, NEW i \in DOMAIN r, r[i] = x
        PROVE  \E k \in DOMAIN q : q[k] = x
    <3>1. i + 1 \in DOMAIN q /\ q[i + 1] = x
      BY <2>1, <2>3
    <3> QED
      BY <3>1
  <2>4. ASSUME NEW x, NEW i \in DOMAIN q, q[i] = x, x # q[1]
        PROVE  \E k \in DOMAIN r : r[k] = x
    <3>1. i - 1 \in DOMAIN r /\ r[i - 1] = q[i]
      BY <2>1, <2>4
    <3> QED
      BY <2>4, <3>1
  <2>5. ASSUME NEW x, NEW y, SleepsIn(s, x), SleepsIn(s, y), x # y
        PROVE  SleepsIn(sem_up(s), x) \/ SleepsIn(sem_up(s), y)
    <3>1. x # q[1] \/ y # q[1]
      BY <2>5
    <3> QED
      BY <2>2, <2>4, <2>5, <3>1 DEF SleepsIn
  <2>6. \A x : SleepsIn(sem_up(s), x) => SleepsIn(s, x)
    BY <2>2, <2>3 DEF SleepsIn
  <2> QED
    BY <1>3, <2>2, <2>5, <2>6 DEF r
<1> QED
  BY <1>2, <1>3

(* Nobody is in a queue twice. *)
Distinct(q) == \A i, j \in DOMAIN q : q[i] = q[j] => i = j

(* Then the first waiter, and nobody else, leaves the queue in sem_up. *)
LEMMA SemDistinct ==
    ASSUME NEW P, NEW s \in SemRec(P), Distinct(s.wait_queue)
    PROVE  /\ Distinct(sem_up(s).wait_queue)
           /\ s.wait_queue # <<>> => ~SleepsIn(sem_up(s), s.wait_queue[1])
           /\ \A p \in P : ~SleepsIn(s, p) => Distinct(sem_wait(s, p).wait_queue)
<1> DEFINE q == s.wait_queue
<1>1. q \in Seq(P) /\ DOMAIN q = 1..Len(q) /\ Len(q) \in Nat
  BY DEF SemRec
<1>2. ASSUME NEW p \in P, ~SleepsIn(s, p)
      PROVE  Distinct(sem_wait(s, p).wait_queue)
  <2> DEFINE r == Append(q, p)
  <2>1. sem_wait(s, p).wait_queue = r
    BY SemWait
  <2>2. /\ DOMAIN r = 1..(Len(q) + 1)
        /\ \A i \in 1..Len(q) : r[i] = q[i]
        /\ r[Len(q) + 1] = p
    BY <1>1
  <2>3. \A i \in 1..Len(q) : q[i] # p
    BY <1>1, <1>2 DEF SleepsIn
  <2> HIDE DEF q, r
  <2>4. \A i \in 1..(Len(q) + 1) : i \in 1..Len(q) \/ i = Len(q) + 1
    BY <1>1
  <2>5. Distinct(r)
    BY <1>1, <2>2, <2>3, <2>4 DEF Distinct, q
  <2> QED
    BY <2>1, <2>5
<1>3. CASE q = <<>>
  <2>1. sem_up(s).wait_queue = q
    BY <1>3, SemUp
  <2> QED
    BY <1>2, <1>3, <2>1
<1>4. CASE q # <<>>
  <2> DEFINE r == Tail(q)
  <2>1. sem_up(s).wait_queue = r
    BY <1>4, SemUp
  <2>2. DOMAIN r = 1..(Len(q) - 1) /\ \A i \in 1..(Len(q) - 1) : r[i] = q[i + 1]
    BY <1>1, <1>4
  <2>3. 1 \in DOMAIN q /\ \A i \in 1..(Len(q) - 1) : i + 1 \in DOMAIN q /\ i + 1 # 1
    BY <1>1, <1>4
  <2> HIDE DEF q, r
  <2>4. Distinct(r)
    <3> SUFFICES ASSUME NEW i \in 1..(Len(q) - 1), NEW j \in 1..(Len(q) - 1), r[i] = r[j]
                 PROVE  i = j
      BY <2>2 DEF Distinct
    <3>1. i + 1 = j + 1
      BY <2>2, <2>3 DEF Distinct, q
    <3> QED
      BY <1>1, <3>1
  <2>5. \A i \in DOMAIN r : r[i] # q[1]
    BY <2>2, <2>3 DEF Distinct, q
  <2> QED
    BY <1>2, <2>1, <2>4, <2>5 DEF SleepsIn, q
<1> QED
  BY <1>3, <1>4

-----------------------------------------------------------------------------
(* A ring *)

(* The neighbours of place i at a table with n places. *)
LEMMA RingFacts ==
    ASSUME NEW n \in Nat, n > 1, NEW i \in 0..(n - 1)
    PROVE  /\ (i + 1) % n = IF i = n - 1 THEN 0 ELSE i + 1
           /\ (i - 1 + n) % n = IF i = 0 THEN n - 1 ELSE i - 1
OBVIOUS

-----------------------------------------------------------------------------
(* Remainders *)

(* Division with a remainder. *)
LEMMA DivMod ==
    ASSUME NEW n \in Nat \ {0}, NEW x \in Int
    PROVE  /\ x % n \in 0..(n - 1)
           /\ \E q \in Int : x = n * q + (x % n)
<1>1. x \div n \in Int
  OBVIOUS
<1>2. x % n \in 0..(n - 1)
  OBVIOUS
<1>3. x = n * (x \div n) + (x % n)
  OBVIOUS
<1> QED
  BY <1>1, <1>2, <1>3

(* The only multiple of n between -n and n is 0. *)
LEMMA SmallProduct ==
    ASSUME NEW n \in Nat \ {0}, NEW k \in Int, -n < n * k, n * k < n
    PROVE  k = 0
<1>1. CASE k >= 1
  <2>1. n * k >= n * 1
    BY <1>1
  <2> QED
    BY <2>1
<1>2. CASE k <= -1
  <2>1. n * k <= n * (-1)
    BY <1>2
  <2> QED
    BY <2>1
<1> QED
  BY <1>1, <1>2

(* Multiples of n that are less than n apart are equal. *)
LEMMA NearMultiples ==
    ASSUME NEW n \in Nat \ {0}, NEW p \in Int, NEW q \in Int,
           -n < n * q - n * p, n * q - n * p < n
    PROVE  p = q
<1>1. n * (q - p) = n * q - n * p /\ q - p \in Int
  OBVIOUS
<1>2. PICK k \in Int : k = q - p
  BY <1>1
<1>3. n * k = n * q - n * p
  BY <1>1, <1>2
<1>4. k = 0
  BY <1>3, SmallProduct
<1> QED
  BY <1>2, <1>4

(* Quotient and remainder are unique. *)
LEMMA ModUnique ==
    ASSUME NEW n \in Nat \ {0}, NEW x \in Int, NEW q \in Int, NEW r \in 0..(n - 1),
           x = n * q + r
    PROVE  x % n = r
<1>1. PICK p \in Int : x = n * p + (x % n)
  BY DivMod
<1>2. PICK s \in 0..(n - 1) : s = x % n
  BY DivMod
<1>3. PICK u \in Int, v \in Int : u = n * p /\ v = n * q
  OBVIOUS
<1>4. x = u + s /\ x = v + r
  BY <1>1, <1>2, <1>3
<1>5. -n < v - u /\ v - u < n
  BY <1>4
<1>6. p = q
  BY <1>3, <1>5, NearMultiples
<1>7. u = v
  BY <1>3, <1>6
<1> QED
  BY <1>2, <1>4, <1>7

(* Numbers that are less than n apart have different remainders. *)
LEMMA ModNear ==
    ASSUME NEW n \in Nat \ {0}, NEW x \in Int, NEW y \in Int, x < y, y < x + n
    PROVE  x % n # y % n
<1> SUFFICES ASSUME x % n = y % n
             PROVE  FALSE
  OBVIOUS
<1>1. PICK p \in Int : x = n * p + (x % n)
  BY DivMod
<1>2. PICK q \in Int : y = n * q + (y % n)
  BY DivMod
<1>3. PICK s \in 0..(n - 1) : s = x % n
  BY DivMod
<1>4. PICK u \in Int, v \in Int : u = n * p /\ v = n * q
  OBVIOUS
<1>5. x = u + s /\ y = v + s
  BY <1>1, <1>2, <1>3, <1>4
<1>6. -n < v - u /\ v - u < n /\ v # u
  BY <1>5
<1>7. p = q
  BY <1>4, <1>6, NearMultiples
<1> QED
  BY <1>4, <1>6, <1>7

(* The remainder of a sum. *)
LEMMA ModAdd ==
    ASSUME NEW n \in Nat \ {0}, NEW x \in Int, NEW i \in Int
    PROVE  ((x % n) + i) % n = (x + i) % n
<1>1. PICK a \in Int : x = n * a + (x % n)
  BY DivMod
<1>2. PICK b \in 0..(n - 1) : b = x % n
  BY DivMod
<1>3. PICK y \in Int : y = b + i
  OBVIOUS
<1>4. PICK c \in Int : y = n * c + (y % n)
  BY DivMod
<1>5. PICK d \in 0..(n - 1) : d = y % n
  BY DivMod
<1>6. PICK e \in Int : e = a + c
  OBVIOUS
<1>7. n * e = n * a + n * c
  BY <1>6
<1>8. PICK u \in Int, v \in Int : u = n * a /\ v = n * c
  OBVIOUS
<1>9. x = u + b /\ b + i = v + d
  BY <1>1, <1>2, <1>3, <1>4, <1>5, <1>8
<1>10. PICK z \in Int : z = x + i
  OBVIOUS
<1>11. z = (u + v) + d
  BY <1>9, <1>10
<1>12. z = n * e + d
  BY <1>7, <1>8, <1>11
<1>13. z % n = d
  BY <1>12, ModUnique
<1> QED
  BY <1>2, <1>3, <1>5, <1>10, <1>13

-----------------------------------------------------------------------------
(* Lists with one element more or less *)

(* What InsertAt puts where. *)
LEMMA InsertElems ==
    ASSUME NEW R, NEW s \in Seq(R), NEW i \in 1..(Len(s) + 1), NEW e \in R
    PROVE  /\ InsertAt(s, i, e) \in Seq(R)
           /\ Len(InsertAt(s, i, e)) = Len(s) + 1
           /\ \A j \in 1..(Len(s) + 1) :
                 InsertAt(s, i, e)[j] = IF j < i THEN s[j] ELSE IF j = i THEN e ELSE s[j - 1]
<1> DEFINE a == SubSeq(s, 1, i - 1)
           b == SubSeq(s, i, Len(s))
<1>1. /\ a \in Seq(R) /\ Len(a) = i - 1
      /\ \A j \in 1..(i - 1) : a[j] = s[j]
  OBVIOUS
<1>2. /\ b \in Seq(R) /\ Len(b) = Len(s) + 1 - i
      /\ \A j \in 1..(Len(s) + 1 - i) : b[j] = s[i + j - 1]
  OBVIOUS
<1>3. InsertAt(s, i, e) = (a \o <<e>>) \o b
  BY DEF InsertAt
<1> HIDE DEF a, b
<1> DEFINE c == a \o <<e>>
<1>4. /\ c \in Seq(R) /\ Len(c) = i
      /\ \A j \in 1..i : c[j] = IF j < i THEN s[j] ELSE e
  BY <1>1
<1> HIDE DEF c
<1>5. /\ c \o b \in Seq(R) /\ Len(c \o b) = Len(s) + 1
      /\ \A j \in 1..(Len(s) + 1) : (c \o b)[j] = IF j <= i THEN c[j] ELSE b[j - i]
  BY <1>2, <1>4
<1> QED
  BY <1>2, <1>3, <1>4, <1>5 DEF c

(* The sequence r is s with e as its element i. *)
Inserted(R, s, i, e, r) ==
    /\ r \in Seq(R)
    /\ Len(r) = Len(s) + 1
    /\ \A j \in 1..(Len(s) + 1) : r[j] = IF j < i THEN s[j] ELSE IF j = i THEN e ELSE s[j - 1]

(* The same of InsertAt, in one word. *)
LEMMA InsertAtIs ==
    ASSUME NEW R, NEW s \in Seq(R), NEW i \in 1..(Len(s) + 1), NEW e \in R
    PROVE  Inserted(R, s, i, e, InsertAt(s, i, e))
<1> DEFINE r == InsertAt(s, i, e)
<1>1. /\ r \in Seq(R)
      /\ Len(r) = Len(s) + 1
      /\ \A j \in 1..(Len(s) + 1) : r[j] = IF j < i THEN s[j] ELSE IF j = i THEN e ELSE s[j - 1]
  BY InsertElems
<1> HIDE DEF r
<1> QED
  BY <1>1 DEF Inserted, r

(* What RemoveAt leaves where. *)
LEMMA RemoveElems ==
    ASSUME NEW R, NEW s \in Seq(R), NEW i \in 1..Len(s)
    PROVE  /\ RemoveAt(s, i) \in Seq(R)
           /\ Len(RemoveAt(s, i)) = Len(s) - 1
           /\ \A j \in 1..(Len(s) - 1) :
                 RemoveAt(s, i)[j] = IF j < i THEN s[j] ELSE s[j + 1]
<1> DEFINE a == SubSeq(s, 1, i - 1)
           b == SubSeq(s, i + 1, Len(s))
<1>1. /\ a \in Seq(R) /\ Len(a) = i - 1
      /\ \A j \in 1..(i - 1) : a[j] = s[j]
  OBVIOUS
<1>2. /\ b \in Seq(R) /\ Len(b) = Len(s) - i
      /\ \A j \in 1..(Len(s) - i) : b[j] = s[i + j]
  OBVIOUS
<1>3. RemoveAt(s, i) = a \o b
  BY DEF RemoveAt
<1> HIDE DEF a, b
<1>4. /\ a \o b \in Seq(R) /\ Len(a \o b) = Len(a) + Len(b)
      /\ \A j \in 1..(Len(a) + Len(b)) :
            (a \o b)[j] = IF j <= Len(a) THEN a[j] ELSE b[j - Len(a)]
  <2>1. a \in Seq(R) /\ b \in Seq(R)
    BY <1>1, <1>2
  <2> QED
    BY <2>1
<1> DEFINE c == a \o b
<1> HIDE DEF c
<1>5. c \in Seq(R) /\ Len(c) = Len(s) - 1
  BY <1>1, <1>2, <1>4 DEF c
<1>6. ASSUME NEW j \in 1..(Len(s) - 1)
      PROVE  c[j] = IF j < i THEN s[j] ELSE s[j + 1]
  <2>1. c[j] = IF j <= i - 1 THEN a[j] ELSE b[j - (i - 1)]
    BY <1>1, <1>2, <1>4 DEF c
  <2>2. CASE j < i
    BY <1>1, <2>1, <2>2
  <2>3. CASE ~(j < i)
    <3>1. j - (i - 1) \in 1..(Len(s) - i) /\ i + (j - (i - 1)) = j + 1
      BY <2>3
    <3> QED
      BY <1>2, <2>1, <2>3, <3>1
  <2> QED
    BY <2>2, <2>3
<1> QED
  BY <1>3, <1>5, <1>6 DEF c

-----------------------------------------------------------------------------
(* The least element *)

(* Min finds the least element of a set of naturals. *)
LEMMA MinIs ==
    ASSUME NEW T \in SUBSET Nat, T # {}
    PROVE  Min(T) \in T /\ \A k \in T : Min(T) <= k
<1>1. \E m \in T : \A k \in T : m <= k
  BY LeastNat
<1> QED
  BY <1>1 DEF Min
=============================================================================
