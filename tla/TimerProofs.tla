----------------------------- MODULE TimerProofs -----------------------------
(***************************************************************************)
(* For every set of processes, the delta list of sched.c implements one    *)
(* countdown per process.  The facts about the list are stated for any     *)
(* list q; the last part turns them into steps of TimerSpec.               *)
(***************************************************************************)
EXTENDS Timer, DataFacts

TimerRec == [proc : Procs, expires : Nat]

(* A list of timers of different processes. *)
TimerList(q) ==
    /\ q \in Seq(TimerRec)
    /\ \A i, j \in DOMAIN q : q[i].proc = q[j].proc => i = j

(* The ticks that process p waits for, given the list q. *)
Left(q, p) ==
    IF ~\E i \in DOMAIN q : q[i].proc = p THEN -1
    ELSE EndsAfter(q)[CHOOSE i \in DOMAIN q : q[i].proc = p]

-----------------------------------------------------------------------------
(* The loops *)

(* The fields of the timers of a list. *)
LEMMA TimerFields ==
    ASSUME NEW q \in Seq(TimerRec)
    PROVE  /\ Len(q) \in Nat
           /\ DOMAIN q = 1..Len(q)
           /\ \A i \in 1..Len(q) : q[i] \in TimerRec /\ q[i].expires \in Nat /\ q[i].proc \in Procs
<1>1. Len(q) \in Nat /\ DOMAIN q = 1..Len(q) /\ \A i \in 1..Len(q) : q[i] \in TimerRec
  OBVIOUS
<1> QED
  BY <1>1 DEF TimerRec

(* EndsAfter is what its recursion says. *)
LEMMA EndsAfterDef ==
    ASSUME NEW q \in Seq(TimerRec)
    PROVE  /\ EndsAfter(q) \in [0..Len(q) -> Nat]
           /\ EndsAfter(q)[0] = 0
           /\ \A i \in 1..Len(q) : EndsAfter(q)[i] = EndsAfter(q)[i - 1] + q[i].expires
<1> DEFINE m == Len(q)
           e(i) == IF i \in 1..m THEN q[i].expires ELSE 0
           step == [i \in Nat |-> [v \in Nat |-> v + e(i)]]
           Body(f) == [i \in 0..m |-> IF i = 0 THEN 0 ELSE f[i - 1] + q[i].expires]
           sum == CHOOSE f : f = Body(f)
<1>1. m \in Nat /\ \A i \in 1..m : q[i].expires \in Nat
  BY TimerFields
<1>2. step \in [Nat -> [Nat -> Nat]]
  BY <1>1
<1>3. PICK g \in [0..m -> Nat] : g[0] = 0 /\ \A i \in 1..m : g[i] = step[i][g[i - 1]]
  <2> DEFINE V == Nat
             a == 0
  <2>1. a \in V /\ m \in Nat /\ step \in [Nat -> [V -> V]]
    BY <1>1, <1>2
  <2> HIDE DEF step, m, V, a
  <2>2. LoopRuns(V, a, m, step) # {}
    BY <2>1, LoopValues
  <2> QED
    BY <2>2 DEF V, a, LoopRuns
<1>4. \A i \in 1..m : g[i] = g[i - 1] + q[i].expires
  <2> SUFFICES ASSUME NEW i \in 1..m
               PROVE  g[i] = g[i - 1] + q[i].expires
    OBVIOUS
  <2>1. i \in Nat /\ g[i - 1] \in Nat
    BY <1>1
  <2>2. step[i][g[i - 1]] = g[i - 1] + e(i)
    BY <2>1
  <2> QED
    BY <1>3, <2>2
<1>5. g = Body(g)
  <2>1. \A i \in 0..m : g[i] = Body(g)[i]
    BY <1>3, <1>4
  <2> QED
    BY <2>1
<1>6. sum = Body(sum)
  BY <1>5
<1>7. EndsAfter(q) = sum
  BY DEF EndsAfter
<1> HIDE DEF sum
<1>8. sum[0] = 0 /\ DOMAIN sum = 0..m /\ \A i \in 1..m : sum[i] = sum[i - 1] + q[i].expires
  BY <1>1, <1>6
<1>9. \A i \in 0..m : i \in {k \in Nat : k <= m => sum[k] \in Nat}
  <2> DEFINE T == {k \in Nat : k <= m => sum[k] \in Nat}
  <2>1. 0 \in T
    BY <1>8
  <2>2. \A n \in 0..(m - 1) : n \in T => n + 1 \in T
    BY <1>1, <1>8, SMTT(60)
  <2> HIDE DEF T
  <2>3. \A i \in 0..m : i \in T
    BY <1>1, <2>1, <2>2, BoundedInduction
  <2> QED
    BY <2>3 DEF T
<1>10. sum = [i \in 0..m |-> sum[i]]
  BY <1>6
<1>11. sum \in [0..m -> Nat]
  BY <1>1, <1>9, <1>10
<1> QED
  BY <1>1, <1>7, <1>8, <1>11

(* Rest is t less the ticks of the timers passed. *)
LEMMA RestDef ==
    ASSUME NEW q \in Seq(TimerRec), NEW t \in Nat
    PROVE  \A i \in 0..Len(q) : Rest(q, t)[i] = t - EndsAfter(q)[i]
<1> DEFINE m == Len(q)
           S == EndsAfter(q)
           Body(f) == [i \in 0..m |-> IF i = 0 THEN t ELSE f[i - 1] - q[i].expires]
           g == [i \in 0..m |-> t - S[i]]
           rest == CHOOSE f : f = Body(f)
<1>1. m \in Nat /\ \A i \in 1..m : q[i].expires \in Nat
  BY TimerFields
<1>2. S \in [0..m -> Nat] /\ S[0] = 0 /\ \A i \in 1..m : S[i] = S[i - 1] + q[i].expires
  BY EndsAfterDef
<1> HIDE DEF S
<1>3. g = Body(g)
  <2>1. ASSUME NEW i \in 0..m
        PROVE  g[i] = Body(g)[i]
    <3>1. CASE i = 0
      BY <1>2, <3>1
    <3>2. CASE i # 0
      <4>1. i \in 1..m /\ i - 1 \in 0..m
        BY <1>1, <3>2
      <4>2. g[i - 1] = t - S[i - 1] /\ g[i] = t - S[i] /\ S[i] = S[i - 1] + q[i].expires
        BY <1>2, <4>1
      <4>3. S[i - 1] \in Nat /\ q[i].expires \in Nat
        BY <1>1, <1>2, <4>1
      <4> QED
        BY <3>2, <4>2, <4>3
    <3> QED
      BY <3>1, <3>2
  <2> QED
    BY <2>1
<1>4. rest = Body(rest)
  BY <1>3
<1>5. Rest(q, t) = rest
  BY DEF Rest
<1> HIDE DEF rest
<1>6. rest[0] = t /\ \A i \in 1..m : rest[i] = rest[i - 1] - q[i].expires
  BY <1>1, <1>4
<1>7. \A i \in 0..m : i \in {k \in Nat : k <= m => rest[k] = t - S[k]}
  <2> DEFINE T == {k \in Nat : k <= m => rest[k] = t - S[k]}
  <2>1. 0 \in T
    BY <1>2, <1>6
  <2>2. ASSUME NEW n \in 0..(m - 1), n \in T
        PROVE  n + 1 \in T
    <3>1. n \in 0..m /\ n + 1 \in 1..m /\ n + 1 - 1 = n
      BY <1>1
    <3>2. rest[n] = t - S[n]
      BY <2>2, <3>1
    <3>3. rest[n + 1] = rest[n] - q[n + 1].expires /\ S[n + 1] = S[n] + q[n + 1].expires
      BY <1>2, <1>6, <3>1
    <3>4. S[n] \in Nat /\ q[n + 1].expires \in Nat
      BY <1>1, <1>2, <3>1
    <3> QED
      BY <3>1, <3>2, <3>3, <3>4
  <2> HIDE DEF T
  <2>3. \A i \in 0..m : i \in T
    BY <1>1, <2>1, <2>2, BoundedInduction
  <2> QED
    BY <2>3 DEF T
<1> QED
  BY <1>1, <1>5, <1>7 DEF S

-----------------------------------------------------------------------------
(* One timer more *)

(* r is q with a timer before its timer i, whose ticks the new one shares. *)
OneMore(q, r, i) ==
    /\ q \in Seq(TimerRec) /\ r \in Seq(TimerRec)
    /\ i \in 1..(Len(q) + 1)
    /\ Len(r) = Len(q) + 1
    /\ \A j \in 1..(i - 1) : r[j] = q[j]
    /\ \A j \in i..Len(q) : r[j + 1].proc = q[j].proc
    /\ \A j \in (i + 1)..Len(q) : r[j + 1].expires = q[j].expires
    /\ i <= Len(q) => r[i].expires + r[i + 1].expires = q[i].expires

(* The timers of q end when they did. *)
LEMMA OneMoreSums ==
    ASSUME NEW q, NEW r, NEW i, OneMore(q, r, i)
    PROVE  /\ \A j \in 0..(i - 1) : EndsAfter(r)[j] = EndsAfter(q)[j]
           /\ EndsAfter(r)[i] = EndsAfter(q)[i - 1] + r[i].expires
           /\ \A j \in i..Len(q) : EndsAfter(r)[j + 1] = EndsAfter(q)[j]
<1> DEFINE m == Len(q)
           S == EndsAfter(q)
           Z == EndsAfter(r)
<1>1. /\ m \in Nat /\ i \in 1..(m + 1) /\ Len(r) = m + 1
      /\ \A j \in 1..(i - 1) : r[j] = q[j]
      /\ \A j \in (i + 1)..m : r[j + 1].expires = q[j].expires
      /\ i <= m => r[i].expires + r[i + 1].expires = q[i].expires
  BY DEF OneMore
<1>2. /\ \A j \in 1..m : q[j].expires \in Nat
      /\ \A j \in 1..(m + 1) : r[j].expires \in Nat
  BY <1>1, TimerFields DEF OneMore
<1>3. /\ S \in [0..m -> Nat] /\ S[0] = 0 /\ \A j \in 1..m : S[j] = S[j - 1] + q[j].expires
      /\ Z \in [0..(m + 1) -> Nat] /\ Z[0] = 0 /\ \A j \in 1..(m + 1) : Z[j] = Z[j - 1] + r[j].expires
  BY <1>1, EndsAfterDef DEF OneMore
<1> HIDE DEF m, S, Z
<1>4. \A j \in 0..(i - 1) : Z[j] = S[j]
  <2> DEFINE T == {k \in Nat : k <= i - 1 => Z[k] = S[k]}
  <2>1. 0 \in T
    BY <1>3
  <2>2. ASSUME NEW n \in 0..(i - 1 - 1), n \in T
        PROVE  n + 1 \in T
    <3>1. n + 1 \in 1..(i - 1) /\ n + 1 \in 1..m /\ n + 1 \in 1..(m + 1)
      BY <1>1
    <3>2. Z[n] = S[n] /\ r[n + 1] = q[n + 1]
      BY <1>1, <2>2, <3>1
    <3>3. Z[n + 1] = Z[n] + r[n + 1].expires /\ S[n + 1] = S[n] + q[n + 1].expires
      BY <1>3, <3>1
    <3> QED
      BY <3>2, <3>3
  <2>3. i - 1 \in Nat
    BY <1>1
  <2> HIDE DEF T
  <2>4. \A k \in 0..(i - 1) : k \in T
    BY <2>1, <2>2, <2>3, BoundedInduction
  <2> QED
    BY <2>3, <2>4 DEF T
<1>5. Z[i] = S[i - 1] + r[i].expires
  BY <1>1, <1>3, <1>4
<1>6. \A j \in i..m : Z[j + 1] = S[j]
  <2> DEFINE T == {k \in Nat : i <= k /\ k <= m => Z[k + 1] = S[k]}
  <2>1. 0 \in T
    BY <1>1
  <2>2. ASSUME NEW n \in 0..(m - 1), n \in T, i <= n + 1
        PROVE  Z[n + 2] = S[n + 1]
    <3>1. /\ Z[n + 2] = Z[n + 1] + r[n + 2].expires /\ S[n + 1] = S[n] + q[n + 1].expires
          /\ Z[n + 1] \in Nat /\ S[n] \in Nat
          /\ r[n + 2].expires \in Nat /\ q[n + 1].expires \in Nat
      <4>1. /\ n \in 0..m /\ n + 1 \in 1..m /\ n + 1 \in 0..(m + 1) /\ n + 2 \in 1..(m + 1)
            /\ n + 1 - 1 = n /\ n + 2 - 1 = n + 1
        BY <1>1
      <4> QED
        BY <1>2, <1>3, <4>1
    <3>2. CASE i = n + 1
      <4>1. Z[n + 1] = S[n] + r[n + 1].expires /\ r[n + 1].expires + r[n + 2].expires = q[n + 1].expires
        BY <1>1, <1>5, <3>2
      <4>2. r[n + 1].expires \in Nat
        BY <1>1, <1>2
      <4> QED
        BY <3>1, <4>1, <4>2
    <3>3. CASE i <= n
      <4>1. n + 1 \in (i + 1)..m /\ Z[n + 1] = S[n]
        BY <1>1, <2>2, <3>3
      <4> QED
        BY <1>1, <3>1, <4>1
    <3> QED
      BY <1>1, <2>2, <3>2, <3>3
  <2>3. ASSUME NEW n \in 0..(m - 1), n \in T
        PROVE  n + 1 \in T
    BY <2>2, <2>3
  <2> HIDE DEF T
  <2>4. \A k \in 0..m : k \in T
    BY <1>1, <2>1, <2>3, BoundedInduction
  <2> QED
    BY <1>1, <2>4 DEF T
<1> QED
  BY <1>4, <1>5, <1>6 DEF m, S, Z

(* The ticks left of a process are the sum up to its timer, or -1 without  *)
(* one.                                                                    *)
LEMMA LeftAt ==
    ASSUME NEW q, TimerList(q)
    PROVE  /\ \A i \in 1..Len(q) : Left(q, q[i].proc) = EndsAfter(q)[i]
           /\ \A p : (\A i \in 1..Len(q) : q[i].proc # p) => Left(q, p) = -1
<1>1. DOMAIN q = 1..Len(q)
  BY TimerFields DEF TimerList
<1>2. ASSUME NEW i \in 1..Len(q)
      PROVE  Left(q, q[i].proc) = EndsAfter(q)[i]
  <2>1. (CHOOSE j \in DOMAIN q : q[j].proc = q[i].proc) = i
    BY <1>1 DEF TimerList
  <2> QED
    BY <1>1, <2>1 DEF Left
<1>3. ASSUME NEW p, \A i \in 1..Len(q) : q[i].proc # p
      PROVE  Left(q, p) = -1
  BY <1>1, <1>3 DEF Left
<1> QED
  BY <1>2, <1>3

(* The timer that r has and q has not is one countdown more. *)
LEMMA OneMoreLeft ==
    ASSUME NEW q, NEW r, NEW i, OneMore(q, r, i), TimerList(q), TimerList(r)
    PROVE  /\ Left(r, r[i].proc) = EndsAfter(q)[i - 1] + r[i].expires
           /\ Left(q, r[i].proc) = -1
           /\ \A p : p # r[i].proc => Left(r, p) = Left(q, p)
<1>1. /\ Len(q) \in Nat /\ i \in 1..(Len(q) + 1) /\ Len(r) = Len(q) + 1
      /\ \A j \in 1..(i - 1) : r[j].proc = q[j].proc
      /\ \A j \in i..Len(q) : r[j + 1].proc = q[j].proc
  BY DEF OneMore
<1>2. \A j, k \in 1..Len(r) : r[j].proc = r[k].proc => j = k
  BY <1>1, TimerFields DEF TimerList
<1>3. Left(r, r[i].proc) = EndsAfter(q)[i - 1] + r[i].expires
  BY <1>1, LeftAt, OneMoreSums
<1>4. \A j \in 1..Len(q) : q[j].proc # r[i].proc
  BY <1>1, <1>2
<1>5. ASSUME NEW p, p # r[i].proc
      PROVE  Left(r, p) = Left(q, p)
  <2>1. CASE \E j \in 1..Len(q) : q[j].proc = p
    <3>1. PICK j \in 1..Len(q) : q[j].proc = p
      BY <2>1
    <3>2. Left(q, p) = EndsAfter(q)[j]
      BY <3>1, LeftAt
    <3>3. CASE j < i
      <4>1. j \in 1..(i - 1) /\ j \in 0..(i - 1) /\ j \in 1..Len(r) /\ r[j].proc = p
        BY <1>1, <3>1, <3>3
      <4>2. Left(r, p) = EndsAfter(r)[j]
        BY <4>1, LeftAt
      <4> QED
        BY <3>2, <4>1, <4>2, OneMoreSums
    <3>4. CASE i <= j
      <4>1. j \in i..Len(q) /\ j + 1 \in 1..Len(r) /\ r[j + 1].proc = p
        BY <1>1, <3>1, <3>4
      <4>2. Left(r, p) = EndsAfter(r)[j + 1]
        BY <4>1, LeftAt
      <4> QED
        BY <3>2, <4>1, <4>2, OneMoreSums
    <3> QED
      BY <1>1, <3>3, <3>4
  <2>2. CASE \A j \in 1..Len(q) : q[j].proc # p
    <3>1. ASSUME NEW k \in 1..Len(r)
          PROVE  r[k].proc # p
      <4>1. CASE k < i
        BY <1>1, <2>2, <4>1
      <4>2. CASE k = i
        BY <1>5, <4>2
      <4>3. CASE k > i
        <5>1. k - 1 \in i..Len(q) /\ k - 1 \in 1..Len(q) /\ (k - 1) + 1 = k
          BY <1>1, <4>3
        <5> QED
          BY <1>1, <2>2, <5>1
      <4> QED
        BY <1>1, <4>1, <4>2, <4>3
    <3> QED
      BY <2>2, <3>1, LeftAt
  <2> QED
    BY <2>1, <2>2
<1> QED
  BY <1>3, <1>4, <1>5, LeftAt

(* add_timer stops where the new timer is neither too late nor too early. *)
LEMMA StopAtPlace ==
    ASSUME NEW q \in Seq(TimerRec), NEW t \in Nat
    PROVE  /\ StopAt(q, t) \in 1..(Len(q) + 1)
           /\ EndsAfter(q)[StopAt(q, t) - 1] <= t
           /\ StopAt(q, t) <= Len(q) =>
                 t - EndsAfter(q)[StopAt(q, t) - 1] < q[StopAt(q, t)].expires
<1> DEFINE m == Len(q)
           S == EndsAfter(q)
           X == {j \in 1..Len(q) : Rest(q, t)[j - 1] < q[j].expires} \cup {Len(q) + 1}
           i == StopAt(q, t)
<1>1. m \in Nat /\ \A j \in 1..m : q[j].expires \in Nat
  BY TimerFields
<1>2. S \in [0..m -> Nat] /\ S[0] = 0 /\ \A j \in 1..m : S[j] = S[j - 1] + q[j].expires
  BY EndsAfterDef
<1>3. i \in X /\ \A j \in X : i <= j
  <2>1. X \in SUBSET Nat /\ X # {}
    BY <1>1
  <2>2. i = Min(X)
    BY DEF StopAt
  <2> HIDE DEF X, i
  <2>3. \E j \in X : \A k \in X : j <= k
    BY <2>1, LeastNat
  <2> QED
    BY <2>2, <2>3 DEF Min
<1>4. \A j \in 1..m : Rest(q, t)[j - 1] = t - S[j - 1]
  BY <1>1, RestDef
<1> HIDE DEF i, S
<1>5. i \in 1..(m + 1)
  BY <1>1, <1>3
<1>6. i <= m => t - S[i - 1] < q[i].expires
  BY <1>1, <1>3, <1>4
<1>7. S[i - 1] <= t
  <2>1. CASE i = 1
    BY <1>2, <2>1
  <2>2. CASE i # 1
    <3> DEFINE j == i - 1
    <3>1. j \in 1..m /\ j \notin X
      BY <1>1, <1>3, <1>5, <2>2
    <3>2. ~(t - S[j - 1] < q[j].expires)
      BY <1>4, <3>1
    <3>3. S[j] = S[j - 1] + q[j].expires /\ S[j - 1] \in Nat /\ q[j].expires \in Nat
      BY <1>1, <1>2, <3>1
    <3> QED
      BY <3>2, <3>3
  <2> QED
    BY <2>1, <2>2
<1> QED
  BY <1>5, <1>6, <1>7 DEF i, S

(* add_timer puts a timer where its sum is t and changes no other sum. *)
LEMMA InsertTimer ==
    ASSUME NEW q, TimerList(q), NEW p \in Procs, NEW t \in Nat,
           \A j \in 1..Len(q) : q[j].proc # p
    PROVE  LET r == insert_timer(q, p, t)
               i == StopAt(q, t)
           IN /\ OneMore(q, r, i)
              /\ TimerList(r)
              /\ r[i].proc = p
              /\ EndsAfter(q)[i - 1] + r[i].expires = t
              /\ t > 0 /\ (q # <<>> => q[1].expires > 0) => r[1].expires > 0
<1> DEFINE m == Len(q)
           i == StopAt(q, t)
           rest == t - EndsAfter(q)[i - 1]
           s == shorten_next(q, i, rest)
           e == [proc |-> p, expires |-> rest]
           r == InsertAt(s, i, e)
<1>0. q \in Seq(TimerRec)
  BY DEF TimerList
<1>1. /\ m \in Nat /\ DOMAIN q = 1..m
      /\ \A j \in 1..m : q[j] \in TimerRec /\ q[j].expires \in Nat /\ q[j].proc \in Procs
  BY <1>0, TimerFields
<1>2. /\ i \in 1..(m + 1) /\ EndsAfter(q)[i - 1] <= t
      /\ i <= m => rest < q[i].expires
  BY <1>0, StopAtPlace
<1>3. EndsAfter(q)[i - 1] \in Nat /\ EndsAfter(q)[0] = 0
  BY <1>0, <1>1, <1>2, EndsAfterDef
<1>4. rest \in Nat /\ Rest(q, t)[i - 1] = rest
  <2> HIDE DEF i
  <2>1. i - 1 \in 0..Len(q)
    BY <1>1, <1>2
  <2>2. Rest(q, t)[i - 1] = t - EndsAfter(q)[i - 1]
    BY <1>0, <2>1, RestDef
  <2> QED
    BY <1>2, <1>3, <2>2
<1>5. insert_timer(q, p, t) = r
  BY <1>4 DEF insert_timer
<1> HIDE DEF i, rest
<1>6. /\ s \in Seq(TimerRec) /\ Len(s) = m
      /\ \A j \in 1..m : j # i => s[j] = q[j]
      /\ i <= m => s[i].proc = q[i].proc /\ s[i].expires = q[i].expires - rest
  <2>1. CASE i \in 1..m
    <3>1. s = [q EXCEPT ![i] = [q[i] EXCEPT !.expires = q[i].expires - rest]]
      BY <1>1, <2>1 DEF shorten_next
    <3>2. q[i] \in TimerRec /\ q[i].expires - rest \in Nat
      BY <1>1, <1>2, <1>4, <2>1
    <3>3. /\ [q[i] EXCEPT !.expires = q[i].expires - rest] \in TimerRec
          /\ [q[i] EXCEPT !.expires = q[i].expires - rest].proc = q[i].proc
          /\ [q[i] EXCEPT !.expires = q[i].expires - rest].expires = q[i].expires - rest
      BY <3>2 DEF TimerRec
    <3> HIDE DEF s
    <3> QED
      BY <1>0, <1>1, <2>1, <3>1, <3>3
  <2>2. CASE i = m + 1
    BY <1>0, <1>1, <2>2 DEF shorten_next
  <2> QED
    BY <1>2, <2>1, <2>2
<1>7. e \in TimerRec /\ e.proc = p /\ e.expires = rest
  BY <1>4 DEF TimerRec
<1> HIDE DEF s, e
<1>8. /\ r \in Seq(TimerRec) /\ Len(r) = m + 1
      /\ \A j \in 1..(m + 1) : r[j] = IF j < i THEN s[j] ELSE IF j = i THEN e ELSE s[j - 1]
  BY <1>2, <1>6, <1>7, InsertElems
<1> HIDE DEF r
<1>9. /\ \A j \in 1..(i - 1) : r[j] = q[j]
      /\ r[i] = e
      /\ \A j \in i..m : r[j + 1] = s[j]
  BY <1>1, <1>2, <1>6, <1>8
<1>10. OneMore(q, r, i)
  <2>1. \A j \in i..m : r[j + 1].proc = q[j].proc
    BY <1>1, <1>2, <1>6, <1>9
  <2>2. \A j \in (i + 1)..m : r[j + 1].expires = q[j].expires
    BY <1>1, <1>2, <1>6, <1>9
  <2>3. i <= m => r[i].expires + r[i + 1].expires = q[i].expires
    <3> SUFFICES ASSUME i <= m
                 PROVE  rest + (q[i].expires - rest) = q[i].expires
      BY <1>1, <1>2, <1>6, <1>7, <1>9
    <3> QED
      BY <1>1, <1>2, <1>4
  <2> QED
    BY <1>0, <1>2, <1>8, <1>9, <2>1, <2>2, <2>3 DEF OneMore
<1>11. TimerList(r)
  <2>1. \A j, k \in 1..m : q[j].proc = q[k].proc => j = k
    BY <1>1 DEF TimerList
  <2>2. \A j \in 1..(m + 1) :
           r[j].proc = IF j < i THEN q[j].proc ELSE IF j = i THEN p ELSE q[j - 1].proc
    <3>1. ASSUME NEW j \in 1..(m + 1), j > i
          PROVE  r[j].proc = q[j - 1].proc
      <4>1. j - 1 \in i..m /\ (j - 1) + 1 = j
        BY <1>1, <1>2, <3>1
      <4> QED
        BY <1>10, <4>1 DEF OneMore
    <3> QED
      BY <1>1, <1>2, <1>7, <1>9, <3>1
  <2>3. \A j, k \in 1..(m + 1) : r[j].proc = r[k].proc => j = k
    BY <1>1, <1>2, <2>1, <2>2
  <2>4. DOMAIN r = 1..(m + 1)
    BY <1>8
  <2> QED
    BY <1>8, <2>3, <2>4 DEF TimerList
<1>12. EndsAfter(q)[i - 1] + r[i].expires = t
  BY <1>2, <1>3, <1>7, <1>9 DEF rest
<1>13. ASSUME t > 0, q # <<>> => q[1].expires > 0
       PROVE  r[1].expires > 0
  <2>1. CASE i = 1
    BY <1>3, <1>7, <1>9, <1>13, <2>1 DEF rest
  <2>2. CASE i # 1
    <3>1. 1 \in 1..(i - 1) /\ q # <<>>
      BY <1>0, <1>1, <1>2, <2>2
    <3> QED
      BY <1>9, <1>13, <3>1
  <2> QED
    BY <2>1, <2>2
<1> QED
  BY <1>5, <1>7, <1>9, <1>10, <1>11, <1>12, <1>13 DEF i

(* del_timer takes a timer out and changes no other sum; a list that had   *)
(* not expired still has not.                                              *)
LEMMA RemoveTimer ==
    ASSUME NEW q, TimerList(q), NEW i \in 1..Len(q)
    PROVE  LET r == remove_timer(q, i)
           IN /\ OneMore(r, q, i)
              /\ TimerList(r)
              /\ q[1].expires > 0 /\ r # <<>> => r[1].expires > 0
<1> DEFINE m == Len(q)
           x == q[i].expires
           grown == IF i < m THEN [q EXCEPT ![i + 1].expires = @ + x] ELSE q
           r == RemoveAt(grown, i)
<1>0. q \in Seq(TimerRec)
  BY DEF TimerList
<1>1. /\ m \in Nat /\ DOMAIN q = 1..m
      /\ \A j \in 1..m : q[j] \in TimerRec /\ q[j].expires \in Nat /\ q[j].proc \in Procs
  BY <1>0, TimerFields
<1>2. x \in Nat
  BY <1>1
<1>3. /\ grown \in Seq(TimerRec) /\ Len(grown) = m
      /\ \A j \in 1..m : j # i + 1 => grown[j] = q[j]
      /\ i < m => grown[i + 1].proc = q[i + 1].proc /\ grown[i + 1].expires = q[i + 1].expires + x
  <2> HIDE DEF x
  <2>1. CASE i < m
    <3>1. grown = [q EXCEPT ![i + 1] = [q[i + 1] EXCEPT !.expires = q[i + 1].expires + x]]
      BY <1>1, <2>1
    <3>2. i + 1 \in 1..m /\ q[i + 1] \in TimerRec /\ q[i + 1].expires + x \in Nat
      BY <1>1, <1>2, <2>1
    <3>3. /\ [q[i + 1] EXCEPT !.expires = q[i + 1].expires + x] \in TimerRec
          /\ [q[i + 1] EXCEPT !.expires = q[i + 1].expires + x].proc = q[i + 1].proc
          /\ [q[i + 1] EXCEPT !.expires = q[i + 1].expires + x].expires = q[i + 1].expires + x
      BY <3>2 DEF TimerRec
    <3> HIDE DEF grown
    <3> QED
      BY <1>0, <1>1, <3>1, <3>2, <3>3
  <2>2. CASE ~(i < m)
    BY <1>0, <1>1, <2>2
  <2> QED
    BY <2>1, <2>2
<1>4. remove_timer(q, i) = r
  BY DEF remove_timer
<1> HIDE DEF grown
<1>5. /\ r \in Seq(TimerRec) /\ Len(r) = m - 1
      /\ \A j \in 1..(m - 1) : r[j] = IF j < i THEN grown[j] ELSE grown[j + 1]
  BY <1>3, RemoveElems
<1> HIDE DEF r
<1>6. /\ \A j \in 1..(i - 1) : r[j] = q[j]
      /\ i < m => r[i].proc = q[i + 1].proc /\ r[i].expires = q[i + 1].expires + x
      /\ \A j \in (i + 1)..(m - 1) : r[j] = q[j + 1]
  <2>1. \A j \in 1..(i - 1) : j \in 1..(m - 1) /\ j \in 1..m /\ j # i + 1 /\ j < i
    BY <1>1
  <2>2. i < m => i \in 1..(m - 1) /\ ~(i < i)
    BY <1>1
  <2>3. \A j \in (i + 1)..(m - 1) : j \in 1..(m - 1) /\ j + 1 \in 1..m /\ j + 1 # i + 1 /\ ~(j < i)
    BY <1>1
  <2> QED
    BY <1>3, <1>5, <2>1, <2>2, <2>3
<1>7. OneMore(r, q, i)
  <2>1. \A j \in i..(m - 1) : q[j + 1].proc = r[j].proc
    <3> SUFFICES ASSUME NEW j \in i..(m - 1)
                 PROVE  q[j + 1].proc = r[j].proc
      OBVIOUS
    <3>1. CASE j = i
      BY <1>1, <1>6, <3>1
    <3>2. CASE j > i
      <4>1. j \in (i + 1)..(m - 1)
        BY <3>2
      <4> QED
        BY <1>6, <4>1
    <3> QED
      BY <3>1, <3>2
  <2>2. i <= m - 1 => q[i].expires + q[i + 1].expires = r[i].expires
    BY <1>1, <1>6
  <2>3. i \in 1..(m - 1 + 1) /\ m = m - 1 + 1
    BY <1>1
  <2> QED
    BY <1>0, <1>5, <1>6, <2>1, <2>2, <2>3 DEF OneMore
<1>8. TimerList(r)
  <2>1. \A j, k \in 1..m : q[j].proc = q[k].proc => j = k
    BY <1>1 DEF TimerList
  <2>2. \A j \in 1..(m - 1) : r[j].proc = IF j < i THEN q[j].proc ELSE q[j + 1].proc
    BY <1>1, <1>5, <1>6, <1>7 DEF OneMore
  <2>3. \A j, k \in 1..(m - 1) : r[j].proc = r[k].proc => j = k
    BY <1>1, <2>1, <2>2
  <2>4. DOMAIN r = 1..(m - 1)
    BY <1>5
  <2> QED
    BY <1>5, <2>3, <2>4 DEF TimerList
<1>9. ASSUME q[1].expires > 0, r # <<>>
      PROVE  r[1].expires > 0
  <2>1. m - 1 >= 1
    BY <1>1, <1>5, <1>9
  <2>2. CASE i = 1
    <3>1. r[1].expires = q[2].expires + q[1].expires /\ q[2].expires \in Nat /\ q[1].expires \in Nat
      BY <1>1, <1>6, <2>1, <2>2
    <3> QED
      BY <1>9, <3>1
  <2>3. CASE i # 1
    BY <1>1, <1>6, <1>9, <2>3
  <2> QED
    BY <2>2, <2>3
<1> QED
  BY <1>4, <1>7, <1>8, <1>9

(* A tick off the head is a tick off every timer. *)
LEMMA TickLeft ==
    ASSUME NEW q, TimerList(q), q # <<>>, q[1].expires > 0
    PROVE  LET r == [q EXCEPT ![1].expires = @ - 1]
           IN /\ TimerList(r)
              /\ \A p : Left(r, p) = IF Left(q, p) = -1 THEN -1 ELSE Left(q, p) - 1
<1> DEFINE m == Len(q)
           r == [q EXCEPT ![1].expires = @ - 1]
           S == EndsAfter(q)
           Z == EndsAfter(r)
<1>0. q \in Seq(TimerRec)
  BY DEF TimerList
<1>1. /\ m \in Nat /\ DOMAIN q = 1..m /\ 1 \in 1..m
      /\ \A j \in 1..m : q[j] \in TimerRec /\ q[j].expires \in Nat /\ q[j].proc \in Procs
  BY <1>0, TimerFields
<1>2. /\ r \in Seq(TimerRec) /\ Len(r) = m
      /\ \A j \in 1..m : r[j].proc = q[j].proc
      /\ r[1].expires = q[1].expires - 1
      /\ \A j \in 2..m : r[j].expires = q[j].expires
  <2> DEFINE h == [q[1] EXCEPT !.expires = q[1].expires - 1]
  <2>1. r = [q EXCEPT ![1] = h]
    BY <1>1
  <2>2. q[1] \in TimerRec /\ q[1].expires - 1 \in Nat
    BY <1>1
  <2>3. h \in TimerRec /\ h.proc = q[1].proc /\ h.expires = q[1].expires - 1
    BY <2>2 DEF TimerRec
  <2> HIDE DEF h, r
  <2> QED
    BY <1>0, <1>1, <2>1, <2>3
<1> HIDE DEF r
<1>3. TimerList(r)
  <2>1. DOMAIN r = 1..m
    BY <1>2
  <2> QED
    BY <1>1, <1>2, <2>1 DEF TimerList
<1>4. /\ S \in [0..m -> Nat] /\ S[0] = 0 /\ \A j \in 1..m : S[j] = S[j - 1] + q[j].expires
      /\ Z \in [0..m -> Nat] /\ Z[0] = 0 /\ \A j \in 1..m : Z[j] = Z[j - 1] + r[j].expires
  BY <1>0, <1>2, EndsAfterDef
<1> HIDE DEF S, Z
<1>5. \A j \in 1..m : Z[j] = S[j] - 1
  <2> DEFINE T == {k \in Nat : 1 <= k /\ k <= m => Z[k] = S[k] - 1}
  <2>1. 0 \in T
    OBVIOUS
  <2>2. ASSUME NEW n \in 0..(m - 1), n \in T
        PROVE  n + 1 \in T
    <3>1. n + 1 \in 1..m /\ n + 1 - 1 = n /\ n \in 0..m
      BY <1>1
    <3>2. /\ Z[n + 1] = Z[n] + r[n + 1].expires /\ S[n + 1] = S[n] + q[n + 1].expires
          /\ Z[n] \in Nat /\ S[n] \in Nat /\ q[n + 1].expires \in Nat
      BY <1>1, <1>4, <3>1
    <3>3. n = 0 => Z[n + 1] = S[n + 1] - 1
      BY <1>2, <1>4, <3>1, <3>2
    <3>4. n # 0 => Z[n] = S[n] - 1 /\ r[n + 1].expires = q[n + 1].expires
      BY <1>2, <2>2, <3>1
    <3>5. Z[n + 1] = S[n + 1] - 1
      BY <3>2, <3>3, <3>4
    <3> QED
      BY <3>1, <3>5
  <2> HIDE DEF T
  <2>3. \A k \in 0..m : k \in T
    BY <1>1, <2>1, <2>2, BoundedInduction
  <2> QED
    BY <1>1, <2>3 DEF T
<1>6. ASSUME NEW p
      PROVE  Left(r, p) = IF Left(q, p) = -1 THEN -1 ELSE Left(q, p) - 1
  <2>1. CASE \E j \in 1..m : q[j].proc = p
    <3>1. PICK j \in 1..m : q[j].proc = p
      BY <2>1
    <3>2. Left(q, p) = S[j] /\ Left(r, p) = Z[j]
      BY <1>2, <1>3, <3>1, LeftAt DEF S, Z
    <3>3. S[j] \in Nat
      BY <1>4
    <3> QED
      BY <1>5, <3>2, <3>3
  <2>2. CASE \A j \in 1..m : q[j].proc # p
    BY <1>2, <1>3, <2>2, LeftAt
  <2> QED
    BY <2>1, <2>2
<1> QED
  BY <1>3, <1>6 DEF r

(* No timer ends before the head. *)
LEMMA HeadEndsFirst ==
    ASSUME NEW q \in Seq(TimerRec)
    PROVE  \A j \in 1..Len(q) : EndsAfter(q)[j] >= q[1].expires
<1> DEFINE m == Len(q)
           S == EndsAfter(q)
           T == {k \in Nat : 1 <= k /\ k <= m => S[k] >= q[1].expires}
<1>1. m \in Nat /\ \A j \in 1..m : q[j].expires \in Nat
  BY TimerFields
<1>2. S \in [0..m -> Nat] /\ S[0] = 0 /\ \A j \in 1..m : S[j] = S[j - 1] + q[j].expires
  BY EndsAfterDef
<1> HIDE DEF S
<1>3. 0 \in T
  OBVIOUS
<1>4. ASSUME NEW n \in 0..(m - 1), n \in T
      PROVE  n + 1 \in T
  <2>1. n + 1 \in 1..m /\ n + 1 - 1 = n /\ n \in 0..m /\ 1 \in 1..m
    BY <1>1
  <2>2. /\ S[n + 1] = S[n] + q[n + 1].expires /\ S[n] \in Nat
        /\ q[n + 1].expires \in Nat /\ q[1].expires \in Nat
    BY <1>1, <1>2, <2>1
  <2>3. CASE n = 0
    BY <1>2, <2>2, <2>3
  <2>4. CASE n # 0
    BY <1>4, <2>1, <2>2, <2>4
  <2> QED
    BY <2>3, <2>4
<1>5. \A k \in 0..m : k \in T
  <2> HIDE DEF T
  <2> QED
    BY <1>1, <1>3, <1>4, BoundedInduction
<1> QED
  BY <1>1, <1>5 DEF S

-----------------------------------------------------------------------------
(* The steps *)

(* TicksLeft in terms of the list. *)
LEMMA TicksLeftIs ==
    ASSUME NEW p
    PROVE  TicksLeft(p) = Left(timer_list, p)
BY DEF TicksLeft, Left, Pending

(* ListInv in terms of the list. *)
LEMMA ListInvIs ==
    ListInv <=> /\ TimerList(timer_list)
                /\ in_tick \in BOOLEAN
                /\ ~in_tick /\ timer_list # <<>> => timer_list[1].expires > 0
BY DEF ListInv, TimerList, TimerRec

(* The countdowns that the list stands for. *)
Lefts(q) == [p \in Procs |-> Left(q, p)]

(* add_timer keeps the invariant and implements Add. *)
LEMMA AddStep ==
    ASSUME ListInv, NEW p \in Procs, NEW t \in 1..MaxSleep, add_timer(p, t)
    PROVE  ListInv' /\ Abstract!Add(p, t)
<1> DEFINE q == timer_list
           r == insert_timer(q, p, t)
           i == StopAt(q, t)
<1>1. /\ TimerList(q) /\ ~in_tick /\ in_tick' = in_tick /\ timer_list' = r
      /\ \A j \in DOMAIN q : q[j].proc # p
      /\ q # <<>> => q[1].expires > 0
  BY ListInvIs DEF add_timer, Pending
<1>2. DOMAIN q = 1..Len(q) /\ t \in Nat /\ t > 0
  BY <1>1, TimerFields, SleepAssumption DEF TimerList
<1>3. /\ OneMore(q, r, i) /\ TimerList(r) /\ r[i].proc = p
      /\ EndsAfter(q)[i - 1] + r[i].expires = t
      /\ r[1].expires > 0
  BY <1>1, <1>2, InsertTimer
<1> HIDE DEF q, r, i
<1>4. Left(r, p) = t /\ Left(q, p) = -1 /\ \A x \in Procs : x # p => Left(r, x) = Left(q, x)
  BY <1>1, <1>3, OneMoreLeft
<1>5. ListInv'
  BY <1>1, <1>3, ListInvIs DEF ListInv, TimerList, TimerRec
<1>6. Lefts(r) = [Lefts(q) EXCEPT ![p] = t] /\ Lefts(q)[p] = -1
  BY <1>4 DEF Lefts
<1>7. /\ [x \in Procs |-> TicksLeft(x)] = Lefts(q)
      /\ [x \in Procs |-> TicksLeft(x)]' = Lefts(r)
  BY <1>1 DEF Lefts, TicksLeft, Left, Pending, q
<1> QED
  BY <1>1, <1>5, <1>6, <1>7 DEF Abstract!Add, Abstract!NoTimer

(* What taking timer i out of the list does to the countdowns. *)
LEMMA RemoveLefts ==
    ASSUME NEW q, TimerList(q), NEW i \in 1..Len(q)
    PROVE  Lefts(remove_timer(q, i)) = [Lefts(q) EXCEPT ![q[i].proc] = -1]
<1> DEFINE r == remove_timer(q, i)
<1>1. OneMore(r, q, i) /\ TimerList(r)
  BY RemoveTimer
<1> HIDE DEF r
<1>2. Left(r, q[i].proc) = -1 /\ \A x : x # q[i].proc => Left(r, x) = Left(q, x)
  BY <1>1, OneMoreLeft
<1> QED
  BY <1>2 DEF Lefts, r

(* del_timer keeps the invariant and implements Delete. *)
LEMMA DeleteStep ==
    ASSUME ListInv, NEW p \in Procs, del_timer(p)
    PROVE  ListInv' /\ Abstract!Delete(p)
<1> DEFINE q == timer_list
           i == CHOOSE j \in DOMAIN q : q[j].proc = p
<1>1. /\ TimerList(q) /\ ~in_tick /\ in_tick' = in_tick
      /\ timer_list' = IF Pending(p) THEN remove_timer(q, i) ELSE q
      /\ q # <<>> => q[1].expires > 0
  BY ListInvIs DEF del_timer
<1>2. DOMAIN q = 1..Len(q) /\ q \in Seq(TimerRec)
  BY <1>1, TimerFields DEF TimerList
<1>3. /\ [x \in Procs |-> TicksLeft(x)] = Lefts(q)
      /\ [x \in Procs |-> TicksLeft(x)]' = Lefts(timer_list')
  BY <1>1 DEF Lefts, TicksLeft, Left, Pending, q
<1>4. CASE Pending(p)
  <2>1. i \in 1..Len(q) /\ q[i].proc = p
    BY <1>2, <1>4 DEF Pending
  <2>2. q # <<>>
    BY <1>2, <2>1
  <2> HIDE DEF i, q
  <2>3. timer_list' = remove_timer(q, i)
    BY <1>1, <1>4
  <2>4. TimerList(timer_list') /\ (timer_list' # <<>> => timer_list'[1].expires > 0)
    BY <1>1, <2>1, <2>2, <2>3, RemoveTimer
  <2>5. Lefts(timer_list') = [Lefts(q) EXCEPT ![p] = -1]
    BY <1>1, <2>1, <2>3, RemoveLefts
  <2>6. ListInv'
    BY <1>1, <2>4 DEF ListInv, TimerList, TimerRec
  <2> QED
    BY <1>1, <1>3, <2>5, <2>6 DEF Abstract!Delete, Abstract!NoTimer
<1>5. CASE ~Pending(p)
  <2>1. Lefts(q)[p] = -1
    BY <1>5 DEF Lefts, Left, Pending
  <2>2. [Lefts(q) EXCEPT ![p] = -1] = Lefts(q)
    BY <2>1 DEF Lefts
  <2>3. timer_list' = timer_list
    BY <1>1, <1>5
  <2>4. ListInv'
    BY <1>1, <2>3 DEF ListInv
  <2> QED
    BY <1>1, <1>3, <2>2, <2>3, <2>4 DEF Abstract!Delete, Abstract!NoTimer
<1> QED
  BY <1>4, <1>5

(* The decrement of run_timer_list keeps the invariant and implements      *)
(* Tick.                                                                   *)
LEMMA TickStep ==
    ASSUME ListInv, run_timer_list
    PROVE  ListInv' /\ Abstract!Tick
<1> DEFINE q == timer_list
<1>1. /\ TimerList(q) /\ ~in_tick /\ in_tick' = TRUE
      /\ timer_list' = IF q = <<>> THEN q ELSE [q EXCEPT ![1].expires = @ - 1]
      /\ q # <<>> => q[1].expires > 0
  BY ListInvIs DEF run_timer_list
<1>2. /\ [x \in Procs |-> TicksLeft(x)] = Lefts(q)
      /\ [x \in Procs |-> TicksLeft(x)]' = Lefts(timer_list')
  BY <1>1 DEF Lefts, TicksLeft, Left, Pending, q
<1>3. /\ TimerList(timer_list')
      /\ \A p \in Procs : Left(timer_list', p) = IF Left(q, p) = -1 THEN -1 ELSE Left(q, p) - 1
  <2>1. CASE q = <<>>
    <3>1. \A p \in Procs : Left(q, p) = -1
      BY <2>1 DEF Left
    <3> QED
      BY <1>1, <2>1, <3>1
  <2>2. CASE q # <<>>
    BY <1>1, <2>2, TickLeft
  <2> QED
    BY <2>1, <2>2
<1>4. Lefts(timer_list') = [p \in Procs |-> IF Lefts(q)[p] = -1 THEN -1 ELSE Lefts(q)[p] - 1]
  BY <1>3 DEF Lefts
<1>5. ListInv'
  BY <1>1, <1>3 DEF ListInv, TimerList, TimerRec
<1> QED
  BY <1>1, <1>2, <1>4, <1>5 DEF Abstract!Tick, Abstract!NoTimer

(* A turn of the loop of run_timer_list keeps the invariant and implements *)
(* Expire.                                                                 *)
LEMMA ExpireStep ==
    ASSUME ListInv, run_timer_list_expire
    PROVE  ListInv' /\ \E p \in Procs : Abstract!Expire(p)
<1> DEFINE q == timer_list
           p == q[1].proc
<1>1. /\ TimerList(q) /\ in_tick /\ in_tick' = in_tick /\ timer_list' = remove_timer(q, 1)
      /\ q # <<>> /\ q[1].expires = 0
  BY ListInvIs DEF run_timer_list_expire, ended
<1>2. /\ [x \in Procs |-> TicksLeft(x)] = Lefts(q)
      /\ [x \in Procs |-> TicksLeft(x)]' = Lefts(timer_list')
  BY <1>1 DEF Lefts, TicksLeft, Left, Pending, q
<1> HIDE DEF q
<1>3. q \in Seq(TimerRec) /\ 1 \in 1..Len(q) /\ p \in Procs
  BY <1>1, TimerFields DEF TimerList
<1>4. Left(q, p) = 0
  <2>1. Left(q, p) = EndsAfter(q)[1]
    BY <1>1, <1>3, LeftAt
  <2>2. EndsAfter(q)[1] = EndsAfter(q)[0] + q[1].expires /\ EndsAfter(q)[0] = 0
    BY <1>3, EndsAfterDef
  <2> QED
    BY <1>1, <2>1, <2>2
<1>5. TimerList(timer_list') /\ Lefts(timer_list') = [Lefts(q) EXCEPT ![p] = -1]
  BY <1>1, <1>3, RemoveTimer, RemoveLefts
<1>6. ListInv'
  BY <1>1, <1>5, ListInvIs DEF ListInv, TimerList, TimerRec
<1>7. Abstract!Expire(p)
  BY <1>1, <1>2, <1>3, <1>4, <1>5 DEF Lefts, Abstract!Expire, Abstract!NoTimer
<1> QED
  BY <1>3, <1>6, <1>7

(* The end of run_timer_list keeps the invariant and implements EndTick. *)
LEMMA EndStep ==
    ASSUME ListInv, run_timer_list_end
    PROVE  ListInv' /\ Abstract!EndTick
<1> DEFINE q == timer_list
<1>1. /\ TimerList(q) /\ in_tick /\ in_tick' = FALSE /\ timer_list' = q
      /\ q = <<>> \/ q[1].expires # 0
  BY ListInvIs DEF run_timer_list_end, ended
<1>2. /\ [x \in Procs |-> TicksLeft(x)] = Lefts(q)
      /\ [x \in Procs |-> TicksLeft(x)]' = Lefts(q)
  BY <1>1 DEF Lefts, TicksLeft, Left, Pending, q
<1>3. q \in Seq(TimerRec) /\ (q # <<>> => 1 \in 1..Len(q) /\ q[1].expires > 0)
  BY <1>1, TimerFields DEF TimerList
<1>4. ListInv'
  BY <1>1, <1>3 DEF ListInv, TimerList, TimerRec
<1> HIDE DEF q
<1>5. ASSUME NEW p \in Procs
      PROVE  Left(q, p) # 0
  <2>1. CASE \E j \in 1..Len(q) : q[j].proc = p
    <3>1. PICK j \in 1..Len(q) : q[j].proc = p
      BY <2>1
    <3>2. Left(q, p) = EndsAfter(q)[j] /\ EndsAfter(q)[j] >= q[1].expires /\ q[1].expires \in Nat
      BY <1>1, <1>3, <3>1, LeftAt, HeadEndsFirst, TimerFields
    <3>3. q # <<>> /\ EndsAfter(q)[j] \in Nat
      BY <1>3, EndsAfterDef
    <3> QED
      BY <1>3, <3>2, <3>3
  <2>2. CASE \A j \in 1..Len(q) : q[j].proc # p
    BY <1>1, <2>2, LeftAt
  <2> QED
    BY <2>1, <2>2
<1>6. \A p \in Procs : Lefts(q)[p] # 0
  BY <1>5 DEF Lefts
<1> QED
  BY <1>1, <1>2, <1>4, <1>6 DEF Abstract!EndTick

(* The initial state has the invariant and is one of the abstract          *)
(* specification.                                                          *)
LEMMA TimerInit == Init => ListInv /\ Abstract!Init
<1> SUFFICES ASSUME Init
             PROVE  ListInv /\ Abstract!Init
  OBVIOUS
<1>1. ListInv
  <2>1. timer_list \in Seq([proc : Procs, expires : Nat]) /\ DOMAIN timer_list = {}
    BY DEF Init
  <2> QED
    BY <2>1 DEF Init, ListInv
<1>2. \A p \in Procs : TicksLeft(p) = -1
  BY DEF Init, TicksLeft, Pending
<1> QED
  BY <1>1, <1>2 DEF Init, Abstract!Init, Abstract!NoTimer

(* Every step keeps the invariant and is a step of the abstract            *)
(* specification or a stutter.                                             *)
LEMMA TimerNext ==
    ListInv /\ [Next]_vars => ListInv' /\ [Abstract!Next]_(Abstract!specVars)
<1> SUFFICES ASSUME ListInv, [Next]_vars
             PROVE  ListInv' /\ [Abstract!Next]_(Abstract!specVars)
  OBVIOUS
<1>1. ASSUME NEW p \in Procs, NEW t \in 1..MaxSleep, add_timer(p, t)
      PROVE  ListInv' /\ Abstract!Next
  BY <1>1, AddStep DEF Abstract!Next
<1>2. ASSUME NEW p \in Procs, del_timer(p)
      PROVE  ListInv' /\ Abstract!Next
  BY <1>2, DeleteStep DEF Abstract!Next
<1>3. CASE run_timer_list
  BY <1>3, TickStep DEF Abstract!Next
<1>4. CASE run_timer_list_expire
  BY <1>4, ExpireStep DEF Abstract!Next
<1>5. CASE run_timer_list_end
  BY <1>5, EndStep DEF Abstract!Next
<1>6. CASE UNCHANGED vars
  <2>1. ListInv'
    BY <1>6 DEF ListInv, vars
  <2>2. UNCHANGED Abstract!specVars
    BY <1>6 DEF vars, Abstract!specVars, TicksLeft, Pending
  <2> QED
    BY <2>1, <2>2
<1> QED
  BY <1>1, <1>2, <1>3, <1>4, <1>5, <1>6 DEF Next

(* In every state of the timer list, no process has two timers, no expires *)
(* has wrapped below zero, and outside the clock interrupt handler no      *)
(* timer is overdue.                                                       *)
THEOREM TimerListSound == Spec => []ListInv
<1>1. Init => ListInv
  BY TimerInit
<1>2. ListInv /\ [Next]_vars => ListInv'
  BY TimerNext
<1> QED
  BY <1>1, <1>2, PTL DEF Spec

(* The delta list of sched.c implements one countdown per process, for any *)
(* number of processes: adding or deleting a timer changes the end of no   *)
(* other, and each tick ends exactly the timers that are due.              *)
THEOREM TimersCountDown == Spec => CountsDown
<1>1. Init => Abstract!Init
  BY TimerInit
<1>2. ListInv /\ [Next]_vars => [Abstract!Next]_(Abstract!specVars)
  BY TimerNext
<1> QED
  BY <1>1, <1>2, TimerListSound, PTL DEF Spec, CountsDown, Abstract!Spec
=============================================================================
