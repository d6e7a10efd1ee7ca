---------------------------- MODULE SeriesProofs ----------------------------
(***************************************************************************)
(* What the runs check of the series that are drawn, proved for all rows   *)
(* and releases: the totals by induction on the releases and on the ranges *)
(* of the binary search, the line by an inductive invariant that compares  *)
(* the points drawn with the rows visited at every moment, and what is     *)
(* written of a fraction by the errors of its three roundings.             *)
(***************************************************************************)
EXTENDS Series, FiniteSetTheorems, WellFoundedInduction, TLAPS

(***************************************************************************)
(* Induction on the natural numbers, for a set G that contains zero and    *)
(* with every number the next.                                             *)
(***************************************************************************)
LEMMA AllNumbers ==
  ASSUME NEW G, 0 \in G, \A n \in Nat : n \in G => n + 1 \in G
  PROVE  \A n \in Nat : n \in G
<1> SUFFICES ASSUME NEW k \in Nat, k \notin G PROVE FALSE
  OBVIOUS
<1> DEFINE S == { n \in Nat : n \notin G }
<1>1. PICK n \in S : \A m \in S : ~ (<<m, n>> \in OpToRel(<, Nat))
  <2>1. S \subseteq Nat /\ S # {}
    OBVIOUS
  <2> HIDE DEF S
  <2> QED BY <2>1, NatLessThanWellFounded, WFMin
<1>2. n \in Nat /\ n - 1 \in Nat /\ n - 1 < n
  OBVIOUS
<1>3. n - 1 \notin S
  <2>1. <<n - 1, n>> \in OpToRel(<, Nat)
    BY <1>2, Zenon DEF OpToRel
  <2> QED BY <1>1, <2>1
<1>4. n - 1 \in G
  BY <1>2, <1>3
<1> QED BY <1>2, <1>4

-----------------------------------------------------------------------------
(***************************************************************************)
(* A range of more than one place is halved into a smaller one of the same *)
(* vector, and what is left is not the smaller half.                       *)
(***************************************************************************)
LEMMA Halving ==
  ASSUME NEW n \in Nat, NEW r \in Ranges(n), r.size # 1, NEW seq, NEW t
  PROVE  /\ r.size \div 2 \in 1 .. r.size - 1
         /\ r.size \div 2 <= r.size - r.size \div 2
         /\ Half(seq, t, r) = [size |-> r.size - r.size \div 2,
              base |-> IF seq[r.base + r.size \div 2] > t THEN r.base ELSE r.base + r.size \div 2]
         /\ Half(seq, t, r) \in Ranges(n)
         /\ Half(seq, t, r).size < r.size
<1>1. r.size \in 2 .. n /\ r.base \in 1 .. n /\ r.base + r.size - 1 <= n
  BY DEF Ranges
<1>2. r.size \div 2 \in 1 .. r.size - 1 /\ r.size \div 2 <= r.size - r.size \div 2
  BY <1>1
<1> DEFINE h == r.size \div 2
<1>3. Half(seq, t, r) = [size |-> r.size - h,
              base |-> IF seq[r.base + h] > t THEN r.base ELSE r.base + h]
  BY DEF Half
<1> HIDE DEF h
<1>4. h \in 1 .. r.size - 1
  BY <1>2 DEF h
<1>5. /\ r.size - h \in 1 .. n /\ r.size - h < r.size
      /\ r.base \in 1 .. n /\ r.base + h \in 1 .. n
      /\ r.base + (r.size - h) - 1 <= n /\ (r.base + h) + (r.size - h) - 1 <= n
  BY <1>1, <1>4
<1>6. Half(seq, t, r) \in Ranges(n) /\ Half(seq, t, r).size < r.size
  <2>1. CASE seq[r.base + h] > t
    BY <1>3, <1>5, <2>1 DEF Ranges
  <2>2. CASE ~ (seq[r.base + h] > t)
    BY <1>3, <1>5, <2>2 DEF Ranges
  <2> QED BY <2>1, <2>2
<1> QED BY <1>2, <1>3, <1>6 DEF h

(***************************************************************************)
(* The recursive function of Narrowed, by itself.                          *)
(***************************************************************************)
NarrowOf(seq, t) ==
  CHOOSE f : f = [r \in Ranges(Len(seq)) |-> IF r.size = 1 THEN r.base ELSE f[Half(seq, t, r)]]

(***************************************************************************)
(* There is such a function: the step of a range asks for a smaller range  *)
(* only.                                                                   *)
(***************************************************************************)
LEMMA NarrowExists ==
  ASSUME NEW seq, NEW t, Len(seq) \in Nat
  PROVE  /\ NarrowOf(seq, t) = [r \in Ranges(Len(seq)) |->
              IF r.size = 1 THEN r.base ELSE NarrowOf(seq, t)[Half(seq, t, r)]]
         /\ Narrowed(seq, t) = NarrowOf(seq, t)[[size |-> Len(seq), base |-> 1]]
<1> DEFINE n == Len(seq)
           Small(k) == { r \in Ranges(n) : r.size <= k }
           Is(f, k) == f = [r \in Small(k) |-> IF r.size = 1 THEN r.base ELSE f[Half(seq, t, r)]]
           G == { k \in Nat : \E f : Is(f, k) }
<1>1. 0 \in G
  <2>1. Small(0) = {}
    BY DEF Ranges
  <2> DEFINE e == [r \in Small(0) |-> 0]
  <2>2. Is(e, 0)
    BY <2>1
  <2> QED BY <2>2
<1>2. ASSUME NEW k \in Nat, k \in G PROVE k + 1 \in G
  <2>1. PICK f : Is(f, k)
    BY <1>2
  <2> DEFINE g == [r \in Small(k + 1) |-> IF r.size = 1 THEN r.base ELSE f[Half(seq, t, r)]]
  <2>2. \A r \in Small(k) : r \in Small(k + 1) /\ g[r] = f[r]
    <3>1. Small(k) \subseteq Small(k + 1)
      BY DEF Ranges
    <3>2. \A r \in Small(k) : f[r] = IF r.size = 1 THEN r.base ELSE f[Half(seq, t, r)]
      BY <2>1
    <3> QED BY <3>1, <3>2
  <2>3. \A r \in Small(k + 1) : r.size # 1 => Half(seq, t, r) \in Small(k)
    <3> SUFFICES ASSUME NEW r \in Small(k + 1), r.size # 1 PROVE Half(seq, t, r) \in Small(k)
      OBVIOUS
    <3>1. r \in Ranges(n) /\ n \in Nat /\ r.size <= k + 1 /\ r.size \in Nat
      BY DEF Ranges
    <3>2. Half(seq, t, r) \in Ranges(n) /\ Half(seq, t, r).size < r.size
      BY <3>1, Halving
    <3>3. Half(seq, t, r).size \in Nat
      BY <3>2 DEF Ranges
    <3> HIDE DEF n
    <3> QED BY <3>1, <3>2, <3>3
  <2>4. \A r \in Small(k + 1) : g[r] = IF r.size = 1 THEN r.base ELSE g[Half(seq, t, r)]
    <3> SUFFICES ASSUME NEW r \in Small(k + 1)
                 PROVE g[r] = IF r.size = 1 THEN r.base ELSE g[Half(seq, t, r)]
      OBVIOUS
    <3>1. CASE r.size = 1
      BY <3>1
    <3>2. CASE r.size # 1
      <4>1. g[r] = f[Half(seq, t, r)]
        BY <3>2
      <4>2. g[Half(seq, t, r)] = f[Half(seq, t, r)]
        <5> HIDE DEF g, Small
        <5> QED BY <2>2, <2>3, <3>2
      <4> HIDE DEF g, Small
      <4> QED BY <4>1, <4>2, <3>2
    <3> QED BY <3>1, <3>2
  <2>5. DOMAIN g = Small(k + 1) /\ g = [r \in Small(k + 1) |-> g[r]]
    OBVIOUS
  <2>6. Is(g, k + 1)
    <3> HIDE DEF g, Small
    <3> QED BY <2>4, <2>5
  <2> HIDE DEF Is
  <2> QED BY <2>6
<1>3. \A k \in Nat : k \in G
  <2> HIDE DEF G
  <2> QED BY <1>1, <1>2, AllNumbers
<1>4. PICK f : Is(f, n)
  BY <1>3
<1>5. Small(n) = Ranges(n)
  BY DEF Ranges
<1>6. f = [r \in Ranges(n) |-> IF r.size = 1 THEN r.base ELSE f[Half(seq, t, r)]]
  BY <1>4, <1>5
<1>7. \E h : h = [r \in Ranges(Len(seq)) |-> IF r.size = 1 THEN r.base ELSE h[Half(seq, t, r)]]
  BY <1>6
<1>8. NarrowOf(seq, t) = [r \in Ranges(Len(seq)) |->
              IF r.size = 1 THEN r.base ELSE NarrowOf(seq, t)[Half(seq, t, r)]]
  BY <1>7 DEF NarrowOf
<1>9. Narrowed(seq, t) = NarrowOf(seq, t)[[size |-> Len(seq), base |-> 1]]
  BY DEF Narrowed, NarrowOf
<1> QED BY <1>8, <1>9

-----------------------------------------------------------------------------
(***************************************************************************)
(* n of the elements of seq are at most t, and they are the first n.       *)
(***************************************************************************)
UpTo(seq, t, n) ==
  /\ n \in 0 .. Len(seq)
  /\ \A k \in 1 .. Len(seq) : seq[k] <= t <=> k <= n

(***************************************************************************)
(* What is found in a range: the last place up to t if it lies there, and  *)
(* the first of the range if it lies before.                               *)
(***************************************************************************)
Finds(seq, n, r, place) ==
  /\ place \in r.base .. r.base + r.size - 1
  /\ n \in r.base .. r.base + r.size - 1 => place = n
  /\ n < r.base => place = r.base

(***************************************************************************)
(* The binary search, which compares one element in each round, comes to   *)
(* that place, whatever the vector and however often its elements repeat.  *)
(***************************************************************************)
LEMMA NarrowFinds ==
  ASSUME NEW seq \in Seq(Int), NEW t \in Int, NEW n, UpTo(seq, t, n),
         NEW r \in Ranges(Len(seq))
  PROVE  Finds(seq, n, r, NarrowOf(seq, t)[r])
<1> DEFINE N == Len(seq)
           f == NarrowOf(seq, t)
           G == { k \in Nat : \A x \in Ranges(N) : x.size <= k => Finds(seq, n, x, f[x]) }
<1>0. N \in Nat /\ n \in Int
  BY DEF UpTo
<1>1. \A x \in Ranges(N) : f[x] = IF x.size = 1 THEN x.base ELSE f[Half(seq, t, x)]
  <2>1. f = [x \in Ranges(N) |-> IF x.size = 1 THEN x.base ELSE f[Half(seq, t, x)]]
    BY <1>0, NarrowExists
  <2> HIDE DEF f, N
  <2> QED BY <2>1
<1>2. \A x \in Ranges(N) : /\ x.size \in 1 .. N /\ x.base \in 1 .. N
                           /\ x.base + x.size - 1 <= N
  BY DEF Ranges
<1> HIDE DEF f
<1>3. 0 \in G
  BY <1>0, <1>2
<1>4. ASSUME NEW k \in Nat, k \in G PROVE k + 1 \in G
  <2> SUFFICES ASSUME NEW x \in Ranges(N), x.size <= k + 1 PROVE Finds(seq, n, x, f[x])
    OBVIOUS
  <2>1. CASE x.size = 1
    <3>1. f[x] = x.base
      BY <1>1, <2>1
    <3> HIDE DEF N
    <3> QED BY <3>1, <1>2, <1>0, <2>1 DEF Finds
  <2>2. CASE x.size # 1
    <3> DEFINE s == x.size
               b == x.base
               h == s \div 2
               y == Half(seq, t, x)
    <3>1. /\ h \in 1 .. s - 1 /\ h <= s - h /\ y \in Ranges(N)
          /\ y = [size |-> s - h, base |-> IF seq[b + h] > t THEN b ELSE b + h]
      BY <2>2, <1>0, Halving
    <3>2. f[x] = f[y]
      BY <1>1, <2>2
    <3>3. b \in Int /\ s \in Int /\ b >= 1 /\ s >= 1 /\ b + s - 1 <= N /\ s <= k + 1
      BY <1>2, <1>0
    <3> HIDE DEF h, y, s, b
    <3>4. h \in Int /\ h >= 1 /\ h <= s - 1 /\ h <= s - h
      BY <3>1, <3>3
    <3> HIDE DEF N
    <3>5. b + h \in 1 .. N /\ s - h <= k
      BY <3>3, <3>4, <1>0
    <3>6. y.size <= k
      BY <3>1, <3>5
    <3>7. Finds(seq, n, y, f[y])
      BY <3>1, <3>6, <1>4
    <3>8. seq[b + h] \in Int /\ (seq[b + h] <= t <=> b + h <= n)
      BY <3>5 DEF UpTo, N
    <3>9. /\ f[y] \in b .. b + s - 1
          /\ n \in b .. b + s - 1 => f[y] = n
          /\ n < b => f[y] = b
      <4>1. CASE seq[b + h] > t
        <5>1. y.base = b /\ y.size = s - h /\ ~ (b + h <= n)
          BY <3>1, <3>8, <4>1
        <5>2. /\ f[y] \in b .. b + (s - h) - 1
              /\ n \in b .. b + (s - h) - 1 => f[y] = n
              /\ n < b => f[y] = b
          BY <5>1, <3>7 DEF Finds
        <5> QED BY <5>1, <5>2, <3>3, <3>4, <1>0
      <4>2. CASE ~ (seq[b + h] > t)
        <5>1. y.base = b + h /\ y.size = s - h /\ b + h <= n
          BY <3>1, <3>8, <4>2
        <5>2. /\ f[y] \in b + h .. b + h + (s - h) - 1
              /\ n \in b + h .. b + h + (s - h) - 1 => f[y] = n
          BY <5>1, <3>7 DEF Finds
        <5> QED BY <5>1, <5>2, <3>3, <3>4, <1>0
      <4> QED BY <4>1, <4>2
    <3> QED BY <3>2, <3>9 DEF Finds, s, b
  <2> QED BY <2>1, <2>2
<1>5. \A k \in Nat : k \in G
  <2> HIDE DEF G
  <2> QED BY <1>3, <1>4, AllNumbers
<1>6. N \in G
  BY <1>5, <1>0
<1>7. r.size <= N
  BY <1>2
<1>8. Finds(seq, n, r, f[r])
  BY <1>6, <1>7
<1> QED BY <1>8 DEF f

(***************************************************************************)
(* So Total::eval counts all elements up to t.                             *)
(***************************************************************************)
LEMMA SearchCounts ==
  ASSUME NEW seq \in Seq(Int), NEW t \in Int, NEW n, UpTo(seq, t, n)
  PROVE  Search(seq, t) = n
<1>1. CASE seq = << >>
  BY <1>1 DEF Search, UpTo
<1>2. CASE seq # << >>
  <2> DEFINE whole == [size |-> Len(seq), base |-> 1]
             last == Narrowed(seq, t)
  <2>1. Len(seq) \in Nat \ {0}
    BY <1>2
  <2>2. whole \in Ranges(Len(seq))
    BY <2>1 DEF Ranges
  <2>3. Finds(seq, n, whole, last)
    BY <2>1, <2>2, NarrowFinds, NarrowExists
  <2>4. /\ last \in 1 .. Len(seq) /\ n \in 0 .. Len(seq)
        /\ n >= 1 => last = n
        /\ n < 1 => last = 1
    BY <2>3, <2>1 DEF Finds, UpTo
  <2>5. seq[last] \in Int /\ (seq[last] <= t <=> last <= n)
    BY <2>4 DEF UpTo
  <2>6. Search(seq, t) = IF seq[last] > t THEN last - 1 ELSE last
    BY <1>2 DEF Search
  <2> HIDE DEF last
  <2> QED BY <2>4, <2>5, <2>6
<1> QED BY <1>1, <1>2

-----------------------------------------------------------------------------
(***************************************************************************)
(* The crates of the first i releases that there are at t.                 *)
(***************************************************************************)
Known(R, i, t) == { R[j].crate : j \in { x \in 1 .. i : R[x].time <= t } }

(***************************************************************************)
(* The recursive function of FirstTimes, by itself.                        *)
(***************************************************************************)
UptoOf(R) ==
  CHOOSE f : f = [i \in 0 .. Len(R) |->
        IF i = 0 THEN << >>
        ELSE IF IsFirst(R, i) THEN Append(f[i - 1], R[i].time) ELSE f[i - 1]]

(***************************************************************************)
(* There is such a function.                                               *)
(***************************************************************************)
LEMMA UptoExists ==
  ASSUME NEW R, Len(R) \in Nat
  PROVE  /\ UptoOf(R) = [i \in 0 .. Len(R) |->
              IF i = 0 THEN << >>
              ELSE IF IsFirst(R, i) THEN Append(UptoOf(R)[i - 1], R[i].time)
              ELSE UptoOf(R)[i - 1]]
         /\ FirstTimes(R) = UptoOf(R)[Len(R)]
<1> DEFINE Step(f, i) == IF i = 0 THEN << >>
              ELSE IF IsFirst(R, i) THEN Append(f[i - 1], R[i].time) ELSE f[i - 1]
           Is(f, k) == f = [i \in 0 .. k |-> Step(f, i)]
           G == { k \in Nat : \E f : Is(f, k) }
<1>1. 0 \in G
  <2> DEFINE e == [i \in 0 .. 0 |-> << >>]
  <2>1. Is(e, 0)
    OBVIOUS
  <2> QED BY <2>1
<1>2. ASSUME NEW k \in Nat, k \in G PROVE k + 1 \in G
  <2>1. PICK f : Is(f, k)
    BY <1>2
  <2> DEFINE g == [i \in 0 .. k + 1 |-> Step(f, i)]
  <2>2. \A i \in 0 .. k : g[i] = f[i]
    <3>1. f = [i \in 0 .. k |-> Step(f, i)]
      BY <2>1
    <3> HIDE DEF Step
    <3>2. \A i \in 0 .. k : i \in 0 .. k + 1 /\ f[i] = Step(f, i)
      BY <3>1
    <3> QED BY <3>2
  <2>3. \A i \in 0 .. k + 1 : g[i] = Step(g, i)
    <3> SUFFICES ASSUME NEW i \in 0 .. k + 1 PROVE g[i] = Step(g, i)
      OBVIOUS
    <3>1. CASE i = 0
      BY <3>1
    <3>2. CASE i # 0
      <4>1. i - 1 \in 0 .. k
        BY <3>2
      <4>2. g[i - 1] = f[i - 1]
        BY <4>1, <2>2
      <4>3. g[i] = Step(f, i)
        OBVIOUS
      <4> HIDE DEF g
      <4> QED BY <4>2, <4>3, <3>2
    <3> QED BY <3>1, <3>2
  <2>4. g = [i \in 0 .. k + 1 |-> g[i]]
    OBVIOUS
  <2>5. Is(g, k + 1)
    <3> HIDE DEF g, Step
    <3> QED BY <2>3, <2>4
  <2> HIDE DEF Is
  <2> QED BY <2>5
<1>3. \A k \in Nat : k \in G
  <2> HIDE DEF G
  <2> QED BY <1>1, <1>2, AllNumbers
<1>4. PICK f : Is(f, Len(R))
  BY <1>3
<1>5. \E h : h = [i \in 0 .. Len(R) |->
              IF i = 0 THEN << >>
              ELSE IF IsFirst(R, i) THEN Append(h[i - 1], R[i].time) ELSE h[i - 1]]
  BY <1>4
<1>6. UptoOf(R) = [i \in 0 .. Len(R) |->
              IF i = 0 THEN << >>
              ELSE IF IsFirst(R, i) THEN Append(UptoOf(R)[i - 1], R[i].time)
              ELSE UptoOf(R)[i - 1]]
  BY <1>5 DEF UptoOf
<1>7. FirstTimes(R) = UptoOf(R)[Len(R)]
  BY DEF FirstTimes, UptoOf
<1> QED BY <1>6, <1>7

(***************************************************************************)
(* A release adds its crate to what is known from its time on.             *)
(***************************************************************************)
LEMMA KnownGrows ==
  ASSUME NEW R, NEW i \in Nat \ {0}, NEW t, \A j \in 1 .. i : R[j].time \in Int
  PROVE  /\ R[i].time <= t => Known(R, i, t) = Known(R, i - 1, t) \cup {R[i].crate}
         /\ ~ (R[i].time <= t) => Known(R, i, t) = Known(R, i - 1, t)
<1>1. 1 .. i = 1 .. (i - 1) \cup {i}
  OBVIOUS
<1> QED BY <1>1 DEF Known

(***************************************************************************)
(* A time that is not below the others is counted from itself on.          *)
(***************************************************************************)
LEMMA CountsAppended ==
  ASSUME NEW s \in Seq(Int), NEW e \in Int, NEW t \in Int, NEW c, UpTo(s, t, c)
  PROVE  /\ e <= t /\ (\A x \in 1 .. Len(s) : s[x] <= e) => UpTo(Append(s, e), t, c + 1)
         /\ ~ (e <= t) => UpTo(Append(s, e), t, c)
<1> DEFINE n == Len(s)
           a == Append(s, e)
<1>1. n \in Nat /\ Len(a) = n + 1 /\ a[n + 1] = e /\ \A x \in 1 .. n : a[x] = s[x] /\ s[x] \in Int
  OBVIOUS
<1>2. c \in 0 .. n /\ \A x \in 1 .. n : s[x] <= t <=> x <= c
  BY DEF UpTo
<1> HIDE DEF n, a
<1>3. \A x \in 1 .. n + 1 : x \in 1 .. n \/ x = n + 1
  BY <1>1
<1>4. ASSUME e <= t, \A x \in 1 .. n : s[x] <= e PROVE UpTo(a, t, c + 1)
  <2>1. \A x \in 1 .. n : s[x] <= t
    BY <1>1, <1>4
  <2>2. c = n
    <3>1. n \in 1 .. n => n <= c
      BY <1>2, <2>1
    <3> QED BY <3>1, <1>1, <1>2
  <2>3. \A x \in 1 .. n + 1 : a[x] <= t <=> x <= c + 1
    BY <1>1, <1>3, <1>4, <2>1, <2>2
  <2> QED BY <1>1, <2>2, <2>3 DEF UpTo
<1>5. ASSUME ~ (e <= t) PROVE UpTo(a, t, c)
  <2>1. \A x \in 1 .. n + 1 : a[x] <= t <=> x <= c
    BY <1>1, <1>2, <1>3, <1>5
  <2> QED BY <1>1, <1>2, <2>1 DEF UpTo
<1> QED BY <1>4, <1>5 DEF n, a

(***************************************************************************)
(* Total::index of releases that are sorted by time: as many of its times  *)
(* are up to t as there are crates with a release up to t.                 *)
(***************************************************************************)
LEMMA FirstTimesCounts ==
  ASSUME NEW T, \A x \in T : x.time \in Int, NEW R \in Seq(T),
         \A i, j \in 1 .. Len(R) : i < j => R[i].time <= R[j].time
  PROVE  /\ FirstTimes(R) \in Seq(Int)
         /\ \A t \in Int : /\ IsFiniteSet(Known(R, Len(R), t))
                          /\ UpTo(FirstTimes(R), t, Cardinality(Known(R, Len(R), t)))
<1> DEFINE f == UptoOf(R)
           Good(i, t) == /\ IsFiniteSet(Known(R, i, t))
                         /\ UpTo(f[i], t, Cardinality(Known(R, i, t)))
           Passed(i) == \A e \in Int : (\A j \in 1 .. i : R[j].time <= e) =>
                          \A x \in 1 .. Len(f[i]) : f[i][x] <= e
           G == { i \in Nat : i <= Len(R) =>
                    /\ f[i] \in Seq(Int)
                    /\ Passed(i)
                    /\ \A t \in Int : Good(i, t) }
<1>0. Len(R) \in Nat
  OBVIOUS
<1>1. \A i \in 0 .. Len(R) : f[i] = IF i = 0 THEN << >>
              ELSE IF IsFirst(R, i) THEN Append(f[i - 1], R[i].time) ELSE f[i - 1]
  <2>1. f = [i \in 0 .. Len(R) |-> IF i = 0 THEN << >>
              ELSE IF IsFirst(R, i) THEN Append(f[i - 1], R[i].time) ELSE f[i - 1]]
    BY <1>0, UptoExists
  <2> HIDE DEF f
  <2> QED BY <2>1
<1> HIDE DEF f
<1>2. \A i \in 1 .. Len(R) : R[i].time \in Int
  <2>1. \A i \in 1 .. Len(R) : R[i] \in T
    OBVIOUS
  <2> QED BY <2>1
<1>3. 0 \in G
  <2>1. f[0] = << >>
    BY <1>0, <1>1
  <2>2. \A t : Known(R, 0, t) = {}
    BY DEF Known
  <2>3. IsFiniteSet({}) /\ Cardinality({}) = 0
    BY FS_EmptySet
  <2>4. ASSUME NEW t \in Int PROVE Good(0, t)
    <3>1. f[0] = << >> /\ Known(R, 0, t) = {}
      BY <2>1, <2>2
    <3>2. UpTo(<< >>, t, 0)
      BY DEF UpTo
    <3> QED BY <3>1, <3>2, <2>3
  <2>5. f[0] \in Seq(Int)
    BY <2>1
  <2>6. Passed(0)
    BY <2>1
  <2> HIDE DEF Good, Passed
  <2> QED BY <2>4, <2>5, <2>6
<1>4. ASSUME NEW k \in Nat, k \in G PROVE k + 1 \in G
  <2> HIDE DEF Good, Passed
  <2> SUFFICES ASSUME k + 1 <= Len(R)
               PROVE  /\ f[k + 1] \in Seq(Int)
                      /\ Passed(k + 1)
                      /\ \A t \in Int : Good(k + 1, t)
    OBVIOUS
  <2> USE DEF Good, Passed
  <2> DEFINE i == k + 1
  <2>1. i \in 1 .. Len(R) /\ i # 0 /\ i - 1 = k /\ k <= Len(R) /\ i \in Nat \ {0}
    BY <1>0
  <2>2. f[k] \in Seq(Int) /\ Passed(k) /\ \A t \in Int : Good(k, t)
    BY <1>4, <2>1
  <2>3. f[i] = IF IsFirst(R, i) THEN Append(f[k], R[i].time) ELSE f[k]
    <3>1. i \in 0 .. Len(R)
      BY <2>1
    <3> QED BY <1>1, <2>1, <3>1
  <2>4. \A t \in Int :
              /\ R[i].time <= t => Known(R, i, t) = Known(R, k, t) \cup {R[i].crate}
              /\ ~ (R[i].time <= t) => Known(R, i, t) = Known(R, k, t)
    <3> TAKE t \in Int
    <3>1. \A j \in 1 .. i : R[j].time \in Int
      BY <1>2, <2>1, <1>0
    <3> QED BY <3>1, <2>1, KnownGrows
  <2> HIDE DEF i
  <2>5. R[i].time \in Int
    BY <1>2, <2>1
  <2>6. \A j \in 1 .. k : R[j].time <= R[i].time /\ R[j].time \in Int
    <3>1. \A j \in 1 .. k : j \in 1 .. Len(R) /\ j < i
      BY <2>1, <1>0
    <3> QED BY <3>1, <2>1, <1>2
  <2>9. \A x \in 1 .. Len(f[k]) : f[k][x] <= R[i].time
    BY <2>2, <2>5, <2>6
  <2>10. \A e \in Int : (\A j \in 1 .. i : R[j].time <= e) =>
           R[i].time <= e /\ \A x \in 1 .. Len(f[k]) : f[k][x] <= e
    <3>1. 1 .. k \subseteq 1 .. i /\ i \in 1 .. i
      BY <2>1
    <3> QED BY <3>1, <2>2
  <2>7. CASE IsFirst(R, i)
    <3>1. f[i] = Append(f[k], R[i].time)
      BY <2>3, <2>7
    <3>2. f[i] \in Seq(Int)
      BY <3>1, <2>2, <2>5
    <3>3. R[i].crate \notin { R[j].crate : j \in 1 .. k }
      BY <2>7, <2>1 DEF IsFirst
    <3>4. ASSUME NEW t \in Int PROVE Good(i, t)
      <4>1. R[i].crate \notin Known(R, k, t)
        BY <3>3 DEF Known
      <4>2. CASE R[i].time <= t
        <5>1. Known(R, i, t) = Known(R, k, t) \cup {R[i].crate}
          BY <4>2, <2>4
        <5>2. /\ IsFiniteSet(Known(R, i, t))
              /\ Cardinality(Known(R, i, t)) = Cardinality(Known(R, k, t)) + 1
          BY <5>1, <4>1, <2>2, FS_AddElement
        <5> DEFINE c == Cardinality(Known(R, k, t))
        <5>3. UpTo(Append(f[k], R[i].time), t, c + 1)
          BY <2>2, <2>5, <2>9, <4>2, CountsAppended
        <5> QED BY <5>2, <5>3, <3>1
      <4>3. CASE ~ (R[i].time <= t)
        <5>1. Known(R, i, t) = Known(R, k, t)
          BY <4>3, <2>4
        <5> DEFINE c == Cardinality(Known(R, k, t))
        <5>2. UpTo(Append(f[k], R[i].time), t, c)
          BY <2>2, <2>5, <4>3, CountsAppended
        <5> QED BY <5>1, <5>2, <3>1, <2>2
      <4> QED BY <4>2, <4>3
    <3>5. Passed(i)
      <4> SUFFICES ASSUME NEW e \in Int, \A j \in 1 .. i : R[j].time <= e,
                          NEW x \in 1 .. Len(f[i])
                   PROVE  f[i][x] <= e
        OBVIOUS
      <4>1. R[i].time <= e /\ \A y \in 1 .. Len(f[k]) : f[k][y] <= e
        BY <2>10
      <4>2. f[i][x] = R[i].time \/ (x \in 1 .. Len(f[k]) /\ f[i][x] = f[k][x])
        BY <3>1, <2>2, <2>5
      <4> QED BY <4>1, <4>2
    <3> HIDE DEF Good, Passed
    <3> QED BY <3>2, <3>4, <3>5 DEF i
  <2>8. CASE ~ IsFirst(R, i)
    <3>1. f[i] = f[k]
      BY <2>3, <2>8
    <3>2. PICK j \in 1 .. k : R[j].crate = R[i].crate
      BY <2>8, <2>1 DEF IsFirst
    <3>3. ASSUME NEW t \in Int PROVE Known(R, i, t) = Known(R, k, t)
      <4>1. CASE R[i].time <= t
        <5>1. R[j].time <= t
          BY <4>1, <2>5, <2>6
        <5>2. R[i].crate \in Known(R, k, t)
          BY <5>1, <3>2 DEF Known
        <5> QED BY <5>2, <4>1, <2>4
      <4> QED BY <4>1, <2>4
    <3>4. Passed(i)
      BY <2>10, <3>1
    <3>5. \A t \in Int : Good(i, t)
      BY <3>1, <3>3, <2>2
    <3> HIDE DEF Good, Passed
    <3> QED BY <3>1, <3>4, <3>5, <2>2 DEF i
  <2> QED BY <2>7, <2>8 DEF i
<1>5. \A k \in Nat : k \in G
  <2> HIDE DEF G
  <2> QED BY <1>3, <1>4, AllNumbers
<1>6. FirstTimes(R) = f[Len(R)]
  BY <1>0, UptoExists DEF f
<1> QED BY <1>0, <1>5, <1>6

-----------------------------------------------------------------------------
(***************************************************************************)
(* The types of what is written and drawn.                                 *)
(***************************************************************************)
Edges == { Fraction(v, n) : v \in Nat, n \in Nat }
PointSet == [time : Int, value : Nat, total : Nat, edges : Edges]
RowSet == [time : Int, value : Nat]

(***************************************************************************)
(* The number of crates that there are at t, as TotalIsAll says it.        *)
(***************************************************************************)
Count(R, t) == Cardinality({ r.crate : r \in { x \in ToSet(R) : x.time <= t } })

(***************************************************************************)
(* The times of a sequence of rows or points ascend.                       *)
(***************************************************************************)
Ascending(s) == \A i, j \in DOMAIN s : i < j => s[i].time < s[j].time

(***************************************************************************)
(* A line of n rows or points has the value v at the moment t.             *)
(***************************************************************************)
At(s, n, t, v) ==
  \/ v = 0 /\ \A i \in 1 .. n : t < s[i].time
  \/ \E i \in 1 .. n : /\ s[i].time <= t /\ s[i].value = v
                       /\ i < n => t < s[i + 1].time

(***************************************************************************)
(* The inductive invariant.  What is drawn and the moment do not change.   *)
(***************************************************************************)
InputInv ==
  /\ \E in \in Inputs : releases = in.releases /\ rows = in.rows
  /\ now \in Nat

(***************************************************************************)
(* Total::index comes before the first row.                                *)
(***************************************************************************)
StageInv ==
  /\ pc \in {"index", "draw", "done"}
  /\ next \in 1 .. Len(rows) + 1
  /\ pc = "index" => next = 1 /\ prev = Undrawn
  /\ pc # "index" => times = FirstTimes(releases)
  /\ pc = "done" => next = Len(rows) + 1

(***************************************************************************)
(* The points of a line are divided by all crates of their time.           *)
(***************************************************************************)
Counted(R, s) == \A k \in 1 .. Len(s) : /\ s[k].total = Count(R, s[k].time)
                                        /\ s[k].value <= s[k].total

(***************************************************************************)
(* The points, from left to right.                                         *)
(***************************************************************************)
LineInv ==
  /\ points \in Seq(PointSet)
  /\ Ascending(points)
  /\ Counted(releases, points)

(***************************************************************************)
(* A line begins with zero, less than or just a second before its first    *)
(* value.                                                                  *)
(***************************************************************************)
RisesFromZero(s) ==
  /\ Len(s) >= 2 /\ s[1].value = 0 /\ s[2].value > 0
  /\ s[2].time - s[1].time \in 1 .. PerSecond

(***************************************************************************)
(* What the loop of render.rs knows by the value drawn last: while there   *)
(* is none all rows were zero, and then it is the value of the row before, *)
(* not drawn later than that row.                                          *)
(***************************************************************************)
PrevInv ==
  /\ prev = Undrawn => /\ \A i \in 1 .. next - 1 : rows[i].value = 0
                       /\ pc # "done" => points = << >>
  /\ prev # Undrawn => /\ prev \in Nat /\ next > 1 /\ rows[next - 1].value = prev
                       /\ RisesFromZero(points)
                       /\ points[Len(points)].value = prev
                       /\ pc # "done" => points[Len(points)].time <= rows[next - 1].time
  /\ pc = "done" /\ rows[Len(rows)].time < now =>
       points # << >> /\ points[Len(points)].time = now

(***************************************************************************)
(* The rows visited and the points drawn have one value at every moment.   *)
(***************************************************************************)
StepInv ==
  \A t \in Int : \E v \in Nat : At(rows, next - 1, t, v) /\ At(points, Len(points), t, v)

IInv == InputInv /\ StageInv /\ LineInv /\ PrevInv /\ StepInv

-----------------------------------------------------------------------------
(***************************************************************************)
(* What the assumption says of rows and releases, and so of the totals.    *)
(***************************************************************************)
LEMMA Given ==
  InputInv =>
    /\ PerSecond \in Nat \ {0} /\ now \in Int
    /\ rows \in Seq(RowSet) /\ rows # << >> /\ Ascending(rows)
    /\ Len(rows) \in Nat \ {0} /\ DOMAIN rows = 1 .. Len(rows)
    /\ \A i \in 1 .. Len(rows) : /\ rows[i].time \in Int /\ rows[i].value \in Nat
                                 /\ rows[i].value <= Count(releases, rows[i].time)
    /\ \A t \in Int : UpTo(FirstTimes(releases), t, Count(releases, t)) /\ Count(releases, t) \in Nat
    /\ \A t \in Int : Search(FirstTimes(releases), t) = Count(releases, t)
    /\ \A t, u \in Int : t <= u => Count(releases, t) <= Count(releases, u)
<1> SUFFICES ASSUME InputInv
             PROVE
    /\ PerSecond \in Nat \ {0} /\ now \in Int
    /\ rows \in Seq(RowSet) /\ rows # << >> /\ Ascending(rows)
    /\ Len(rows) \in Nat \ {0} /\ DOMAIN rows = 1 .. Len(rows)
    /\ \A i \in 1 .. Len(rows) : /\ rows[i].time \in Int /\ rows[i].value \in Nat
                                 /\ rows[i].value <= Count(releases, rows[i].time)
    /\ \A t \in Int : UpTo(FirstTimes(releases), t, Count(releases, t)) /\ Count(releases, t) \in Nat
    /\ \A t \in Int : Search(FirstTimes(releases), t) = Count(releases, t)
    /\ \A t, u \in Int : t <= u => Count(releases, t) <= Count(releases, u)
  OBVIOUS
<1>0. PICK in \in Inputs : releases = in.releases /\ rows = in.rows
  BY DEF InputInv
<1> DEFINE C == { r.crate : r \in ToSet(releases) }
           T == [crate : C, time : Int]
<1>1. /\ rows \in Seq(RowSet) /\ rows # << >> /\ Ascending(rows)
      /\ \A i \in DOMAIN rows : rows[i].value <= Count(releases, rows[i].time)
      /\ releases \in Seq(T)
      /\ \A i, j \in DOMAIN releases : i < j => releases[i].time <= releases[j].time
  BY <1>0, SeriesAssumption DEF RowSet, Ascending, Count
<1>2. PerSecond \in Nat \ {0} /\ now \in Int
  BY SeriesAssumption DEF InputInv
<1>3. \A x \in T : x.time \in Int
  OBVIOUS
<1>4. Len(rows) \in Nat \ {0} /\ DOMAIN rows = 1 .. Len(rows)
  BY <1>1
<1>5. \A i \in 1 .. Len(rows) : rows[i].time \in Int /\ rows[i].value \in Nat
  <2>1. \A i \in 1 .. Len(rows) : rows[i] \in RowSet
    BY <1>1
  <2> QED BY <2>1 DEF RowSet
<1> HIDE DEF T
<1>6. DOMAIN releases = 1 .. Len(releases) /\ Len(releases) \in Nat
  BY <1>1
<1>7. FirstTimes(releases) \in Seq(Int)
      /\ \A t \in Int : /\ IsFiniteSet(Known(releases, Len(releases), t))
                        /\ UpTo(FirstTimes(releases), t, Cardinality(Known(releases, Len(releases), t)))
  BY <1>1, <1>3, <1>6, FirstTimesCounts
<1>8. ASSUME NEW t \in Int
      PROVE  Count(releases, t) = Cardinality(Known(releases, Len(releases), t))
  <2>1. { r.crate : r \in { x \in ToSet(releases) : x.time <= t } } = Known(releases, Len(releases), t)
    BY <1>6 DEF Known, ToSet
  <2> QED BY <2>1 DEF Count
<1>9. ASSUME NEW t \in Int
      PROVE  /\ UpTo(FirstTimes(releases), t, Count(releases, t)) /\ Count(releases, t) \in Nat
             /\ Search(FirstTimes(releases), t) = Count(releases, t)
  <2>1. UpTo(FirstTimes(releases), t, Count(releases, t))
    BY <1>7, <1>8
  <2>2. Len(FirstTimes(releases)) \in Nat
    BY <1>7
  <2>3. Search(FirstTimes(releases), t) = Count(releases, t)
    <3> DEFINE s == FirstTimes(releases)
               c == Count(releases, t)
    <3>1. s \in Seq(Int) /\ UpTo(s, t, c)
      BY <1>7, <2>1
    <3> HIDE DEF s, c
    <3>2. Search(s, t) = c
      BY <3>1, SearchCounts
    <3> QED BY <3>2 DEF s, c
  <2>4. Count(releases, t) \in Nat
    BY <2>1, <2>2 DEF UpTo
  <2> QED BY <2>1, <2>3, <2>4
<1>10. ASSUME NEW t \in Int, NEW u \in Int, t <= u
       PROVE  Count(releases, t) <= Count(releases, u)
  <2> DEFINE A == Known(releases, Len(releases), t)
             B == Known(releases, Len(releases), u)
  <2>1. \A j \in 1 .. Len(releases) : releases[j].time \in Int
    <3>1. \A j \in 1 .. Len(releases) : releases[j] \in T
      BY <1>1
    <3> QED BY <3>1, <1>3
  <2>2. A \subseteq B
    BY <2>1, <1>10 DEF Known
  <2>3. IsFiniteSet(B) /\ IsFiniteSet(A)
    BY <1>7
  <2>4. Cardinality(A) <= Cardinality(B)
    <3> HIDE DEF A, B
    <3> QED BY <2>2, <2>3, FS_Subset
  <2> QED BY <2>4, <1>8
<1>11. \A t \in Int : UpTo(FirstTimes(releases), t, Count(releases, t)) /\ Count(releases, t) \in Nat
  BY <1>9
<1>12. \A t \in Int : Search(FirstTimes(releases), t) = Count(releases, t)
  BY <1>9
<1>13. \A t, u \in Int : t <= u => Count(releases, t) <= Count(releases, u)
  BY <1>10
<1> QED BY <1>1, <1>2, <1>4, <1>5, <1>11, <1>12, <1>13

(***************************************************************************)
(* The same in parts: of the rows,                                         *)
(***************************************************************************)
LEMMA RowsGiven ==
  InputInv =>
    /\ PerSecond \in Nat \ {0} /\ now \in Int
    /\ rows \in Seq(RowSet) /\ rows # << >>
    /\ Len(rows) \in Nat \ {0} /\ DOMAIN rows = 1 .. Len(rows)
    /\ \A i \in 1 .. Len(rows) : rows[i].time \in Int /\ rows[i].value \in Nat
BY Given

(***************************************************************************)
(* and of the totals.                                                      *)
(***************************************************************************)
LEMMA TotalsGiven ==
  InputInv =>
    /\ \A i \in 1 .. Len(rows) : rows[i].value <= Count(releases, rows[i].time)
    /\ \A t \in Int : Count(releases, t) \in Nat
    /\ \A t \in Int : Search(FirstTimes(releases), t) = Count(releases, t)
    /\ \A t, u \in Int : t <= u => Count(releases, t) <= Count(releases, u)
BY Given

(***************************************************************************)
(* The last element.                                                       *)
(***************************************************************************)
LEMMA LastIs == ASSUME NEW S, NEW s \in Seq(S), s # << >> PROVE Last(s) = s[Len(s)]
BY DEF Last

(***************************************************************************)
(* The value of a line depends on its points only.                         *)
(***************************************************************************)
LEMMA AtSame ==
  ASSUME NEW r, NEW s, NEW n \in Nat, NEW t, NEW v, \A i \in 1 .. n : r[i] = s[i], At(r, n, t, v)
  PROVE  At(s, n, t, v)
<1>1. \A i \in 1 .. n : i < n => r[i + 1] = s[i + 1]
  OBVIOUS
<1> QED BY <1>1 DEF At

(***************************************************************************)
(* One more point changes the value from its time on.                      *)
(***************************************************************************)
LEMMA AtNext ==
  ASSUME NEW s, NEW n \in Nat, NEW t \in Int, NEW v, \A i \in 1 .. n + 1 : s[i].time \in Int
  PROVE  /\ At(s, n, t, v) /\ t < s[n + 1].time => At(s, n + 1, t, v)
         /\ s[n + 1].time <= t => At(s, n + 1, t, s[n + 1].value)
<1>1. ASSUME At(s, n, t, v), t < s[n + 1].time PROVE At(s, n + 1, t, v)
  <2>1. CASE v = 0 /\ \A i \in 1 .. n : t < s[i].time
    <3>1. \A i \in 1 .. n + 1 : i \in 1 .. n \/ i = n + 1
      OBVIOUS
    <3> QED BY <3>1, <2>1, <1>1 DEF At
  <2>2. CASE \E i \in 1 .. n : /\ s[i].time <= t /\ s[i].value = v
                               /\ i < n => t < s[i + 1].time
    <3>1. PICK i \in 1 .. n : /\ s[i].time <= t /\ s[i].value = v
                              /\ i < n => t < s[i + 1].time
      BY <2>2
    <3>2. i \in 1 .. n + 1 /\ t < s[i + 1].time
      BY <3>1, <1>1
    <3> QED BY <3>1, <3>2 DEF At
  <2> QED BY <1>1, <2>1, <2>2 DEF At
<1>2. ASSUME s[n + 1].time <= t PROVE At(s, n + 1, t, s[n + 1].value)
  <2>1. n + 1 \in 1 .. n + 1 /\ ~ (n + 1 < n + 1)
    OBVIOUS
  <2> QED BY <1>2, <2>1 DEF At
<1> QED BY <1>1, <1>2

(***************************************************************************)
(* ValueAt is the value of an ascending line.                              *)
(***************************************************************************)
LEMMA ValueIsAt ==
  ASSUME NEW s, NEW n \in Nat, DOMAIN s = 1 .. n, Ascending(s),
         \A i \in 1 .. n : s[i].time \in Int,
         NEW t \in Int, NEW v, At(s, n, t, v)
  PROVE  ValueAt(s, t) = v
<1> DEFINE upto == { i \in DOMAIN s : s[i].time <= t }
<1>1. CASE v = 0 /\ \A i \in 1 .. n : t < s[i].time
  <2>1. upto = {}
    BY <1>1
  <2> QED BY <1>1, <2>1 DEF ValueAt
<1>2. CASE \E i \in 1 .. n : /\ s[i].time <= t /\ s[i].value = v
                             /\ i < n => t < s[i + 1].time
  <2>1. PICK i \in 1 .. n : /\ s[i].time <= t /\ s[i].value = v
                            /\ i < n => t < s[i + 1].time
    BY <1>2
  <2>2. i \in upto
    BY <2>1
  <2>3. \A j \in upto : j <= i
    <3> SUFFICES ASSUME NEW j \in upto, i < j PROVE FALSE
      OBVIOUS
    <3>1. i + 1 \in 1 .. n /\ i < n /\ i + 1 <= j /\ j \in 1 .. n
      OBVIOUS
    <3>2. t < s[i + 1].time /\ s[j].time <= t
      BY <2>1, <3>1
    <3>3. i + 1 = j \/ s[i + 1].time < s[j].time
      BY <3>1 DEF Ascending
    <3> QED BY <3>1, <3>2, <3>3
  <2>4. \A k \in upto : (\A j \in upto : j <= k) => k = i
    <3> SUFFICES ASSUME NEW k \in upto, \A j \in upto : j <= k PROVE k = i
      OBVIOUS
    <3>1. k \in 1 .. n
      OBVIOUS
    <3> HIDE DEF upto
    <3>2. i <= k /\ k <= i
      BY <2>2, <2>3
    <3> QED BY <3>1, <3>2
  <2> DEFINE top == CHOOSE k \in upto : \A j \in upto : j <= k
  <2>5. top = i
    <3> HIDE DEF upto
    <3> QED BY <2>2, <2>3, <2>4
  <2>6. ValueAt(s, t) = s[top].value
    BY <2>2 DEF ValueAt
  <2> QED BY <2>1, <2>5, <2>6
<1> QED BY <1>1, <1>2 DEF At

(***************************************************************************)
(* A point has the total of its moment.                                    *)
(***************************************************************************)
LEMMA PointIs ==
  ASSUME InputInv, times = FirstTimes(releases), NEW t \in Int, NEW value \in Nat,
         value <= Count(releases, t)
  PROVE  /\ Point(t, value) \in PointSet
         /\ Point(t, value).time = t /\ Point(t, value).value = value
         /\ Point(t, value).total = Count(releases, t)
<1>1. Eval(t) = Count(releases, t) /\ Count(releases, t) \in Nat
  BY TotalsGiven DEF Eval
<1>2. Fraction(value, Eval(t)) \in Edges
  BY <1>1 DEF Edges
<1> QED BY <1>1, <1>2 DEF Point, PointSet

(***************************************************************************)
(* The whole second before a moment is at most a second away, and not at   *)
(* it.                                                                     *)
(***************************************************************************)
LEMMA SecondsBefore ==
  ASSUME PerSecond \in Nat \ {0}, NEW t \in Int
  PROVE  SecondBefore(t) \in Int /\ t - SecondBefore(t) \in 1 .. PerSecond
<1> DEFINE q == t \div PerSecond
           r == t % PerSecond
           m == PerSecond * q
<1>1. q \in Int /\ r \in Int /\ r >= 0 /\ r < PerSecond /\ t = m + r
  OBVIOUS
<1>2. m \in Int /\ PerSecond * (q - 1) = m - PerSecond
  BY <1>1
<1>3. SecondBefore(t) = IF r = 0 THEN PerSecond * (q - 1) ELSE m
  BY DEF SecondBefore
<1> HIDE DEF q, r, m
<1>4. SecondBefore(t) = IF r = 0 THEN m - PerSecond ELSE m
  BY <1>2, <1>3
<1> QED BY <1>1, <1>2, <1>4

-----------------------------------------------------------------------------
(***************************************************************************)
(* The invariant holds at the start.                                       *)
(***************************************************************************)
LEMMA InitHolds == Init => IInv
<1> SUFFICES ASSUME Init PROVE IInv
  OBVIOUS
<1>1. InputInv
  BY SeriesAssumption DEF Init, InputInv
<1>2. Len(rows) \in Nat \ {0}
  BY <1>1, RowsGiven
<1>3. StageInv
  BY <1>2 DEF Init, StageInv
<1>4. points = << >> /\ next = 1 /\ prev = Undrawn /\ pc = "index"
  BY DEF Init
<1>5. LineInv
  <2>1. << >> \in Seq(PointSet) /\ DOMAIN << >> = {} /\ 1 .. Len(<< >>) = {}
    OBVIOUS
  <2> QED BY <1>4, <2>1 DEF LineInv, Ascending, Counted
<1>6. PrevInv
  BY <1>4 DEF PrevInv, Undrawn
<1>7. StepInv
  <2>1. \A t \in Int : At(rows, 0, t, 0) /\ At(points, 0, t, 0)
    BY DEF At
  <2> QED BY <1>4, <2>1 DEF StepInv
<1> QED BY <1>1, <1>3, <1>5, <1>6, <1>7 DEF IInv

(***************************************************************************)
(* A step that leaves the input alone keeps what is known of it.           *)
(***************************************************************************)
LEMMA InputStays ==
  ASSUME InputInv, UNCHANGED <<releases, rows, now>> PROVE InputInv'
BY DEF InputInv

(***************************************************************************)
(* Total::index keeps the invariant.                                       *)
(***************************************************************************)
LEMMA IndexHolds == IInv /\ IndexTotal => IInv'
<1> SUFFICES ASSUME IInv, IndexTotal PROVE IInv'
  OBVIOUS
<1> USE DEF IInv
<1>1. /\ pc = "index" /\ pc' = "draw" /\ times' = FirstTimes(releases)
      /\ releases' = releases /\ rows' = rows /\ now' = now /\ next' = next
      /\ prev' = prev /\ points' = points
  BY DEF IndexTotal, Index
<1>2. InputInv'
  BY <1>1, InputStays
<1>3. StageInv'
  BY <1>1, RowsGiven DEF StageInv
<1>4. LineInv' /\ StepInv'
  BY <1>1 DEF LineInv, StepInv
<1>5. next = 1 /\ prev = Undrawn /\ points = << >>
  BY <1>1 DEF StageInv, PrevInv
<1>6. PrevInv'
  BY <1>1, <1>5 DEF PrevInv, Undrawn
<1> QED BY <1>2, <1>3, <1>4, <1>6

-----------------------------------------------------------------------------
(***************************************************************************)
(* A later point extends a line.                                           *)
(***************************************************************************)
LEMMA Appended ==
  ASSUME NEW s \in Seq(PointSet), Ascending(s), Counted(releases, s),
         NEW p \in PointSet, p.total = Count(releases, p.time), p.value <= p.total,
         s # << >> => s[Len(s)].time < p.time
  PROVE  /\ Append(s, p) \in Seq(PointSet) /\ Ascending(Append(s, p))
         /\ Counted(releases, Append(s, p))
         /\ Len(Append(s, p)) = Len(s) + 1 /\ Append(s, p)[Len(s) + 1] = p
         /\ \A i \in 1 .. Len(s) : Append(s, p)[i] = s[i]
<1> DEFINE n == Len(s)
           a == Append(s, p)
<1>1. n \in Nat /\ DOMAIN s = 1 .. n /\ \A i \in 1 .. n : s[i] \in PointSet
  OBVIOUS
<1>2. /\ a \in Seq(PointSet) /\ Len(a) = n + 1 /\ DOMAIN a = 1 .. n + 1 /\ a[n + 1] = p
      /\ \A i \in 1 .. n : a[i] = s[i]
  OBVIOUS
<1>3. \A i \in 1 .. n : s[i].time \in Int
  BY <1>1 DEF PointSet
<1>4. p.time \in Int
  BY DEF PointSet
<1>5. n # 0 => s[n].time < p.time
  OBVIOUS
<1> HIDE DEF n, a
<1>6. \A i \in 1 .. n : s[i].time < p.time
  <2> SUFFICES ASSUME NEW i \in 1 .. n PROVE s[i].time < p.time
    OBVIOUS
  <2>1. n \in 1 .. n /\ n # 0
    BY <1>1
  <2>2. i = n \/ s[i].time < s[n].time
    BY <1>1, <2>1 DEF Ascending
  <2> QED BY <1>3, <1>4, <1>5, <2>1, <2>2
<1>7. \A i \in 1 .. n + 1 : i \in 1 .. n \/ i = n + 1
  BY <1>1
<1>8. Ascending(a)
  <2> SUFFICES ASSUME NEW i \in 1 .. n + 1, NEW j \in 1 .. n + 1, i < j
               PROVE  a[i].time < a[j].time
    BY <1>2 DEF Ascending
  <2>1. i \in 1 .. n
    BY <1>1, <1>7
  <2> QED BY <2>1, <1>1, <1>2, <1>6, <1>7 DEF Ascending
<1>9. Counted(releases, a)
  BY <1>2, <1>7 DEF Counted, n
<1> QED BY <1>2, <1>8, <1>9 DEF n, a

(***************************************************************************)
(* A later point changes the value of a line from its time on.             *)
(***************************************************************************)
LEMMA AtAppended ==
  ASSUME NEW s \in Seq(PointSet), NEW p \in PointSet, NEW t \in Int, NEW v,
         At(s, Len(s), t, v)
  PROVE  /\ t < p.time => At(Append(s, p), Len(s) + 1, t, v)
         /\ p.time <= t => At(Append(s, p), Len(s) + 1, t, p.value)
<1> DEFINE n == Len(s)
           a == Append(s, p)
<1>1. n \in Nat /\ a[n + 1] = p /\ \A i \in 1 .. n : s[i] = a[i]
  OBVIOUS
<1>2. \A i \in 1 .. n + 1 : a[i] \in PointSet
  OBVIOUS
<1>3. \A i \in 1 .. n + 1 : a[i].time \in Int
  BY <1>2 DEF PointSet
<1> HIDE DEF a
<1>4. At(a, n, t, v)
  <2>1. At(s, n, t, v)
    OBVIOUS
  <2> HIDE DEF n
  <2> QED BY <1>1, <2>1, AtSame
<1> HIDE DEF n
<1>5. /\ t < p.time => At(a, n + 1, t, v)
      /\ p.time <= t => At(a, n + 1, t, p.value)
  BY <1>1, <1>3, <1>4, AtNext
<1> QED BY <1>5 DEF a, n

(***************************************************************************)
(* Once something is drawn, the last point is that of a row visited.       *)
(***************************************************************************)
LEMMA SomeDrawn ==
  ASSUME IInv, pc = "draw", prev # Undrawn
  PROVE  /\ points \in Seq(PointSet) /\ Len(points) \in Nat /\ Len(points) >= 2 /\ points # << >>
         /\ next - 1 \in 1 .. Len(rows)
         /\ points[Len(points)].value = prev /\ rows[next - 1].value = prev
         /\ points[Len(points)].time \in Int
         /\ points[Len(points)].time <= rows[next - 1].time
<1>1. points \in Seq(PointSet) /\ Len(points) \in Nat /\ Len(points) >= 2
  BY DEF IInv, LineInv, PrevInv, RisesFromZero
<1>2. points # << >> /\ points[Len(points)] \in PointSet
  BY <1>1
<1>3. next - 1 \in 1 .. Len(rows)
  BY RowsGiven DEF IInv, StageInv, PrevInv
<1> QED BY <1>1, <1>2, <1>3 DEF IInv, PrevInv, PointSet

(***************************************************************************)
(* Visiting a row changes the value of the rows from its time on.          *)
(***************************************************************************)
LEMMA RowsAt ==
  ASSUME IInv, pc = "draw", next <= Len(rows), NEW t \in Int, NEW v, At(rows, next - 1, t, v)
  PROVE  /\ t < rows[next].time => At(rows, next, t, v)
         /\ rows[next].time <= t => At(rows, next, t, rows[next].value)
<1> DEFINE n == next - 1
<1>1. n \in Nat /\ n + 1 = next /\ next \in 1 .. Len(rows)
  BY RowsGiven DEF IInv, StageInv
<1>2. \A i \in 1 .. n + 1 : rows[i].time \in Int
  BY <1>1, RowsGiven DEF IInv
<1> HIDE DEF n
<1>3. At(rows, n, t, v)
  BY DEF n
<1> QED BY <1>1, <1>2, <1>3, AtNext

(***************************************************************************)
(* The next row is later.                                                  *)
(***************************************************************************)
LEMMA EarlierRows ==
  ASSUME InputInv, NEW i \in 1 .. Len(rows), i + 1 <= Len(rows)
  PROVE  rows[i].time < rows[i + 1].time
<1>1. DOMAIN rows = 1 .. Len(rows) /\ Len(rows) \in Nat /\ Ascending(rows)
  BY Given
<1>2. i + 1 \in DOMAIN rows /\ i \in DOMAIN rows /\ i < i + 1
  BY <1>1
<1> QED BY <1>1, <1>2 DEF Ascending

(***************************************************************************)
(* A row that is not drawn has the value that the line has already.        *)
(***************************************************************************)
LEMMA SkipHolds ==
  ASSUME IInv, DrawRow, Skipped(rows[next]) PROVE IInv'
<1> USE DEF IInv
<1>1. /\ pc = "draw" /\ pc' = pc /\ next <= Len(rows) /\ next' = next + 1 /\ times' = times
      /\ releases' = releases /\ rows' = rows /\ now' = now /\ prev' = prev /\ points' = points
  BY DEF DrawRow
<1>2. InputInv'
  BY <1>1, InputStays
<1>3. StageInv'
  BY <1>1, RowsGiven DEF StageInv
<1>4. LineInv'
  BY <1>1 DEF LineInv
<1>5. next \in 1 .. Len(rows) /\ next' - 1 = next /\ next \in Int
  BY <1>1, RowsGiven DEF StageInv
<1>6. rows[next].value = IF prev = Undrawn THEN 0 ELSE prev
  BY DEF Skipped
<1>7. PrevInv'
  <2>1. CASE prev = Undrawn
    <3>1. \A i \in 1 .. next : i \in 1 .. next - 1 \/ i = next
      BY <1>5
    <3>2. \A i \in 1 .. next : rows[i].value = 0
      BY <3>1, <2>1, <1>6 DEF PrevInv
    <3> QED BY <1>1, <1>5, <2>1, <3>2 DEF PrevInv
  <2>2. CASE prev # Undrawn
    <3>1. /\ next - 1 \in 1 .. Len(rows) /\ points[Len(points)].time \in Int
          /\ points[Len(points)].time <= rows[next - 1].time
      BY <1>1, <2>2, SomeDrawn
    <3>2. rows[next - 1].time < rows[next].time
      BY <3>1, <1>5, EarlierRows
    <3>3. points[Len(points)].time <= rows[next].time
      BY <3>1, <3>2, <1>5, RowsGiven
    <3> QED BY <1>1, <1>5, <1>6, <2>2, <3>3 DEF PrevInv
  <2> QED BY <2>1, <2>2
<1>8. StepInv'
  <2> SUFFICES ASSUME NEW t \in Int
               PROVE  \E v \in Nat : At(rows, next, t, v) /\ At(points, Len(points), t, v)
    BY <1>1, <1>5 DEF StepInv
  <2>1. PICK v \in Nat : At(rows, next - 1, t, v) /\ At(points, Len(points), t, v)
    BY DEF StepInv
  <2>2. CASE t < rows[next].time
    BY <2>1, <2>2, <1>1, RowsAt
  <2>3. CASE ~ (t < rows[next].time)
    <3>1. rows[next].time <= t /\ rows[next].time \in Int /\ rows[next].value \in Nat
      BY <2>3, <1>5, RowsGiven
    <3>2. At(rows, next, t, rows[next].value)
      BY <3>1, <2>1, <1>1, RowsAt
    <3>3. At(points, Len(points), t, rows[next].value)
      <4>1. CASE prev = Undrawn
        <5>1. points = << >> /\ rows[next].value = 0
          BY <4>1, <1>1, <1>6 DEF PrevInv
        <5> QED BY <5>1 DEF At
      <4>2. CASE prev # Undrawn
        <5> DEFINE n == Len(points)
        <5>1. /\ next - 1 \in 1 .. Len(rows) /\ points[n].time \in Int
              /\ points[n].time <= rows[next - 1].time /\ points[n].value = prev
              /\ n \in 1 .. n /\ ~ (n < n)
          BY <1>1, <4>2, SomeDrawn
        <5>2. rows[next - 1].time < rows[next].time /\ rows[next - 1].time \in Int
          BY <5>1, <1>5, EarlierRows, RowsGiven
        <5> HIDE DEF n
        <5>3. points[n].time <= t /\ points[n].value = rows[next].value
          BY <5>1, <5>2, <3>1, <1>6, <4>2
        <5>4. At(points, n, t, rows[next].value)
          BY <5>1, <5>3 DEF At
        <5> QED BY <5>4 DEF n
      <4> QED BY <4>1, <4>2
    <3> QED BY <3>1, <3>2, <3>3
  <2> QED BY <2>2, <2>3
<1> QED BY <1>2, <1>3, <1>4, <1>7, <1>8

(***************************************************************************)
(* Points put after others.                                                *)
(***************************************************************************)
LEMMA Following ==
  ASSUME NEW S, NEW s \in Seq(S), NEW p \in S, NEW z \in S
  PROVE  /\ s \o <<p>> = Append(s, p)
         /\ << >> \o <<z, p>> = Append(<<z>>, p)
OBVIOUS

(***************************************************************************)
(* The point of a row.                                                     *)
(***************************************************************************)
LEMMA RowPoint ==
  ASSUME IInv, pc = "draw", next <= Len(rows), NEW p, p = Point(rows[next].time, rows[next].value)
  PROVE  /\ p \in PointSet /\ p.time = rows[next].time /\ p.value = rows[next].value
         /\ p.total = Count(releases, p.time) /\ p.value <= p.total
         /\ p.time \in Int /\ p.value \in Nat
         /\ next \in 1 .. Len(rows)
<1> DEFINE t == rows[next].time
           x == rows[next].value
<1>1. next \in 1 .. Len(rows)
  BY RowsGiven DEF IInv, StageInv
<1>2. t \in Int /\ x \in Nat /\ x <= Count(releases, t)
  BY <1>1, RowsGiven, TotalsGiven DEF IInv
<1>3. InputInv /\ times = FirstTimes(releases)
  BY DEF IInv, StageInv
<1> HIDE DEF t, x
<1>4. /\ Point(t, x) \in PointSet
      /\ Point(t, x).time = t /\ Point(t, x).value = x
      /\ Point(t, x).total = Count(releases, t)
  BY <1>2, <1>3, PointIs
<1>5. p = Point(t, x)
  BY DEF t, x
<1> QED BY <1>1, <1>2, <1>4, <1>5 DEF t, x

(***************************************************************************)
(* A row with another value than the last.                                 *)
(***************************************************************************)
LEMMA DrawHolds ==
  ASSUME IInv, DrawRow, ~ Skipped(rows[next]), prev # Undrawn PROVE IInv'
<1> USE DEF IInv
<1> DEFINE p == Point(rows[next].time, rows[next].value)
           n == Len(points)
<1>1. /\ pc = "draw" /\ pc' = pc /\ next <= Len(rows) /\ next' = next + 1 /\ times' = times
      /\ releases' = releases /\ rows' = rows /\ now' = now /\ prev' = rows[next].value
      /\ points' = points \o <<p>>
  BY DEF DrawRow, Drawn
<1>2. InputInv'
  BY <1>1, InputStays
<1>3. StageInv'
  BY <1>1, RowsGiven DEF StageInv
<1>4. next \in 1 .. Len(rows) /\ next' - 1 = next /\ next \in Int
  BY <1>1, RowsGiven DEF StageInv
<1>5. /\ p \in PointSet /\ p.time = rows[next].time /\ p.value = rows[next].value
      /\ p.total = Count(releases, p.time) /\ p.value <= p.total
      /\ p.time \in Int /\ p.value \in Nat
  BY <1>1, RowPoint
<1>6. /\ points \in Seq(PointSet) /\ n \in Nat /\ n >= 2 /\ points # << >>
      /\ next - 1 \in 1 .. Len(rows) /\ points[n].time \in Int
      /\ points[n].time <= rows[next - 1].time
  BY <1>1, SomeDrawn
<1> HIDE DEF p
<1>7. points' = Append(points, p)
  BY <1>1, <1>5, <1>6, Following
<1>8. points[n].time < p.time
  <2>1. rows[next - 1].time < rows[next].time /\ rows[next - 1].time \in Int
    BY <1>4, <1>6, EarlierRows, RowsGiven
  <2> QED BY <2>1, <1>5, <1>6
<1>9. /\ points' \in Seq(PointSet) /\ Ascending(points') /\ Counted(releases, points')
      /\ Len(points') = n + 1 /\ points'[n + 1] = p
      /\ \A i \in 1 .. n : points'[i] = points[i]
  <2>1. Ascending(points) /\ Counted(releases, points)
    BY DEF LineInv
  <2> QED BY <2>1, <1>5, <1>6, <1>7, <1>8, Appended
<1>10. LineInv'
  BY <1>1, <1>9 DEF LineInv
<1>11. PrevInv'
  <2>1. RisesFromZero(points)
    BY DEF PrevInv
  <2>2. points'[1] = points[1] /\ points'[2] = points[2]
    BY <1>6, <1>9
  <2>3. RisesFromZero(points')
    BY <2>1, <2>2, <1>6, <1>9 DEF RisesFromZero
  <2>4. prev' # Undrawn
    BY <1>1, <1>5 DEF Undrawn
  <2>5. /\ prev' \in Nat /\ next' > 1 /\ rows'[next' - 1].value = prev'
        /\ points'[Len(points')].value = prev'
        /\ points'[Len(points')].time <= rows'[next' - 1].time
    BY <1>1, <1>4, <1>5, <1>9
  <2> QED BY <2>3, <2>4, <2>5, <1>1 DEF PrevInv
<1>12. StepInv'
  <2> SUFFICES ASSUME NEW t \in Int
               PROVE  \E v \in Nat : At(rows, next, t, v) /\ At(points', n + 1, t, v)
    BY <1>1, <1>4, <1>9 DEF StepInv
  <2>1. PICK v \in Nat : At(rows, next - 1, t, v) /\ At(points, n, t, v)
    BY DEF StepInv
  <2>2. /\ t < p.time => At(points', n + 1, t, v)
        /\ p.time <= t => At(points', n + 1, t, p.value)
    BY <2>1, <1>5, <1>6, <1>7, AtAppended
  <2>3. /\ t < p.time => At(rows, next, t, v)
        /\ p.time <= t => At(rows, next, t, p.value)
    BY <2>1, <1>1, <1>5, RowsAt
  <2>4. t < p.time \/ p.time <= t
    BY <1>5
  <2> QED BY <2>2, <2>3, <2>4, <1>5
<1> QED BY <1>2, <1>3, <1>10, <1>11, <1>12

(***************************************************************************)
(* The first row that is not zero, and the zero before it.                 *)
(***************************************************************************)
LEMMA RiseHolds ==
  ASSUME IInv, DrawRow, ~ Skipped(rows[next]), prev = Undrawn PROVE IInv'
<1> USE DEF IInv
<1> DEFINE p == Point(rows[next].time, rows[next].value)
           b == SecondBefore(rows[next].time)
           z == Point(b, 0)
<1>1. /\ pc = "draw" /\ pc' = pc /\ next <= Len(rows) /\ next' = next + 1 /\ times' = times
      /\ releases' = releases /\ rows' = rows /\ now' = now /\ prev' = rows[next].value
      /\ points' = points \o <<z, p>>
  BY DEF DrawRow, Drawn
<1>2. InputInv'
  BY <1>1, InputStays
<1>3. StageInv'
  BY <1>1, RowsGiven DEF StageInv
<1>4. next \in 1 .. Len(rows) /\ next' - 1 = next /\ next \in Int
  BY <1>1, RowsGiven DEF StageInv
<1>5. /\ p \in PointSet /\ p.time = rows[next].time /\ p.value = rows[next].value
      /\ p.total = Count(releases, p.time) /\ p.value <= p.total
      /\ p.time \in Int /\ p.value \in Nat
  BY <1>1, RowPoint
<1>6. p.value > 0
  BY <1>5 DEF Skipped
<1>7. b \in Int /\ p.time - b \in 1 .. PerSecond
  BY <1>5, RowsGiven, SecondsBefore
<1> HIDE DEF p
<1>8. /\ z \in PointSet /\ z.time = b /\ z.value = 0 /\ z.total = Count(releases, z.time)
      /\ z.value <= z.total
  <2> HIDE DEF b
  <2>1. Count(releases, b) \in Nat
    BY <1>7, TotalsGiven
  <2>2. times = FirstTimes(releases)
    BY <1>1 DEF StageInv
  <2>3. z \in PointSet /\ z.time = b /\ z.value = 0 /\ z.total = Count(releases, b)
    BY <2>1, <2>2, <1>7, PointIs
  <2> QED BY <2>1, <2>3
<1> HIDE DEF z
<1>9. points = << >>
  BY <1>1 DEF PrevInv
<1>10. points' = Append(<<z>>, p)
  BY <1>1, <1>5, <1>8, <1>9, Following
<1> DEFINE s == <<z>>
<1>11. s \in Seq(PointSet) /\ Len(s) = 1 /\ s[1] = z /\ DOMAIN s = 1 .. 1
  BY <1>8
<1>12. Ascending(s) /\ Counted(releases, s)
  BY <1>8, <1>11 DEF Ascending, Counted
<1>13. s[Len(s)].time < p.time /\ b < p.time
  <2>1. b < p.time
    BY <1>5, <1>7, RowsGiven
  <2> QED BY <2>1, <1>8, <1>11
<1> HIDE DEF s, b
<1>14. /\ points' \in Seq(PointSet) /\ Ascending(points') /\ Counted(releases, points')
       /\ Len(points') = 2 /\ points'[1] = z /\ points'[2] = p
  <2>0. points' = Append(s, p)
    BY <1>10 DEF s
  <2>1. /\ Append(s, p) \in Seq(PointSet) /\ Ascending(Append(s, p))
        /\ Counted(releases, Append(s, p))
        /\ Len(Append(s, p)) = Len(s) + 1 /\ Append(s, p)[Len(s) + 1] = p
        /\ \A i \in 1 .. Len(s) : Append(s, p)[i] = s[i]
    BY <1>5, <1>11, <1>12, <1>13, Appended
  <2> QED BY <2>0, <2>1, <1>11
<1>15. LineInv'
  BY <1>1, <1>14 DEF LineInv
<1>16. PrevInv'
  <2>1. RisesFromZero(points')
    BY <1>5, <1>6, <1>7, <1>8, <1>14 DEF RisesFromZero
  <2>2. prev' # Undrawn
    BY <1>1, <1>5 DEF Undrawn
  <2>3. /\ prev' \in Nat /\ next' > 1 /\ rows'[next' - 1].value = prev'
        /\ points'[Len(points')].value = prev'
        /\ points'[Len(points')].time <= rows'[next' - 1].time
    BY <1>1, <1>4, <1>5, <1>14
  <2> QED BY <2>1, <2>2, <2>3, <1>1 DEF PrevInv
<1>17. StepInv'
  <2> SUFFICES ASSUME NEW t \in Int
               PROVE  \E v \in Nat : At(rows, next, t, v) /\ At(points', 2, t, v)
    BY <1>1, <1>4, <1>14 DEF StepInv
  <2>1. PICK v \in Nat : At(rows, next - 1, t, v) /\ At(points, Len(points), t, v)
    BY DEF StepInv
  <2>2. v = 0
    BY <2>1, <1>9 DEF At
  <2>3. /\ t < p.time => At(rows, next, t, 0)
        /\ p.time <= t => At(rows, next, t, p.value)
    BY <2>1, <2>2, <1>1, <1>5, RowsAt
  <2>4. t < p.time => At(points', 2, t, 0)
    <3>1. \A i \in 1 .. 2 : i = 1 \/ i = 2
      OBVIOUS
    <3>2. CASE t < b
      BY <3>1, <3>2, <1>5, <1>7, <1>8, <1>13, <1>14 DEF At
    <3>3. CASE ~ (t < b)
      BY <3>3, <1>7, <1>8, <1>14 DEF At
    <3> QED BY <3>2, <3>3
  <2>5. p.time <= t => At(points', 2, t, p.value)
    BY <1>14 DEF At
  <2>6. t < p.time \/ p.time <= t
    BY <1>5
  <2> QED BY <2>3, <2>4, <2>5, <2>6, <1>5
<1> QED BY <1>2, <1>3, <1>15, <1>16, <1>17

(***************************************************************************)
(* The last value holds until now.                                         *)
(***************************************************************************)
LEMMA NowHolds ==
  ASSUME IInv, DrawNow PROVE IInv'
<1> USE DEF IInv
<1> DEFINE m == Len(rows)
           p == Point(now, rows[m].value)
           n == Len(points)
<1>0. /\ rows \in Seq(RowSet) /\ rows # << >> /\ m \in Nat \ {0} /\ now \in Int
      /\ rows[m].time \in Int /\ rows[m].value \in Nat
      /\ rows[m].value <= Count(releases, rows[m].time)
  <2>1. rows \in Seq(RowSet) /\ rows # << >> /\ m \in Nat \ {0} /\ now \in Int
    BY RowsGiven
  <2>2. m \in 1 .. Len(rows)
    BY <2>1
  <2> HIDE DEF m
  <2> QED BY <2>1, <2>2, RowsGiven, TotalsGiven
<1>1. /\ pc = "draw" /\ pc' = "done" /\ next > m /\ next' = next /\ times' = times
      /\ releases' = releases /\ rows' = rows /\ now' = now /\ prev' = prev
      /\ points' = IF rows[m].time < now THEN Append(points, p) ELSE points
  BY <1>0, LastIs DEF DrawNow
<1>2. InputInv'
  BY <1>1, InputStays
<1>3. next = m + 1
  BY <1>0, <1>1 DEF StageInv
<1>4. StageInv'
  BY <1>1, <1>3 DEF StageInv
<1>5. CASE ~ (rows[m].time < now)
  <2>1. points' = points
    BY <1>1, <1>5
  <2> QED BY <2>1, <1>1, <1>2, <1>4, <1>5 DEF LineInv, PrevInv, StepInv
<1>6. CASE rows[m].time < now
  <2>1. points' = Append(points, p)
    BY <1>1, <1>6
  <2>2. /\ p \in PointSet /\ p.time = now /\ p.value = rows[m].value
        /\ p.total = Count(releases, p.time) /\ p.value <= p.total
    <3>1. Count(releases, now) \in Nat /\ Count(releases, rows[m].time) <= Count(releases, now)
          /\ Count(releases, rows[m].time) \in Nat
      BY <1>0, <1>6, TotalsGiven
    <3>2. rows[m].value <= Count(releases, now)
      BY <3>1, <1>0
    <3>3. times = FirstTimes(releases)
      BY <1>1 DEF StageInv
    <3> DEFINE x == rows[m].value
    <3>4. x \in Nat /\ x <= Count(releases, now)
      BY <1>0, <3>2
    <3> HIDE DEF x
    <3>5. /\ Point(now, x) \in PointSet
          /\ Point(now, x).time = now /\ Point(now, x).value = x
          /\ Point(now, x).total = Count(releases, now)
      BY <3>3, <3>4, <1>0, PointIs
    <3>6. p = Point(now, x)
      BY DEF x
    <3> HIDE DEF p
    <3> QED BY <3>2, <3>5, <3>6 DEF x
  <2> HIDE DEF p
  <2>3. points \in Seq(PointSet) /\ n \in Nat /\ Ascending(points) /\ Counted(releases, points)
    BY DEF LineInv
  <2>4. points # << >> => points[n].time < p.time
    <3> SUFFICES ASSUME points # << >> PROVE points[n].time < p.time
      OBVIOUS
    <3>1. prev # Undrawn
      BY <1>1 DEF PrevInv
    <3>2. points[n].time \in Int /\ points[n].time <= rows[next - 1].time /\ next - 1 = m
      BY <3>1, <1>0, <1>1, <1>3, SomeDrawn
    <3> QED BY <3>2, <1>0, <1>6, <2>2
  <2>5. /\ points' \in Seq(PointSet) /\ Ascending(points') /\ Counted(releases, points')
        /\ Len(points') = n + 1 /\ points'[n + 1] = p
        /\ \A i \in 1 .. n : points'[i] = points[i]
    BY <2>1, <2>2, <2>3, <2>4, Appended
  <2>6. LineInv'
    BY <1>1, <2>5 DEF LineInv
  <2>7. PrevInv'
    <3>1. points' # << >> /\ points'[Len(points')].time = now'
      <4>1. Len(points') # 0
        BY <2>3, <2>5
      <4> QED BY <4>1, <2>2, <2>5, <1>1
    <3>2. CASE prev = Undrawn
      BY <3>1, <3>2, <1>1 DEF PrevInv
    <3>3. CASE prev # Undrawn
      <4>1. prev \in Nat /\ next > 1 /\ rows[next - 1].value = prev /\ RisesFromZero(points)
        BY <3>3 DEF PrevInv
      <4>2. n >= 2
        BY <4>1 DEF RisesFromZero
      <4>3. points'[1] = points[1] /\ points'[2] = points[2] /\ Len(points') >= 2
        BY <2>3, <2>5, <4>2
      <4>4. RisesFromZero(points')
        BY <4>1, <4>3 DEF RisesFromZero
      <4>5. points'[Len(points')].value = prev
        <5>1. next - 1 = m
          BY <1>0, <1>3
        <5> QED BY <5>1, <4>1, <2>2, <2>5
      <4> QED BY <3>1, <3>3, <4>1, <4>4, <4>5, <1>1 DEF PrevInv
    <3> QED BY <3>2, <3>3
  <2>8. StepInv'
    <3>1. next - 1 = m /\ next' - 1 = m
      BY <1>0, <1>1, <1>3
    <3> SUFFICES ASSUME NEW t \in Int
                 PROVE  \E v \in Nat : At(rows, m, t, v) /\ At(points', n + 1, t, v)
      BY <3>1, <1>1, <2>5 DEF StepInv
    <3>2. PICK v \in Nat : At(rows, m, t, v) /\ At(points, n, t, v)
      BY <3>1 DEF StepInv
    <3>3. /\ t < p.time => At(points', n + 1, t, v)
          /\ p.time <= t => At(points', n + 1, t, p.value)
      BY <3>2, <2>1, <2>2, <2>3, AtAppended
    <3>4. CASE t < now
      BY <3>2, <3>3, <3>4, <2>2
    <3>5. CASE ~ (t < now)
      <4>1. now <= t /\ rows[m].time <= t
        BY <3>5, <1>0, <1>6
      <4>2. At(rows, m, t, rows[m].value)
        BY <4>1, <1>0 DEF At
      <4> QED BY <4>1, <4>2, <3>3, <2>2, <1>0
    <3> QED BY <3>4, <3>5
  <2> QED BY <1>2, <1>4, <2>6, <2>7, <2>8
<1> QED BY <1>5, <1>6

-----------------------------------------------------------------------------
(***************************************************************************)
(* Every step keeps the invariant.                                         *)
(***************************************************************************)
LEMMA StepHolds == IInv /\ [Next]_vars => IInv'
<1> SUFFICES ASSUME IInv, [Next]_vars PROVE IInv'
  OBVIOUS
<1>1. CASE IndexTotal
  BY <1>1, IndexHolds
<1>2. CASE DrawRow
  BY <1>2, SkipHolds, DrawHolds, RiseHolds
<1>3. CASE DrawNow
  BY <1>3, NowHolds
<1>4. CASE UNCHANGED vars
  <2>1. InputInv'
    BY <1>4, InputStays DEF IInv, vars
  <2> QED BY <2>1, <1>4 DEF IInv, vars, StageInv, LineInv, PrevInv, StepInv
<1> QED BY <1>1, <1>2, <1>3, <1>4 DEF Next

(***************************************************************************)
(* The invariant holds in every state.                                     *)
(***************************************************************************)
LEMMA InvHolds == Spec => []IInv
BY InitHolds, StepHolds, PTL DEF Spec

-----------------------------------------------------------------------------
(***************************************************************************)
(* The invariant says that the line ascends.                               *)
(***************************************************************************)
LEMMA AscendsFrom == IInv => SeriesAscends
<1> SUFFICES ASSUME IInv PROVE SeriesAscends
  OBVIOUS
<1>1. \A i, j \in DOMAIN points : i < j => points[i].time < points[j].time
  BY DEF IInv, LineInv, Ascending
<1>2. prev # Undrawn => /\ points[1].value = 0 /\ points[2].value > 0
                        /\ points[2].time - points[1].time \in 1 .. PerSecond
  BY DEF IInv, PrevInv, RisesFromZero
<1>3. pc = "done" /\ Last(rows).time < now => Last(points).time = now
  <2> SUFFICES ASSUME pc = "done", Last(rows).time < now PROVE Last(points).time = now
    OBVIOUS
  <2>1. Last(rows) = rows[Len(rows)]
    BY RowsGiven, LastIs DEF IInv
  <2>2. points # << >> /\ points[Len(points)].time = now
    BY <2>1 DEF IInv, PrevInv
  <2> QED BY <2>2, LastIs DEF IInv, LineInv
<1> QED BY <1>1, <1>2, <1>3 DEF SeriesAscends

(***************************************************************************)
(* Every series that render.rs draws goes from left to right, rises from   *)
(* zero at most a second before its first value, and reaches now: for all  *)
(* columns of the matrix and every length of a second.                     *)
(***************************************************************************)
THEOREM LineAscends == Spec => []SeriesAscends
BY InvHolds, AscendsFrom, PTL

(***************************************************************************)
(* The invariant says that the line has the values of the matrix.          *)
(***************************************************************************)
LEMMA StepFrom == IInv => SeriesIsStep
<1> SUFFICES ASSUME IInv, pc = "done",
                    NEW t \in { r.time : r \in ToSet(rows) } \cup { p.time : p \in ToSet(points) }
             PROVE  ValueAt(points, t) = ValueAt(rows, t)
  BY DEF SeriesIsStep
<1>1. /\ points \in Seq(PointSet) /\ Ascending(points) /\ Len(points) \in Nat
      /\ DOMAIN points = 1 .. Len(points)
  BY DEF IInv, LineInv
<1>2. \A i \in 1 .. Len(points) : points[i].time \in Int
  <2>1. \A i \in 1 .. Len(points) : points[i] \in PointSet
    BY <1>1
  <2> QED BY <2>1 DEF PointSet
<1>3. /\ Len(rows) \in Nat /\ DOMAIN rows = 1 .. Len(rows)
      /\ \A i \in 1 .. Len(rows) : rows[i].time \in Int
  BY RowsGiven DEF IInv
<1>4. Ascending(rows)
  BY Given DEF IInv
<1>5. t \in Int
  BY <1>1, <1>2, <1>3 DEF ToSet
<1>6. next - 1 = Len(rows)
  BY <1>3 DEF IInv, StageInv
<1>7. PICK v \in Nat : At(rows, Len(rows), t, v) /\ At(points, Len(points), t, v)
  BY <1>5, <1>6 DEF IInv, StepInv
<1>8. ValueAt(points, t) = v
  BY <1>1, <1>2, <1>5, <1>7, ValueIsAt
<1>9. ValueAt(rows, t) = v
  BY <1>3, <1>4, <1>5, <1>7, ValueIsAt
<1> QED BY <1>8, <1>9

(***************************************************************************)
(* However many rows are not drawn, the line has the value of the matrix   *)
(* at every moment of a row or a point.                                    *)
(***************************************************************************)
THEOREM LineIsTheMatrix == Spec => []SeriesIsStep
BY InvHolds, StepFrom, PTL

(***************************************************************************)
(* The invariant says that the totals are whole.                           *)
(***************************************************************************)
LEMMA TotalFrom == IInv => TotalIsAll
<1> SUFFICES ASSUME IInv, NEW p \in ToSet(points)
             PROVE  /\ p.total = Cardinality({ r.crate : r \in { x \in ToSet(releases) : x.time <= p.time } })
                    /\ p.value <= p.total
  BY DEF TotalIsAll
<1>1. DOMAIN points = 1 .. Len(points)
  BY DEF IInv, LineInv
<1>2. PICK k \in 1 .. Len(points) : p = points[k]
  BY <1>1 DEF ToSet
<1>3. p.total = Count(releases, p.time) /\ p.value <= p.total
  BY <1>2 DEF IInv, LineInv, Counted
<1> QED BY <1>3 DEF Count

(***************************************************************************)
(* What Total::eval finds, by a binary search among times of which many    *)
(* may be the same, is the number of all crates published by then, and no  *)
(* fraction is above one: for all releases, of any number of crates.       *)
(***************************************************************************)
THEOREM TotalsAreWhole == Spec => []TotalIsAll
BY InvHolds, TotalFrom, PTL


(***************************************************************************)
(* A set of numbers that is not empty has a least one.                     *)
(***************************************************************************)
LEMMA LeastOf ==
  ASSUME NEW S, S \subseteq Nat, S # {}
  PROVE  \E n \in S : \A m \in S : n <= m
<1>1. PICK n \in S : \A m \in S : ~ (<<m, n>> \in OpToRel(<, Nat))
  BY NatLessThanWellFounded, WFMin
<1>2. \A m \in S : ~ (m < n)
  BY <1>1, Zenon DEF OpToRel
<1>3. \A m \in S : n <= m
  BY <1>2, SMT
<1> QED BY <1>3

(***************************************************************************)
(* Products and quotients of numbers.                                      *)
(***************************************************************************)
LEMMA Products ==
  ASSUME NEW p \in Nat \ {0}, NEW q \in Nat \ {0}
  PROVE  p * q \in Nat \ {0}
<1>1. PICK r \in Nat : p = r + 1
  BY p - 1 \in Nat
<1>2. p * q = r * q + q /\ r * q \in Nat
  BY <1>1
<1> QED BY <1>2

\* Both sides of a comparison may be multiplied by a number.
LEMMA Scaled ==
  ASSUME NEW p \in Int, NEW q \in Int, NEW r \in Nat, p <= q
  PROVE  p * r <= q * r
<1>1. PICK d \in Nat : q = p + d
  BY q - p \in Nat
<1>2. q * r = p * r + d * r /\ d * r \in Nat
  BY <1>1
<1> QED BY <1>2

\* And divided by one that is not zero.
LEMMA Unscaled ==
  ASSUME NEW p \in Int, NEW q \in Int, NEW r \in Nat \ {0}, p * r <= q * r
  PROVE  p <= q
<1> SUFFICES ASSUME q < p PROVE FALSE
  OBVIOUS
<1>1. PICK d \in Nat : p = q + 1 + d
  BY p - q - 1 \in Nat
<1>2. p * r = q * r + r + d * r /\ d * r \in Nat
  BY <1>1
<1> QED BY <1>2

\* A quotient is the last multiple that is not above.
LEMMA Quotients ==
  ASSUME NEW a \in Nat, NEW b \in Nat \ {0}
  PROVE  /\ a \div b \in Nat /\ b * (a \div b) <= a /\ a < b * (a \div b) + b
         /\ a % b = a - b * (a \div b)
BY SMT

-----------------------------------------------------------------------------
(* What is written of a fraction.                                          *)

IsPowers(b, f, n) == f = [i \in 0 .. n |-> IF i = 0 THEN 1 ELSE b * f[i - 1]]

PowersOf(b, n) == CHOOSE f : IsPowers(b, f, n)

(***************************************************************************)
(* Powers are what their recursion says.                                   *)
(***************************************************************************)
LEMMA PowersExist ==
  ASSUME NEW b
  PROVE  \A n \in Nat : IsPowers(b, PowersOf(b, n), n)
<1> DEFINE G == { n \in Nat : \E f : IsPowers(b, f, n) }
<1>1. 0 \in G
  <2> DEFINE f == [i \in 0 .. 0 |-> 1]
  <2>1. IsPowers(b, f, 0)
    BY DEF IsPowers
  <2> QED BY <2>1
<1>2. ASSUME NEW n \in Nat, n \in G PROVE n + 1 \in G
  <2>1. PICK f : IsPowers(b, f, n)
    BY <1>2
  <2> DEFINE g == [i \in 0 .. n + 1 |-> IF i = 0 THEN 1 ELSE b * f[i - 1]]
  <2>2. \A i \in 0 .. n : g[i] = f[i]
    BY <2>1 DEF IsPowers
  <2>3. \A i \in 0 .. n + 1 : i # 0 => i - 1 \in 0 .. n
    OBVIOUS
  <2>4. \A h : h = g => IsPowers(b, h, n + 1)
    <3> SUFFICES ASSUME NEW h, h = g PROVE IsPowers(b, h, n + 1)
      OBVIOUS
    <3>1. \A i \in 0 .. n + 1 :
            (IF i = 0 THEN 1 ELSE b * f[i - 1]) = (IF i = 0 THEN 1 ELSE b * h[i - 1])
      <4> HIDE DEF g
      <4> QED BY <2>2, <2>3
    <3> QED BY <3>1 DEF IsPowers
  <2> HIDE DEF g
  <2> QED BY <2>4
<1>3. \A n \in Nat : n \in G
  <2> HIDE DEF G
  <2> QED BY <1>1, <1>2, AllNumbers
<1> QED BY <1>3 DEF PowersOf

\* And so b ^ (n + 1) is b * b ^ n.
LEMMA PowerSteps ==
  ASSUME NEW b \in Nat
  PROVE  /\ Power(b, 0) = 1
         /\ \A n \in Nat : Power(b, n) \in Nat /\ Power(b, n + 1) = b * Power(b, n)
<1> DEFINE P(n) == PowersOf(b, n)
<1>1. \A n \in Nat : Power(b, n) = P(n)[n]
  BY DEF Power, PowersOf, IsPowers
<1>2. \A n \in Nat : \A i \in 0 .. n : P(n)[i] = IF i = 0 THEN 1 ELSE b * P(n)[i - 1]
  <2> SUFFICES ASSUME NEW n \in Nat, NEW i \in 0 .. n
               PROVE  P(n)[i] = IF i = 0 THEN 1 ELSE b * P(n)[i - 1]
    OBVIOUS
  <2>1. IsPowers(b, P(n), n)
    BY PowersExist
  <2> HIDE DEF P
  <2> QED BY <2>1 DEF IsPowers
<1> HIDE DEF P
<1>3. \A n \in Nat : P(n)[0] = 1
  BY <1>2
<1> DEFINE Same(i) == \A n \in Nat : i <= n => P(n)[i] = Power(b, i) /\ Power(b, i) \in Nat
           G == { i \in Nat : Same(i) }
<1>4. 0 \in G
  BY <1>1, <1>3
<1>5. ASSUME NEW i \in Nat, i \in G PROVE i + 1 \in G
  <2> SUFFICES ASSUME NEW n \in Nat, i + 1 <= n
               PROVE  P(n)[i + 1] = Power(b, i + 1) /\ Power(b, i + 1) \in Nat
    OBVIOUS
  <2>0. /\ i + 1 \in Nat /\ i + 1 \in 0 .. n /\ i + 1 \in 0 .. i + 1
        /\ i + 1 # 0 /\ (i + 1) - 1 = i /\ i <= n /\ i <= i + 1
    OBVIOUS
  <2>1. P(n)[i + 1] = b * P(n)[i]
    BY <1>2, <2>0
  <2>2. P(i + 1)[i + 1] = b * P(i + 1)[i]
    BY <1>2, <2>0
  <2>3. P(n)[i] = Power(b, i) /\ P(i + 1)[i] = Power(b, i) /\ Power(b, i) \in Nat
    BY <1>5, <2>0
  <2>4. Power(b, i + 1) = P(i + 1)[i + 1]
    BY <1>1, <2>0
  <2> QED BY <2>1, <2>2, <2>3, <2>4
<1>6. \A i \in Nat : i \in G
  <2> HIDE DEF G
  <2> QED BY <1>4, <1>5, AllNumbers
<1>7. \A n \in Nat : Power(b, n + 1) = b * Power(b, n)
  <2> SUFFICES ASSUME NEW n \in Nat PROVE Power(b, n + 1) = b * Power(b, n)
    OBVIOUS
  <2>0. n + 1 \in Nat /\ n + 1 \in 0 .. n + 1 /\ n + 1 # 0 /\ (n + 1) - 1 = n /\ n <= n + 1
    OBVIOUS
  <2>1. P(n + 1)[n + 1] = b * P(n + 1)[n]
    BY <1>2, <2>0
  <2>2. P(n + 1)[n] = Power(b, n)
    BY <1>6, <2>0
  <2> QED BY <1>1, <2>0, <2>1, <2>2
<1>8. Power(b, 0) = 1
  BY <1>1, <1>3
<1>9. \A n \in Nat : Power(b, n) \in Nat
  BY <1>6
<1> QED BY <1>7, <1>8, <1>9

(***************************************************************************)
(* Powers of a positive base are positive, and exponents add.              *)
(***************************************************************************)
LEMMA PowerAdds ==
  ASSUME NEW b \in Nat \ {0}
  PROVE  /\ \A n \in Nat : Power(b, n) \in Nat \ {0}
         /\ \A m, n \in Nat : Power(b, m + n) = Power(b, m) * Power(b, n)
<1>1. Power(b, 0) = 1 /\ \A n \in Nat : Power(b, n) \in Nat /\ Power(b, n + 1) = b * Power(b, n)
  BY PowerSteps
<1> DEFINE G == { n \in Nat : Power(b, n) # 0 }
<1>2. \A n \in Nat : n \in G
  <2>1. 0 \in G
    BY <1>1
  <2>2. ASSUME NEW n \in Nat, n \in G PROVE n + 1 \in G
    <3>1. PICK x \in Nat \ {0} : x = Power(b, n)
      BY <1>1, <2>2
    <3>2. Power(b, n + 1) = b * x /\ b * x # 0
      BY <1>1, <3>1, Products
    <3> QED BY <3>2
  <2> HIDE DEF G
  <2> QED BY <2>1, <2>2, AllNumbers
<1>3. ASSUME NEW m \in Nat PROVE \A n \in Nat : Power(b, m + n) = Power(b, m) * Power(b, n)
  <2> DEFINE H == { n \in Nat : Power(b, m + n) = Power(b, m) * Power(b, n) }
  <2>1. 0 \in H
    <3>1. m + 0 = m /\ Power(b, m) \in Nat
      BY <1>1
    <3> QED BY <1>1, <3>1
  <2>2. ASSUME NEW n \in Nat, n \in H PROVE n + 1 \in H
    <3>1. m + (n + 1) = (m + n) + 1 /\ m + n \in Nat
      OBVIOUS
    <3>2. Power(b, m + (n + 1)) = b * Power(b, m + n)
      BY <1>1, <3>1
    <3>3. PICK x \in Nat, y \in Nat : x = Power(b, m) /\ y = Power(b, n)
      BY <1>1
    <3>4. Power(b, m + n) = x * y /\ Power(b, n + 1) = b * y
      BY <1>1, <2>2, <3>3
    <3>5. b * (x * y) = x * (b * y)
      BY SMT
    <3> QED BY <3>2, <3>3, <3>4, <3>5
  <2> HIDE DEF H
  <2>3. \A n \in Nat : n \in H
    BY <2>1, <2>2, AllNumbers
  <2> QED BY <2>3 DEF H
<1> QED BY <1>1, <1>2, <1>3

(***************************************************************************)
(* The quotient of two floats is a float below one, off by at most half a  *)
(* unit of its last bit, and that is at most 2^-Mantissa of it.            *)
(***************************************************************************)
LEMMA ExponentIs ==
  ASSUME NEW v \in Nat \ {0}, NEW t \in Nat, v < t, t <= Power(2, Mantissa)
  PROVE  \E k \in Nat \ {0} : /\ Exponent(v, t) = k
                              /\ Power(2, Mantissa - 1) * t <= Power(2, k) * v
<1>0. 2 \in Nat \ {0} /\ 2 \in Nat
  OBVIOUS
<1>1. /\ Power(2, 0) = 1 /\ \A n \in Nat : Power(2, n + 1) = 2 * Power(2, n)
      /\ \A n \in Nat : Power(2, n) \in Nat \ {0}
      /\ \A m, n \in Nat : Power(2, m + n) = Power(2, m) * Power(2, n)
  BY <1>0, PowerSteps, PowerAdds
<1>2. Mantissa \in Nat \ {0} /\ Mantissa - 1 \in Nat /\ 2 * Mantissa \in Nat
  BY SeriesAssumption
<1>3. PICK B \in Nat \ {0} : B = Power(2, Mantissa - 1)
  BY <1>1, <1>2
<1>4. Power(2, Mantissa) = 2 * B
  <2>1. (Mantissa - 1) + 1 = Mantissa
    BY <1>2
  <2> QED BY <1>1, <1>2, <1>3, <2>1
<1> DEFINE Fits(k) == B * t <= Power(2, k) * v
           S == { k \in Nat : Fits(k) }
<1>5. 2 * Mantissa \in S
  <2>1. Mantissa + Mantissa = 2 * Mantissa
    BY <1>2
  <2>2. Power(2, 2 * Mantissa) = (2 * B) * (2 * B)
    BY <1>1, <1>2, <1>4, <2>1
  <2>3. t * B <= (2 * B) * B
    BY <1>4, Scaled
  <2>4. (2 * B) * B <= (2 * B) * (2 * B)
    <3>1. (2 * B) * (2 * B) = (2 * B) * B + (2 * B) * B /\ (2 * B) * B \in Nat
      OBVIOUS
    <3> QED BY <3>1
  <2>5. ((2 * B) * (2 * B)) * 1 <= ((2 * B) * (2 * B)) * v
    <3>1. 1 <= v /\ (2 * B) * (2 * B) \in Nat
      OBVIOUS
    <3>2. \A x \in Nat : 1 * x <= v * x
      BY <3>1, Scaled
    <3>3. \A x \in Nat : x * v = v * x /\ x * 1 = 1 * x
      OBVIOUS
    <3> QED BY <3>1, <3>2, <3>3
  <2>6. B * t = t * B
    OBVIOUS
  <2>7. PICK x \in Nat : x = (2 * B) * (2 * B)
    OBVIOUS
  <2>8. B * t <= x /\ x <= x * v /\ B * t \in Nat /\ x * v \in Nat
    BY <2>3, <2>4, <2>5, <2>6, <2>7
  <2>9. B * t <= x * v
    BY <2>8
  <2> QED BY <1>2, <2>2, <2>7, <2>9
<1>6. PICK k \in S : \A i \in S : k <= i
  <2> HIDE DEF S
  <2>1. S \subseteq Nat
    BY DEF S
  <2> QED BY <1>5, <2>1, LeastOf
<1>7. k # 0
  <2> SUFFICES ASSUME k = 0 PROVE FALSE
    OBVIOUS
  <2>1. B * t <= 1 * v
    BY <1>1, <1>6
  <2>2. 1 * t <= B * t
    BY Scaled
  <2> QED BY <2>1, <2>2
<1>8. Power(2, k) * v < (2 * B) * t
  <2>1. k - 1 \in Nat /\ (k - 1) + 1 = k /\ ~ (k <= k - 1)
    BY <1>7
  <2>2. ~Fits(k - 1)
    BY <1>6, <2>1
  <2>3. PICK y \in Nat : y = Power(2, k - 1)
    BY <1>1, <2>1
  <2>4. Power(2, k) = 2 * y /\ ~ (B * t <= y * v)
    BY <1>1, <2>1, <2>2, <2>3
  <2>5. (2 * y) * v = 2 * (y * v) /\ (2 * B) * t = 2 * (B * t) /\ y * v \in Nat /\ B * t \in Nat
    OBVIOUS
  <2> QED BY <2>4, <2>5
<1>9. k \in 0 .. 2 * Mantissa
  BY <1>2, <1>5, <1>6
<1> DEFINE Right(i) == /\ Power(2, i) * v >= Power(2, Mantissa - 1) * t
                       /\ Power(2, i) * v < Power(2, Mantissa) * t
<1>10. Right(k)
  <2>1. Power(2, k) * v \in Nat /\ B * t \in Nat
    <3>1. Power(2, k) \in Nat
      BY <1>1
    <3> QED BY <3>1
  <2>2. Power(2, k) * v >= B * t
    BY <1>6, <2>1
  <2> QED BY <1>3, <1>4, <1>8, <2>2
<1>11. PICK e : e = Exponent(v, t)
  OBVIOUS
<1>12. e = CHOOSE i \in 0 .. 2 * Mantissa : Right(i)
  BY <1>11 DEF Exponent
<1> HIDE DEF Right
<1>13. e \in 0 .. 2 * Mantissa /\ Right(e)
  BY <1>9, <1>10, <1>12
<1>14. e \in Nat /\ Power(2, e) \in Nat /\ B * t <= Power(2, e) * v
  <2>1. e \in Nat /\ Power(2, e) \in Nat
    BY <1>1, <1>2, <1>13
  <2>2. Power(2, e) * v \in Nat /\ B * t \in Nat
    BY <2>1
  <2> QED BY <1>3, <1>13, <2>1, <2>2 DEF Right
<1>15. e # 0
  <2> SUFFICES ASSUME e = 0 PROVE FALSE
    OBVIOUS
  <2>1. e \in S
    BY <1>14
  <2> QED BY <1>6, <1>7, <1>14, <2>1
<1> QED BY <1>3, <1>11, <1>14, <1>15

IsQuotient(m, K, v, t) ==
  /\ m < K
  /\ 2 * m * t <= 2 * K * v + t /\ 2 * K * v <= 2 * m * t + t
  /\ Power(2, Mantissa - 1) * t <= K * v

\* Which the model computes as the floor of the middle.
LEMMA QuotientIs ==
  ASSUME NEW v \in Nat \ {0}, NEW t \in Nat, v < t, t <= Power(2, Mantissa)
  PROVE  \E m, k \in Nat \ {0} : /\ Quotient(v, t) = [mant |-> m, exp |-> k]
                                 /\ IsQuotient(m, Power(2, k), v, t)
<1>1. PICK k \in Nat \ {0} : /\ Exponent(v, t) = k
                             /\ Power(2, Mantissa - 1) * t <= Power(2, k) * v
  BY ExponentIs
<1>2. 2 \in Nat \ {0} /\ Mantissa \in Nat \ {0} /\ Mantissa - 1 \in Nat
      /\ (Mantissa - 1) + 1 = Mantissa
  BY SeriesAssumption
<1>3. PICK K \in Nat \ {0}, B \in Nat \ {0} :
        K = Power(2, k) /\ B = Power(2, Mantissa - 1) /\ t <= 2 * B
  <2>1. \A n \in Nat : Power(2, n) \in Nat \ {0} /\ Power(2, n + 1) = 2 * Power(2, n)
    BY <1>2, PowerAdds, PowerSteps
  <2>2. Power(2, Mantissa) = 2 * Power(2, Mantissa - 1)
    BY <1>2, <2>1
  <2> QED BY <1>2, <2>1, <2>2
<1>4. PICK x \in Nat, c \in Nat \ {0} : x = 2 * K * v + t /\ c = 2 * t
  BY 2 * K * v + t \in Nat, 2 * t \in Nat \ {0}
<1>5. PICK m : m = x \div c
  OBVIOUS
<1>6. m \in Nat /\ c * m <= x /\ x < c * m + c
  BY <1>4, <1>5, Quotients
<1>7. c * m = 2 * m * t /\ 2 * m * t \in Nat /\ 2 * K * v \in Nat
  BY <1>4, <1>6
<1>8. 2 * m * t <= 2 * K * v + t /\ 2 * K * v <= 2 * m * t + t
  BY <1>4, <1>6, <1>7
<1>9. B * t <= K * v
  BY <1>1, <1>3
<1>10. m # 0
  <2> SUFFICES ASSUME m = 0 PROVE FALSE
    OBVIOUS
  <2>1. 2 * K * v + t < 2 * t
    BY <1>4, <1>6
  <2>2. 1 * t <= B * t
    BY Scaled
  <2>3. 2 * K * v = 2 * (K * v) /\ K * v \in Nat /\ B * t \in Nat
    OBVIOUS
  <2> QED BY <1>9, <2>1, <2>2, <2>3
<1>11. m < K
  <2> SUFFICES ASSUME K <= m PROVE FALSE
    BY <1>6
  <2>1. K * t <= m * t
    BY <1>6, Scaled
  <2>2. v * K <= (t - 1) * K
    BY Scaled
  <2>3. v * K = K * v /\ (t - 1) * K = K * t - K /\ K * t \in Nat /\ K * v \in Nat
        /\ m * t \in Nat /\ 2 * m * t = 2 * (m * t) /\ 2 * K * v = 2 * (K * v)
    BY <1>6
  <2>4. 2 * K <= t
    BY <1>8, <2>1, <2>2, <2>3
  <2>5. B * t < K * t
    BY <1>9, <2>2, <2>3
  <2>6. K * 1 <= B * 1
    BY <1>3, <2>4
  <2>7. K * t <= B * t
    BY <2>6, Scaled
  <2>8. B * t \in Nat
    OBVIOUS
  <2> QED BY <2>3, <2>5, <2>7, <2>8
<1>12. Quotient(v, t) = [mant |-> m, exp |-> k]
  BY <1>1, <1>3, <1>4, <1>5 DEF Quotient
<1>13. m \in Nat \ {0} /\ IsQuotient(m, Power(2, k), v, t)
  BY <1>3, <1>6, <1>8, <1>9, <1>10, <1>11 DEF IsQuotient
<1> QED BY <1>12, <1>13

-----------------------------------------------------------------------------
(***************************************************************************)
(* The text of a float below one: the search for it ends, at the latest    *)
(* with all of its decimals, and it is off by at most half a unit of the   *)
(* last bit.                                                               *)
(***************************************************************************)
LEMMA TenIsTwoFive == \A n \in Nat : Power(10, n) = Power(2, n) * Power(5, n)
<1>0. 2 \in Nat /\ 5 \in Nat /\ 10 \in Nat
  OBVIOUS
<1>1. /\ Power(2, 0) = 1 /\ \A n \in Nat : Power(2, n) \in Nat /\ Power(2, n + 1) = 2 * Power(2, n)
      /\ Power(5, 0) = 1 /\ \A n \in Nat : Power(5, n) \in Nat /\ Power(5, n + 1) = 5 * Power(5, n)
      /\ Power(10, 0) = 1 /\ \A n \in Nat : Power(10, n + 1) = 10 * Power(10, n)
  BY <1>0, PowerSteps
<1> DEFINE G == { n \in Nat : Power(10, n) = Power(2, n) * Power(5, n) }
<1>2. 0 \in G
  BY <1>1
<1>3. ASSUME NEW n \in Nat, n \in G PROVE n + 1 \in G
  <2>1. PICK x \in Nat, y \in Nat : x = Power(2, n) /\ y = Power(5, n)
    BY <1>1
  <2>2. 10 * (x * y) = (2 * x) * (5 * y)
    OBVIOUS
  <2> QED BY <1>1, <1>3, <2>1, <2>2
<1> HIDE DEF G
<1>4. \A n \in Nat : n \in G
  BY <1>2, <1>3, AllNumbers
<1> QED BY <1>4 DEF G

IsText(n, T, m, K) ==
  2 * K * n <= 2 * T * m + T /\ 2 * T * m <= 2 * K * n + T

\* What is read as a float is at most half a unit of its last bit away.
LEMMA ReadIsNear ==
  ASSUME NEW m \in Nat, NEW k \in Nat, NEW n \in Nat, NEW j \in Nat,
         ReadAs(n, j, [mant |-> m, exp |-> k])
  PROVE  IsText(n, Power(10, j), m, Power(2, k))
<1>1. PICK T \in Nat, K \in Nat : T = Power(10, j) /\ K = Power(2, k)
  <2>1. 2 \in Nat /\ 10 \in Nat
    OBVIOUS
  <2> QED BY <2>1, PowerSteps
<1>2. PICK a \in Int : a = 2 * K * n - 2 * T * m
  BY 2 * K * n - 2 * T * m \in Int
<1>3. -T <= a /\ a <= T
  <2> DEFINE twice == m = Power(2, Mantissa - 1)
  <2>1. \/ -T < a /\ a < T
        \/ a <= T /\ -T <= a * (IF twice THEN 2 ELSE 1)
    BY <1>1, <1>2 DEF ReadAs
  <2> HIDE DEF twice
  <2>2. CASE -T < a /\ a < T
    BY <2>2
  <2>3. CASE a <= T /\ -T <= a * 2
    BY <2>3
  <2>4. CASE a <= T /\ -T <= a * 1
    BY <2>4
  <2> QED BY <2>1, <2>2, <2>3, <2>4
<1>4. 2 * K * n \in Nat /\ 2 * T * m \in Nat
  OBVIOUS
<1> QED BY <1>1, <1>2, <1>3, <1>4 DEF IsText

\* The nearest decimal of the fewest places is one of those.
LEMMA ShortestIs ==
  ASSUME NEW m \in Nat \ {0}, NEW k \in Nat \ {0}, m < Power(2, k)
  PROVE  \E n \in Nat \ {0}, j \in Nat \ {0} :
           /\ Shortest([mant |-> m, exp |-> k]) = [digits |-> n, places |-> j]
           /\ n < Power(10, j)
           /\ IsText(n, Power(10, j), m, Power(2, k))
<1>1. PICK f : f = [mant |-> m, exp |-> k]
  OBVIOUS
<1>2. f.mant = m /\ f.exp = k
  BY <1>1
<1>3. /\ \A i \in Nat : Power(10, i) \in Nat \ {0} /\ Power(2, i) \in Nat \ {0}
      /\ \A i \in Nat : Power(5, i) \in Nat \ {0}
  <2>1. 2 \in Nat \ {0} /\ 5 \in Nat \ {0} /\ 10 \in Nat \ {0}
    OBVIOUS
  <2> QED BY <2>1, PowerAdds
<1>4. PICK K \in Nat \ {0} : K = Power(2, k)
  BY <1>3
\* All the decimals of f are read as f.
<1>5. Readable(f, k) # {}
  <2>1. PICK T \in Nat \ {0}, V \in Nat \ {0} :
          T = Power(10, k) /\ V = Power(5, k) /\ T = K * V
    BY <1>3, <1>4, TenIsTwoFive
  <2>2. Below(f, k) = (T * m) \div K
    BY <1>2, <1>4, <2>1 DEF Below
  <2>3. T * m = K * (V * m) /\ V * m \in Nat /\ T * m \in Nat
    BY <2>1
  <2>4. (T * m) \div K = V * m
    <3>1. PICK q \in Nat : q = (T * m) \div K /\ K * q <= T * m /\ T * m < K * q + K
      BY <2>3, Quotients
    <3>2. PICK r \in Nat : r = V * m
      BY <2>3
    <3>3. q * K <= r * K /\ r * K < (q + 1) * K
      <4>1. K * q = q * K /\ K * r = r * K /\ (q + 1) * K = q * K + K
        OBVIOUS
      <4> QED BY <2>3, <3>1, <3>2, <4>1
    <3>4. q <= r
      BY <3>3, Unscaled
    <3>5. ~ (q + 1 <= r)
      <4> SUFFICES ASSUME q + 1 <= r PROVE FALSE
        OBVIOUS
      <4>1. (q + 1) * K <= r * K
        BY Scaled
      <4>2. (q + 1) * K \in Nat /\ r * K \in Nat
        OBVIOUS
      <4> QED BY <3>3, <4>1, <4>2
    <3> QED BY <3>1, <3>2, <3>4, <3>5
  <2>5. 2 * K * (V * m) - 2 * T * m = 0
    <3>1. 2 * T * m = 2 * (T * m) /\ 2 * K * (V * m) = 2 * (K * (V * m))
      BY <2>3
    <3> QED BY <2>3, <3>1
  <2>6. PICK d \in Nat : d = V * m
    BY <2>3
  <2>7. ReadAs(d, k, f)
    <3>1. \A c \in {1, 2} : -T <= 0 * c
      OBVIOUS
    <3>2. -T < 0 /\ 0 < T /\ 0 <= T
      OBVIOUS
    <3>3. 2 * K * d - 2 * T * m = 0
      BY <2>5, <2>6
    <3>4. /\ 2 * Power(2, f.exp) * d - 2 * Power(10, k) * f.mant = 0
          /\ Power(10, k) = T
      BY <1>2, <1>4, <2>1, <3>3
    <3> QED BY <3>1, <3>2, <3>4 DEF ReadAs
  <2>8. d \in Readable(f, k)
    BY <2>2, <2>4, <2>6, <2>7 DEF Readable
  <2> QED BY <2>8
<1> DEFINE First(j) == Readable(f, j) # {} /\ \A i \in 1 .. j - 1 : Readable(f, i) = {}
<1>6. \E j \in 1 .. k : First(j)
  <2> DEFINE S == { i \in 1 .. k : Readable(f, i) # {} }
  <2>1. S \subseteq Nat /\ k \in S
    BY <1>5
  <2>2. PICK j \in S : \A i \in S : j <= i
    <3> HIDE DEF S
    <3> QED BY <2>1, LeastOf
  <2>3. \A i \in 1 .. j - 1 : i \in 1 .. k /\ ~ (j <= i)
    OBVIOUS
  <2>4. \A i \in 1 .. j - 1 : Readable(f, i) = {}
    BY <2>2, <2>3
  <2> QED BY <2>4
<1>7. PICK j : j = CHOOSE i \in 1 .. k : First(i)
  OBVIOUS
<1>8. j \in 1 .. k /\ Readable(f, j) # {}
  <2> HIDE DEF First
  <2>1. j \in 1 .. k /\ First(j)
    BY <1>6, <1>7
  <2> QED BY <2>1 DEF First
<1>9. Shortest(f) = [digits |-> Nearest(f, j), places |-> j]
  BY <1>2, <1>7 DEF Shortest
<1>10. PICK n : n = Nearest(f, j)
  OBVIOUS
<1>11. n \in Readable(f, j)
  <2>1. Readable(f, j) \subseteq {Below(f, j), Below(f, j) + 1}
    BY DEF Readable
  <2>2. n = Below(f, j) \/ n = Below(f, j) + 1
    BY <1>10 DEF Nearest
  <2>3. n = Below(f, j) + 1 => n \in Readable(f, j) \/ n = Below(f, j)
    BY <1>10 DEF Nearest
  <2>4. n = Below(f, j) /\ n # Below(f, j) + 1 /\ n \notin Readable(f, j)
          => Below(f, j) + 1 \notin Readable(f, j)
    BY <1>10 DEF Nearest
  <2>5. Below(f, j) \in Nat
    <3>1. PICK T \in Nat \ {0} : T = Power(10, j)
      BY <1>3, <1>8
    <3>2. Below(f, j) = (T * m) \div K /\ T * m \in Nat
      BY <1>2, <1>4, <3>1 DEF Below
    <3> QED BY <3>2, Quotients
  <2> QED BY <1>8, <2>1, <2>2, <2>3, <2>4, <2>5
<1>12. n \in Nat /\ ReadAs(n, j, f)
  <2>1. PICK T \in Nat \ {0} : T = Power(10, j)
    BY <1>3, <1>8
  <2>2. Below(f, j) = (T * m) \div K /\ T * m \in Nat
    BY <1>2, <1>4, <2>1 DEF Below
  <2>3. Below(f, j) \in Nat
    BY <2>2, Quotients
  <2> QED BY <1>11, <2>3 DEF Readable
<1>13. PICK T \in Nat \ {0} : T = Power(10, j) /\ IsText(n, T, m, K)
  BY <1>1, <1>3, <1>4, <1>8, <1>12, ReadIsNear
<1>14. 2 * K * n <= 2 * T * m + T /\ 2 * T * m <= 2 * K * n + T
  BY <1>13 DEF IsText
<1>15. n # 0
  <2> SUFFICES ASSUME n = 0 PROVE FALSE
    OBVIOUS
  <2>1. 2 * T * m <= T
    BY <1>14
  <2>2. 1 * T <= m * T /\ 2 * T * m = 2 * (m * T) /\ m * T \in Nat
    BY Scaled
  <2> QED BY <2>1, <2>2
<1>16. n < T
  <2> SUFFICES ASSUME T <= n PROVE FALSE
    BY <1>12
  <2>1. T * K <= n * K
    BY <1>12, Scaled
  <2>2. (m + 1) * T <= K * T
    BY <1>4, Scaled
  <2>3. (m + 1) * T = m * T + T /\ 2 * T * m = 2 * (m * T) /\ 2 * K * n = 2 * (n * K)
        /\ m * T \in Nat /\ K * T = T * K /\ K * T \in Nat /\ n * K \in Nat
    BY <1>12
  <2> QED BY <1>14, <2>1, <2>2, <2>3
<1> QED BY <1>1, <1>4, <1>8, <1>9, <1>10, <1>12, <1>13, <1>15, <1>16

-----------------------------------------------------------------------------
(***************************************************************************)
(* Of a text below one, the digits that are kept and not zeros at the end: *)
(* s is the weight of the last of them in units of the text's last place.  *)
(***************************************************************************)
LEMMA FirstNonzeroIs ==
  ASSUME NEW n \in Nat \ {0}, NEW j \in Nat \ {0}, n < Power(10, j)
  PROVE  \E i \in 1 .. j : /\ FirstNonzero([digits |-> n, places |-> j]) = i
                           /\ Power(10, j) <= Power(10, i) * n
<1>1. 10 \in Nat /\ 10 \in Nat \ {0}
  OBVIOUS
<1>2. /\ Power(10, 0) = 1 /\ \A i \in Nat : Power(10, i + 1) = 10 * Power(10, i)
      /\ \A i \in Nat : Power(10, i) \in Nat \ {0}
  BY <1>1, PowerSteps, PowerAdds
<1>3. PICK T \in Nat \ {0} : T = Power(10, j)
  BY <1>2
<1> DEFINE S == { i \in Nat : T <= Power(10, i) * n }
<1>4. j \in S
  <2>1. 1 * T <= n * T /\ T * n = n * T
    BY Scaled
  <2> QED BY <1>3, <2>1
<1>5. PICK i \in S : \A h \in S : i <= h
  <2>1. S \subseteq Nat
    OBVIOUS
  <2> HIDE DEF S
  <2> QED BY <1>4, <2>1, LeastOf
<1>6. i \in 1 .. j
  <2>1. i # 0
    <3>1. 0 \notin S
      BY <1>2, <1>3
    <3> QED BY <3>1
  <2> QED BY <1>4, <1>5, <2>1
<1>7. Power(10, i - 1) * n < T
  <2>1. i - 1 \in Nat /\ i - 1 \notin S
    BY <1>5, <1>6
  <2>2. PICK x \in Nat : x = Power(10, i - 1)
    BY <1>2, <2>1
  <2>3. ~ (T <= x * n) /\ x * n \in Nat
    BY <2>1, <2>2
  <2> QED BY <2>2, <2>3
<1> DEFINE First(h) == /\ Power(10, h) * n >= T /\ Power(10, h - 1) * n < T
<1>8. First(i)
  <2>1. Power(10, i) * n \in Nat
    <3>1. Power(10, i) \in Nat
      BY <1>2
    <3> QED BY <3>1
  <2> QED BY <1>7, <2>1
<1>9. PICK h : h = FirstNonzero([digits |-> n, places |-> j])
  OBVIOUS
<1>10. h = CHOOSE g \in 1 .. j : First(g)
  BY <1>3, <1>9 DEF FirstNonzero
<1>11. h \in 1 .. j /\ First(h)
  <2> HIDE DEF First
  <2> QED BY <1>6, <1>8, <1>10
<1>12. T <= Power(10, h) * n
  <2>1. Power(10, h) \in Nat
    BY <1>2, <1>11
  <2> QED BY <1>11, <2>1
<1> QED BY <1>3, <1>9, <1>11, <1>12

\* What is trimmed are zeros, and there is a last of them.
LEMMA TrimmedIs ==
  ASSUME NEW d \in Nat \ {0}, NEW p \in Nat, d < Power(10, p + 1)
  PROVE  \E z \in 0 .. p, w \in Nat :
           /\ Trimmed([digits |-> d, places |-> p]) = [digits |-> w, places |-> p - z]
           /\ d = Power(10, z) * w
<1>1. 10 \in Nat /\ 10 \in Nat \ {0}
  OBVIOUS
<1>2. Power(10, 0) = 1 /\ \A i \in Nat : Power(10, i) \in Nat \ {0}
  BY <1>1, PowerSteps, PowerAdds
<1> DEFINE S == { i \in Nat : d % Power(10, i + 1) # 0 }
           Ends(z) == d % Power(10, z) = 0 /\ d % Power(10, z + 1) # 0
<1>3. p \in S
  <2>1. PICK T \in Nat \ {0} : T = Power(10, p + 1)
    BY <1>2
  <2>2. d < T => d % T = d
    BY SMT
  <2> QED BY <2>1, <2>2
<1>4. PICK i \in S : \A h \in S : i <= h
  <2>1. S \subseteq Nat
    OBVIOUS
  <2> HIDE DEF S
  <2> QED BY <1>3, <2>1, LeastOf
<1>5. i \in 0 .. p
  BY <1>3, <1>4
<1>6. d % Power(10, i) = 0
  <2>1. CASE i = 0
    <3>1. d % 1 = 0
      BY SMT
    <3> QED BY <1>2, <2>1, <3>1
  <2>2. CASE i # 0
    <3>1. i - 1 \in Nat /\ (i - 1) + 1 = i /\ ~ (i <= i - 1)
      BY <2>2
    <3>2. i - 1 \notin S
      BY <1>4, <3>1
    <3> QED BY <3>1, <3>2
  <2> QED BY <2>1, <2>2
<1>7. Ends(i)
  BY <1>4, <1>6
<1>8. PICK z : z = CHOOSE h \in 0 .. p : Ends(h)
  OBVIOUS
<1>9. z \in 0 .. p /\ Ends(z)
  <2> HIDE DEF Ends
  <2> QED BY <1>5, <1>7, <1>8
<1>10. PICK a \in Nat \ {0} : a = Power(10, z)
  BY <1>2, <1>9
<1>11. PICK w : w = d \div a
  OBVIOUS
<1>12. w \in Nat /\ d = a * w
  <2>1. d % a = d - a * (d \div a) /\ d \div a \in Nat
    BY Quotients
  <2>2. d % a = 0
    BY <1>9, <1>10
  <2>3. a * w \in Nat
    BY <1>11, <2>1
  <2> QED BY <1>11, <2>1, <2>2, <2>3
<1>13. Trimmed([digits |-> d, places |-> p]) = [digits |-> w, places |-> p - z]
  BY <1>8, <1>10, <1>11 DEF Trimmed
<1> QED BY <1>9, <1>10, <1>12, <1>13

IsTruncated(e, n, T, s) ==
  /\ T = s * Power(10, e.places)
  /\ s * e.digits <= n
  /\ Power(10, Kept - 1) * (n - s * e.digits) < n

\* What is cut off is under one unit of the last digit kept.
LEMMA TruncatedIs ==
  ASSUME NEW n \in Nat \ {0}, NEW j \in Nat \ {0}, n < Power(10, j)
  PROVE  \E w, q \in Nat, s \in Nat \ {0} :
           /\ Truncated([digits |-> n, places |-> j]) = [digits |-> w, places |-> q]
           /\ IsTruncated([digits |-> w, places |-> q], n, Power(10, j), s)
<1>1. 10 \in Nat /\ 10 \in Nat \ {0} /\ Kept \in Nat \ {0} /\ Kept - 1 \in Nat
  BY SeriesAssumption
<1>2. /\ Power(10, 0) = 1 /\ \A i \in Nat : Power(10, i + 1) = 10 * Power(10, i)
      /\ \A i \in Nat : Power(10, i) \in Nat \ {0}
      /\ \A g, h \in Nat : Power(10, g + h) = Power(10, g) * Power(10, h)
  BY <1>1, PowerSteps, PowerAdds
<1>3. PICK i \in 1 .. j : /\ FirstNonzero([digits |-> n, places |-> j]) = i
                          /\ Power(10, j) <= Power(10, i) * n
  BY FirstNonzeroIs
<1>4. PICK p : p = IF i + Kept - 1 < j THEN i + Kept - 1 ELSE j
  OBVIOUS
<1>5. p \in 1 .. j /\ i <= p /\ p \in Nat /\ j - p \in Nat /\ (j - p) + p = j
      /\ p - i \in Nat /\ (p - i) + i = p /\ i \in Nat
  BY <1>1, <1>4
<1>6. PICK D \in Nat \ {0}, V \in Nat \ {0}, I \in Nat \ {0}, C \in Nat \ {0}, T \in Nat \ {0} :
        /\ D = Power(10, j - p) /\ V = Power(10, p) /\ I = Power(10, i)
        /\ C = Power(10, Kept - 1) /\ T = Power(10, j)
        /\ T = D * V
  <2>1. /\ Power(10, j - p) \in Nat \ {0} /\ Power(10, p) \in Nat \ {0}
        /\ Power(10, i) \in Nat \ {0} /\ Power(10, j) \in Nat \ {0}
        /\ Power(10, Kept - 1) \in Nat \ {0}
    BY <1>1, <1>2, <1>5
  <2>2. Power(10, (j - p) + p) = Power(10, j - p) * Power(10, p)
    BY <1>2, <1>5
  <2>3. Power(10, j) = Power(10, j - p) * Power(10, p)
    BY <1>5, <2>2
  <2> QED BY <2>1, <2>3
<1>7. PICK d : d = n \div D
  OBVIOUS
<1>8. d \in Nat /\ D * d <= n /\ n < D * d + D
  BY <1>7, Quotients
<1>9. Truncated([digits |-> n, places |-> j]) = Trimmed([digits |-> d, places |-> p])
  BY <1>3, <1>4, <1>6, <1>7 DEF Truncated, Cut
\* The first digit that is not zero is among those kept.
<1>10. D <= n
  <2>1. PICK W \in Nat \ {0} : W = Power(10, p - i) /\ V = W * I
    <3>1. Power(10, (p - i) + i) = Power(10, p - i) * Power(10, i)
      BY <1>2, <1>5
    <3>2. Power(10, p - i) \in Nat \ {0}
      BY <1>2, <1>5
    <3>3. Power(10, p) = Power(10, p - i) * Power(10, i)
      BY <1>5, <3>1
    <3> QED BY <1>6, <3>2, <3>3
  <2>2. D * V <= I * n
    BY <1>3, <1>6
  <2>3. (D * W) * I <= n * I
    <3>1. D * V = (D * W) * I /\ I * n = n * I
      BY <2>1
    <3> QED BY <2>2, <3>1
  <2>4. D * W <= n
    BY <2>3, Unscaled
  <2>5. 1 * D <= W * D /\ W * D = D * W /\ D * W \in Nat
    BY Scaled
  <2> QED BY <2>4, <2>5
<1>11. d # 0
  <2> SUFFICES ASSUME d = 0 PROVE FALSE
    OBVIOUS
  <2> QED BY <1>8, <1>10
<1>12. d < Power(10, p + 1)
  <2>1. Power(10, p + 1) = 10 * V
    BY <1>2, <1>5, <1>6
  <2>2. ~ (V <= d)
    <3> SUFFICES ASSUME V <= d PROVE FALSE
      OBVIOUS
    <3>1. V * D <= d * D /\ V * D = D * V /\ d * D = D * d /\ D * V \in Nat /\ D * d \in Nat
      BY <1>8, Scaled
    <3> QED BY <1>6, <1>8, <3>1
  <2> QED BY <1>8, <2>1, <2>2
<1>13. PICK z \in 0 .. p, w \in Nat :
         /\ Trimmed([digits |-> d, places |-> p]) = [digits |-> w, places |-> p - z]
         /\ d = Power(10, z) * w
  BY <1>5, <1>8, <1>11, <1>12, TrimmedIs
<1>14. p - z \in Nat /\ z \in Nat /\ z + (p - z) = p
  BY <1>5
<1>15. PICK a \in Nat \ {0}, U \in Nat \ {0} :
         a = Power(10, z) /\ U = Power(10, p - z) /\ V = a * U
  <2>1. Power(10, z + (p - z)) = Power(10, z) * Power(10, p - z)
    BY <1>2, <1>14
  <2>2. Power(10, z) \in Nat \ {0} /\ Power(10, p - z) \in Nat \ {0}
    BY <1>2, <1>14
  <2>3. Power(10, p) = Power(10, z) * Power(10, p - z)
    BY <1>14, <2>1
  <2> QED BY <1>6, <2>2, <2>3
<1>16. PICK s \in Nat \ {0} : s = D * a
  BY Products
<1>17. T = s * U /\ s * w = D * d
  <2>1. D * (a * U) = (D * a) * U /\ D * (a * w) = (D * a) * w
    OBVIOUS
  <2> QED BY <1>6, <1>13, <1>15, <1>16, <2>1
<1>18. C * (n - s * w) < n
  <2>1. CASE p = j
    <3>1. D = 1
      <4>1. j - p = 0
        BY <2>1
      <4> QED BY <1>2, <1>6, <4>1
    <3>2. n - s * w = 0
      BY <1>8, <1>17, <3>1
    <3> QED BY <3>2
  <2>2. CASE p # j
    <3>1. p = i + Kept - 1 /\ p - i = Kept - 1
      BY <1>1, <1>4, <2>2
    <3>2. V = C * I
      BY <1>2, <1>5, <1>6, <3>1
    <3>3. (D * C) * I <= n * I
      <4>1. D * V <= I * n
        BY <1>3, <1>6
      <4>2. D * V = (D * C) * I /\ I * n = n * I
        BY <3>2
      <4> QED BY <4>1, <4>2
    <3>4. D * C <= n
      BY <3>3, Unscaled
    <3>5. PICK r \in Nat : r = n - s * w /\ r + 1 <= D
      BY <1>8, <1>17
    <3>6. (r + 1) * C <= D * C
      BY <3>5, Scaled
    <3>7. (r + 1) * C = C * r + C /\ C * r \in Nat /\ D * C \in Nat
      OBVIOUS
    <3> QED BY <3>4, <3>5, <3>6, <3>7
  <2> QED BY <2>1, <2>2
<1>19. IsTruncated([digits |-> w, places |-> p - z], n, Power(10, j), s)
  BY <1>6, <1>8, <1>15, <1>17, <1>18 DEF IsTruncated
<1> QED BY <1>9, <1>13, <1>14, <1>19

-----------------------------------------------------------------------------
(***************************************************************************)
(* The three errors together.                                              *)
(***************************************************************************)
IsClose(e, v, t) ==
  LET exact   == Power(10, e.places) * v
      written == e.digits * t
      float   == Power(2, Mantissa - 1)
      digits  == Power(10, Kept - 1)
  IN /\ float * (written - exact) <= exact
     /\ v > 0 => digits * float * (exact - written) < (digits + float) * exact

\* A text is off by as much as the float and as what is read as the float.
LEMMA TextIsClose ==
  ASSUME NEW v \in Nat, NEW t \in Nat, NEW m \in Nat, NEW K \in Nat \ {0},
         NEW n \in Nat, NEW T \in Nat, IsText(n, T, m, K), IsQuotient(m, K, v, t),
         NEW B \in Nat, B = Power(2, Mantissa - 1)
  PROVE  B * (n * t - T * v) <= T * v /\ B * (T * v - n * t) <= T * v
<1>1. /\ 2 * K * n <= 2 * T * m + T /\ 2 * T * m <= 2 * K * n + T
      /\ 2 * m * t <= 2 * K * v + t /\ 2 * K * v <= 2 * m * t + t
      /\ B * t <= K * v
  BY DEF IsText, IsQuotient
<1>2. PICK N \in Nat, X \in Nat, Y \in Nat : N = n * t /\ X = T * v /\ Y = m * t * T
  BY n * t \in Nat, T * v \in Nat, m * t * T \in Nat
<1>3. PICK E \in Nat : E = t * T
  BY t * T \in Nat
<1>4. 2 * (K * N) <= 2 * Y + E /\ 2 * Y <= 2 * (K * N) + E
  <2>1. (2 * K * n) * t <= (2 * T * m + T) * t /\ (2 * T * m) * t <= (2 * K * n + T) * t
    BY <1>1, Scaled
  <2>2. /\ (2 * K * n) * t = 2 * (K * N) /\ (2 * T * m + T) * t = 2 * Y + E
        /\ (2 * T * m) * t = 2 * Y /\ (2 * K * n + T) * t = 2 * (K * N) + E
    BY <1>2, <1>3
  <2> QED BY <2>1, <2>2
<1>5. 2 * Y <= 2 * (K * X) + E /\ 2 * (K * X) <= 2 * Y + E
  <2>1. (2 * m * t) * T <= (2 * K * v + t) * T /\ (2 * K * v) * T <= (2 * m * t + t) * T
    BY <1>1, Scaled
  <2>2. /\ (2 * m * t) * T = 2 * Y /\ (2 * K * v + t) * T = 2 * (K * X) + E
        /\ (2 * K * v) * T = 2 * (K * X) /\ (2 * m * t + t) * T = 2 * Y + E
    BY <1>2, <1>3
  <2> QED BY <2>1, <2>2
<1>6. B * E <= K * X
  <2>1. (B * t) * T <= (K * v) * T
    BY <1>1, Scaled
  <2>2. (B * t) * T = B * E /\ (K * v) * T = K * X
    BY <1>2, <1>3
  <2> QED BY <2>1, <2>2
<1>7. K * N - K * X <= E /\ K * X - K * N <= E
  <2>1. K * N \in Nat /\ K * X \in Nat
    OBVIOUS
  <2> QED BY <1>4, <1>5, <2>1
<1>8. ASSUME NEW a \in Int, NEW b \in Int, K * a - K * b <= E PROVE B * (a - b) <= X
  <2>1. (K * a - K * b) * B <= E * B
    <3>1. K * a - K * b \in Int
      OBVIOUS
    <3> QED BY <1>8, <3>1, Scaled
  <2>2. (K * a - K * b) * B = (B * (a - b)) * K /\ E * B = B * E /\ K * X = X * K
        /\ B * (a - b) \in Int
    OBVIOUS
  <2>3. (B * (a - b)) * K <= X * K
    <3>1. (B * (a - b)) * K \in Int /\ B * E \in Int /\ X * K \in Int
      BY <2>2
    <3> QED BY <1>6, <2>1, <2>2, <3>1
  <2> QED BY <2>2, <2>3, Unscaled
<1>9. N \in Int /\ X \in Int
  BY <1>2
<1>10. B * (N - X) <= X
  BY <1>7, <1>8, <1>9, Zenon
<1>11. B * (X - N) <= X
  BY <1>7, <1>8, <1>9, Zenon
<1> QED BY <1>2, <1>10, <1>11

\* And what is written by what is cut off, too.
LEMMA TogetherClose ==
  ASSUME NEW v \in Nat \ {0}, NEW t \in Nat \ {0}, NEW n \in Nat, NEW T \in Nat \ {0},
         NEW w \in Nat, NEW U \in Nat \ {0}, NEW s \in Nat \ {0},
         NEW B \in Nat \ {0}, NEW C \in Nat \ {0},
         B * (n * t - T * v) <= T * v, B * (T * v - n * t) <= T * v,
         T = s * U, s * w <= n, C * (n - s * w) < n
  PROVE  /\ B * (w * t - U * v) <= U * v
         /\ C * B * (U * v - w * t) < (C + B) * (U * v)
<1>1. PICK N \in Nat, x \in Nat, y \in Nat : N = n * t /\ x = U * v /\ y = w * t
  BY n * t \in Nat, U * v \in Nat, w * t \in Nat
<1>2. PICK X \in Nat, W \in Nat : X = s * x /\ W = s * y
  BY s * x \in Nat, s * y \in Nat
<1>3. T * v = X /\ (s * w) * t = W
  BY <1>1, <1>2
<1>4. W <= N
  <2>1. (s * w) * t <= n * t
    BY Scaled
  <2> QED BY <1>1, <1>3, <2>1
<1>5. B * (N - X) <= X /\ B * (X - N) <= X
  BY <1>1, <1>3
<1>6. C * (N - W) < N
  <2>1. PICK r \in Nat : r = n - s * w
    BY s * w \in Nat
  <2>2. (C * r + 1) * t <= n * t
    <3>1. C * r + 1 <= n /\ C * r + 1 \in Nat
      BY <2>1
    <3> QED BY <3>1, Scaled
  <2>3. (C * r + 1) * t = C * (r * t) + t /\ r * t = N - W /\ C * (r * t) \in Nat
    <3>1. (n - s * w) * t = n * t - (s * w) * t
      BY s * w \in Nat
    <3>2. r * t = N - W
      BY <1>1, <1>3, <2>1, <3>1
    <3> QED BY <3>2
  <2> QED BY <1>1, <2>2, <2>3
<1>7. B * (W - X) <= X
  <2>1. (W - X) * B <= (N - X) * B
    BY <1>4, Scaled
  <2>2. (W - X) * B = B * (W - X) /\ (N - X) * B = B * (N - X)
        /\ B * (W - X) \in Int /\ B * (N - X) \in Int
    OBVIOUS
  <2> QED BY <1>5, <2>1, <2>2
<1>8. C * B * (X - W) < (C + B) * X
  <2>1. PICK M \in Int : M = N - W
    BY N - W \in Int
  <2>2. PICK P \in Nat : P = C * M /\ P < N
    <3>1. M \in Nat
      BY <1>4, <2>1
    <3>2. C * M \in Nat
      BY <3>1
    <3>3. C * M < N
      BY <1>6, <2>1
    <3> QED BY <3>2, <3>3
  <2>3. C * B * (X - W) = C * (B * (X - N)) + B * P
    <3>1. X - W = (X - N) + M
      BY <2>1
    <3>2. \A a, b \in Int : C * B * (a + b) = C * (B * a) + B * (C * b)
      OBVIOUS
    <3> QED BY <2>2, <3>1, <3>2
  <2>4. (C + B) * X = C * X + B * X
    OBVIOUS
  <2>5. CASE N <= X
    <3>1. (B * (X - N)) * C <= X * C
      <4>1. B * (X - N) \in Int
        OBVIOUS
      <4> QED BY <1>5, <4>1, Scaled
    <3>2. (P + 1) * B <= X * B
      BY <2>2, <2>5, Scaled
    <3>3. /\ (B * (X - N)) * C = C * (B * (X - N)) /\ X * C = C * X
          /\ (P + 1) * B = B * P + B /\ X * B = B * X
          /\ C * (B * (X - N)) \in Int /\ C * X \in Int /\ B * P \in Int /\ B * X \in Int
      OBVIOUS
    <3> QED BY <2>3, <2>4, <3>1, <3>2, <3>3
  <2>6. CASE X < N
    <3>1. PICK Z \in Nat : Z = N - X
      BY <2>6
    <3>2. 1 * Z <= C * Z /\ C * Z \in Nat
      BY Scaled
    \* C (X - W) = P - C Z <= P - Z < X
    <3>3. C * (B * (X - N)) = -(B * (C * Z))
      <4>1. X - N = -Z
        BY <3>1
      <4>2. C * (B * (-Z)) = -(B * (C * Z))
        OBVIOUS
      <4> QED BY <4>1, <4>2
    <3>4. C * B * (X - W) = B * (P - C * Z)
      <4>1. B * (P - C * Z) = B * P - B * (C * Z)
        OBVIOUS
      <4> QED BY <2>3, <3>3, <4>1
    <3>5. PICK g \in Int : g = P - C * Z /\ g + 1 <= X
      <4>1. P - C * Z + 1 <= X /\ P - C * Z \in Int
        BY <2>2, <3>1, <3>2
      <4> QED BY <4>1
    <3>6. (g + 1) * B <= X * B
      BY <3>5, Scaled
    <3>7. (g + 1) * B = B * g + B /\ X * B = B * X /\ B * g \in Int /\ B * X \in Nat /\ C * X \in Nat
      OBVIOUS
    <3> QED BY <2>4, <3>4, <3>5, <3>6, <3>7
  <2> QED BY <2>5, <2>6
\* Both sides in units of the digits written.
<1>9. B * (y - x) <= x
  <2>1. (B * (y - x)) * s <= x * s
    <3>1. (B * (y - x)) * s = B * (W - X) /\ x * s = X
      BY <1>2
    <3> QED BY <1>7, <3>1
  <2>2. B * (y - x) \in Int
    OBVIOUS
  <2> QED BY <2>1, <2>2, Unscaled
<1>10. C * B * (x - y) < (C + B) * x
  <2> SUFFICES ASSUME ~ (C * B * (x - y) < (C + B) * x) PROVE FALSE
    OBVIOUS
  <2>1. PICK g \in Int, h \in Int : g = C * B * (x - y) /\ h = (C + B) * x
    BY C * B * (x - y) \in Int, (C + B) * x \in Int
  <2>2. h * s <= g * s
    BY <2>1, Scaled
  <2>3. g * s = C * B * (X - W)
    <3>1. (C * B * (x - y)) * s = C * B * (s * x - s * y)
      OBVIOUS
    <3> QED BY <1>2, <2>1, <3>1
  <2>4. h * s = (C + B) * X
    <3>1. ((C + B) * x) * s = (C + B) * (s * x)
      OBVIOUS
    <3> QED BY <1>2, <2>1, <3>1
  <2>5. C * B * (X - W) \in Int /\ (C + B) * X \in Int
    OBVIOUS
  <2> QED BY <1>8, <2>2, <2>3, <2>4, <2>5
<1> QED BY <1>1, <1>9, <1>10

(***************************************************************************)
(* So what is written of a fraction below one is close to it.              *)
(***************************************************************************)
LEMMA FractionIsClose ==
  ASSUME NEW v \in Nat, NEW t \in Nat, v < t, t <= Power(2, Mantissa)
  PROVE  IsClose(Fraction(v, t), v, t)
<1>1. PICK B \in Nat \ {0}, C \in Nat \ {0} :
        B = Power(2, Mantissa - 1) /\ C = Power(10, Kept - 1)
  <2>1. 2 \in Nat \ {0} /\ 10 \in Nat \ {0} /\ Mantissa - 1 \in Nat /\ Kept - 1 \in Nat
    BY SeriesAssumption
  <2> QED BY <2>1, PowerAdds
<1>2. t # 0 /\ v # t
  OBVIOUS
<1>3. CASE v = 0
  <2>1. Fraction(v, t) = Zero
    BY <1>2, <1>3 DEF Fraction
  <2>2. PICK x \in Nat : x = Power(10, 0)
    <3>1. 10 \in Nat
      OBVIOUS
    <3> QED BY <3>1, PowerSteps
  <2>3. x * v = 0 /\ 0 * t = 0 /\ B * (0 - 0) = 0
    BY <1>3
  <2> QED BY <1>1, <1>3, <2>1, <2>2, <2>3 DEF IsClose, Zero
<1>4. CASE v # 0
  <2>1. PICK m \in Nat \ {0}, k \in Nat \ {0} :
          Quotient(v, t) = [mant |-> m, exp |-> k] /\ IsQuotient(m, Power(2, k), v, t)
    BY <1>4, QuotientIs
  <2>2. m < Power(2, k)
    BY <2>1 DEF IsQuotient
  <2>3. PICK n \in Nat \ {0}, j \in Nat \ {0} :
          /\ Shortest([mant |-> m, exp |-> k]) = [digits |-> n, places |-> j]
          /\ n < Power(10, j)
          /\ IsText(n, Power(10, j), m, Power(2, k))
    BY <2>2, ShortestIs
  <2>4. PICK w \in Nat, q \in Nat, s \in Nat \ {0} :
          /\ Truncated([digits |-> n, places |-> j]) = [digits |-> w, places |-> q]
          /\ IsTruncated([digits |-> w, places |-> q], n, Power(10, j), s)
    BY <2>3, TruncatedIs
  <2>5. Fraction(v, t) = [digits |-> w, places |-> q]
    BY <1>2, <1>4, <2>1, <2>3, <2>4 DEF Fraction
  <2>6. PICK K \in Nat \ {0}, T \in Nat \ {0}, U \in Nat \ {0} :
          K = Power(2, k) /\ T = Power(10, j) /\ U = Power(10, q)
    <3>1. 2 \in Nat \ {0} /\ 10 \in Nat \ {0}
      OBVIOUS
    <3> QED BY <3>1, PowerAdds
  <2>7. B * (n * t - T * v) <= T * v /\ B * (T * v - n * t) <= T * v
    BY <1>1, <2>1, <2>3, <2>6, TextIsClose
  <2>8. T = s * U /\ s * w <= n /\ C * (n - s * w) < n
    BY <1>1, <2>4, <2>6 DEF IsTruncated
  <2>9. /\ B * (w * t - U * v) <= U * v
        /\ C * B * (U * v - w * t) < (C + B) * (U * v)
    BY <1>2, <1>4, <2>7, <2>8, TogetherClose
  <2> QED BY <1>1, <2>5, <2>6, <2>9 DEF IsClose
<1> QED BY <1>3, <1>4

-----------------------------------------------------------------------------
(***************************************************************************)
(* Every point that is drawn carries the fraction of its value.            *)
(***************************************************************************)
Fractions(s) == \A k \in 1 .. Len(s) : s[k].edges = Fraction(s[k].value, s[k].total)

\* A point put at the end carries its own.
LEMMA FractionAppended ==
  ASSUME NEW S, NEW s \in Seq(S), Fractions(s), NEW t, NEW v
  PROVE  Fractions(Append(s, Point(t, v)))
<1>1. PICK p : p = Point(t, v)
  OBVIOUS
<1>2. p.edges = Fraction(p.value, p.total)
  BY <1>1 DEF Point
<1>3. /\ Len(Append(s, p)) = Len(s) + 1 /\ Len(s) \in Nat /\ Append(s, p)[Len(s) + 1] = p
      /\ \A k \in 1 .. Len(s) : Append(s, p)[k] = s[k]
  OBVIOUS
<1>4. \A k \in 1 .. Len(s) + 1 : k \in 1 .. Len(s) \/ k = Len(s) + 1
  BY <1>3
<1>5. Fractions(Append(s, p))
  BY <1>2, <1>3, <1>4 DEF Fractions
<1> QED BY <1>1, <1>5

\* What a row adds comes one point after the other.
LEMMA FractionsHold ==
  ASSUME IInv, [Next]_vars, Fractions(points)
  PROVE  Fractions(points')
<1>1. points \in Seq(PointSet)
  BY DEF IInv, LineInv
<1>2. CASE UNCHANGED points
  BY <1>2 DEF Fractions
<1>3. ASSUME NEW t, NEW v, points' = points \o <<Point(t, v)>> PROVE Fractions(points')
  <2>1. PICK p : p = Point(t, v)
    OBVIOUS
  <2>2. points' = Append(points, p)
    BY <1>1, <1>3, <2>1
  <2> QED BY <1>1, <2>1, <2>2, FractionAppended
<1>4. ASSUME NEW t, NEW v, NEW u, NEW w, points' = points \o <<Point(t, v), Point(u, w)>>
      PROVE  Fractions(points')
  <2>1. PICK p, q : p = Point(t, v) /\ q = Point(u, w)
    OBVIOUS
  <2> DEFINE S == PointSet \cup {p, q}
  <2>2. points \in Seq(S) /\ p \in S /\ q \in S
    BY <1>1
  <2> HIDE DEF S
  <2>3. points' = Append(Append(points, p), q) /\ Append(points, p) \in Seq(S)
    BY <1>4, <2>1, <2>2
  <2>4. Fractions(Append(points, p))
    BY <1>1, <2>1, FractionAppended
  <2> QED BY <2>1, <2>3, <2>4, FractionAppended
<1>5. CASE IndexTotal
  BY <1>2, <1>5 DEF IndexTotal
<1>6. CASE DrawRow
  <2>1. UNCHANGED points \/ points' = points \o Drawn(rows[next])
    BY <1>6 DEF DrawRow
  <2> QED BY <1>2, <1>3, <1>4, <2>1 DEF Drawn
<1>7. CASE DrawNow
  <2>1. UNCHANGED points \/ points' = Append(points, Point(now, Last(rows).value))
    BY <1>7 DEF DrawNow
  <2> QED BY <1>1, <1>2, <2>1, FractionAppended
<1>8. CASE UNCHANGED vars
  BY <1>2, <1>8 DEF vars
<1> QED BY <1>5, <1>6, <1>7, <1>8 DEF Next

(***************************************************************************)
(* A fraction has as many crates below it as are published by its time.    *)
(***************************************************************************)
LEMMA CrateCounts ==
  ASSUME NEW in \in Inputs, NEW t \in Int
  PROVE  /\ Cardinality({ r.crate : r \in ToSet(in.releases) }) \in Nat
         /\ Count(in.releases, t) <= Cardinality({ r.crate : r \in ToSet(in.releases) })
<1> DEFINE R == in.releases
           all == { r.crate : r \in ToSet(R) }
           some == { r.crate : r \in { x \in ToSet(R) : x.time <= t } }
<1>1. R \in Seq([crate : all, time : Int])
  BY SeriesAssumption
<1>2. DOMAIN R = 1 .. Len(R) /\ Len(R) \in Nat
  BY <1>1
<1>3. IsFiniteSet(ToSet(R))
  <2>1. ToSet(R) = { R[i] : i \in 1 .. Len(R) }
    BY <1>2 DEF ToSet
  <2> DEFINE at == [i \in 1 .. Len(R) |-> R[i]]
  <2>2. at \in Surjection(1 .. Len(R), ToSet(R))
    BY <2>1 DEF Surjection
  <2> QED BY <1>2, <2>2, FS_Interval, FS_Surjection
<1>4. IsFiniteSet(all)
  <2> DEFINE of == [r \in ToSet(R) |-> r.crate]
  <2>1. of \in Surjection(ToSet(R), all)
    BY DEF Surjection
  <2> QED BY <1>3, <2>1, FS_Surjection
<1>5. some \subseteq all
  OBVIOUS
<1>6. Cardinality(some) <= Cardinality(all) /\ Cardinality(all) \in Nat
  BY <1>4, <1>5, FS_Subset, FS_CardinalityType
<1> QED BY <1>6 DEF Count

(***************************************************************************)
(* What is written of a fraction below one is as close to it as four       *)
(* digits of a float can be, rounded up or not: of as many crates as a     *)
(* float holds, with a float of any width and any number of digits kept.   *)
(***************************************************************************)
THEOREM WritingIsClose == Spec => []WrittenIsClose
<1>1. Init => Fractions(points)
  BY DEF Init, Fractions
<1>2. IInv /\ Fractions(points) => WrittenIsClose
  <2> SUFFICES ASSUME IInv, Fractions(points), NEW p \in ToSet(points), p.value < p.total
               PROVE  IsClose(p.edges, p.value, p.total)
    BY DEF WrittenIsClose, IsClose
  <2>1. points \in Seq(PointSet) /\ DOMAIN points = 1 .. Len(points)
    BY DEF IInv, LineInv
  <2>2. PICK k \in 1 .. Len(points) : p = points[k]
    BY <2>1 DEF ToSet
  <2>3. p \in PointSet /\ p.total = Count(releases, p.time)
    BY <2>1, <2>2 DEF IInv, LineInv, Counted
  <2>4. p.value \in Nat /\ p.total \in Nat /\ p.time \in Int
    BY <2>3 DEF PointSet
  <2>5. p.total <= Power(2, Mantissa)
    <3>1. PICK in \in Inputs : releases = in.releases
      BY DEF IInv, InputInv
    <3>2. /\ Cardinality({ r.crate : r \in ToSet(in.releases) }) \in Nat
          /\ Count(in.releases, p.time) <= Cardinality({ r.crate : r \in ToSet(in.releases) })
      BY <2>4, CrateCounts
    <3>3. Cardinality({ r.crate : r \in ToSet(in.releases) }) <= Power(2, Mantissa)
      BY SeriesAssumption
    <3>4. Power(2, Mantissa) \in Nat /\ p.total = Count(in.releases, p.time)
      <4>1. 2 \in Nat \ {0} /\ Mantissa \in Nat
        BY SeriesAssumption
      <4>2. Power(2, Mantissa) \in Nat
        BY <4>1, PowerAdds
      <4> QED BY <2>3, <3>1, <4>2
    <3> HIDE DEF Count
    <3> QED BY <2>4, <3>2, <3>3, <3>4
  <2>6. p.edges = Fraction(p.value, p.total)
    BY <2>2 DEF Fractions
  <2> QED BY <2>4, <2>5, <2>6, FractionIsClose
<1>3. IInv /\ Fractions(points) /\ [Next]_vars => Fractions(points)'
  BY FractionsHold DEF Fractions
<1> QED BY <1>1, <1>2, <1>3, InvHolds, PTL DEF Spec
=============================================================================
