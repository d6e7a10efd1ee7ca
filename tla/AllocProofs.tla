----------------------------- MODULE AllocProofs ----------------------------
(***************************************************************************)
(* Proofs about Alloc: every invariant its run checks.  They are sums over *)
(* the threads and over the blocks, and each step changes one term of      *)
(* each, so the module starts with the sums.  The inductive invariant has  *)
(* five layers: the locals of the threads, the sum of Accounting, the peak,*)
(* the sum that shows current is never negative, and the limit.            *)
(***************************************************************************)
EXTENDS Alloc, FiniteSetTheorems, WellFoundedInduction, TLAPS

-----------------------------------------------------------------------------
(***************************************************************************)
(* Sums.  Induction over the naturals is used in the form that a set of    *)
(* naturals has a least element.                                           *)
(***************************************************************************)
LEMMA AllNumbers ==
  ASSUME NEW G, 0 \in G, \A n \in Nat : n \in G => n + 1 \in G
  PROVE  \A n \in Nat : n \in G
<1> SUFFICES ASSUME NEW k \in Nat, k \notin G PROVE FALSE
  OBVIOUS
<1> DEFINE S == { n \in Nat : n \notin G }
<1>1. PICK n \in S : \A m \in S : ~ (<<m, n>> \in OpToRel(<, Nat))
  <2>1. S \subseteq Nat /\ S # {}
    OBVIOUS
  <2> HIDE DEF S
  <2> QED BY <2>1, NatLessThanWellFounded, WFMin
<1>2. n \in Nat /\ n - 1 \in Nat /\ n - 1 < n
  OBVIOUS
<1>3. n - 1 \notin S
  <2>1. <<n - 1, n>> \in OpToRel(<, Nat)
    BY <1>2, Zenon DEF OpToRel
  <2> QED BY <1>1, <2>1
<1>4. n - 1 \in G
  BY <1>2, <1>3
<1> QED BY <1>2, <1>4

Any(s) == CHOOSE x \in s : TRUE

(***************************************************************************)
(* The subsets of a finite set can be reached by adding, one by one, the   *)
(* element that Any picks.                                                 *)
(***************************************************************************)
LEMMA AllSubsets ==
  ASSUME NEW S, IsFiniteSet(S), NEW G, {} \in G,
         \A s \in SUBSET S : s # {} /\ s \ {Any(s)} \in G => s \in G
  PROVE  \A s \in SUBSET S : s \in G
<1> DEFINE N == { n \in Nat : \A s \in SUBSET S : Cardinality(s) <= n => s \in G }
<1>1. \A s \in SUBSET S : IsFiniteSet(s) /\ Cardinality(s) \in Nat
  BY FS_Subset, FS_CardinalityType
<1>2. 0 \in N
  <2> SUFFICES ASSUME NEW s \in SUBSET S, Cardinality(s) <= 0 PROVE s \in G
    OBVIOUS
  <2>1. s = {}
    BY <1>1, FS_EmptySet
  <2> QED BY <2>1
<1>3. ASSUME NEW n \in Nat, n \in N PROVE n + 1 \in N
  <2> SUFFICES ASSUME NEW s \in SUBSET S, Cardinality(s) <= n + 1 PROVE s \in G
    OBVIOUS
  <2>1. CASE s = {}
    BY <2>1
  <2>2. CASE s # {}
    <3>1. Any(s) \in s
      BY <2>2 DEF Any
    <3>2. Cardinality(s \ {Any(s)}) = Cardinality(s) - 1
      BY <1>1, <3>1, FS_RemoveElement
    <3>3. s \ {Any(s)} \in G
      BY <1>1, <1>3, <3>2
    <3> QED BY <2>2, <3>3
  <2> QED BY <2>1, <2>2
<1>4. \A n \in Nat : n \in N
  <2> HIDE DEF N
  <2> QED BY <1>2, <1>3, AllNumbers
<1>5. \A s \in SUBSET S : Cardinality(s) <= Cardinality(s)
  BY <1>1
<1> QED BY <1>1, <1>4, <1>5

(***************************************************************************)
(* The fold that SumFunction is, and that there is such a function.        *)
(***************************************************************************)
SumStep(f, s, g) == IF s = {} THEN 0 ELSE f[Any(s)] + g[s \ {Any(s)}]

Sums(f) == CHOOSE g : g = [s \in SUBSET DOMAIN f |-> SumStep(f, s, g)]

LEMMA SumIsSums ==
  ASSUME NEW f
  PROVE  SumFunction(f) = Sums(f)[DOMAIN f]
BY DEF SumFunction, SumFunctionOnSet, FoldFunctionOnSet, MapThenFoldSet, Sums, SumStep, Any

LEMMA SumsExist ==
  ASSUME NEW f, IsFiniteSet(DOMAIN f)
  PROVE  \A s \in SUBSET DOMAIN f : Sums(f)[s] = SumStep(f, s, Sums(f))
<1> DEFINE S == DOMAIN f
           Upto(n) == { s \in SUBSET S : Cardinality(s) <= n }
           N == { n \in Nat : \E g : g = [s \in Upto(n) |-> SumStep(f, s, g)] }
<1>1. \A s \in SUBSET S : IsFiniteSet(s) /\ Cardinality(s) \in Nat
  BY FS_Subset, FS_CardinalityType
<1>2. 0 \in N
  <2> DEFINE g == [s \in Upto(0) |-> 0]
  <2>1. \A s \in Upto(0) : s = {}
    BY <1>1, FS_EmptySet
  <2>2. \A s \in Upto(0) : SumStep(f, s, g) = 0
    BY <2>1 DEF SumStep
  <2>3. g = [s \in Upto(0) |-> SumStep(f, s, g)]
    <3> HIDE DEF Upto
    <3> QED BY <2>2
  <2> QED BY <2>3
<1>3. ASSUME NEW n \in Nat, n \in N PROVE n + 1 \in N
  <2>1. PICK g : g = [s \in Upto(n) |-> SumStep(f, s, g)]
    BY <1>3
  <2> DEFINE h == [s \in Upto(n + 1) |-> SumStep(f, s, g)]
  <2>2. ASSUME NEW s \in Upto(n + 1), s # {}
        PROVE  s \ {Any(s)} \in Upto(n) /\ s \ {Any(s)} \in Upto(n + 1)
    <3>1. Any(s) \in s
      BY <2>2 DEF Any
    <3>2. Cardinality(s \ {Any(s)}) = Cardinality(s) - 1
      BY <1>1, <3>1, FS_RemoveElement
    <3> QED BY <1>1, <3>2
  <2>3. \A s \in Upto(n) : s \in Upto(n + 1) => h[s] = g[s]
    <3> HIDE DEF Upto
    <3> QED BY <2>1
  <2>4. \A s \in Upto(n + 1) : SumStep(f, s, g) = SumStep(f, s, h)
    <3> HIDE DEF Upto, h
    <3> QED BY <2>2, <2>3 DEF SumStep
  <2>5. h = [s \in Upto(n + 1) |-> SumStep(f, s, h)]
    <3>1. \A k : k = [s \in Upto(n + 1) |-> SumStep(f, s, g)]
                   => k = [s \in Upto(n + 1) |-> SumStep(f, s, k)]
      <4> HIDE DEF Upto
      <4> SUFFICES ASSUME NEW k, k = [s \in Upto(n + 1) |-> SumStep(f, s, g)]
                   PROVE  k = [s \in Upto(n + 1) |-> SumStep(f, s, k)]
        OBVIOUS
      <4>1. k = h
        OBVIOUS
      <4> QED BY <2>4, <4>1
    <3> QED BY <3>1
  <2> HIDE DEF h
  <2> QED BY <2>5
<1>4. Cardinality(S) \in N
  <2>1. \A n \in Nat : n \in N
    <3> HIDE DEF N
    <3> QED BY <1>2, <1>3, AllNumbers
  <2> QED BY <1>1, <2>1
<1>5. Upto(Cardinality(S)) = SUBSET S
  BY <1>1, FS_Subset
<1>6. \E g : g = [s \in SUBSET S |-> SumStep(f, s, g)]
  <2>1. \E g : g = [s \in Upto(Cardinality(S)) |-> SumStep(f, s, g)]
    BY <1>4
  <2> HIDE DEF Upto
  <2> QED BY <1>5, <2>1
<1>7. Sums(f) = [s \in SUBSET S |-> SumStep(f, s, Sums(f))]
  BY <1>6 DEF Sums
<1> QED BY <1>7

(***************************************************************************)
(* What a sum is, in terms of the sums of what is left.                    *)
(***************************************************************************)
LEMMA SumUnfolds ==
  ASSUME NEW S, IsFiniteSet(S), NEW f \in [S -> Int]
  PROVE  /\ Sums(f)[{}] = 0
         /\ \A s \in SUBSET S : s # {} =>
              /\ Any(s) \in s
              /\ Sums(f)[s] = f[Any(s)] + Sums(f)[s \ {Any(s)}]
<1>1. \A s \in SUBSET S : Sums(f)[s] = SumStep(f, s, Sums(f))
  BY SumsExist
<1>2. \A s : s # {} => Any(s) \in s
  BY DEF Any
<1>3. {} \in SUBSET S
  OBVIOUS
<1> QED BY <1>1, <1>2, <1>3 DEF SumStep

LEMMA SumIsInteger ==
  ASSUME NEW S, IsFiniteSet(S), NEW f \in [S -> Int]
  PROVE  SumFunction(f) \in Int
<1> DEFINE G == { s \in SUBSET S : Sums(f)[s] \in Int }
<1>1. /\ Sums(f)[{}] = 0
      /\ \A s \in SUBSET S : s # {} =>
           /\ Any(s) \in s
           /\ Sums(f)[s] = f[Any(s)] + Sums(f)[s \ {Any(s)}]
  BY SumUnfolds
<1>2. {} \in G
  BY <1>1
<1>3. ASSUME NEW s \in SUBSET S, s # {}, s \ {Any(s)} \in G
      PROVE  s \in G
  <2>1. Any(s) \in S /\ Sums(f)[s] = f[Any(s)] + Sums(f)[s \ {Any(s)}]
    BY <1>1, <1>3
  <2> QED BY <1>3, <2>1
<1>4. \A s \in SUBSET S : s \in G
  <2> HIDE DEF G
  <2> QED BY <1>2, <1>3, AllSubsets
<1> QED BY <1>4, SumIsSums

(***************************************************************************)
(* A function changed in one place.                                        *)
(***************************************************************************)
LEMMA SumChanges ==
  ASSUME NEW S, IsFiniteSet(S), NEW f \in [S -> Int], NEW g \in [S -> Int], NEW d \in S,
         \A x \in S \ {d} : g[x] = f[x]
  PROVE  SumFunction(g) = SumFunction(f) + (g[d] - f[d])
<1> DEFINE Change(s) == IF d \in s THEN g[d] - f[d] ELSE 0
           G == { s \in SUBSET S :
                    /\ Sums(f)[s] \in Int /\ Sums(g)[s] \in Int
                    /\ Sums(g)[s] = Sums(f)[s] + Change(s) }
<1>1. /\ Sums(f)[{}] = 0 /\ Sums(g)[{}] = 0
      /\ \A s \in SUBSET S : s # {} =>
           /\ Any(s) \in s
           /\ Sums(f)[s] = f[Any(s)] + Sums(f)[s \ {Any(s)}]
           /\ Sums(g)[s] = g[Any(s)] + Sums(g)[s \ {Any(s)}]
  <2>1. /\ Sums(f)[{}] = 0
        /\ \A s \in SUBSET S : s # {} =>
             /\ Any(s) \in s
             /\ Sums(f)[s] = f[Any(s)] + Sums(f)[s \ {Any(s)}]
    BY SumUnfolds
  <2>2. /\ Sums(g)[{}] = 0
        /\ \A s \in SUBSET S : s # {} =>
             Sums(g)[s] = g[Any(s)] + Sums(g)[s \ {Any(s)}]
    BY SumUnfolds
  <2> QED BY <2>1, <2>2
<1>2. {} \in G
  BY <1>1
<1>3. ASSUME NEW s \in SUBSET S, s # {}, s \ {Any(s)} \in G
      PROVE  s \in G
  <2> DEFINE a == Any(s)
             r == s \ {a}
  <2>1. a \in s /\ a \in S /\ r \in SUBSET S
    BY <1>1, <1>3
  <2>2. /\ Sums(f)[s] = f[a] + Sums(f)[r]
        /\ Sums(g)[s] = g[a] + Sums(g)[r]
    BY <1>1, <1>3
  <2>3. /\ Sums(f)[r] \in Int /\ Sums(g)[r] \in Int
        /\ Sums(g)[r] = Sums(f)[r] + Change(r)
    BY <1>3
  <2>4. Change(s) = Change(r) + (g[a] - f[a])
    BY <2>1
  <2>5. /\ f[a] \in Int /\ g[a] \in Int /\ Change(r) \in Int
    BY <2>1
  <2> HIDE DEF a, r, Change
  <2> QED BY <2>2, <2>3, <2>4, <2>5
<1>4. \A s \in SUBSET S : s \in G
  <2> HIDE DEF G
  <2> QED BY <1>2, <1>3, AllSubsets
<1> QED BY <1>4, SumIsSums

(***************************************************************************)
(* Two sums of which the terms differ by no more than e in one place, and  *)
(* by no more than c in each of the others.                                *)
(***************************************************************************)
LEMMA SumBounded ==
  ASSUME NEW S, IsFiniteSet(S), NEW f \in [S -> Int], NEW g \in [S -> Int], NEW d \in S,
         NEW c \in Int, NEW e \in Int,
         f[d] <= g[d] + e,
         \A x \in S \ {d} : f[x] <= g[x] + c
  PROVE  SumFunction(f) <= SumFunction(g) + e + (Cardinality(S) - 1) * c
<1> DEFINE Slack(s) == (IF d \in s THEN e ELSE 0) + Cardinality(s \ {d}) * c
           G == { s \in SUBSET S :
                    /\ Sums(f)[s] \in Int /\ Sums(g)[s] \in Int
                    /\ Sums(f)[s] <= Sums(g)[s] + Slack(s) }
<1>1. /\ Sums(f)[{}] = 0 /\ Sums(g)[{}] = 0
      /\ \A s \in SUBSET S : s # {} =>
           /\ Any(s) \in s
           /\ Sums(f)[s] = f[Any(s)] + Sums(f)[s \ {Any(s)}]
           /\ Sums(g)[s] = g[Any(s)] + Sums(g)[s \ {Any(s)}]
  <2>1. /\ Sums(f)[{}] = 0
        /\ \A s \in SUBSET S : s # {} =>
             /\ Any(s) \in s
             /\ Sums(f)[s] = f[Any(s)] + Sums(f)[s \ {Any(s)}]
    BY SumUnfolds
  <2>2. /\ Sums(g)[{}] = 0
        /\ \A s \in SUBSET S : s # {} =>
             Sums(g)[s] = g[Any(s)] + Sums(g)[s \ {Any(s)}]
    BY SumUnfolds
  <2> QED BY <2>1, <2>2
<1>2. {} \in G
  <2>1. Cardinality({} \ {d}) = 0
    BY FS_EmptySet, {} \ {d} = {}
  <2>2. Slack({}) = 0
    BY <2>1
  <2> QED BY <1>1, <2>2
<1>3. ASSUME NEW s \in SUBSET S, s # {}, s \ {Any(s)} \in G
      PROVE  s \in G
  <2> DEFINE a == Any(s)
             r == s \ {a}
  <2>1. a \in s /\ a \in S /\ r \in SUBSET S
    BY <1>1, <1>3
  <2>2. /\ Sums(f)[s] = f[a] + Sums(f)[r]
        /\ Sums(g)[s] = g[a] + Sums(g)[r]
    BY <1>1, <1>3
  <2>3. /\ Sums(f)[r] \in Int /\ Sums(g)[r] \in Int
        /\ Sums(f)[r] <= Sums(g)[r] + Slack(r)
    BY <1>3
  <2>4. IsFiniteSet(s \ {d}) /\ Cardinality(r \ {d}) \in Nat /\ Cardinality(s \ {d}) \in Nat
    BY <2>1, FS_Subset, FS_CardinalityType
  <2>5. f[a] <= g[a] + (Slack(s) - Slack(r))
    <3>1. CASE a = d
      <4>1. s \ {d} = r \ {d} /\ d \in s /\ d \notin r
        BY <2>1, <3>1
      <4> DEFINE n == Cardinality(r \ {d})
      <4>2. Slack(s) = e + n * c /\ Slack(r) = 0 + n * c
        BY <4>1
      <4>3. n * c \in Int
        BY <2>4
      <4> HIDE DEF n, Slack
      <4> QED BY <3>1, <4>2, <4>3
    <3>2. CASE a # d
      <4>1. Cardinality((s \ {d}) \ {a}) = Cardinality(s \ {d}) - 1
        BY <2>1, <2>4, <3>2, FS_RemoveElement
      <4>2. (s \ {d}) \ {a} = r \ {d} /\ (d \in s <=> d \in r)
        BY <3>2
      <4> DEFINE n == Cardinality(r \ {d})
                 k == IF d \in r THEN e ELSE 0
      <4>3. Slack(s) = k + (n + 1) * c /\ Slack(r) = k + n * c
        <5>1. Cardinality(r \ {d}) = Cardinality(s \ {d}) - 1
          <6> HIDE DEF r, a
          <6> QED BY <4>1, <4>2
        <5>2. Cardinality(s \ {d}) = n + 1
          <6> HIDE DEF r
          <6> QED BY <2>4, <5>1
        <5>3. (IF d \in s THEN e ELSE 0) = k
          BY <4>2
        <5> HIDE DEF r
        <5> QED BY <5>2, <5>3
      <4>4. n * c \in Int /\ (n + 1) * c = n * c + c /\ k \in Int
        BY <2>4
      <4>5. f[a] <= g[a] + c /\ f[a] \in Int /\ g[a] \in Int
        BY <2>1, <3>2
      <4> HIDE DEF n, k, Slack, a
      <4> QED BY <4>3, <4>4, <4>5
    <3> QED BY <3>1, <3>2
  <2>6. /\ f[a] \in Int /\ g[a] \in Int /\ Slack(r) \in Int /\ Slack(s) \in Int
    BY <2>1, <2>4
  <2> HIDE DEF a, r, Slack
  <2> QED BY <2>2, <2>3, <2>5, <2>6
<1>4. \A s \in SUBSET S : s \in G
  <2> HIDE DEF G
  <2> QED BY <1>2, <1>3, AllSubsets
<1>5. Cardinality(S \ {d}) = Cardinality(S) - 1
  BY FS_RemoveElement
<1>6. S \in G
  <2> HIDE DEF G
  <2> QED BY <1>4
<1>7. Sums(f)[S] <= Sums(g)[S] + (e + (Cardinality(S) - 1) * c) /\ Sums(g)[S] \in Int
  BY <1>5, <1>6
<1>8. (Cardinality(S) - 1) * c \in Int
  BY FS_CardinalityType
<1> DEFINE n == (Cardinality(S) - 1) * c
<1> HIDE DEF n
<1> QED BY <1>7, <1>8, SumIsSums

LEMMA SumOfZeros ==
  ASSUME NEW S, IsFiniteSet(S), NEW f \in [S -> Int], \A x \in S : f[x] = 0
  PROVE  SumFunction(f) = 0
<1> DEFINE G == { s \in SUBSET S : Sums(f)[s] = 0 }
<1>1. /\ Sums(f)[{}] = 0
      /\ \A s \in SUBSET S : s # {} =>
           /\ Any(s) \in s
           /\ Sums(f)[s] = f[Any(s)] + Sums(f)[s \ {Any(s)}]
  BY SumUnfolds
<1>2. {} \in G
  BY <1>1
<1>3. ASSUME NEW s \in SUBSET S, s # {}, s \ {Any(s)} \in G
      PROVE  s \in G
  <2>1. Any(s) \in S /\ Sums(f)[s] = f[Any(s)] + Sums(f)[s \ {Any(s)}]
    BY <1>1, <1>3
  <2> QED BY <1>3, <2>1
<1>4. \A s \in SUBSET S : s \in G
  <2> HIDE DEF G
  <2> QED BY <1>2, <1>3, AllSubsets
<1> QED BY <1>4, SumIsSums

LEMMA SumIsNatural ==
  ASSUME NEW S, IsFiniteSet(S), NEW f \in [S -> Int], \A x \in S : f[x] >= 0
  PROVE  SumFunction(f) \in Nat
<1> DEFINE G == { s \in SUBSET S : Sums(f)[s] \in Nat }
<1>1. /\ Sums(f)[{}] = 0
      /\ \A s \in SUBSET S : s # {} =>
           /\ Any(s) \in s
           /\ Sums(f)[s] = f[Any(s)] + Sums(f)[s \ {Any(s)}]
  BY SumUnfolds
<1>2. {} \in G
  BY <1>1
<1>3. ASSUME NEW s \in SUBSET S, s # {}, s \ {Any(s)} \in G
      PROVE  s \in G
  <2>1. Any(s) \in S /\ Sums(f)[s] = f[Any(s)] + Sums(f)[s \ {Any(s)}]
    BY <1>1, <1>3
  <2> QED BY <1>3, <2>1
<1>4. \A s \in SUBSET S : s \in G
  <2> HIDE DEF G
  <2> QED BY <1>2, <1>3, AllSubsets
<1> QED BY <1>4, SumIsSums

-----------------------------------------------------------------------------
(***************************************************************************)
(* The inductive invariant, first layer: what the locals of a thread are   *)
(* at each place, and that two threads never work on one block.            *)
(***************************************************************************)
Places == {"idle", "reserve", "total", "peak", "take", "release",
           "check", "resize", "grow", "adjust", "top"}

Calls == [block : Blocks \cup {Nowhere}, size : Nat, old : Nat, prev : Int, moved : BOOLEAN]

Call(t) ==
  /\ pc[t] = "idle" => op[t] = Idle
  /\ pc[t] \in {"reserve", "total", "peak", "take", "release"} =>
       op[t].block = Nowhere /\ op[t].size \in Sizes
  /\ pc[t] \in {"check", "resize", "grow", "adjust", "top"} =>
       op[t].block \in Blocks /\ op[t].size \in Sizes /\ op[t].old \in Sizes
  /\ pc[t] \in {"check", "resize"} => blocks[op[t].block] = op[t].old
  /\ pc[t] \in {"grow", "adjust", "top"} => blocks[op[t].block] = op[t].size
  /\ pc[t] = "grow" => op[t].moved \/ op[t].size > op[t].old

Apart == \A t, u \in Threads : op[t].block = op[u].block /\ op[t].block # Nowhere => t = u

Typed ==
  /\ limit \in Limits
  /\ blocks \in [Blocks -> {0} \cup Sizes]
  /\ count \in 0 .. MaxCalls
  /\ total \in Nat /\ current \in Int /\ peak \in Nat
  /\ refused \in Nat /\ highest \in Nat
  /\ pc \in [Threads -> Places]
  /\ op \in [Threads -> Calls]

CallsInv ==
  /\ Typed
  /\ \A t \in Threads : Call(t)
  /\ Apart

\* The steps of a thread leave the places and the locals of the others alone.
Alone(t) == \A u \in Threads \ {t} : pc'[u] = pc[u] /\ op'[u] = op[u]

\* How a step changes the blocks: it does not, or it changes one, which no other thread holds.
OneBlock(t) ==
  \/ blocks' = blocks
  \/ \E b \in Blocks, n \in {0} \cup Sizes :
       /\ blocks' = [blocks EXCEPT ![b] = n]
       /\ \A u \in Threads \ {t} : op[u].block # b

LEMMA TypedInit == Init => CallsInv
<1> SUFFICES ASSUME Init PROVE CallsInv
  OBVIOUS
<1>1. \A t \in Threads : op[t] = Idle /\ op[t] \in Calls /\ pc[t] = "idle"
  BY DEF Init, Idle, Calls
<1>2. Typed
  BY <1>1, AllocAssumption DEF Init, Typed, Places
<1>3. \A t \in Threads : Call(t)
  BY <1>1 DEF Call
<1>4. Apart
  BY <1>1 DEF Apart, Idle
<1> QED BY <1>2, <1>3, <1>4 DEF CallsInv

LEMMA SizesArePositive ==
  /\ \A s \in Sizes : s \in Nat /\ s > 0
  /\ \A s \in {0} \cup Sizes : s \in Nat
BY AllocAssumption

Resizing(b, size, old) == [Idle EXCEPT !.block = b, !.size = size, !.old = old]

LEMMA ReallocStarts ==
  ASSUME NEW b \in Blocks, NEW s \in Sizes, NEW o \in Nat
  PROVE  /\ Resizing(b, s, o) \in Calls
         /\ Resizing(b, s, o).block = b
         /\ Resizing(b, s, o).size = s
         /\ Resizing(b, s, o).old = o
<1>1. Idle \in Calls
  BY DEF Idle, Calls
<1> QED BY <1>1, SizesArePositive DEF Calls, Resizing

LEMMA TypedStep ==
  ASSUME CallsInv, NEW t \in Threads, Thread(t)
  PROVE  Typed' /\ Alone(t)
<1> USE AllocAssumption DEF CallsInv, Typed, Alone, Goto
<1>1. op[t] \in Calls /\ Call(t) /\ pc[t] \in Places /\ Idle \in Calls
  BY DEF Idle, Calls
<1>2. /\ op[t].size \in Nat /\ op[t].old \in Nat /\ op[t].prev \in Int
      /\ op[t].moved \in BOOLEAN /\ op[t].block \in Blocks \cup {Nowhere}
  BY <1>1 DEF Calls
<1>0. /\ \A s \in Sizes : s \in Nat /\ s > 0
      /\ \A b \in Blocks : blocks[b] \in Nat
  BY SizesArePositive
<1>4. ASSUME NEW n \in Int, Add(t, n)
      PROVE  /\ current' \in Int /\ highest' \in Nat
             /\ op' \in [Threads -> Calls]
             /\ \A u \in Threads \ {t} : op'[u] = op[u]
  <2>1. current' \in Int /\ highest' \in Nat
    BY <1>4 DEF Add, Larger
  <2>2. op' = [op EXCEPT ![t] = [op[t] EXCEPT !.prev = current]]
    BY <1>4 DEF Add
  <2>3. [op[t] EXCEPT !.prev = current] \in Calls
    BY <1>1 DEF Calls
  <2> QED BY <2>1, <2>2, <2>3
<1>5. ASSUME NEW size \in Sizes, CallAlloc(t, size) PROVE Typed' /\ Alone(t)
  <2>1. op' = [op EXCEPT ![t] = [op[t] EXCEPT !.size = size]]
    BY <1>5 DEF CallAlloc
  <2>2. [op[t] EXCEPT !.size = size] \in Calls
    BY <1>0, <1>1 DEF Calls
  <2> QED BY <1>5, <2>1, <2>2 DEF CallAlloc, Places
<1>6. ASSUME Reserve(t) PROVE Typed' /\ Alone(t)
  BY <1>2, <1>4, <1>6 DEF Reserve, Places
<1>7. ASSUME AddTotal(t) PROVE Typed' /\ Alone(t)
  BY <1>2, <1>7 DEF AddTotal, Places
<1>8. ASSUME RaisePeak(t) PROVE Typed' /\ Alone(t)
  BY <1>1, <1>2, <1>8 DEF RaisePeak, Places, Larger, Reached
<1>9. ASSUME NEW b \in Blocks, TakeBlock(t, b) PROVE Typed' /\ Alone(t)
  <2>1. op[t].size \in Sizes
    BY <1>1, <1>9 DEF TakeBlock, Call
  <2> QED BY <1>1, <1>9, <2>1 DEF TakeBlock, Places
<1>10. ASSUME NEW b \in Blocks, CallDealloc(t, b) PROVE Typed' /\ Alone(t)
  <2>1. blocks[b] \in Nat
    BY <1>0
  <2>2. op' = [op EXCEPT ![t] = [op[t] EXCEPT !.size = blocks[b]]]
    BY <1>10 DEF CallDealloc
  <2>3. [op[t] EXCEPT !.size = blocks[b]] \in Calls
    BY <1>1, <2>1 DEF Calls
  <2> QED BY <1>1, <1>10, <2>2, <2>3 DEF CallDealloc, Places
<1>11. ASSUME Release(t) PROVE Typed' /\ Alone(t)
  BY <1>1, <1>2, <1>11 DEF Release, Places
<1>12. ASSUME NEW b \in Blocks, NEW size \in Sizes, CallRealloc(t, b, size) PROVE Typed' /\ Alone(t)
  <2>1. blocks[b] \in Nat /\ size \in Nat
    BY <1>0
  <2>2. op' = [op EXCEPT ![t] = Resizing(b, size, blocks[b])]
    BY <1>12 DEF CallRealloc, Resizing
  <2>3. Resizing(b, size, blocks[b]) \in Calls
    BY <2>1, ReallocStarts
  <2> QED BY <1>12, <2>2, <2>3 DEF CallRealloc, Places
<1>13. ASSUME CheckLimit(t) PROVE Typed' /\ Alone(t)
  BY <1>1, <1>13 DEF CheckLimit, Places
<1>14. ASSUME Resize(t) PROVE Typed' /\ Alone(t)
  <2>1. op[t].size \in Sizes
    BY <1>1, <1>14 DEF Resize, Call
  <2>2. PICK moved \in BOOLEAN :
          /\ pc' = [pc EXCEPT ![t] = IF moved \/ op[t].size > op[t].old THEN "grow" ELSE "adjust"]
          /\ op' = [op EXCEPT ![t] = [op[t] EXCEPT !.moved = moved]]
    BY <1>14 DEF Resize
  <2>3. [op[t] EXCEPT !.moved = moved] \in Calls
    BY <1>1 DEF Calls
  <2>4. /\ pc' \in [Threads -> Places] /\ op' \in [Threads -> Calls]
        /\ Alone(t)
    BY <2>2, <2>3 DEF Places
  <2>5. blocks' \in [Blocks -> {0} \cup Sizes]
    BY <1>14, <2>1 DEF Resize
  <2> QED BY <1>14, <2>4, <2>5 DEF Resize
<1>15. ASSUME Grow(t) PROVE Typed' /\ Alone(t)
  <2>1. Added(t) \in Nat
    BY <1>1, <1>2, <1>15 DEF Grow, Call, Added
  <2> QED BY <1>15, <2>1 DEF Grow, Places
<1>16. ASSUME Adjust(t) PROVE Typed' /\ Alone(t)
  <2>1. Difference(t) \in Int
    BY <1>2 DEF Difference
  <2> QED BY <1>4, <1>16, <2>1 DEF Adjust, Places
<1>17. ASSUME RaiseTop(t) PROVE Typed' /\ Alone(t)
  <2>1. Added(t) \in Int
    BY <1>2 DEF Added
  <2> QED BY <1>1, <1>2, <1>17, <2>1 DEF RaiseTop, Places, Larger
<1> QED
  BY <1>5, <1>6, <1>7, <1>8, <1>9, <1>10, <1>11, <1>12, <1>13, <1>14, <1>15, <1>16, <1>17 DEF Thread

LEMMA CallFields ==
  ASSUME CallsInv, NEW t \in Threads
  PROVE  /\ Call(t) /\ pc[t] \in Places /\ op[t] \in Calls
         /\ op[t].size \in Nat /\ op[t].old \in Nat /\ op[t].prev \in Int
         /\ op[t].moved \in BOOLEAN /\ op[t].block \in Blocks \cup {Nowhere}
<1>1. Call(t) /\ pc[t] \in Places /\ op[t] \in Calls
  BY DEF CallsInv, Typed
<1> QED BY <1>1 DEF Calls

(***************************************************************************)
(* No step touches a block that another thread is working on.              *)
(***************************************************************************)
LEMMA BlocksStep ==
  ASSUME CallsInv, NEW t \in Threads, Thread(t)
  PROVE  OneBlock(t)
<1> USE DEF OneBlock
<1>1. CASE blocks' = blocks
  BY <1>1
<1>2. ASSUME NEW b \in Blocks, TakeBlock(t, b) PROVE OneBlock(t)
  <2>1. op[t].size \in Sizes
    BY <1>2, CallFields DEF TakeBlock, Goto, Call
  <2>2. ASSUME NEW u \in Threads \ {t} PROVE op[u].block # b
    <3>1. Call(u) /\ pc[u] \in Places
      BY CallFields
    <3>2. blocks[b] = 0 /\ \A s \in Sizes : s # 0
      BY <1>2, SizesArePositive DEF TakeBlock
    <3>3. Idle.block = Nowhere
      BY DEF Idle
    <3>4. b # Nowhere
      BY AllocAssumption
    <3> QED BY <3>1, <3>2, <3>3, <3>4 DEF Call, Places
  <2> QED BY <1>2, <2>1, <2>2 DEF TakeBlock
<1>3. ASSUME NEW b \in Blocks, CallDealloc(t, b) PROVE OneBlock(t)
  BY <1>3 DEF CallDealloc, Held
<1>4. ASSUME Resize(t) PROVE OneBlock(t)
  <2>1. op[t].size \in Sizes /\ op[t].block \in Blocks
    BY <1>4, CallFields DEF Resize, Goto, Call
  <2>2. \A u \in Threads \ {t} : op[u].block # op[t].block
    BY <2>1, AllocAssumption DEF CallsInv, Apart
  <2> QED BY <1>4, <2>1, <2>2 DEF Resize
<1> QED
  BY <1>1, <1>2, <1>3, <1>4
     DEF Thread, CallAlloc, Reserve, AddTotal, RaisePeak, Release, CallRealloc,
         CheckLimit, Grow, Adjust, RaiseTop

LEMMA OwnCallStep ==
  ASSUME CallsInv, NEW t \in Threads, Thread(t)
  PROVE  /\ Call(t)'
         /\ \/ op'[t].block \in {Nowhere, op[t].block}
            \/ \A u \in Threads : op[u].block # op'[t].block
<1> DEFINE Own == /\ Call(t)'
                  /\ \/ op'[t].block \in {Nowhere, op[t].block}
                     \/ \A u \in Threads : op[u].block # op'[t].block
<1>1. /\ Call(t) /\ pc[t] \in Places /\ op[t] \in Calls
      /\ op[t].size \in Nat /\ op[t].old \in Nat /\ op[t].prev \in Int
      /\ op[t].moved \in BOOLEAN /\ op[t].block \in Blocks \cup {Nowhere}
  BY CallFields
<1>2. /\ op \in [Threads -> Calls] /\ pc \in [Threads -> Places]
      /\ blocks \in [Blocks -> {0} \cup Sizes]
  BY DEF CallsInv, Typed
<1>3. Idle.block = Nowhere /\ Idle.size = 0 /\ Idle.old = 0
  BY DEF Idle
<1>4. CASE pc' = [pc EXCEPT ![t] = "idle"] /\ op' = [op EXCEPT ![t] = Idle]
  BY <1>2, <1>3, <1>4 DEF Call
<1>5. ASSUME NEW size \in Sizes, CallAlloc(t, size) PROVE Own
  <2>1. op[t] = Idle
    BY <1>1, <1>5 DEF CallAlloc, Goto, Call
  <2>2. op'[t] = [op[t] EXCEPT !.size = size] /\ pc'[t] = "reserve"
    BY <1>2, <1>5 DEF CallAlloc, Goto
  <2>3. op'[t].block = op[t].block /\ op'[t].size = size
    BY <1>1, <2>2 DEF Calls
  <2> QED BY <1>3, <2>1, <2>2, <2>3 DEF Call
<1>6. ASSUME Reserve(t) PROVE Own
  <2>1. op'[t] = [op[t] EXCEPT !.prev = current] /\ pc'[t] = "total"
    BY <1>2, <1>6 DEF Reserve, Goto, Add
  <2>2. op'[t].block = op[t].block /\ op'[t].size = op[t].size
    BY <1>1, <2>1 DEF Calls
  <2> QED BY <1>1, <1>6, <2>1, <2>2 DEF Call, Reserve, Goto
<1>7. ASSUME AddTotal(t) PROVE Own
  BY <1>1, <1>2, <1>7 DEF Call, AddTotal, Goto
<1>8. ASSUME RaisePeak(t) PROVE Own
  BY <1>1, <1>2, <1>4, <1>8 DEF Call, RaisePeak, Goto
<1>9. ASSUME NEW b \in Blocks, CallDealloc(t, b) PROVE Own
  <2>1. op[t] = Idle
    BY <1>1, <1>9 DEF CallDealloc, Goto, Call
  <2>2. op'[t] = [op[t] EXCEPT !.size = blocks[b]] /\ pc'[t] = "release"
    BY <1>2, <1>9 DEF CallDealloc, Goto
  <2>3. op'[t].block = op[t].block /\ op'[t].size = blocks[b]
    BY <1>1, <2>2 DEF Calls
  <2>4. blocks[b] \in Sizes
    BY <1>2, <1>9 DEF CallDealloc
  <2> QED BY <1>3, <2>1, <2>2, <2>3, <2>4 DEF Call
<1>10. ASSUME NEW b \in Blocks, NEW size \in Sizes, CallRealloc(t, b, size) PROVE Own
  <2>1. blocks[b] \in Sizes /\ blocks[b] \in Nat /\ blocks' = blocks
    BY <1>2, <1>10, SizesArePositive DEF CallRealloc
  <2>2. op'[t] = Resizing(b, size, blocks[b]) /\ pc'[t] = "check"
    BY <1>2, <1>10 DEF CallRealloc, Goto, Resizing
  <2>3. op'[t].block = b /\ op'[t].size = size /\ op'[t].old = blocks[b]
    BY <2>1, <2>2, ReallocStarts
  <2>4. \A u \in Threads : op[u].block # b
    BY <1>10 DEF CallRealloc, Held
  <2> QED BY <2>1, <2>2, <2>3, <2>4 DEF Call
<1>11. ASSUME CheckLimit(t) PROVE Own
  BY <1>1, <1>2, <1>4, <1>11 DEF Call, CheckLimit, Goto
<1>12. ASSUME Resize(t) PROVE Own
  <2>1. PICK moved \in BOOLEAN :
          /\ pc'[t] = IF moved \/ op[t].size > op[t].old THEN "grow" ELSE "adjust"
          /\ op'[t] = [op[t] EXCEPT !.moved = moved]
    BY <1>2, <1>12 DEF Resize, Goto
  <2>2. /\ op'[t].block = op[t].block /\ op'[t].size = op[t].size
        /\ op'[t].old = op[t].old /\ op'[t].moved = moved
    BY <1>1, <2>1 DEF Calls
  <2>3. op[t].block \in Blocks /\ op[t].size \in Sizes /\ op[t].old \in Sizes
    BY <1>1, <1>12 DEF Resize, Goto, Call
  <2>4. blocks'[op[t].block] = op[t].size
    BY <1>2, <1>12, <2>3 DEF Resize
  <2> QED BY <2>1, <2>2, <2>3, <2>4 DEF Call
<1>13. ASSUME Grow(t) PROVE Own
  BY <1>1, <1>2, <1>13 DEF Call, Grow, Goto
<1>14. ASSUME Adjust(t) PROVE Own
  <2>1. op'[t] = [op[t] EXCEPT !.prev = current] /\ pc'[t] = "top"
    BY <1>2, <1>14 DEF Adjust, Goto, Add
  <2>2. op'[t].block = op[t].block /\ op'[t].size = op[t].size /\ op'[t].old = op[t].old
    BY <1>1, <2>1 DEF Calls
  <2> QED BY <1>1, <1>14, <2>1, <2>2 DEF Call, Adjust, Goto
<1> QED
  BY <1>4, <1>5, <1>6, <1>7, <1>8, <1>9, <1>10, <1>11, <1>12, <1>13, <1>14
     DEF Thread, TakeBlock, Release, RaiseTop, Goto

LEMMA CallsStep ==
  ASSUME CallsInv, NEW t \in Threads, Thread(t)
  PROVE  CallsInv'
<1>1. Typed' /\ Alone(t)
  BY TypedStep
<1>2. OneBlock(t)
  BY BlocksStep
<1>3. /\ Call(t)'
      /\ \/ op'[t].block \in {Nowhere, op[t].block}
         \/ \A u \in Threads : op[u].block # op'[t].block
  BY OwnCallStep
<1>4. ASSUME NEW u \in Threads \ {t} PROVE Call(u)'
  <2>1. Call(u) /\ op'[u] = op[u] /\ pc'[u] = pc[u]
    BY <1>1, CallFields DEF Alone
  <2>2. op[u].block \in Blocks => blocks'[op[u].block] = blocks[op[u].block]
    BY <1>2 DEF OneBlock, CallsInv, Typed
  <2> QED BY <2>1, <2>2 DEF Call
<1>5. Apart'
  <2> SUFFICES ASSUME NEW u \in Threads, NEW v \in Threads,
                      op'[u].block = op'[v].block, op'[u].block # Nowhere
               PROVE  u = v
    BY DEF Apart
  <2>1. \A w \in Threads : w # t => op'[w] = op[w]
    BY <1>1 DEF Alone
  <2> QED BY <1>3, <2>1 DEF CallsInv, Apart
<1> QED BY <1>1, <1>3, <1>4, <1>5 DEF CallsInv

LEMMA CallsStutter == CallsInv /\ UNCHANGED vars => CallsInv'
BY DEF CallsInv, Typed, Call, Apart, vars

(***************************************************************************)
(* The first layer is an invariant.                                        *)
(***************************************************************************)
LEMMA CallsInvariant == Spec => []CallsInv
<1>1. Init => CallsInv
  BY TypedInit
<1>2. CallsInv /\ [Next]_vars => CallsInv'
  BY CallsStep, CallsStutter DEF Next
<1> QED BY <1>1, <1>2, PTL DEF Spec

-----------------------------------------------------------------------------
(***************************************************************************)
(* Second layer: the two sums of Accounting.                               *)
(***************************************************************************)
Aheads == [t \in Threads |-> Ahead(t)]

LEMMA LiveIsInteger ==
  ASSUME CallsInv
  PROVE  blocks \in [Blocks -> Int] /\ Live \in Int
<1>1. blocks \in [Blocks -> Int]
  BY SizesArePositive DEF CallsInv, Typed
<1> QED BY <1>1, AllocAssumption, SumIsInteger DEF Live

LEMMA LiveChanges ==
  ASSUME CallsInv, CallsInv', NEW b \in Blocks,
         \A x \in Blocks \ {b} : blocks'[x] = blocks[x]
  PROVE  Live' = Live + (blocks'[b] - blocks[b])
<1>1. blocks \in [Blocks -> Int] /\ blocks' \in [Blocks -> Int]
  BY SizesArePositive DEF CallsInv, Typed
<1>2. SumFunction(blocks') = SumFunction(blocks) + (blocks'[b] - blocks[b])
  BY <1>1, AllocAssumption, SumChanges
<1> QED BY <1>2 DEF Live

LEMMA AheadIsInteger ==
  ASSUME CallsInv
  PROVE  Aheads \in [Threads -> Int] /\ SumFunction(Aheads) \in Int
<1>1. ASSUME NEW t \in Threads PROVE Ahead(t) \in Int
  BY CallFields DEF Ahead
<1>2. Aheads \in [Threads -> Int]
  BY <1>1 DEF Aheads
<1> QED BY <1>2, AllocAssumption, SumIsInteger

LEMMA AheadChanges ==
  ASSUME CallsInv, CallsInv', NEW t \in Threads, Alone(t)
  PROVE  SumFunction(Aheads)' = SumFunction(Aheads) + (Ahead(t)' - Ahead(t))
<1>1. Aheads \in [Threads -> Int] /\ Aheads' \in [Threads -> Int]
  <2>1. ASSUME NEW u \in Threads PROVE Ahead(u)' \in Int
    <3>1. op'[u] \in Calls
      BY DEF CallsInv, Typed
    <3>2. op'[u].size \in Nat /\ op'[u].old \in Nat
      BY <3>1 DEF Calls
    <3> QED BY <3>2 DEF Ahead
  <2> QED BY <2>1, AheadIsInteger DEF Aheads
<1>2. \A u \in Threads \ {t} : Aheads'[u] = Aheads[u]
  BY DEF Alone, Aheads, Ahead
<1>3. SumFunction(Aheads') = SumFunction(Aheads) + (Aheads'[t] - Aheads[t])
  BY <1>1, <1>2, AllocAssumption, SumChanges
<1> QED BY <1>3 DEF Aheads

LEMMA AccountingInit == Init => Accounting
<1> SUFFICES ASSUME Init PROVE Accounting
  OBVIOUS
<1>1. SumFunction(blocks) = 0
  <2>1. blocks \in [Blocks -> Int] /\ \A b \in Blocks : blocks[b] = 0
    BY DEF Init
  <2> QED BY <2>1, AllocAssumption, SumOfZeros
<1>2. SumFunction(Aheads) = 0
  <2>1. \A t \in Threads : Ahead(t) = 0
    BY DEF Init, Ahead
  <2>2. Aheads \in [Threads -> Int] /\ \A t \in Threads : Aheads[t] = 0
    BY <2>1 DEF Aheads
  <2> QED BY <2>2, AllocAssumption, SumOfZeros
<1> QED BY <1>1, <1>2 DEF Init, Accounting, Live, Aheads

LEMMA AccountingStep ==
  ASSUME CallsInv, CallsInv', Accounting, NEW t \in Threads, Thread(t)
  PROVE  Accounting'
<1>1. /\ Call(t) /\ pc[t] \in Places /\ op[t] \in Calls
      /\ op[t].size \in Nat /\ op[t].old \in Nat /\ op[t].prev \in Int
      /\ op[t].moved \in BOOLEAN /\ op[t].block \in Blocks \cup {Nowhere}
  BY CallFields
<1>2. /\ op \in [Threads -> Calls] /\ pc \in [Threads -> Places]
      /\ blocks \in [Blocks -> {0} \cup Sizes]
      /\ current \in Int /\ refused \in Nat
  BY DEF CallsInv, Typed
<1>3. blocks \in [Blocks -> Int] /\ Live \in Int
  BY LiveIsInteger
<1> DEFINE s == SumFunction(Aheads)
           s2 == SumFunction(Aheads)'
<1>4. Live' = SumFunction(blocks')
  BY DEF Live
<1>5. Ahead(t) \in Int /\ Ahead(t)' \in Int /\ s \in Int /\ s2 = s + (Ahead(t)' - Ahead(t))
  <2>1. op'[t] \in Calls
    BY DEF CallsInv, Typed
  <2>2. op'[t].size \in Nat /\ op'[t].old \in Nat
    BY <2>1 DEF Calls
  <2> QED BY <1>1, <2>2, TypedStep, AheadIsInteger, AheadChanges DEF Ahead
<1>6. current = Live + refused + s
  BY DEF Accounting, Aheads
<1> SUFFICES current' = Live' + refused' + s2
  BY DEF Accounting, Aheads
<1> HIDE DEF s, s2
<1>7. ASSUME Live' = Live, current' - refused' = current - refused + (Ahead(t)' - Ahead(t)),
             current' \in Int, refused' \in Int
      PROVE  current' = Live' + refused' + s2
  BY <1>2, <1>3, <1>5, <1>6, <1>7
<1>8. ASSUME NEW size \in Sizes, CallAlloc(t, size) PROVE current' = Live' + refused' + s2
  <2>1. Ahead(t)' = 0 /\ Ahead(t) = 0
    BY <1>2, <1>8 DEF CallAlloc, Goto, Ahead
  <2> QED BY <1>2, <1>4, <1>7, <1>8, <2>1 DEF CallAlloc, Live
<1>9. ASSUME Reserve(t) PROVE current' = Live' + refused' + s2
  <2>1. op'[t].size = op[t].size
    BY <1>1, <1>2, <1>9 DEF Reserve, Add, Calls
  <2>2. Ahead(t)' = op[t].size /\ Ahead(t) = 0
    BY <1>2, <1>9, <2>1 DEF Reserve, Goto, Ahead
  <2> QED BY <1>1, <1>2, <1>7, <1>9, <2>2 DEF Reserve, Add, Live
<1>10. ASSUME AddTotal(t) PROVE current' = Live' + refused' + s2
  <2>1. Ahead(t)' = Ahead(t)
    BY <1>2, <1>10 DEF AddTotal, Goto, Ahead
  <2> QED BY <1>2, <1>5, <1>7, <1>10, <2>1 DEF AddTotal, Live
<1>11. ASSUME RaisePeak(t) PROVE current' = Live' + refused' + s2
  <2>1. Ahead(t) = op[t].size
    BY <1>11 DEF RaisePeak, Goto, Ahead
  <2>2. CASE Larger(peak, Reached(t)) > limit
    <3>1. Ahead(t)' = 0 /\ refused' = refused + op[t].size
      BY <1>2, <1>11, <2>2 DEF RaisePeak, Goto, Ahead
    <3> QED BY <1>1, <1>2, <1>7, <1>11, <2>1, <3>1 DEF RaisePeak, Live
  <2>3. CASE ~ (Larger(peak, Reached(t)) > limit)
    <3>1. Ahead(t)' = op[t].size
      BY <1>2, <1>11, <2>3 DEF RaisePeak, Goto, Ahead
    <3> QED BY <1>1, <1>2, <1>7, <1>11, <2>1, <2>3, <3>1 DEF RaisePeak, Live
  <2> QED BY <2>2, <2>3
<1>12. ASSUME NEW b \in Blocks, TakeBlock(t, b) PROVE current' = Live' + refused' + s2
  <2>1. Ahead(t)' = 0 /\ Ahead(t) = op[t].size
    BY <1>2, <1>12 DEF TakeBlock, Goto, Ahead
  <2>2. Live' = Live + op[t].size
    <3>1. /\ blocks[b] = 0 /\ blocks'[b] = op[t].size
          /\ \A x \in Blocks \ {b} : blocks'[x] = blocks[x]
      BY <1>3, <1>12 DEF TakeBlock
    <3>2. Live' = Live + (blocks'[b] - blocks[b])
      BY <3>1, LiveChanges
    <3> QED BY <1>1, <1>3, <3>1, <3>2
  <2> QED BY <1>1, <1>2, <1>3, <1>5, <1>6, <1>12, <2>1, <2>2 DEF TakeBlock
<1>13. ASSUME NEW b \in Blocks, CallDealloc(t, b) PROVE current' = Live' + refused' + s2
  <2>1. op'[t].size = blocks[b]
    BY <1>1, <1>2, <1>13 DEF CallDealloc, Calls
  <2>2. Ahead(t)' = blocks[b] /\ Ahead(t) = 0
    BY <1>2, <1>13, <2>1 DEF CallDealloc, Goto, Ahead
  <2>3. Live' = Live - blocks[b] /\ blocks[b] \in Int
    <3>1. blocks[b] \in Int /\ blocks'[b] = 0 /\ \A x \in Blocks \ {b} : blocks'[x] = blocks[x]
      BY <1>3, <1>13 DEF CallDealloc
    <3>2. Live' = Live + (blocks'[b] - blocks[b])
      BY <3>1, LiveChanges
    <3> QED BY <1>3, <3>1, <3>2
  <2> QED BY <1>2, <1>3, <1>5, <1>6, <1>13, <2>2, <2>3 DEF CallDealloc
<1>14. ASSUME Release(t) PROVE current' = Live' + refused' + s2
  <2>1. Ahead(t)' = 0 /\ Ahead(t) = op[t].size
    BY <1>2, <1>14 DEF Release, Goto, Ahead
  <2> QED BY <1>1, <1>2, <1>7, <1>14, <2>1 DEF Release, Live
<1>15. ASSUME NEW b \in Blocks, NEW size \in Sizes, CallRealloc(t, b, size)
       PROVE  current' = Live' + refused' + s2
  <2>1. Ahead(t)' = 0 /\ Ahead(t) = 0
    BY <1>2, <1>15 DEF CallRealloc, Goto, Ahead
  <2> QED BY <1>2, <1>7, <1>15, <2>1 DEF CallRealloc, Live
<1>16. ASSUME CheckLimit(t) PROVE current' = Live' + refused' + s2
  <2>1. Ahead(t)' = 0 /\ Ahead(t) = 0
    BY <1>2, <1>16 DEF CheckLimit, Goto, Ahead
  <2> QED BY <1>2, <1>7, <1>16, <2>1 DEF CheckLimit, Live
<1>17. ASSUME Resize(t) PROVE current' = Live' + refused' + s2
  <2>1. pc'[t] \in {"grow", "adjust"} /\ op'[t].size = op[t].size /\ op'[t].old = op[t].old
    BY <1>1, <1>2, <1>17 DEF Resize, Goto, Calls
  <2>2. Ahead(t)' = op[t].old - op[t].size /\ Ahead(t) = 0
    BY <1>17, <2>1 DEF Resize, Goto, Ahead
  <2>3. op[t].block \in Blocks /\ blocks[op[t].block] = op[t].old
    BY <1>1, <1>17 DEF Resize, Goto, Call
  <2>4. Live' = Live + (op[t].size - op[t].old)
    <3> DEFINE b == op[t].block
    <3>1. blocks'[b] = op[t].size /\ \A x \in Blocks \ {b} : blocks'[x] = blocks[x]
      BY <1>3, <1>17, <2>3 DEF Resize
    <3> HIDE DEF b
    <3>2. Live' = Live + (blocks'[b] - blocks[b])
      BY <2>3, <3>1, LiveChanges DEF b
    <3> QED BY <2>3, <3>1, <3>2 DEF b
  <2> QED BY <1>1, <1>2, <1>3, <1>5, <1>6, <1>17, <2>2, <2>4 DEF Resize
<1>18. ASSUME Grow(t) PROVE current' = Live' + refused' + s2
  <2>1. Ahead(t)' = Ahead(t)
    BY <1>2, <1>18 DEF Grow, Goto, Ahead
  <2> QED BY <1>2, <1>5, <1>7, <1>18, <2>1 DEF Grow, Live
<1>19. ASSUME Adjust(t) PROVE current' = Live' + refused' + s2
  <2>1. Ahead(t)' = 0 /\ Ahead(t) = op[t].old - op[t].size
    BY <1>2, <1>19 DEF Adjust, Goto, Ahead
  <2> QED BY <1>1, <1>2, <1>7, <1>19, <2>1 DEF Adjust, Add, Difference, Live
<1>20. ASSUME RaiseTop(t) PROVE current' = Live' + refused' + s2
  <2>1. Ahead(t)' = 0 /\ Ahead(t) = 0
    BY <1>2, <1>20 DEF RaiseTop, Goto, Ahead
  <2> QED BY <1>2, <1>7, <1>20, <2>1 DEF RaiseTop, Live
<1> QED
  BY <1>8, <1>9, <1>10, <1>11, <1>12, <1>13, <1>14, <1>15, <1>16, <1>17, <1>18, <1>19, <1>20
     DEF Thread

(***************************************************************************)
(* Accounting holds in every state, whatever the number of threads, of     *)
(* blocks and of sizes: what alloc, dealloc and realloc add to current and *)
(* take from it is, in any interleaving, what the blocks take up, but for  *)
(* the calls under way and what was refused.                               *)
(***************************************************************************)
THEOREM AllocCounts == Spec => []Accounting
<1>1. CallsInv /\ CallsInv' /\ Accounting /\ [Next]_vars => Accounting'
  <2>1. CASE UNCHANGED vars
    BY <2>1 DEF Accounting, Live, Ahead, vars
  <2>2. ASSUME CallsInv, CallsInv', Accounting, NEW t \in Threads, Thread(t) PROVE Accounting'
    BY <2>2, AccountingStep
  <2> QED BY <2>1, <2>2 DEF Next
<1> QED BY AccountingInit, CallsInvariant, <1>1, PTL DEF Spec

-----------------------------------------------------------------------------
(***************************************************************************)
(* Third layer: the highest value of current is in peak already, or some   *)
(* thread that has seen it, or more, is about to raise peak.               *)
(***************************************************************************)
Raises(t) == op[t].moved \/ op[t].size > op[t].old

Covering(t) ==
  \/ pc[t] \in {"total", "peak"} /\ Reached(t) >= highest
  \/ pc[t] = "top" /\ Raises(t) /\ op[t].prev + Added(t) >= highest

PeakInv ==
  /\ current <= highest
  /\ highest <= peak \/ \E t \in Threads : Covering(t)

LEMMA PeakStep ==
  ASSUME CallsInv, CallsInv', PeakInv, NEW t \in Threads, Thread(t)
  PROVE  PeakInv'
<1>1. /\ Call(t) /\ pc[t] \in Places /\ op[t] \in Calls
      /\ op[t].size \in Nat /\ op[t].old \in Nat /\ op[t].prev \in Int
      /\ op[t].moved \in BOOLEAN
  BY CallFields
<1>2. /\ op \in [Threads -> Calls] /\ pc \in [Threads -> Places]
      /\ current \in Int /\ highest \in Nat /\ peak \in Nat
  BY DEF CallsInv, Typed
<1>3. Alone(t)
  BY TypedStep
<1>4. ASSUME NEW u \in Threads, u # t, Covering(u), highest' = highest
      PROVE  Covering(u)'
  BY <1>3, <1>4 DEF Covering, Reached, Raises, Added, Alone
<1>5. ASSUME highest' = highest, current' <= highest, peak' >= peak, peak' \in Int,
             Covering(t) => Covering(t)' \/ peak' >= highest
      PROVE  PeakInv'
  <2>1. CASE highest <= peak
    BY <1>2, <1>5, <2>1 DEF PeakInv
  <2>2. ASSUME NEW u \in Threads, Covering(u) PROVE PeakInv'
    BY <1>4, <1>5, <2>2 DEF PeakInv
  <2> QED BY <2>1, <2>2 DEF PeakInv
<1>6. ASSUME highest' = highest, current' = current, peak' = peak, ~ Covering(t)
      PROVE  PeakInv'
  BY <1>2, <1>5, <1>6 DEF PeakInv
<1>7. ASSUME Reserve(t) PROVE PeakInv'
  <2>1. /\ op'[t].size = op[t].size /\ op'[t].prev = current /\ pc'[t] = "total"
        /\ current' = current + op[t].size
    BY <1>1, <1>2, <1>7 DEF Reserve, Goto, Add, Calls
  <2>2. Reached(t)' = current'
    BY <2>1 DEF Reached
  <2>3. highest' = Larger(highest, current') /\ peak' = peak /\ ~ Covering(t)
    BY <1>7 DEF Reserve, Goto, Add, Covering
  <2>4. CASE current' > highest
    <3>1. highest' = current' /\ Covering(t)'
      BY <1>1, <1>2, <2>1, <2>2, <2>3, <2>4 DEF Larger, Covering
    <3> QED BY <1>1, <1>2, <2>1, <3>1 DEF PeakInv
  <2>5. CASE ~ (current' > highest)
    <3>1. highest' = highest /\ current' <= highest
      BY <1>1, <1>2, <2>1, <2>3, <2>5 DEF Larger
    <3> QED BY <1>2, <1>5, <2>3, <3>1
  <2> QED BY <2>4, <2>5
<1>8. ASSUME AddTotal(t) PROVE PeakInv'
  <2>1. Covering(t) => Covering(t)'
    BY <1>2, <1>8 DEF AddTotal, Goto, Covering, Reached
  <2> QED BY <1>2, <1>5, <1>8, <2>1 DEF AddTotal, PeakInv
<1>9. ASSUME RaisePeak(t) PROVE PeakInv'
  <2>1. /\ peak' = Larger(peak, Reached(t)) /\ Reached(t) \in Int
        /\ highest' = highest /\ current' = current /\ pc[t] = "peak"
    BY <1>1, <1>9 DEF RaisePeak, Reached
  <2>2. peak' >= peak /\ peak' \in Int /\ peak' >= Reached(t)
    BY <1>2, <2>1 DEF Larger
  <2>3. Covering(t) => peak' >= highest
    BY <1>2, <2>1, <2>2 DEF Covering
  <2> QED BY <1>2, <1>5, <2>1, <2>2, <2>3 DEF PeakInv
<1>10. ASSUME Adjust(t) PROVE PeakInv'
  <2>1. /\ op'[t].size = op[t].size /\ op'[t].old = op[t].old /\ op'[t].moved = op[t].moved
        /\ op'[t].prev = current /\ pc'[t] = "top"
        /\ current' = current + (op[t].size - op[t].old)
    BY <1>1, <1>2, <1>10 DEF Adjust, Goto, Add, Difference, Calls
  <2>2. highest' = Larger(highest, current') /\ peak' = peak /\ ~ Covering(t)
    BY <1>10 DEF Adjust, Goto, Add, Covering
  <2>3. CASE current' > highest
    <3>1. op[t].size > op[t].old
      BY <1>1, <1>2, <2>1, <2>3 DEF PeakInv
    <3>2. op'[t].prev + Added(t)' >= current' /\ Raises(t)'
      BY <1>1, <1>2, <2>1, <3>1 DEF Added, Raises
    <3>3. highest' = current' /\ Covering(t)'
      BY <1>1, <1>2, <2>1, <2>2, <2>3, <3>2 DEF Larger, Covering
    <3> QED BY <1>1, <1>2, <2>1, <3>3 DEF PeakInv
  <2>4. CASE ~ (current' > highest)
    <3>1. highest' = highest /\ current' <= highest
      BY <1>1, <1>2, <2>1, <2>2, <2>4 DEF Larger
    <3> QED BY <1>2, <1>5, <2>2, <3>1
  <2> QED BY <2>3, <2>4
<1>11. ASSUME RaiseTop(t) PROVE PeakInv'
  <2>1. Added(t) \in Int
    BY <1>1 DEF Added
  <2>2. /\ peak' = IF Raises(t) THEN Larger(peak, op[t].prev + Added(t)) ELSE peak
        /\ highest' = highest /\ current' = current /\ pc[t] = "top"
    BY <1>11 DEF RaiseTop, Raises, Goto
  <2>3. peak' >= peak /\ peak' \in Int /\ (Raises(t) => peak' >= op[t].prev + Added(t))
    BY <1>1, <1>2, <2>1, <2>2 DEF Larger
  <2>4. Covering(t) => peak' >= highest
    BY <1>1, <1>2, <2>1, <2>2, <2>3 DEF Covering
  <2> QED BY <1>2, <1>5, <2>2, <2>3, <2>4 DEF PeakInv
<1>12. ASSUME Release(t) PROVE PeakInv'
  <2>1. current' <= highest /\ ~ Covering(t)
    BY <1>1, <1>2, <1>12 DEF Release, Goto, Covering, PeakInv
  <2> QED BY <1>2, <1>5, <1>12, <2>1 DEF Release
<1> QED
  BY <1>6, <1>7, <1>8, <1>9, <1>10, <1>11, <1>12
     DEF Thread, CallAlloc, TakeBlock, CallDealloc, CallRealloc, CheckLimit, Resize, Grow,
         Goto, Covering

(***************************************************************************)
(* PeakCovers holds in every state: when no call is under way, no value    *)
(* that current has had is above peak, although current and peak are       *)
(* raised by two atomic operations.                                        *)
(***************************************************************************)
THEOREM AllocPeakCovers == Spec => []PeakCovers
<1>1. Init => PeakInv
  BY DEF Init, PeakInv
<1>2. CallsInv /\ CallsInv' /\ PeakInv /\ [Next]_vars => PeakInv'
  <2>1. CASE UNCHANGED vars
    BY <2>1 DEF PeakInv, Covering, Reached, Raises, Added, vars
  <2>2. ASSUME CallsInv, CallsInv', PeakInv, NEW t \in Threads, Thread(t) PROVE PeakInv'
    BY <2>2, PeakStep
  <2> QED BY <2>1, <2>2 DEF Next
<1>3. CallsInv /\ PeakInv => PeakCovers
  BY DEF CallsInv, Typed, PeakInv, PeakCovers, Quiet, Covering
<1> QED BY CallsInvariant, <1>1, <1>2, <1>3, PTL DEF Spec

-----------------------------------------------------------------------------
(***************************************************************************)
(* Fourth layer: current again, this time as a sum of sizes only.  A block *)
(* counts with its old size until the thread that resized it has adjusted  *)
(* current.                                                                *)
(***************************************************************************)
Resized(t) == pc[t] \in {"grow", "adjust"}

Settled(b) ==
  IF \E t \in Threads : Resized(t) /\ op[t].block = b
    THEN op[CHOOSE t \in Threads : Resized(t) /\ op[t].block = b].old
    ELSE blocks[b]

Pending(t) == IF pc[t] \in {"total", "peak", "take", "release"} THEN op[t].size ELSE 0

Settleds == [b \in Blocks |-> Settled(b)]
Pendings == [t \in Threads |-> Pending(t)]

CountInv == current = SumFunction(Settleds) + refused + SumFunction(Pendings)

SettledMeans ==
  /\ \A t \in Threads : Resized(t) => Settled(op[t].block) = op[t].old
  /\ \A b \in Blocks : (\A t \in Threads : Resized(t) => op[t].block # b) => Settled(b) = blocks[b]
  /\ \A b \in Blocks : Settled(b) \in Nat
  /\ \A t \in Threads : Pending(t) \in Nat

LEMMA SettledIs == CallsInv => SettledMeans
<1> SUFFICES ASSUME CallsInv PROVE SettledMeans
  OBVIOUS
<1>1. ASSUME NEW t \in Threads, Resized(t) PROVE Settled(op[t].block) = op[t].old
  <2> DEFINE u == CHOOSE u \in Threads : Resized(u) /\ op[u].block = op[t].block
  <2>1. u \in Threads /\ op[u].block = op[t].block
    BY <1>1
  <2>2. op[t].block # Nowhere
    BY <1>1, CallFields, AllocAssumption DEF Call, Resized
  <2>3. u = t
    BY <2>1, <2>2 DEF CallsInv, Apart
  <2> QED BY <1>1, <2>3 DEF Settled
<1>2. ASSUME NEW b \in Blocks, \A t \in Threads : Resized(t) => op[t].block # b
      PROVE  Settled(b) = blocks[b]
  BY <1>2 DEF Settled
<1>3. ASSUME NEW b \in Blocks PROVE Settled(b) \in Nat
  <2>1. CASE \A t \in Threads : Resized(t) => op[t].block # b
    <3>1. blocks[b] \in {0} \cup Sizes
      BY DEF CallsInv, Typed
    <3> QED BY <1>2, <2>1, <3>1, SizesArePositive
  <2>2. ASSUME NEW t \in Threads, Resized(t), op[t].block = b PROVE Settled(b) \in Nat
    BY <1>1, <2>2, CallFields
  <2> QED BY <2>1, <2>2
<1>4. \A t \in Threads : Pending(t) \in Nat
  BY CallFields DEF Pending
<1> QED BY <1>1, <1>2, <1>3, <1>4 DEF SettledMeans

LEMMA SettledIsNext == CallsInv' => SettledMeans'
BY SettledIs, PTL

LEMMA SettledSums ==
  ASSUME SettledMeans
  PROVE  /\ Settleds \in [Blocks -> Int] /\ Pendings \in [Threads -> Int]
         /\ SumFunction(Settleds) \in Nat /\ SumFunction(Pendings) \in Nat
<1>1. Settleds \in [Blocks -> Int] /\ \A b \in Blocks : Settleds[b] >= 0
  BY DEF SettledMeans, Settleds
<1>2. Pendings \in [Threads -> Int] /\ \A t \in Threads : Pendings[t] >= 0
  BY DEF SettledMeans, Pendings
<1> QED BY <1>1, <1>2, AllocAssumption, SumIsNatural

LEMMA SettledChanges ==
  ASSUME SettledMeans, SettledMeans', NEW b \in Blocks,
         \A x \in Blocks \ {b} : Settled(x)' = Settled(x)
  PROVE  SumFunction(Settleds)' = SumFunction(Settleds) + (Settled(b)' - Settled(b))
<1>1. /\ Settleds \in [Blocks -> Int] /\ Settleds' \in [Blocks -> Int]
      /\ \A x \in Blocks \ {b} : Settleds'[x] = Settleds[x]
  BY DEF SettledMeans, Settleds
<1>2. SumFunction(Settleds') = SumFunction(Settleds) + (Settleds'[b] - Settleds[b])
  BY <1>1, AllocAssumption, SumChanges
<1> QED BY <1>2 DEF Settleds

LEMMA SettledStays ==
  ASSUME \A x \in Blocks : Settled(x)' = Settled(x)
  PROVE  SumFunction(Settleds)' = SumFunction(Settleds)
<1>1. Settleds' = Settleds
  BY DEF Settleds
<1> QED BY <1>1

LEMMA PendingChanges ==
  ASSUME SettledMeans, SettledMeans', NEW t \in Threads, Alone(t)
  PROVE  SumFunction(Pendings)' = SumFunction(Pendings) + (Pending(t)' - Pending(t))
<1>1. /\ Pendings \in [Threads -> Int] /\ Pendings' \in [Threads -> Int]
      /\ \A u \in Threads \ {t} : Pendings'[u] = Pendings[u]
  BY DEF SettledMeans, Pendings, Pending, Alone
<1>2. SumFunction(Pendings') = SumFunction(Pendings) + (Pendings'[t] - Pendings[t])
  BY <1>1, AllocAssumption, SumChanges
<1> QED BY <1>2 DEF Pendings

LEMMA SettledFrame ==
  ASSUME NEW t \in Threads, Alone(t), NEW x \in Blocks,
         op[t].block # x, op'[t].block # x, blocks'[x] = blocks[x]
  PROVE  Settled(x)' = Settled(x)
<1>1. \A u \in Threads : (Resized(u)' /\ op'[u].block = x) <=> (Resized(u) /\ op[u].block = x)
  BY DEF Alone, Resized
<1>2. (CHOOSE u \in Threads : (Resized(u)' /\ op'[u].block = x))
        = (CHOOSE u \in Threads : (Resized(u) /\ op[u].block = x))
  BY <1>1
<1> DEFINE u == CHOOSE u \in Threads : Resized(u) /\ op[u].block = x
<1>3. CASE \E v \in Threads : Resized(v) /\ op[v].block = x
  <2>1. u \in Threads /\ op[u].block = x
    BY <1>3
  <2>2. op'[u] = op[u]
    BY <2>1 DEF Alone
  <2>3. Settled(x) = op[u].old
    BY <1>3 DEF Settled
  <2>4. Settled(x)' = op'[u].old
    BY <1>1, <1>2, <1>3 DEF Settled
  <2> QED BY <2>2, <2>3, <2>4
<1>4. CASE ~ \E v \in Threads : Resized(v) /\ op[v].block = x
  BY <1>1, <1>4 DEF Settled
<1> QED BY <1>3, <1>4

SettledOwn == \A t \in Threads : op[t].block \in Blocks =>
  Settled(op[t].block) = IF Resized(t) THEN op[t].old ELSE blocks[op[t].block]

LEMMA SettledOwnIs == CallsInv => SettledOwn
<1> SUFFICES ASSUME CallsInv, NEW t \in Threads, op[t].block \in Blocks
             PROVE  Settled(op[t].block) = IF Resized(t) THEN op[t].old ELSE blocks[op[t].block]
  BY DEF SettledOwn
<1>1. \A u \in Threads : op[u].block = op[t].block => u = t
  BY AllocAssumption DEF CallsInv, Apart
<1> QED BY <1>1, SettledIs DEF SettledMeans

LEMMA SettledOwnNext == CallsInv' => SettledOwn'
BY SettledOwnIs, PTL

LEMMA CountStep ==
  ASSUME CallsInv, CallsInv', CountInv, NEW t \in Threads, Thread(t)
  PROVE  CountInv'
<1>1. /\ Call(t) /\ pc[t] \in Places /\ op[t] \in Calls
      /\ op[t].size \in Nat /\ op[t].old \in Nat /\ op[t].prev \in Int
      /\ op[t].moved \in BOOLEAN /\ op[t].block \in Blocks \cup {Nowhere}
  BY CallFields
<1>2. /\ op \in [Threads -> Calls] /\ pc \in [Threads -> Places]
      /\ blocks \in [Blocks -> {0} \cup Sizes]
      /\ current \in Int /\ refused \in Nat
  BY DEF CallsInv, Typed
<1>3. SettledMeans /\ SettledMeans' /\ SettledOwn /\ SettledOwn'
  BY SettledIs, SettledIsNext, SettledOwnIs, SettledOwnNext
<1>4. Alone(t)
  BY TypedStep
<1> DEFINE s == SumFunction(Settleds)
           s2 == SumFunction(Settleds)'
           p == SumFunction(Pendings)
           p2 == SumFunction(Pendings)'
<1>5. /\ s \in Int /\ p \in Int /\ Pending(t) \in Int /\ Pending(t)' \in Int
      /\ p2 = p + (Pending(t)' - Pending(t))
  BY <1>3, <1>4, SettledSums, PendingChanges DEF SettledMeans
<1>6. current = s + refused + p
  BY DEF CountInv
<1>7. ASSUME NEW b \in Blocks, \A x \in Blocks \ {b} : Settled(x)' = Settled(x)
      PROVE  s2 = s + (Settled(b)' - Settled(b))
  BY <1>3, <1>7, SettledChanges
<1>8. ASSUME op[t].block = Nowhere, op'[t].block = Nowhere, blocks' = blocks
      PROVE  s2 = s
  <2>1. \A x \in Blocks : Settled(x)' = Settled(x)
    BY <1>4, <1>8, AllocAssumption, SettledFrame
  <2> QED BY <2>1, SettledStays
<1>9. ASSUME NEW b \in Blocks, op[t].block \in {Nowhere, b}, op'[t].block \in {Nowhere, b},
             \A x \in Blocks \ {b} : blocks'[x] = blocks[x]
      PROVE  s2 = s + (Settled(b)' - Settled(b))
  <2>1. \A x \in Blocks \ {b} : Settled(x)' = Settled(x)
    BY <1>4, <1>9, AllocAssumption, SettledFrame
  <2> QED BY <1>7, <2>1
<1>10. \A b \in Blocks : Settled(b) \in Int /\ Settled(b)' \in Int
  BY <1>3 DEF SettledMeans
<1>11. Idle.block = Nowhere
  BY DEF Idle
<1> SUFFICES current' = s2 + refused' + p2
  BY DEF CountInv
<1> HIDE DEF s, s2, p, p2
<1>12. ASSUME NEW size \in Sizes, CallAlloc(t, size) PROVE current' = s2 + refused' + p2
  <2>1. Pending(t)' = 0 /\ Pending(t) = 0
    BY <1>2, <1>12 DEF CallAlloc, Goto, Pending
  <2>2. op[t].block = Nowhere /\ op'[t].block = Nowhere
    BY <1>1, <1>2, <1>11, <1>12 DEF CallAlloc, Goto, Call, Calls
  <2>3. current' = current /\ refused' = refused /\ blocks' = blocks
    BY <1>12 DEF CallAlloc
  <2> QED BY <1>2, <1>5, <1>6, <1>8, <2>1, <2>2, <2>3
<1>13. ASSUME Reserve(t) PROVE current' = s2 + refused' + p2
  <2>1. op'[t].size = op[t].size /\ op'[t].block = op[t].block
    BY <1>1, <1>2, <1>13 DEF Reserve, Add, Calls
  <2>2. Pending(t)' = op[t].size /\ Pending(t) = 0
    BY <1>2, <1>13, <2>1 DEF Reserve, Goto, Pending
  <2>3. op[t].block = Nowhere
    BY <1>1, <1>13 DEF Reserve, Goto, Call
  <2>4. current' = current + op[t].size /\ refused' = refused /\ blocks' = blocks
    BY <1>13 DEF Reserve, Add
  <2> QED BY <1>1, <1>2, <1>5, <1>6, <1>8, <2>1, <2>2, <2>3, <2>4
<1>14. ASSUME AddTotal(t) PROVE current' = s2 + refused' + p2
  <2>1. Pending(t)' = Pending(t)
    BY <1>2, <1>14 DEF AddTotal, Goto, Pending
  <2>2. op[t].block = Nowhere /\ op'[t].block = Nowhere
    BY <1>1, <1>2, <1>14 DEF AddTotal, Goto, Call
  <2>3. current' = current /\ refused' = refused /\ blocks' = blocks
    BY <1>14 DEF AddTotal
  <2> QED BY <1>2, <1>5, <1>6, <1>8, <2>1, <2>2, <2>3
<1>15. ASSUME RaisePeak(t) PROVE current' = s2 + refused' + p2
  <2>1. Pending(t) = op[t].size /\ op[t].block = Nowhere
    BY <1>1, <1>15 DEF RaisePeak, Goto, Pending, Call
  <2>2. CASE Larger(peak, Reached(t)) > limit
    <3>1. Pending(t)' = 0 /\ op'[t].block = Nowhere
      BY <1>2, <1>11, <1>15, <2>2 DEF RaisePeak, Goto, Pending
    <3>2. current' = current /\ refused' = refused + op[t].size /\ blocks' = blocks
      BY <1>15, <2>2 DEF RaisePeak
    <3> QED BY <1>1, <1>2, <1>5, <1>6, <1>8, <2>1, <3>1, <3>2
  <2>3. CASE ~ (Larger(peak, Reached(t)) > limit)
    <3>1. Pending(t)' = op[t].size /\ op'[t].block = Nowhere
      BY <1>2, <1>15, <2>1, <2>3 DEF RaisePeak, Goto, Pending
    <3>2. current' = current /\ refused' = refused /\ blocks' = blocks
      BY <1>15, <2>3 DEF RaisePeak
    <3> QED BY <1>1, <1>2, <1>5, <1>6, <1>8, <2>1, <3>1, <3>2
  <2> QED BY <2>2, <2>3
<1>16. ASSUME NEW b \in Blocks, TakeBlock(t, b) PROVE current' = s2 + refused' + p2
  <2>1. Pending(t)' = 0 /\ Pending(t) = op[t].size
    BY <1>2, <1>16 DEF TakeBlock, Goto, Pending
  <2>2. op[t].block = Nowhere /\ op'[t].block = Nowhere
    BY <1>1, <1>2, <1>11, <1>16 DEF TakeBlock, Goto, Call
  <2>3. /\ blocks[b] = 0 /\ blocks'[b] = op[t].size
        /\ \A x \in Blocks \ {b} : blocks'[x] = blocks[x]
    BY <1>2, <1>16 DEF TakeBlock
  <2>4. ASSUME NEW u \in Threads PROVE op[u].block # b /\ op'[u].block # b
    <3>1. op[u].block # b
      <4>1. Call(u) /\ pc[u] \in Places
        BY CallFields
      <4>2. \A z \in Sizes : z # 0
        BY SizesArePositive
      <4> QED BY <1>11, <2>3, <4>1, <4>2, AllocAssumption DEF Call, Places
    <3> QED BY <1>4, <2>2, <3>1, AllocAssumption DEF Alone
  <2>5. Settled(b) = 0 /\ Settled(b)' = op[t].size
    BY <1>3, <2>3, <2>4 DEF SettledMeans
  <2>6. s2 = s + (Settled(b)' - Settled(b))
    BY <1>9, <2>2, <2>3
  <2>7. current' = current /\ refused' = refused
    BY <1>16 DEF TakeBlock
  <2> QED BY <1>1, <1>2, <1>5, <1>6, <2>1, <2>5, <2>6, <2>7
<1>17. ASSUME NEW b \in Blocks, CallDealloc(t, b) PROVE current' = s2 + refused' + p2
  <2>1. op'[t].size = blocks[b] /\ op'[t].block = op[t].block
    BY <1>1, <1>2, <1>17 DEF CallDealloc, Calls
  <2>2. Pending(t)' = blocks[b] /\ Pending(t) = 0
    BY <1>2, <1>17, <2>1 DEF CallDealloc, Goto, Pending
  <2>3. op[t].block = Nowhere
    BY <1>1, <1>11, <1>17 DEF CallDealloc, Goto, Call
  <2>4. blocks'[b] = 0 /\ \A x \in Blocks \ {b} : blocks'[x] = blocks[x]
    BY <1>2, <1>17 DEF CallDealloc
  <2>5. \A u \in Threads : op[u].block # b /\ op'[u].block # b
    BY <1>4, <1>17, <2>1 DEF CallDealloc, Held, Alone
  <2>6. Settled(b) = blocks[b] /\ Settled(b)' = 0
    BY <1>3, <2>4, <2>5 DEF SettledMeans
  <2>7. s2 = s + (Settled(b)' - Settled(b))
    BY <1>9, <2>1, <2>3, <2>4
  <2>8. current' = current /\ refused' = refused
    BY <1>17 DEF CallDealloc
  <2> QED BY <1>1, <1>2, <1>5, <1>6, <1>10, <2>2, <2>6, <2>7, <2>8
<1>18. ASSUME Release(t) PROVE current' = s2 + refused' + p2
  <2>1. Pending(t)' = 0 /\ Pending(t) = op[t].size
    BY <1>2, <1>18 DEF Release, Goto, Pending
  <2>2. op[t].block = Nowhere /\ op'[t].block = Nowhere
    BY <1>1, <1>2, <1>11, <1>18 DEF Release, Goto, Call
  <2>3. current' = current - op[t].size /\ refused' = refused /\ blocks' = blocks
    BY <1>18 DEF Release
  <2> QED BY <1>1, <1>2, <1>5, <1>6, <1>8, <2>1, <2>2, <2>3
<1>19. ASSUME NEW b \in Blocks, op[t].block \in {Nowhere, b}, op'[t].block \in {Nowhere, b},
              \A x \in Blocks \ {b} : blocks'[x] = blocks[x],
              Settled(b)' = Settled(b), Pending(t) = 0, Pending(t)' = 0,
              current' = current, refused' = refused
       PROVE  current' = s2 + refused' + p2
  <2>1. s2 = s + (Settled(b)' - Settled(b))
    BY <1>9, <1>19
  <2> QED BY <1>2, <1>5, <1>6, <1>10, <1>19, <2>1
<1>20. ASSUME NEW b \in Blocks, NEW size \in Sizes, CallRealloc(t, b, size)
       PROVE  current' = s2 + refused' + p2
  <2>1. op'[t] = Resizing(b, size, blocks[b]) /\ pc[t] = "idle" /\ pc'[t] = "check"
    BY <1>2, <1>20 DEF CallRealloc, Goto, Resizing
  <2>2. op'[t].block = b
    BY <1>2, <2>1, ReallocStarts, SizesArePositive
  <2>3. op[t].block = Nowhere
    BY <1>1, <1>11, <2>1 DEF Call
  <2>4. \A u \in Threads : op[u].block # b
    BY <1>20 DEF CallRealloc, Held
  <2>5. Settled(b) = blocks[b]
    BY <1>3, <2>4 DEF SettledMeans
  <2>6. Settled(b)' = blocks'[b]
    BY <1>3, <2>1, <2>2 DEF SettledOwn, Resized
  <2>7. current' = current /\ refused' = refused /\ blocks' = blocks
    BY <1>20 DEF CallRealloc
  <2>8. Pending(t) = 0 /\ Pending(t)' = 0
    BY <2>1 DEF Pending
  <2> QED BY <1>19, <2>2, <2>3, <2>5, <2>6, <2>7, <2>8
<1>21. ASSUME CheckLimit(t) PROVE current' = s2 + refused' + p2
  <2>0. PICK b \in Blocks : b = op[t].block
    BY <1>1, <1>21 DEF CheckLimit, Goto, Call
  <2>1. pc[t] = "check" /\ pc'[t] \in {"idle", "resize"}
    BY <2>0, <1>1, <1>2, <1>21 DEF CheckLimit, Goto, Call
  <2>2. op'[t].block \in {Nowhere, b}
    BY <2>0, <1>2, <1>11, <1>21 DEF CheckLimit
  <2>3. Settled(b) = blocks[b]
    BY <2>0, <1>3, <2>1 DEF SettledOwn, Resized
  <2>4. current' = current /\ refused' = refused /\ blocks' = blocks
    BY <2>0, <1>21 DEF CheckLimit
  <2>5. Settled(b)' = blocks'[b]
    <3>1. \A u \in Threads \ {t} : op'[u].block # b
      BY <2>0, <1>4, <2>1, AllocAssumption DEF CallsInv, Apart, Alone
    <3>2. \A u \in Threads : Resized(u)' => op'[u].block # b
      BY <2>0, <2>1, <3>1 DEF Resized
    <3> QED BY <2>0, <1>3, <2>1, <3>2 DEF SettledMeans
  <2>6. Pending(t) = 0 /\ Pending(t)' = 0
    BY <2>1 DEF Pending
  <2> QED BY <2>0, <1>19, <2>1, <2>2, <2>3, <2>4, <2>5, <2>6
<1>22. ASSUME Resize(t) PROVE current' = s2 + refused' + p2
  <2>0. PICK b \in Blocks : b = op[t].block
    BY <1>1, <1>22 DEF Resize, Goto, Call
  <2>1. pc[t] = "resize" /\ pc'[t] \in {"grow", "adjust"} /\ blocks[b] = op[t].old
    BY <2>0, <1>1, <1>2, <1>22 DEF Resize, Goto, Call
  <2>2. op'[t].block = b /\ op'[t].old = op[t].old
    BY <2>0, <1>1, <1>2, <1>22 DEF Resize, Calls
  <2>3. Settled(b) = op[t].old
    BY <2>0, <1>3, <2>1 DEF SettledOwn, Resized
  <2>4. Settled(b)' = op[t].old
    BY <2>0, <1>3, <2>1, <2>2 DEF SettledOwn, Resized
  <2>5. current' = current /\ refused' = refused /\ \A x \in Blocks \ {b} : blocks'[x] = blocks[x]
    BY <2>0, <1>2, <1>22 DEF Resize
  <2>6. Pending(t) = 0 /\ Pending(t)' = 0
    BY <2>1 DEF Pending
  <2> QED BY <2>0, <1>19, <2>1, <2>2, <2>3, <2>4, <2>5, <2>6
<1>23. ASSUME Grow(t) PROVE current' = s2 + refused' + p2
  <2>0. PICK b \in Blocks : b = op[t].block
    BY <1>1, <1>23 DEF Grow, Goto, Call
  <2>1. pc[t] = "grow" /\ pc'[t] = "adjust" /\ op' = op
    BY <2>0, <1>1, <1>2, <1>23 DEF Grow, Goto, Call
  <2>2. Settled(b) = op[t].old /\ Settled(b)' = op[t].old
    BY <2>0, <1>3, <2>1 DEF SettledOwn, Resized
  <2>3. current' = current /\ refused' = refused /\ blocks' = blocks
    BY <2>0, <1>23 DEF Grow
  <2>4. Pending(t) = 0 /\ Pending(t)' = 0
    BY <2>1 DEF Pending
  <2> QED BY <2>0, <1>19, <2>1, <2>2, <2>3, <2>4
<1>24. ASSUME Adjust(t) PROVE current' = s2 + refused' + p2
  <2>0. PICK b \in Blocks : b = op[t].block
    BY <1>1, <1>24 DEF Adjust, Goto, Call
  <2>1. pc[t] = "adjust" /\ pc'[t] = "top" /\ blocks[b] = op[t].size
    BY <2>0, <1>1, <1>2, <1>24 DEF Adjust, Goto, Call
  <2>2. op'[t].block = b
    BY <2>0, <1>1, <1>2, <1>24 DEF Adjust, Add, Calls
  <2>3. current' = current + (op[t].size - op[t].old) /\ refused' = refused /\ blocks' = blocks
    BY <2>0, <1>24 DEF Adjust, Add, Difference
  <2>4. Settled(b) = op[t].old /\ Settled(b)' = op[t].size
    BY <2>0, <1>3, <2>1, <2>2, <2>3 DEF SettledOwn, Resized
  <2>5. Pending(t) = 0 /\ Pending(t)' = 0
    BY <2>1 DEF Pending
  <2>6. s2 = s + (Settled(b)' - Settled(b))
    BY <2>0, <1>9, <2>1, <2>2, <2>3
  <2> QED BY <2>0, <1>1, <1>2, <1>5, <1>6, <2>3, <2>4, <2>5, <2>6
<1>25. ASSUME RaiseTop(t) PROVE current' = s2 + refused' + p2
  <2>0. PICK b \in Blocks : b = op[t].block
    BY <1>1, <1>25 DEF RaiseTop, Goto, Call
  <2>1. pc[t] = "top" /\ pc'[t] = "idle" /\ op'[t].block = Nowhere
    BY <2>0, <1>1, <1>2, <1>11, <1>25 DEF RaiseTop, Goto, Call
  <2>2. Settled(b) = blocks[b]
    BY <2>0, <1>3, <2>1 DEF SettledOwn, Resized
  <2>3. current' = current /\ refused' = refused /\ blocks' = blocks
    BY <2>0, <1>25 DEF RaiseTop
  <2>4. Settled(b)' = blocks'[b]
    <3>1. \A u \in Threads \ {t} : op'[u].block # b
      BY <2>0, <1>4, <2>1, AllocAssumption DEF CallsInv, Apart, Alone
    <3>2. \A u \in Threads : Resized(u)' => op'[u].block # b
      BY <2>0, <2>1, <3>1 DEF Resized
    <3> QED BY <2>0, <1>3, <2>1, <3>2 DEF SettledMeans
  <2>5. Pending(t) = 0 /\ Pending(t)' = 0
    BY <2>1 DEF Pending
  <2> QED BY <2>0, <1>19, <2>1, <2>2, <2>3, <2>4, <2>5
<1> QED
  BY <1>12, <1>13, <1>14, <1>15, <1>16, <1>17, <1>18, <1>20, <1>21, <1>22, <1>23, <1>24, <1>25
     DEF Thread

LEMMA CountInit == Init => CountInv
<1> SUFFICES ASSUME Init PROVE CountInv
  OBVIOUS
<1>1. SumFunction(Settleds) = 0
  <2>1. \A b \in Blocks : Settled(b) = 0
    BY DEF Init, Settled, Resized
  <2>2. Settleds \in [Blocks -> Int] /\ \A b \in Blocks : Settleds[b] = 0
    BY <2>1 DEF Settleds
  <2> QED BY <2>2, AllocAssumption, SumOfZeros
<1>2. SumFunction(Pendings) = 0
  <2>1. \A t \in Threads : Pending(t) = 0
    BY DEF Init, Pending
  <2>2. Pendings \in [Threads -> Int] /\ \A t \in Threads : Pendings[t] = 0
    BY <2>1 DEF Pendings
  <2> QED BY <2>2, AllocAssumption, SumOfZeros
<1> QED BY <1>1, <1>2 DEF Init, CountInv

(***************************************************************************)
(* The type invariant, of which the hard part is that current, which is    *)
(* unsigned, is never lowered below zero: every subtraction, of dealloc    *)
(* and of a shrinking realloc, is covered by what was added before.        *)
(***************************************************************************)
THEOREM AllocTyped == Spec => []TypeOK
<1>1. CallsInv /\ CallsInv' /\ CountInv /\ [Next]_vars => CountInv'
  <2>1. CASE UNCHANGED vars
    BY <2>1 DEF CountInv, Settleds, Settled, Resized, Pendings, Pending, vars
  <2>2. ASSUME CallsInv, CallsInv', CountInv, NEW t \in Threads, Thread(t) PROVE CountInv'
    BY <2>2, CountStep
  <2> QED BY <2>1, <2>2 DEF Next
<1>2. CallsInv /\ CountInv => TypeOK
  <2> SUFFICES ASSUME CallsInv, CountInv PROVE TypeOK
    OBVIOUS
  <2>1. current \in Nat
    <3>1. SumFunction(Settleds) \in Nat /\ SumFunction(Pendings) \in Nat
      BY SettledIs, SettledSums
    <3> QED BY <3>1 DEF CallsInv, Typed, CountInv
  <2> QED BY <2>1 DEF CallsInv, Typed, TypeOK, Places
<1> QED BY CallsInvariant, CountInit, <1>1, <1>2, PTL DEF Spec

-----------------------------------------------------------------------------
(***************************************************************************)
(* Fifth layer: the limit.  While peak is within the limit, current is,    *)
(* but for what was refused and for the threads that have seen more than   *)
(* the limit and are about to say so (Excess).  So what has been accepted  *)
(* was within the limit when it was, but for what the other threads were   *)
(* growing (Due).                                                          *)
(***************************************************************************)
Excess(t) ==
  CASE pc[t] \in {"total", "peak"} /\ Reached(t) > limit -> op[t].size
    [] pc[t] = "top" /\ Raises(t) /\ op[t].prev + Added(t) > limit -> LargestGrowth
    [] OTHER -> 0

Due(t) ==
  CASE pc[t] \in {"total", "peak"} -> op[t].size
    [] pc[t] \in {"resize", "grow", "adjust"} /\ op[t].size > op[t].old -> op[t].old - op[t].size
    [] OTHER -> 0

Excesses == [t \in Threads |-> Excess(t)]
Dues == [t \in Threads |-> Due(t)]

Overrun == (Cardinality(Threads) - 1) * LargestGrowth

LimitInv == peak <= limit => current - refused - SumFunction(Excesses) <= limit
DueInv == current - refused - SumFunction(Dues) <= limit + Overrun

LEMMA HasLargest ==
  ASSUME NEW S \in SUBSET Int, IsFiniteSet(S), S # {}
  PROVE  /\ \E x \in S : \A y \in S : x >= y
         /\ \E x \in S : \A y \in S : x <= y
<1> DEFINE Good(s) == s # {} => /\ \E x \in s : \A y \in s : x >= y
                                /\ \E x \in s : \A y \in s : x <= y
           G == { s \in SUBSET S : Good(s) }
<1>1. {} \in G
  OBVIOUS
<1>2. ASSUME NEW s \in SUBSET S, s # {}, s \ {Any(s)} \in G
      PROVE  s \in G
  <2> DEFINE a == Any(s)
             r == s \ {a}
  <2>1. a \in s /\ a \in Int
    BY <1>2 DEF Any
  <2>2. CASE r = {}
    <3>1. \A y \in s : y = a
      BY <2>2
    <3>2. a >= a /\ a <= a
      BY <2>1
    <3>3. Good(s)
      <4> HIDE DEF a
      <4> QED BY <2>1, <3>1, <3>2
    <3> QED BY <3>3
  <2>3. CASE r # {}
    <3>1. PICK x \in r : \A y \in r : x >= y
      BY <1>2, <2>3
    <3>2. PICK z \in r : \A y \in r : z <= y
      BY <1>2, <2>3
    <3>3. x \in Int /\ z \in Int /\ x \in s /\ z \in s
      OBVIOUS
    <3>4. \A y \in s : y = a \/ y \in r
      OBVIOUS
    <3>5. \E m \in s : \A y \in s : m >= y
      <4>1. CASE x >= a
        <5> HIDE DEF r, a
        <5> QED BY <3>1, <3>3, <3>4, <4>1
      <4>2. CASE a > x
        <5>1. \A y \in r : y \in Int
          OBVIOUS
        <5> HIDE DEF r, a
        <5>2. \A y \in r : a >= y
          BY <2>1, <3>1, <3>3, <4>2, <5>1
        <5> QED BY <2>1, <3>4, <5>2
      <4> QED BY <2>1, <3>3, <4>1, <4>2
    <3>6. \E m \in s : \A y \in s : m <= y
      <4>1. CASE z <= a
        <5> HIDE DEF r, a
        <5> QED BY <3>2, <3>3, <3>4, <4>1
      <4>2. CASE a < z
        <5>1. \A y \in r : y \in Int
          OBVIOUS
        <5> HIDE DEF r, a
        <5>2. \A y \in r : a <= y
          BY <2>1, <3>2, <3>3, <4>2, <5>1
        <5> QED BY <2>1, <3>4, <5>2
      <4> QED BY <2>1, <3>3, <4>1, <4>2
    <3> QED BY <3>5, <3>6
  <2> QED BY <2>2, <2>3
<1>3. \A s \in SUBSET S : s \in G
  <2> HIDE DEF G
  <2> QED BY <1>1, <1>2, AllSubsets
<1> QED BY <1>3

LEMMA GrowthIsBounded ==
  /\ LargestGrowth \in Nat
  /\ \A m, n \in Sizes : m - n <= LargestGrowth
<1> DEFINE D == { m - n : m, n \in Sizes }
<1>1. \A s \in Sizes : s \in Int
  BY SizesArePositive
<1>2. PICK x \in Sizes : \A y \in Sizes : x >= y
  BY <1>1, AllocAssumption, HasLargest
<1>3. PICK z \in Sizes : \A y \in Sizes : z <= y
  BY <1>1, AllocAssumption, HasLargest
<1>4. \A m, n \in Sizes : m - n \in Int /\ m - n <= x - z
  BY <1>1, <1>2, <1>3
<1>5. x - z \in D /\ \A d \in D : d \in Int /\ x - z >= d
  BY <1>1, <1>4
<1>6. LargestGrowth = CHOOSE d \in D : \A e \in D : d >= e
  BY DEF LargestGrowth, Max
<1>7. LargestGrowth \in D /\ \A e \in D : LargestGrowth >= e
  <2> HIDE DEF D
  <2> QED BY <1>5, <1>6
<1>8. x - x \in D /\ x - x = 0
  BY <1>1
<1>9. LargestGrowth \in Nat
  <2> HIDE DEF D
  <2> QED BY <1>5, <1>7, <1>8
<1>10. \A m, n \in Sizes : m - n \in D
  OBVIOUS
<1> HIDE DEF D
<1> QED BY <1>5, <1>7, <1>9, <1>10

LimitSums ==
  /\ Excesses \in [Threads -> Int] /\ \A t \in Threads : Excess(t) \in Nat
  /\ Dues \in [Threads -> Int] /\ \A t \in Threads : Due(t) \in Int
  /\ SumFunction(Excesses) \in Nat /\ SumFunction(Dues) \in Int

LEMMA LimitSumsAre == CallsInv => LimitSums
<1> SUFFICES ASSUME CallsInv PROVE LimitSums
  OBVIOUS
<1>1. \A t \in Threads : Excess(t) \in Nat
  BY CallFields, GrowthIsBounded DEF Excess
<1>2. \A t \in Threads : Due(t) \in Int
  BY CallFields DEF Due
<1>3. Excesses \in [Threads -> Int] /\ \A t \in Threads : Excesses[t] >= 0
  BY <1>1 DEF Excesses
<1>4. Dues \in [Threads -> Int]
  BY <1>2 DEF Dues
<1>5. SumFunction(Excesses) \in Nat
  BY <1>3, AllocAssumption, SumIsNatural
<1>6. SumFunction(Dues) \in Int
  BY <1>4, AllocAssumption, SumIsInteger
<1> QED BY <1>1, <1>2, <1>3, <1>4, <1>5, <1>6 DEF LimitSums

LEMMA LimitSumsNext == CallsInv' => LimitSums'
BY LimitSumsAre, PTL

LEMMA LimitSumsChange ==
  ASSUME CallsInv, CallsInv', NEW t \in Threads, Alone(t), limit' = limit
  PROVE  /\ SumFunction(Excesses)' = SumFunction(Excesses) + (Excess(t)' - Excess(t))
         /\ SumFunction(Dues)' = SumFunction(Dues) + (Due(t)' - Due(t))
<1>1. LimitSums /\ LimitSums'
  BY LimitSumsAre, LimitSumsNext
<1>2. \A u \in Threads \ {t} : Excesses'[u] = Excesses[u] /\ Dues'[u] = Dues[u]
  BY DEF Alone, Excesses, Excess, Dues, Due, Reached, Raises, Added
<1>3. SumFunction(Excesses') = SumFunction(Excesses) + (Excesses'[t] - Excesses[t])
  BY <1>1, <1>2, AllocAssumption, SumChanges DEF LimitSums
<1>4. SumFunction(Dues') = SumFunction(Dues) + (Dues'[t] - Dues[t])
  BY <1>1, <1>2, AllocAssumption, SumChanges DEF LimitSums
<1> QED BY <1>3, <1>4 DEF Excesses, Dues

LEMMA LimitStep ==
  ASSUME CallsInv, CallsInv', LimitInv, NEW t \in Threads, Thread(t)
  PROVE  LimitInv'
<1>1. /\ Call(t) /\ pc[t] \in Places /\ op[t] \in Calls
      /\ op[t].size \in Nat /\ op[t].old \in Nat /\ op[t].prev \in Int
      /\ op[t].moved \in BOOLEAN
  BY CallFields
<1>2. /\ op \in [Threads -> Calls] /\ pc \in [Threads -> Places]
      /\ current \in Int /\ peak \in Nat /\ refused \in Nat /\ limit \in Nat
  BY AllocAssumption DEF CallsInv, Typed
<1>3. limit' = limit
  BY DEF Thread, CallAlloc, Reserve, AddTotal, RaisePeak, TakeBlock, CallDealloc, Release,
         CallRealloc, CheckLimit, Resize, Grow, Adjust, RaiseTop
<1> DEFINE s == SumFunction(Excesses)
           s2 == SumFunction(Excesses)'
<1>4. /\ s \in Nat /\ s2 \in Nat /\ Excess(t) \in Nat /\ Excess(t)' \in Nat
      /\ s2 = s + (Excess(t)' - Excess(t))
  BY <1>3, LimitSumsAre, LimitSumsNext, LimitSumsChange, TypedStep DEF LimitSums
<1>5. peak <= limit => current - refused - s <= limit
  BY DEF LimitInv
<1> DEFINE Goal == peak' <= limit => current' - refused' - s2 <= limit
<1> SUFFICES Goal
  BY <1>3 DEF LimitInv
<1> HIDE DEF s, s2
<1>6. ASSUME peak' \in Int, peak' >= peak, refused' = refused, current' \in Int,
             peak' <= limit => current' - current <= Excess(t)' - Excess(t)
      PROVE  Goal
  BY <1>2, <1>4, <1>5, <1>6
<1>7. ASSUME pc[t] \notin {"total", "peak", "top"}, pc'[t] \notin {"total", "peak", "top"},
             peak' = peak, refused' = refused, current' <= current, current' \in Int
      PROVE  Goal
  <2>1. Excess(t) = 0 /\ Excess(t)' = 0
    BY <1>7 DEF Excess
  <2>2. s2 = s
    BY <1>4, <2>1
  <2> QED BY <1>2, <1>4, <1>5, <1>7, <2>2
<1>8. ASSUME Reserve(t) PROVE Goal
  <2>1. /\ op'[t].size = op[t].size /\ op'[t].prev = current
        /\ pc[t] = "reserve" /\ pc'[t] = "total"
        /\ current' = current + op[t].size /\ refused' = refused /\ peak' = peak
    BY <1>1, <1>2, <1>8 DEF Reserve, Goto, Add, Calls
  <2>2. Reached(t)' = current' /\ Excess(t) = 0
    BY <2>1 DEF Reached, Excess
  <2>3. CASE current' > limit
    <3>1. Excess(t)' = op[t].size
      BY <1>3, <2>1, <2>2, <2>3 DEF Excess
    <3> QED BY <1>1, <1>2, <1>6, <2>1, <2>2, <3>1
  <2>4. CASE ~ (current' > limit)
    BY <1>1, <1>2, <1>4, <2>1, <2>4
  <2> QED BY <2>3, <2>4
<1>9. ASSUME AddTotal(t) PROVE Goal
  <2>1. Excess(t)' = Excess(t)
    BY <1>2, <1>3, <1>9 DEF AddTotal, Goto, Excess, Reached
  <2> QED BY <1>2, <1>4, <1>6, <1>9, <2>1 DEF AddTotal
<1>10. ASSUME RaisePeak(t) PROVE Goal
  <2>1. /\ peak' = Larger(peak, Reached(t)) /\ Reached(t) \in Int
        /\ current' = current /\ pc[t] = "peak"
    BY <1>1, <1>10 DEF RaisePeak, Reached
  <2>2. peak' >= peak /\ peak' \in Int /\ peak' >= Reached(t)
    BY <1>2, <2>1 DEF Larger
  <2>3. CASE peak' > limit
    BY <1>2, <2>2, <2>3
  <2>4. CASE ~ (peak' > limit)
    <3>1. pc'[t] = "take" /\ refused' = refused
      BY <1>2, <1>10, <2>1, <2>4 DEF RaisePeak, Goto
    <3>2. Excess(t) = 0 /\ Excess(t)' = 0
      BY <1>2, <2>1, <2>2, <2>4, <3>1 DEF Excess
    <3> QED BY <1>2, <1>6, <2>1, <2>2, <3>1, <3>2
  <2> QED BY <2>3, <2>4
<1>11. ASSUME Adjust(t) PROVE Goal
  <2>1. /\ op'[t].size = op[t].size /\ op'[t].old = op[t].old /\ op'[t].moved = op[t].moved
        /\ op'[t].prev = current /\ pc[t] = "adjust" /\ pc'[t] = "top"
        /\ current' = current + (op[t].size - op[t].old)
        /\ peak' = peak /\ refused' = refused
    BY <1>1, <1>2, <1>11 DEF Adjust, Goto, Add, Difference, Calls
  <2>2. Excess(t) = 0
    BY <2>1 DEF Excess
  <2>3. op[t].size \in Sizes /\ op[t].old \in Sizes
    BY <1>1, <2>1 DEF Call
  <2>4. CASE op[t].size <= op[t].old
    BY <1>1, <1>2, <1>4, <1>6, <2>1, <2>2, <2>4
  <2>5. CASE op[t].size > op[t].old
    <3>1. Raises(t)' /\ op'[t].prev + Added(t)' >= current'
      BY <1>1, <1>2, <2>1, <2>5 DEF Raises, Added
    <3>2. CASE op'[t].prev + Added(t)' > limit
      <4>1. Excess(t)' = LargestGrowth
        BY <1>3, <2>1, <3>1, <3>2 DEF Excess, LargestGrowth
      <4>2. op[t].size - op[t].old <= LargestGrowth /\ LargestGrowth \in Nat
        BY <2>3, GrowthIsBounded
      <4> QED BY <1>1, <1>2, <1>6, <2>1, <2>2, <4>1, <4>2
    <3>3. CASE ~ (op'[t].prev + Added(t)' > limit)
      <4>1. Added(t)' \in Int
        BY <1>1, <2>1 DEF Added
      <4>2. current' <= limit
        BY <1>1, <1>2, <2>1, <3>1, <3>3, <4>1
      <4> QED BY <1>1, <1>2, <1>4, <2>1, <4>2
    <3> QED BY <3>2, <3>3
  <2> QED BY <1>1, <2>4, <2>5
<1>12. ASSUME RaiseTop(t) PROVE Goal
  <2>1. Added(t) \in Int
    BY <1>1 DEF Added
  <2>2. /\ peak' = IF Raises(t) THEN Larger(peak, op[t].prev + Added(t)) ELSE peak
        /\ refused' = refused /\ current' = current /\ pc[t] = "top" /\ pc'[t] = "idle"
    BY <1>2, <1>12 DEF RaiseTop, Raises, Goto
  <2>3. peak' >= peak /\ peak' \in Int /\ (Raises(t) => peak' >= op[t].prev + Added(t))
    BY <1>1, <1>2, <2>1, <2>2 DEF Larger
  <2>4. Excess(t)' = 0
    BY <2>2 DEF Excess
  <2>5. peak' <= limit => Excess(t) = 0
    BY <1>1, <1>2, <2>1, <2>2, <2>3 DEF Excess
  <2> QED BY <1>2, <1>6, <2>2, <2>3, <2>4, <2>5
<1>13. ASSUME Release(t) PROVE Goal
  BY <1>1, <1>2, <1>7, <1>13 DEF Release, Goto
<1>14. ASSUME Resize(t) PROVE Goal
  <2>1. pc[t] = "resize" /\ pc'[t] \in {"grow", "adjust"}
    BY <1>2, <1>14 DEF Resize, Goto
  <2> QED BY <1>2, <1>7, <1>14, <2>1 DEF Resize
<1>15. ASSUME CheckLimit(t) PROVE Goal
  <2>1. pc[t] = "check" /\ pc'[t] \in {"idle", "resize"}
    BY <1>2, <1>15 DEF CheckLimit, Goto
  <2> QED BY <1>2, <1>7, <1>15, <2>1 DEF CheckLimit
<1>16. ASSUME NEW size \in Sizes, CallAlloc(t, size) PROVE Goal
  BY <1>2, <1>7, <1>16 DEF CallAlloc, Goto
<1>17. ASSUME NEW b \in Blocks, TakeBlock(t, b) PROVE Goal
  BY <1>2, <1>7, <1>17 DEF TakeBlock, Goto
<1>18. ASSUME NEW b \in Blocks, CallDealloc(t, b) PROVE Goal
  BY <1>2, <1>7, <1>18 DEF CallDealloc, Goto
<1>19. ASSUME NEW b \in Blocks, NEW size \in Sizes, CallRealloc(t, b, size) PROVE Goal
  BY <1>2, <1>7, <1>19 DEF CallRealloc, Goto
<1>20. ASSUME Grow(t) PROVE Goal
  BY <1>2, <1>7, <1>20 DEF Grow, Goto
<1> HIDE DEF Goal
<1> QED
  BY <1>8, <1>9, <1>10, <1>11, <1>12, <1>13, <1>14, <1>15, <1>16, <1>17, <1>18, <1>19, <1>20
     DEF Thread

(***************************************************************************)
(* When the limit is not reached, what is due may be taken from it.        *)
(***************************************************************************)
DueFacts ==
  \A t \in Threads :
    /\ Due(t) >= - LargestGrowth
    /\ Due(t) >= - op[t].size
    /\ Excess(t) <= Due(t) + LargestGrowth
    /\ Due(t) <= Ahead(t)

LEMMA DueIsSmall == CallsInv => DueFacts
<1> SUFFICES ASSUME CallsInv, NEW t \in Threads
             PROVE  /\ Due(t) >= - LargestGrowth
                    /\ Due(t) >= - op[t].size
                    /\ Excess(t) <= Due(t) + LargestGrowth
                    /\ Due(t) <= Ahead(t)
  BY DEF DueFacts
<1>1. /\ Call(t) /\ pc[t] \in Places
      /\ op[t].size \in Nat /\ op[t].old \in Nat /\ op[t].prev \in Int
  BY CallFields
<1>2. LargestGrowth \in Nat /\ \A m, n \in Sizes : m - n <= LargestGrowth
  BY GrowthIsBounded
<1>3. pc[t] \in {"resize", "grow", "adjust"} => op[t].size - op[t].old <= LargestGrowth
  BY <1>1, <1>2 DEF Call
<1> HIDE DEF LargestGrowth
<1>4. Due(t) >= - LargestGrowth /\ Due(t) >= - op[t].size
  BY <1>1, <1>2, <1>3 DEF Due
<1>5. Excess(t) <= Due(t) + LargestGrowth
  BY <1>1, <1>2, <1>3 DEF Due, Excess
<1>6. Due(t) <= Ahead(t)
  BY <1>1 DEF Due, Ahead, Places
<1> QED BY <1>4, <1>5, <1>6

LEMMA DueIsSmallNext == CallsInv' => DueFacts'
BY DueIsSmall, PTL

LEMMA OverrunCovers ==
  ASSUME NEW f \in [Threads -> Int], NEW g \in [Threads -> Int], NEW t \in Threads, NEW e \in Int,
         f[t] <= g[t] + e,
         \A u \in Threads \ {t} : f[u] <= g[u] + LargestGrowth
  PROVE  SumFunction(f) <= SumFunction(g) + e + Overrun
<1> DEFINE c == LargestGrowth
<1>1. c \in Int /\ f[t] <= g[t] + e /\ \A u \in Threads \ {t} : f[u] <= g[u] + c
  BY GrowthIsBounded
<1>2. IsFiniteSet(Threads)
  BY AllocAssumption
<1>3. Overrun = (Cardinality(Threads) - 1) * c
  BY DEF Overrun
<1> HIDE DEF c
<1>4. SumFunction(f) <= SumFunction(g) + e + (Cardinality(Threads) - 1) * c
  BY <1>1, <1>2, SumBounded
<1> QED BY <1>3, <1>4

LEMMA DueStep ==
  ASSUME CallsInv, CallsInv', LimitInv', DueInv, NEW t \in Threads, Thread(t)
  PROVE  DueInv'
<1>1. /\ Call(t) /\ pc[t] \in Places /\ op[t] \in Calls
      /\ op[t].size \in Nat /\ op[t].old \in Nat /\ op[t].prev \in Int
      /\ op[t].moved \in BOOLEAN
  BY CallFields
<1>2. /\ op \in [Threads -> Calls] /\ pc \in [Threads -> Places]
      /\ current \in Int /\ peak \in Nat /\ refused \in Nat /\ limit \in Nat
  BY AllocAssumption DEF CallsInv, Typed
<1>3. limit' = limit
  BY DEF Thread, CallAlloc, Reserve, AddTotal, RaisePeak, TakeBlock, CallDealloc, Release,
         CallRealloc, CheckLimit, Resize, Grow, Adjust, RaiseTop
<1>4. Overrun \in Int
  <2>1. Cardinality(Threads) - 1 \in Int /\ LargestGrowth \in Int
    BY AllocAssumption, FS_CardinalityType, GrowthIsBounded
  <2> HIDE DEF LargestGrowth
  <2> QED BY <2>1 DEF Overrun
<1> DEFINE s == SumFunction(Dues)
           s2 == SumFunction(Dues)'
           e2 == SumFunction(Excesses)'
<1>5. /\ s \in Int /\ s2 \in Int /\ e2 \in Nat /\ Due(t) \in Int /\ Due(t)' \in Int
      /\ s2 = s + (Due(t)' - Due(t))
  BY <1>3, LimitSumsAre, LimitSumsNext, LimitSumsChange, TypedStep DEF LimitSums
<1>6. current - refused - s <= limit + Overrun
  BY DEF DueInv
<1>7. peak' <= limit => current' - refused' - e2 <= limit
  BY <1>3 DEF LimitInv
<1> SUFFICES current' - refused' - s2 <= limit + Overrun
  BY <1>3 DEF DueInv, Overrun, LargestGrowth
<1> DEFINE Goal == current' - refused' - s2 <= limit + Overrun
<1> HIDE DEF s, s2, e2
<1>8. ASSUME refused' \in Int, current' \in Int,
             (current' - current) - (refused' - refused) <= Due(t)' - Due(t)
      PROVE  Goal
  BY <1>2, <1>4, <1>5, <1>6, <1>8
<1>9. ASSUME refused' = refused, current' = current, Due(t)' = Due(t) PROVE Goal
  BY <1>2, <1>4, <1>5, <1>6, <1>9
<1>10. ASSUME NEW size \in Sizes, CallAlloc(t, size) PROVE Goal
  <2>1. Due(t)' = 0 /\ Due(t) = 0
    BY <1>2, <1>10 DEF CallAlloc, Goto, Due
  <2> QED BY <1>9, <1>10, <2>1 DEF CallAlloc
<1>11. ASSUME Reserve(t) PROVE Goal
  <2>1. /\ op'[t].size = op[t].size /\ pc[t] = "reserve" /\ pc'[t] = "total"
        /\ current' = current + op[t].size /\ refused' = refused
    BY <1>1, <1>2, <1>11 DEF Reserve, Goto, Add, Calls
  <2>2. Due(t)' = op[t].size /\ Due(t) = 0
    BY <2>1 DEF Due
  <2> QED BY <1>1, <1>2, <1>8, <2>1, <2>2
<1>12. ASSUME AddTotal(t) PROVE Goal
  <2>1. Due(t)' = Due(t)
    BY <1>2, <1>12 DEF AddTotal, Goto, Due
  <2> QED BY <1>9, <1>12, <2>1 DEF AddTotal
<1>13. ASSUME RaisePeak(t) PROVE Goal
  <2>1. /\ peak' = Larger(peak, Reached(t)) /\ current' = current /\ pc[t] = "peak"
        /\ peak' \in Int
    BY <1>1, <1>2, <1>13 DEF RaisePeak, Reached, Larger
  <2>2. Due(t) = op[t].size
    BY <2>1 DEF Due
  <2>3. CASE peak' > limit
    <3>1. Due(t)' = 0 /\ refused' = refused + op[t].size
      BY <1>2, <1>13, <2>1, <2>3 DEF RaisePeak, Goto, Due
    <3> QED BY <1>1, <1>2, <1>8, <2>1, <2>2, <3>1
  <2>4. CASE ~ (peak' > limit)
    <3>1. pc'[t] = "take" /\ refused' = refused
      BY <1>2, <1>13, <2>1, <2>4 DEF RaisePeak, Goto
    <3>2. current' - refused' - e2 <= limit
      BY <1>2, <1>7, <2>1, <2>4
    <3>3. e2 <= s2 + 0 + Overrun
      <4>1. Excess(t)' <= Due(t)' + 0
        BY <3>1 DEF Excess, Due
      <4>2. \A u \in Threads \ {t} : Excess(u)' <= Due(u)' + LargestGrowth
        BY DueIsSmallNext DEF DueFacts, LargestGrowth
      <4>3. Excesses' \in [Threads -> Int] /\ Dues' \in [Threads -> Int]
        BY LimitSumsNext DEF LimitSums
      <4>4. Excesses'[t] <= Dues'[t] + 0 /\ \A u \in Threads \ {t} : Excesses'[u] <= Dues'[u] + LargestGrowth
        BY <4>1, <4>2 DEF Excesses, Dues
      <4>5. SumFunction(Excesses') <= SumFunction(Dues') + 0 + Overrun
        BY <4>3, <4>4, OverrunCovers
      <4> QED BY <4>5 DEF e2, s2
    <3> QED BY <1>2, <1>4, <1>5, <2>1, <3>1, <3>2, <3>3
  <2> QED BY <1>2, <2>1, <2>3, <2>4
<1>14. ASSUME NEW b \in Blocks, TakeBlock(t, b) PROVE Goal
  <2>1. Due(t)' = 0 /\ Due(t) = 0
    BY <1>2, <1>14 DEF TakeBlock, Goto, Due
  <2> QED BY <1>9, <1>14, <2>1 DEF TakeBlock
<1>15. ASSUME NEW b \in Blocks, CallDealloc(t, b) PROVE Goal
  <2>1. Due(t)' = 0 /\ Due(t) = 0
    BY <1>2, <1>15 DEF CallDealloc, Goto, Due
  <2> QED BY <1>9, <1>15, <2>1 DEF CallDealloc
<1>16. ASSUME Release(t) PROVE Goal
  <2>1. Due(t)' = 0 /\ Due(t) = 0
    BY <1>2, <1>16 DEF Release, Goto, Due
  <2>2. current' = current - op[t].size /\ refused' = refused
    BY <1>16 DEF Release
  <2> QED BY <1>1, <1>2, <1>8, <2>1, <2>2
<1>17. ASSUME NEW b \in Blocks, NEW size \in Sizes, CallRealloc(t, b, size) PROVE Goal
  <2>1. Due(t)' = 0 /\ Due(t) = 0
    BY <1>2, <1>17 DEF CallRealloc, Goto, Due
  <2> QED BY <1>9, <1>17, <2>1 DEF CallRealloc
<1>18. ASSUME CheckLimit(t) PROVE Goal
  <2>1. pc[t] = "check" /\ current' = current /\ refused' = refused
    BY <1>18 DEF CheckLimit
  <2>2. CASE TooMuch(t)
    <3>1. Due(t)' = 0 /\ Due(t) = 0
      BY <1>2, <1>18, <2>1, <2>2 DEF CheckLimit, Goto, Due
    <3> QED BY <1>9, <2>1, <3>1
  <2>3. CASE ~ TooMuch(t)
    <3>1. op' = op /\ current + op[t].size <= limit
      BY <1>1, <1>2, <1>18, <2>3 DEF CheckLimit, TooMuch
    <3>2. 0 <= s2 + op[t].size + Overrun
      <4> DEFINE none == [u \in Threads |-> 0]
      <4>1. 0 <= Due(t)' + op[t].size
        BY <1>1, <1>5, <3>1, DueIsSmallNext DEF DueFacts
      <4>2. \A u \in Threads \ {t} : 0 <= Due(u)' + LargestGrowth
        <5>1. LargestGrowth \in Int /\ \A u \in Threads : Due(u)' \in Int
          BY GrowthIsBounded, LimitSumsNext DEF LimitSums
        <5>2. \A u \in Threads : Due(u)' >= - LargestGrowth
          BY DueIsSmallNext DEF DueFacts, LargestGrowth
        <5> HIDE DEF LargestGrowth
        <5> QED BY <5>1, <5>2
      <4>3. none \in [Threads -> Int] /\ Dues' \in [Threads -> Int]
        BY LimitSumsNext DEF LimitSums
      <4>4. /\ none[t] <= Dues'[t] + op[t].size
            /\ \A u \in Threads \ {t} : none[u] <= Dues'[u] + LargestGrowth
            /\ \A u \in Threads : none[u] = 0
        BY <4>1, <4>2 DEF Dues
      <4> HIDE DEF none
      <4>5. SumFunction(none) <= SumFunction(Dues') + op[t].size + Overrun
        BY <1>1, <4>3, <4>4, OverrunCovers
      <4>6. SumFunction(none) = 0
        BY <4>3, <4>4, AllocAssumption, SumOfZeros
      <4> QED BY <4>5, <4>6 DEF s2
    <3> QED BY <1>1, <1>2, <1>4, <1>5, <2>1, <3>1, <3>2
  <2> QED BY <2>2, <2>3
<1>19. ASSUME Resize(t) PROVE Goal
  <2>1. /\ pc[t] = "resize" /\ pc'[t] \in {"grow", "adjust"}
        /\ op'[t].size = op[t].size /\ op'[t].old = op[t].old
    BY <1>1, <1>2, <1>19 DEF Resize, Goto, Calls
  <2>2. Due(t)' = Due(t)
    BY <2>1 DEF Due
  <2> QED BY <1>9, <1>19, <2>2 DEF Resize
<1>20. ASSUME Grow(t) PROVE Goal
  <2>1. Due(t)' = Due(t)
    BY <1>2, <1>20 DEF Grow, Goto, Due
  <2> QED BY <1>9, <1>20, <2>1 DEF Grow
<1>21. ASSUME Adjust(t) PROVE Goal
  <2>1. /\ pc[t] = "adjust" /\ pc'[t] = "top" /\ refused' = refused
        /\ current' = current + (op[t].size - op[t].old)
    BY <1>2, <1>21 DEF Adjust, Goto, Add, Difference
  <2>2. Due(t)' = 0 /\ Due(t) <= 0 /\ Due(t) <= op[t].old - op[t].size
    BY <1>1, <2>1 DEF Due
  <2> QED BY <1>1, <1>2, <1>5, <1>8, <2>1, <2>2
<1>22. ASSUME RaiseTop(t) PROVE Goal
  <2>1. Due(t)' = 0 /\ Due(t) = 0
    BY <1>2, <1>22 DEF RaiseTop, Goto, Due
  <2> QED BY <1>9, <1>22, <2>1 DEF RaiseTop
<1> HIDE DEF Goal
<1>23. Goal
  BY <1>10, <1>11, <1>12, <1>13, <1>14, <1>15, <1>16, <1>17, <1>18, <1>19, <1>20, <1>21, <1>22
     DEF Thread
<1> QED BY <1>23 DEF Goal

(***************************************************************************)
(* OverrunIsBounded holds in every state: with a memory limit the blocks   *)
(* never take up more than the limit and what all threads but one can grow *)
(* by in one call of realloc.                                              *)
(***************************************************************************)
THEOREM AllocOverrunIsBounded == Spec => []OverrunIsBounded
<1>1. Init => CallsInv /\ LimitInv /\ DueInv
  <2> SUFFICES ASSUME Init PROVE LimitInv /\ DueInv
    BY TypedInit
  <2>1. \A t \in Threads : Excess(t) = 0 /\ Due(t) = 0
    BY DEF Init, Excess, Due
  <2>2. /\ Excesses \in [Threads -> Int] /\ \A t \in Threads : Excesses[t] = 0
        /\ Dues \in [Threads -> Int] /\ \A t \in Threads : Dues[t] = 0
    BY <2>1 DEF Excesses, Dues
  <2>3. SumFunction(Excesses) = 0 /\ SumFunction(Dues) = 0
    BY <2>2, AllocAssumption, SumOfZeros
  <2>4. Overrun \in Nat
    <3>1. Cardinality(Threads) \in Nat /\ Cardinality(Threads) # 0 /\ LargestGrowth \in Nat
      BY AllocAssumption, FS_CardinalityType, FS_EmptySet, GrowthIsBounded
    <3> HIDE DEF LargestGrowth
    <3>2. \A n \in Nat, m \in Nat : n * m \in Nat
      OBVIOUS
    <3> QED BY <3>1, <3>2 DEF Overrun
  <2>5. limit \in Nat /\ current = 0 /\ refused = 0
    BY AllocAssumption DEF Init
  <2> QED BY <2>3, <2>4, <2>5 DEF LimitInv, DueInv
<1>2. CallsInv /\ CallsInv' /\ LimitInv /\ DueInv /\ [Next]_vars => LimitInv' /\ DueInv'
  <2>1. CASE UNCHANGED vars
    BY <2>1 DEF LimitInv, DueInv, Excesses, Excess, Dues, Due, Reached, Raises, Added,
                LargestGrowth, Overrun, vars
  <2>2. ASSUME CallsInv, CallsInv', LimitInv, DueInv, NEW t \in Threads, Thread(t)
        PROVE  LimitInv' /\ DueInv'
    BY <2>2, LimitStep, DueStep
  <2> QED BY <2>1, <2>2 DEF Next
<1>3. CallsInv /\ Accounting /\ DueInv => OverrunIsBounded
  <2> SUFFICES ASSUME CallsInv, Accounting, DueInv PROVE OverrunIsBounded
    OBVIOUS
  <2>1. \A t \in Threads : Due(t) <= Ahead(t) /\ Due(t) \in Int /\ Ahead(t) \in Int
    BY DueIsSmall, LimitSumsAre, CallFields DEF DueFacts, LimitSums, Ahead
  <2>2. /\ Dues \in [Threads -> Int] /\ Aheads \in [Threads -> Int]
        /\ SumFunction(Dues) \in Int /\ SumFunction(Aheads) \in Int
    BY LimitSumsAre, AheadIsInteger DEF LimitSums
  <2>3. PICK d \in Threads : TRUE
    BY AllocAssumption
  <2>4. Dues[d] <= Aheads[d] + 0 /\ \A t \in Threads \ {d} : Dues[t] <= Aheads[t] + 0
    BY <2>1 DEF Dues, Aheads
  <2>5. SumFunction(Dues) <= SumFunction(Aheads) + 0 + (Cardinality(Threads) - 1) * 0
    BY <2>2, <2>4, AllocAssumption, SumBounded
  <2>6. SumFunction(Dues) <= SumFunction(Aheads)
    BY <2>2, <2>5, AllocAssumption, FS_CardinalityType
  <2>7. /\ Live \in Int /\ current \in Int /\ refused \in Int /\ limit \in Int
    BY LiveIsInteger, AllocAssumption DEF CallsInv, Typed
  <2>8. Overrun \in Int
    <3>1. Cardinality(Threads) - 1 \in Int /\ LargestGrowth \in Int
      BY AllocAssumption, FS_CardinalityType, GrowthIsBounded
    <3> HIDE DEF LargestGrowth
    <3> QED BY <3>1 DEF Overrun
  <2>9. current = Live + refused + SumFunction(Aheads)
    BY DEF Accounting, Aheads
  <2>10. Live <= limit + Overrun
    BY <2>2, <2>6, <2>7, <2>8, <2>9 DEF DueInv
  <2> QED BY <2>10 DEF OverrunIsBounded, Overrun
<1> QED BY CallsInvariant, AllocCounts, <1>1, <1>2, <1>3, PTL DEF Spec
=============================================================================
