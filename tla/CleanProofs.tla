---------------------------- MODULE CleanProofs -----------------------------
(***************************************************************************)
(* What clean makes of one requirement, for any requirement and version    *)
(* numbers of any size; and from it, for dumps of any size, what it makes  *)
(* of all of them.                                                         *)
(***************************************************************************)
EXTENDS Clean, FiniteSetTheorems, TLAPS

\* None of them is the last.
Grows(v) == v.major + 1 < Limit /\ v.minor + 1 < Limit /\ v.patch + 1 < Limit

(***************************************************************************)
(* What lies between two releases that a comparator admits is admitted: a  *)
(* comparator has no gaps.                                                 *)
(***************************************************************************)
LEMMA ComparatorHasNoGaps ==
  ASSUME NEW c \in Comparator, NEW u \in Version, NEW v \in Version, NEW w \in Version,
         u.pre = NoPre, v.pre = NoPre, w.pre = NoPre,
         VersionLess(u, v), VersionLess(v, w),
         MatchesComparator(c, u), MatchesComparator(c, w)
  PROVE  MatchesComparator(c, v)
<1>1. /\ c.op \in Op /\ c.major \in Nat /\ c.pre \in Nat
      /\ c.minor \in Nat \cup {Absent} /\ c.patch \in Nat \cup {Absent}
      /\ c.minor = Absent => c.patch = Absent
      /\ c.patch = Absent => c.pre = NoPre
  BY DEF Comparator
<1>2. \A x \in {u, v, w} : x.major \in Nat /\ x.minor \in Nat /\ x.patch \in Nat
  BY DEF Version
<1>3. TripleLess(u, v) /\ TripleLess(v, w)
  BY DEF VersionLess, PreLess
<1> USE <1>1, <1>2, <1>3 DEF TripleLess, PreLess, Absent, NoPre
<1>4. ~(MatchesExact(c, u) /\ MatchesExact(c, w) /\ ~MatchesExact(c, v))
  BY DEF MatchesExact
<1>5. MatchesGreater(c, u) => MatchesGreater(c, v)
  BY DEF MatchesGreater
<1>6. MatchesLess(c, w) => MatchesLess(c, v)
  BY DEF MatchesLess
<1>7. MatchesExact(c, u) => MatchesExact(c, v) \/ MatchesGreater(c, v)
  BY DEF MatchesExact, MatchesGreater
<1>8. MatchesExact(c, w) => MatchesExact(c, v) \/ MatchesLess(c, v)
  BY DEF MatchesExact, MatchesLess
<1>9. MatchesTilde(c, u) /\ MatchesTilde(c, w) => MatchesTilde(c, v)
  BY DEF MatchesTilde
<1>10. MatchesCaret(c, u) /\ MatchesCaret(c, w) => MatchesCaret(c, v)
  BY DEF MatchesCaret
<1> QED BY <1>4, <1>5, <1>6, <1>7, <1>8, <1>9, <1>10 DEF MatchesComparator, Op

\* Nor has a requirement of several.
LEMMA RequirementHasNoGaps ==
  ASSUME NEW r \in Seq(Comparator), NEW u \in Version, NEW v \in Version, NEW w \in Version,
         u.pre = NoPre, v.pre = NoPre, w.pre = NoPre,
         VersionLess(u, v), VersionLess(v, w), Matches(r, u), Matches(r, w)
  PROVE  Matches(r, v)
<1>1. \A i \in DOMAIN r : r[i] \in Comparator
  OBVIOUS
<1>2. \A i \in DOMAIN r : MatchesComparator(r[i], u) /\ MatchesComparator(r[i], w)
  BY DEF Matches
<1>3. \A i \in DOMAIN r : MatchesComparator(r[i], v)
  BY <1>1, <1>2, ComparatorHasNoGaps
<1> QED BY <1>3 DEF Matches

(***************************************************************************)
(* Adding one wraps around, and changes the number.                        *)
(***************************************************************************)
LEMMA IncrementWraps ==
  ASSUME NEW n \in Nat, n < Limit
  PROVE  /\ Increment(n) = IF n + 1 = Limit THEN 0 ELSE n + 1
         /\ Increment(n) # n
<1>1. Limit \in Nat /\ Limit > 1
  BY CleanAssumption
<1>2. CASE n + 1 = Limit
  <2>1. Limit % Limit = 0
    BY <1>1
  <2> QED BY <1>1, <1>2, <2>1 DEF Increment
<1>3. CASE n + 1 # Limit
  <2>1. n + 1 \in 0 .. Limit - 1
    BY <1>1, <1>3
  <2>2. (n + 1) % Limit = n + 1
    BY <1>1, <2>1
  <2> QED BY <1>1, <1>3, <2>2 DEF Increment
<1> QED BY <1>2, <1>3

(***************************************************************************)
(* The version clean makes up, and the requirement it puts in place of     *)
(* one that admits it.                                                     *)
(***************************************************************************)
LEMMA Made ==
  ASSUME NEW v \in Version, Fits(v)
  PROVE  /\ Incompatible(v) \in Version /\ Incompatible(v).pre = NoPre
         /\ CaretOf(v) \in Seq(Comparator) /\ Len(CaretOf(v)) = 1
         /\ CaretOf(v)[1] \in Comparator
<1>1. \A n \in Nat : n < Limit => Increment(n) \in Nat
  BY IncrementWraps
<1>2. Incompatible(v) \in Version /\ Incompatible(v).pre = NoPre
  BY <1>1 DEF Incompatible, Plain, Version, Fits, NoPre
<1> DEFINE c == [op |-> "Caret", major |-> v.major, minor |-> v.minor,
                 patch |-> v.patch, pre |-> NoPre]
<1>3. c \in Comparator
  BY DEF Comparator, Version, Op, NoPre, Absent
<1> QED BY <1>2, <1>3 DEF CaretOf

(***************************************************************************)
(* Whatever clean has looked at does not admit the next incompatible       *)
(* version, not even where the numbers wrap around: the requirement was    *)
(* not open-ended, or it is not any more.                                  *)
(***************************************************************************)
THEOREM CleaningCloses ==
  ASSUME NEW r, NEW v \in Version, Fits(v)
  PROVE  ~Matches(Constrain(r, v), Incompatible(v))
<1>1. ~Matches(CaretOf(v), Incompatible(v))
  <2> DEFINE i == Incompatible(v)
  <2>1. ~MatchesCaret(CaretOf(v)[1], i)
    <3>1. CaretOf(v)[1] = [op |-> "Caret", major |-> v.major, minor |-> v.minor,
                           patch |-> v.patch, pre |-> NoPre]
      BY DEF CaretOf
    <3>2. CASE v.major > 0
      BY <3>1, <3>2, IncrementWraps DEF Incompatible, Plain, MatchesCaret, Version, Fits
    <3>3. CASE v.major = 0 /\ v.minor > 0
      BY <3>1, <3>3, IncrementWraps
         DEF Incompatible, Plain, MatchesCaret, Version, Fits, Absent
    <3>4. CASE v.major = 0 /\ v.minor = 0
      BY <3>1, <3>4, IncrementWraps
         DEF Incompatible, Plain, MatchesCaret, Version, Fits, Absent
    <3> QED BY <3>2, <3>3, <3>4 DEF Version
  <2>2. CaretOf(v)[1].op = "Caret" /\ 1 \in DOMAIN CaretOf(v)
    BY DEF CaretOf
  <2> QED BY <2>1, <2>2 DEF Matches, MatchesComparator
<1> QED BY <1>1 DEF Constrain

(***************************************************************************)
(* Cleaning takes away what is incompatible and adds nothing: a            *)
(* requirement that admits the highest version, which has no tag, admits   *)
(* it afterwards, and every released version it admits afterwards it       *)
(* admitted before.  Rests on the range of a requirement having no hole    *)
(* between the highest version and the one made up.                        *)
(***************************************************************************)
THEOREM CleaningNarrows ==
  ASSUME NEW r \in Seq(Comparator), NEW s \in Version, s.pre = NoPre, Grows(s),
         Matches(r, s)
  PROVE  /\ Matches(Constrain(r, s), s)
         /\ \A v \in Version : v.pre = NoPre /\ Matches(Constrain(r, s), v)
                                 => Matches(r, v)
<1> DEFINE c == CaretOf(s)[1]
           i == Incompatible(s)
<1>1. Fits(s)
  BY CleanAssumption DEF Fits, Grows, Version
<1>2. CASE ~Matches(r, i)
  BY <1>2 DEF Constrain
<1>3. CASE Matches(r, i)
  <2>1. Constrain(r, s) = CaretOf(s)
    BY <1>3 DEF Constrain
  <2>2. c = [op |-> "Caret", major |-> s.major, minor |-> s.minor,
             patch |-> s.patch, pre |-> NoPre] /\ DOMAIN CaretOf(s) = {1}
    BY DEF CaretOf
  <2>3. \A v \in Version : v.pre = NoPre => (Matches(CaretOf(s), v) <=> MatchesCaret(c, v))
    BY <2>2 DEF Matches, MatchesComparator
  <2>4. MatchesCaret(c, s)
    BY <2>2 DEF MatchesCaret, PreLess, Version, NoPre, Absent
  <2>5. ASSUME NEW v \in Version, v.pre = NoPre, MatchesCaret(c, v)
        PROVE  v = s \/ (VersionLess(s, v) /\ VersionLess(v, i))
    <3>1. /\ s.major > 0 => i = Plain(s.major + 1, 0, 0)
          /\ s.major = 0 /\ s.minor > 0 => i = Plain(0, s.minor + 1, 0)
          /\ s.major = 0 /\ s.minor = 0 => i = Plain(0, 0, s.patch + 1)
      <4>1. \A n \in Nat : n + 1 < Limit => Increment(n) = n + 1
        BY IncrementWraps, CleanAssumption
      <4>2. /\ Increment(s.major) = s.major + 1
            /\ Increment(s.minor) = s.minor + 1
            /\ Increment(s.patch) = s.patch + 1
        BY <4>1 DEF Version, Grows
      <4> QED BY <4>2 DEF Incompatible, Version
    <3>2. SameTriple(s, v) \/ TripleLess(s, v)
      BY <2>2, <2>5 DEF MatchesCaret, SameTriple, TripleLess, Version, NoPre, Absent
    <3>3. SameTriple(s, v) => v = s
      BY <2>5 DEF SameTriple, Version
    <3>4. TripleLess(v, i)
      <4> USE <2>2, <2>5, <3>1 DEF MatchesCaret, TripleLess, Version, NoPre, Absent, Plain
      <4>1. CASE s.major > 0
        BY <4>1
      <4>2. CASE s.major = 0 /\ s.minor > 0
        BY <4>2
      <4>3. CASE s.major = 0 /\ s.minor = 0
        BY <4>3
      <4> QED BY <4>1, <4>2, <4>3
    <3> QED BY <3>2, <3>3, <3>4 DEF VersionLess
  <2>6. ASSUME NEW v \in Version, v.pre = NoPre, MatchesCaret(c, v)
        PROVE  Matches(r, v)
    BY <1>1, <1>3, <2>5, <2>6, Made, RequirementHasNoGaps
  <2> QED BY <2>1, <2>3, <2>4, <2>6
<1> QED BY <1>2, <1>3

-----------------------------------------------------------------------------
(***************************************************************************)
(* Of the first n releases R of crate c, the k-th has the highest number.  *)
(***************************************************************************)
Top(R, k, c, n) ==
  /\ R[k].crate = c
  /\ \A j \in 1 .. n : R[j].crate = c => ~VersionLess(R[k].num, R[j].num)

(***************************************************************************)
(* The releases come from a dump, each once.                               *)
(***************************************************************************)
ReleasesInv ==
  /\ releases \in Seq(Loadable)
  /\ \A i, j \in DOMAIN releases : releases[i].id = releases[j].id => i = j

(***************************************************************************)
(* Nothing is cleaned before it is sorted.                                 *)
(***************************************************************************)
StageInv ==
  /\ stage \in {"filter", "sort", "clean", "total"}
  /\ \A d \in rows : d.req \in Seq(Comparator)
  /\ next \in 1 .. Len(releases) + 1
  /\ stage \in {"filter", "sort"} => next = 1
  /\ stage \in {"clean", "total"} =>
       \A i, j \in DOMAIN releases : i < j => releases[i].time <= releases[j].time
  /\ req = [d \in rows |-> req[d]]

(***************************************************************************)
(* crate_max_version is the highest number of what was visited.            *)
(***************************************************************************)
HighestInv ==
  /\ DOMAIN highest = { releases[i].crate : i \in 1 .. next - 1 }
  /\ \A c \in DOMAIN highest :
       \E k \in 1 .. next - 1 : Top(releases, k, c, next - 1) /\ highest[c] = releases[k].num

(***************************************************************************)
(* What the requirement r of the row d is once the i-th release, to which  *)
(* it belongs, has been visited: as declared if its crate has no release   *)
(* up to there, constrained by the highest one otherwise.                  *)
(***************************************************************************)
Judged(R, d, r, i) ==
  \/ r = d.req /\ \A j \in 1 .. i : R[j].crate # d.crate
  \/ \E k \in 1 .. i : Top(R, k, d.crate, i) /\ r = Constrain(d.req, R[k].num)

(***************************************************************************)
(* A requirement is as declared until its release is visited, and judged   *)
(* by what was visited up to then ever after: later releases do not touch  *)
(* it.                                                                     *)
(***************************************************************************)
ReqInv ==
  \A d \in rows :
    /\ (\A i \in 1 .. next - 1 : releases[i].id # d.from) => req[d] = d.req
    /\ \A i \in 1 .. next - 1 : releases[i].id = d.from => Judged(releases, d, req[d], i)

IInv == ReleasesInv /\ StageInv /\ HighestInv /\ ReqInv

-----------------------------------------------------------------------------
(***************************************************************************)
(* Version numbers are totally ordered.                                    *)
(***************************************************************************)
LEMMA OrderOfVersions ==
  ASSUME NEW u \in Version, NEW v \in Version, NEW w \in Version
  PROVE  /\ ~VersionLess(u, u)
         /\ VersionLess(u, v) /\ VersionLess(v, w) => VersionLess(u, w)
         /\ VersionLess(u, v) => ~VersionLess(v, u)
         /\ ~VersionLess(u, v) /\ ~VersionLess(v, u) => u = v
BY DEF Version, VersionLess, TripleLess, SameTriple, PreLess, NoPre

(***************************************************************************)
(* What is known of a release at any place.                                *)
(***************************************************************************)
LEMMA Places ==
  ReleasesInv =>
    /\ Len(releases) \in Nat
    /\ DOMAIN releases = 1 .. Len(releases)
    /\ \A i \in 1 .. Len(releases) :
         /\ releases[i] \in Loadable
         /\ releases[i].num \in Version /\ Fits(releases[i].num) /\ releases[i].time \in Nat
<1> SUFFICES ASSUME ReleasesInv
             PROVE /\ Len(releases) \in Nat
    /\ DOMAIN releases = 1 .. Len(releases)
    /\ \A i \in 1 .. Len(releases) :
         /\ releases[i] \in Loadable
         /\ releases[i].num \in Version /\ Fits(releases[i].num) /\ releases[i].time \in Nat
  OBVIOUS
<1>1. Len(releases) \in Nat /\ DOMAIN releases = 1 .. Len(releases)
  BY DEF ReleasesInv
<1>2. \A i \in 1 .. Len(releases) : releases[i] \in Loadable
  BY DEF ReleasesInv
<1> QED BY <1>1, <1>2, CleanAssumption

(***************************************************************************)
(* Before clean starts, nothing is visited.                                *)
(***************************************************************************)
LEMMA Early ==
  ASSUME stage \in {"filter", "sort"}, StageInv
  PROVE  next = 1 /\ 1 .. next - 1 = {}
BY DEF StageInv

-----------------------------------------------------------------------------
(***************************************************************************)
(* The invariant holds at the start.                                       *)
(***************************************************************************)
LEMMA InitHolds == Init => IInv
<1> SUFFICES ASSUME Init PROVE IInv
  OBVIOUS
<1>1. PICK d \in Dumps : releases = d.releases /\ rows = d.rows
  BY DEF Init
<1>2. ReleasesInv
  BY <1>1, CleanAssumption DEF ReleasesInv
<1>3. StageInv
  <2>1. next \in 1 .. Len(releases) + 1
    BY <1>2, Places DEF Init
  <2>2. \A x \in rows : x.req \in Seq(Comparator)
    BY <1>1, CleanAssumption
  <2>3. req = [x \in rows |-> req[x]]
    BY DEF Init
  <2> QED BY <2>1, <2>2, <2>3 DEF Init, StageInv
<1>4. next = 1 /\ 1 .. next - 1 = {} /\ DOMAIN highest = {}
  BY DEF Init
<1>5. HighestInv
  BY <1>4 DEF HighestInv
<1>6. ReqInv
  BY <1>4 DEF ReqInv, Init
<1> QED BY <1>2, <1>3, <1>5, <1>6 DEF IInv

(***************************************************************************)
(* Taking releases from different places, in any order, leaves each at     *)
(* most once.                                                              *)
(***************************************************************************)
LEMMA Rearranged ==
  ASSUME ReleasesInv, NEW n \in Nat, NEW p \in [1 .. n -> DOMAIN releases],
         \A i, j \in 1 .. n : p[i] = p[j] => i = j,
         releases' = [i \in 1 .. n |-> releases[p[i]]]
  PROVE  ReleasesInv' /\ Len(releases)' = n
<1>1. \A i \in 1 .. n : releases[p[i]] \in Loadable
  BY Places
<1>2. releases' \in Seq(Loadable) /\ Len(releases') = n /\ DOMAIN releases' = 1 .. n
  BY <1>1
<1>3. \A i \in 1 .. n : releases'[i] = releases[p[i]] /\ p[i] \in DOMAIN releases
  OBVIOUS
<1>4. \A i, j \in 1 .. n : releases'[i].id = releases'[j].id => i = j
  BY <1>3 DEF ReleasesInv
<1> QED BY <1>2, <1>4 DEF ReleasesInv

(***************************************************************************)
(* Dropping releases leaves what is known of them.                         *)
(***************************************************************************)
LEMMA FilterKeeps ==
  ASSUME IInv, Filter PROVE IInv'
<1> DEFINE kept == { i \in DOMAIN releases : releases[i].crate \notin exclude }
           n == Cardinality(kept)
<1>0. stage = "filter" /\ stage' = "sort" /\ next' = next /\ highest' = highest
      /\ rows' = rows /\ req' = req
  BY DEF Filter
<1>1. PICK p \in [1 .. n -> kept] :
         /\ \A i, j \in DOMAIN p : i < j => p[i] < p[j]
         /\ releases' = [i \in DOMAIN p |-> releases[p[i]]]
  BY DEF Filter
<1>2. n \in Nat
  <2>1. IsFiniteSet(1 .. Len(releases)) /\ kept \subseteq 1 .. Len(releases)
    BY Places, FS_Interval DEF IInv
  <2> QED BY <2>1, FS_Subset, FS_CardinalityType
<1> HIDE DEF n
<1>3. \A i, j \in 1 .. n : p[i] = p[j] => i = j
  <2> SUFFICES ASSUME NEW i \in 1 .. n, NEW j \in 1 .. n, i < j PROVE p[i] # p[j]
    BY <1>2
  <2>1. p[i] \in Nat /\ p[j] \in Nat
    BY Places DEF IInv
  <2> QED BY <1>1, <2>1
<1>4. ReleasesInv' /\ Len(releases)' = n
  <2>1. p \in [1 .. n -> DOMAIN releases] /\ releases' = [i \in 1 .. n |-> releases[p[i]]]
    BY <1>1
  <2> QED BY <1>2, <1>3, <2>1, Rearranged DEF IInv
<1>5. next = 1 /\ 1 .. next - 1 = {}
  BY <1>0, Early DEF IInv
<1>6. StageInv'
  BY <1>0, <1>2, <1>4, <1>5 DEF StageInv, IInv
<1>7. HighestInv'
  BY <1>0, <1>5 DEF HighestInv, IInv
<1>8. ReqInv'
  BY <1>0, <1>5 DEF ReqInv, IInv
<1> QED BY <1>4, <1>6, <1>7, <1>8 DEF IInv

(***************************************************************************)
(* Sorting orders them.                                                    *)
(***************************************************************************)
LEMMA SortKeeps ==
  ASSUME IInv, SortByTime PROVE IInv'
<1> DEFINE n == Len(releases)
<1>0. stage = "sort" /\ stage' = "clean" /\ next' = next /\ highest' = highest
      /\ rows' = rows /\ req' = req
  BY DEF SortByTime
<1>1. n \in Nat /\ DOMAIN releases = 1 .. n
  BY Places DEF IInv
<1>2. PICK p \in [1 .. n -> 1 .. n] :
         /\ \A i, j \in 1 .. n : i < j =>
              \/ releases[p[i]].time < releases[p[j]].time
              \/ releases[p[i]].time = releases[p[j]].time /\ p[i] < p[j]
         /\ releases' = [i \in 1 .. n |-> releases[p[i]]]
  BY <1>1 DEF SortByTime
<1>3. \A i \in 1 .. n : p[i] \in 1 .. n /\ releases[p[i]].time \in Nat
  BY <1>2, Places DEF IInv
<1>4. \A i, j \in 1 .. n : p[i] = p[j] => i = j
  <2> SUFFICES ASSUME NEW i \in 1 .. n, NEW j \in 1 .. n, i < j PROVE p[i] # p[j]
    BY <1>1
  <2> QED BY <1>1, <1>2, <1>3
<1>5. ReleasesInv' /\ Len(releases)' = n
  BY <1>1, <1>2, <1>4, Rearranged DEF IInv
<1>6. \A i, j \in 1 .. n : i < j => releases'[i].time <= releases'[j].time
  <2> SUFFICES ASSUME NEW i \in 1 .. n, NEW j \in 1 .. n, i < j
               PROVE  releases[p[i]].time <= releases[p[j]].time
    BY <1>2
  <2>1. \/ releases[p[i]].time < releases[p[j]].time
        \/ releases[p[i]].time = releases[p[j]].time
    BY <1>2
  <2>2. releases[p[i]].time \in Nat /\ releases[p[j]].time \in Nat
    BY <1>3
  <2> QED BY <2>1, <2>2
<1>7. DOMAIN releases' = 1 .. n
  BY <1>2
<1>8. next = 1 /\ 1 .. next - 1 = {}
  BY <1>0, Early DEF IInv
<1>9. StageInv'
  BY <1>0, <1>1, <1>5, <1>6, <1>7, <1>8 DEF StageInv, IInv
<1>10. HighestInv'
  BY <1>0, <1>8 DEF HighestInv, IInv
<1>11. ReqInv'
  BY <1>0, <1>8 DEF ReqInv, IInv
<1> QED BY <1>5, <1>9, <1>10, <1>11 DEF IInv

(***************************************************************************)
(* Entering a release in crate_max_version leaves the highest number of    *)
(* each crate visited.                                                     *)
(***************************************************************************)
LEMMA RaiseIsTop ==
  ASSUME IInv, next <= Len(releases), highest' = Raise(releases[next])
  PROVE  /\ DOMAIN highest' = { releases[i].crate : i \in 1 .. next }
         /\ \A c \in DOMAIN highest' :
              \E k \in 1 .. next : Top(releases, k, c, next) /\ highest'[c] = releases[k].num
<1> DEFINE rel == releases[next]
<1>1. next \in Nat /\ next \in 1 .. Len(releases) /\ Len(releases) \in Nat
  BY Places DEF IInv, StageInv
<1>2. \A i \in 1 .. next : releases[i].num \in Version
  BY <1>1, Places DEF IInv
<1>3. DOMAIN highest' = DOMAIN highest \cup {rel.crate}
  BY DEF Raise
<1>4. 1 .. next = (1 .. next - 1) \cup {next}
  BY <1>1
<1>5. DOMAIN highest' = { releases[i].crate : i \in 1 .. next }
  BY <1>3, <1>4 DEF IInv, HighestInv
<1>6. ASSUME NEW c \in DOMAIN highest'
      PROVE  \E k \in 1 .. next : Top(releases, k, c, next) /\ highest'[c] = releases[k].num
  <2>1. CASE c # rel.crate
    <3>1. highest'[c] = highest[c] /\ c \in DOMAIN highest
      BY <1>3, <1>6, <2>1 DEF Raise
    <3>2. PICK k \in 1 .. next - 1 : Top(releases, k, c, next - 1) /\ highest[c] = releases[k].num
      BY <3>1 DEF IInv, HighestInv
    <3>3. Top(releases, k, c, next)
      BY <1>4, <2>1, <3>2 DEF Top
    <3> QED BY <1>4, <3>1, <3>2, <3>3
  <2>2. CASE c = rel.crate /\ c \in DOMAIN highest
    <3>1. PICK k \in 1 .. next - 1 : Top(releases, k, c, next - 1) /\ highest[c] = releases[k].num
      BY <2>2 DEF IInv, HighestInv
    <3>2. CASE VersionLess(rel.num, highest[c])
      <4>1. highest'[c] = highest[c]
        BY <1>6, <2>2, <3>2 DEF Raise
      <4>2. ~VersionLess(releases[k].num, rel.num)
        BY <1>1, <1>2, <1>4, <3>1, <3>2, OrderOfVersions
      <4>3. Top(releases, k, c, next)
        BY <1>4, <3>1, <4>2 DEF Top
      <4> QED BY <1>4, <3>1, <4>1, <4>3
    <3>3. CASE ~VersionLess(rel.num, highest[c])
      <4>1. highest'[c] = rel.num
        BY <1>6, <2>2, <3>3 DEF Raise
      <4>2. ASSUME NEW j \in 1 .. next, releases[j].crate = c
            PROVE  ~VersionLess(rel.num, releases[j].num)
        <5>1. CASE j = next
          BY <1>2, <4>2, <5>1, OrderOfVersions
        <5>2. CASE j \in 1 .. next - 1
          <6>1. ~VersionLess(releases[k].num, releases[j].num)
            BY <3>1, <4>2, <5>2 DEF Top
          <6>2. ~VersionLess(rel.num, releases[k].num)
            BY <3>1, <3>3
          <6>3. rel.num \in Version /\ releases[k].num \in Version /\ releases[j].num \in Version
            BY <1>1, <1>2, <1>4
          <6> QED BY <6>1, <6>2, <6>3, OrderOfVersions
        <5> QED BY <1>4, <4>2, <5>1, <5>2
      <4>3. Top(releases, next, c, next)
        BY <2>2, <4>2 DEF Top
      <4> QED BY <1>4, <4>1, <4>3
    <3> QED BY <3>2, <3>3
  <2>3. CASE c = rel.crate /\ c \notin DOMAIN highest
    <3>1. highest'[c] = rel.num
      BY <1>6, <2>3 DEF Raise
    <3>2. \A j \in 1 .. next - 1 : releases[j].crate # c
      BY <2>3 DEF IInv, HighestInv
    <3>3. ~VersionLess(rel.num, rel.num)
      BY <1>1, <1>2, <1>4, OrderOfVersions
    <3>4. Top(releases, next, c, next)
      BY <1>4, <2>3, <3>2, <3>3 DEF Top
    <3> QED BY <1>4, <3>1, <3>4
  <2> QED BY <2>1, <2>2, <2>3
<1> QED BY <1>5, <1>6

(***************************************************************************)
(* One turn of the loop judges the rows of one release.                    *)
(***************************************************************************)
LEMMA CleanReleaseKeeps ==
  ASSUME IInv, CleanRelease PROVE IInv'
<1>0. /\ stage = "clean" /\ stage' = "clean" /\ next <= Len(releases) /\ next' = next + 1
      /\ rows' = rows /\ releases' = releases /\ highest' = Raise(releases[next])
  BY DEF CleanRelease
<1>1. next \in Nat /\ next \in 1 .. Len(releases) /\ Len(releases) \in Nat
  BY <1>0, Places DEF IInv, StageInv
<1>2. 1 .. next = (1 .. next - 1) \cup {next} /\ next' - 1 = next
  BY <1>0, <1>1
<1>3. /\ DOMAIN highest' = { releases[i].crate : i \in 1 .. next }
      /\ \A c \in DOMAIN highest' :
           \E k \in 1 .. next : Top(releases, k, c, next) /\ highest'[c] = releases[k].num
  BY <1>0, RaiseIsTop
<1>4. req' = [d \in rows |->
       IF d.from = releases[next].id /\ d.crate \in DOMAIN highest'
       THEN Constrain(req[d], highest'[d.crate]) ELSE req[d]]
  BY DEF CleanRelease
<1>5. ReleasesInv'
  BY <1>0 DEF ReleasesInv, IInv
<1>6. StageInv'
  <2>1. req' = [d \in rows |-> req'[d]]
    BY <1>4
  <2>2. next' \in 1 .. Len(releases') + 1
    BY <1>0, <1>1
  <2> QED BY <1>0, <2>1, <2>2 DEF StageInv, IInv
<1>8. HighestInv'
  BY <1>0, <1>2, <1>3 DEF HighestInv
<1>9. ReqInv'
  <2> SUFFICES ASSUME NEW d \in rows
      PROVE  /\ (\A i \in 1 .. next : releases[i].id # d.from) => req'[d] = d.req
             /\ \A i \in 1 .. next : releases[i].id = d.from => Judged(releases, d, req'[d], i)
    BY <1>0, <1>2 DEF ReqInv
  <2>1. CASE releases[next].id # d.from
    <3>1. req'[d] = req[d]
      BY <1>4, <2>1
    <3>2. \A i : Judged(releases, d, req[d], i) => Judged(releases, d, req'[d], i)
      BY <3>1
    <3> QED BY <1>2, <2>1, <3>1, <3>2 DEF IInv, ReqInv
  <2>2. CASE releases[next].id = d.from
    <3>1. \A i \in 1 .. next - 1 : releases[i].id # d.from
      BY <1>1, <2>2, Places DEF IInv, ReleasesInv
    <3>2. req[d] = d.req
      BY <3>1 DEF IInv, ReqInv
    <3>3. Judged(releases, d, req'[d], next)
      <4>1. CASE d.crate \in DOMAIN highest'
        <5>1. PICK k \in 1 .. next : Top(releases, k, d.crate, next) /\ highest'[d.crate] = releases[k].num
          BY <1>3, <4>1
        <5>2. req'[d] = Constrain(d.req, releases[k].num)
          BY <1>4, <2>2, <3>2, <4>1, <5>1
        <5> QED BY <5>1, <5>2 DEF Judged
      <4>2. CASE d.crate \notin DOMAIN highest'
        <5>1. req'[d] = d.req
          BY <1>4, <3>2, <4>2
        <5>2. \A j \in 1 .. next : releases[j].crate # d.crate
          BY <1>3, <4>2
        <5> QED BY <5>1, <5>2 DEF Judged
      <4> QED BY <4>1, <4>2
    <3>4. next \in 1 .. next
      BY <1>1
    <3> QED BY <1>2, <2>2, <3>1, <3>3, <3>4
  <2> QED BY <2>1, <2>2
<1> QED BY <1>5, <1>6, <1>8, <1>9 DEF IInv

(***************************************************************************)
(* So the invariant always holds.                                          *)
(***************************************************************************)
LEMMA IInvHolds == Spec => []IInv
<1>1. IInv /\ [Next]_vars => IInv'
  <2> SUFFICES ASSUME IInv, [Next]_vars PROVE IInv'
    OBVIOUS
  <2>1. ASSUME UNCHANGED <<releases, rows, req, next, highest>>,
               stage' = stage \/ (stage = "clean" /\ stage' = "total")
        PROVE  IInv'
    <3>1. ReleasesInv'
      BY <2>1 DEF IInv, ReleasesInv
    <3>2. StageInv'
      BY <2>1 DEF IInv, StageInv
    <3>3. HighestInv'
      BY <2>1 DEF IInv, HighestInv
    <3>4. ReqInv'
      BY <2>1 DEF IInv, ReqInv
    <3> QED BY <3>1, <3>2, <3>3, <3>4 DEF IInv
  <2>2. CASE CleanEnds
    BY <2>1, <2>2 DEF CleanEnds
  <2>3. CASE UNCHANGED vars
    BY <2>1, <2>3 DEF vars
  <2> QED BY <2>2, <2>3, FilterKeeps, SortKeeps, CleanReleaseKeeps DEF Next
<1> QED BY <1>1, InitHolds, PTL DEF Spec

(***************************************************************************)
(* For dumps of any size, TypeOK always holds: in particular               *)
(* crate_max_version has an entry for exactly the crates visited.          *)
(***************************************************************************)
THEOREM CleanTyped == Spec => []TypeOK
<1>1. IInv => TypeOK
  BY DEF IInv, StageInv, HighestInv, TypeOK
<1> QED BY <1>1, IInvHolds, PTL

-----------------------------------------------------------------------------
(***************************************************************************)
(* Releases are sorted: what was visited up to a release is published when *)
(* it is, and what is older than it has been visited.                      *)
(***************************************************************************)
LEMMA WhatIsPublished ==
  ASSUME IInv, NEW i \in 1 .. next - 1, stage \in {"clean", "total"}, NEW c
  PROVE  /\ i \in DOMAIN releases
         /\ \A k \in 1 .. i : releases[k].crate = c => releases[k] \in Published(releases[i], c)
         /\ \A s \in Published(releases[i], c) :
              /\ s.crate = c /\ s.num \in Version /\ s.time \in Nat /\ Fits(s.num)
              /\ s.time < releases[i].time => \E k \in 1 .. i : s = releases[k]
<1>1. /\ next \in 1 .. Len(releases) + 1 /\ Len(releases) \in Nat
      /\ DOMAIN releases = 1 .. Len(releases) /\ i \in 1 .. Len(releases)
  BY Places DEF IInv, StageInv
<1>2. \A j, k \in 1 .. Len(releases) : j < k => releases[j].time <= releases[k].time
  BY <1>1 DEF IInv, StageInv
<1>3. \A k \in 1 .. Len(releases) : releases[k].time \in Nat /\ releases[k].num \in Version
                                    /\ Fits(releases[k].num)
  BY Places DEF IInv
<1>4. ASSUME NEW k \in 1 .. i, releases[k].crate = c PROVE releases[k] \in Published(releases[i], c)
  <2>1. k \in DOMAIN releases /\ (k < i \/ k = i)
    BY <1>1
  <2>2. releases[k].time <= releases[i].time
    BY <1>1, <1>2, <1>3, <2>1
  <2> QED BY <1>4, <2>1, <2>2 DEF Published
<1>5. ASSUME NEW s \in Published(releases[i], c)
      PROVE  /\ s.crate = c /\ s.num \in Version /\ s.time \in Nat /\ Fits(s.num)
             /\ s.time < releases[i].time => \E k \in 1 .. i : s = releases[k]
  <2>1. PICK k \in DOMAIN releases : releases[k].crate = c /\ s = releases[k]
    BY DEF Published
  <2>2. k <= i \/ i < k
    BY <1>1
  <2>3. i < k => releases[i].time <= releases[k].time
    BY <1>1, <1>2
  <2>4. releases[k].time \in Nat /\ releases[i].time \in Nat
    BY <1>1, <1>3
  <2>5. i < k => ~(s.time < releases[i].time)
    BY <2>1, <2>3, <2>4
  <2>6. k <= i => k \in 1 .. i
    BY <1>1
  <2> QED BY <1>1, <1>3, <2>1, <2>2, <2>5, <2>6
<1> QED BY <1>1, <1>4, <1>5

(***************************************************************************)
(* The rows of a release visited have been judged.                         *)
(***************************************************************************)
LEMMA VisitedIsCleaned ==
  ASSUME IInv, NEW r \in Visited, NEW d \in rows, d.from = r.id
  PROVE  \E i \in 1 .. next - 1 : r = releases[i] /\ Judged(releases, d, req[d], i)
BY DEF IInv, ReqInv, Visited

(***************************************************************************)
(* A release is visited only while clean runs, or after.                   *)
(***************************************************************************)
LEMMA VisitedStage ==
  ASSUME IInv, NEW i \in 1 .. next - 1 PROVE stage \in {"clean", "total"}
BY DEF IInv, StageInv

(***************************************************************************)
(* For dumps of any size, in any order of loading: a requirement is judged *)
(* by what was published at the time, never by a later release.            *)
(***************************************************************************)
THEOREM JudgedThen == Spec => []JudgedByThePast
<1>1. IInv => JudgedByThePast
  <2> SUFFICES ASSUME IInv, NEW r \in Visited, NEW d \in rows, req[d] # d.req, d.from = r.id
               PROVE  \E s \in Published(r, d.crate) :
                         /\ req[d] = CaretOf(s.num)
                         /\ \A t \in Published(r, d.crate) :
                               t.time < r.time => ~VersionLess(s.num, t.num)
    BY DEF JudgedByThePast, Rewritten
  <2>1. PICK i \in 1 .. next - 1 : r = releases[i] /\ Judged(releases, d, req[d], i)
    BY VisitedIsCleaned
  <2>2. PICK k \in 1 .. i : Top(releases, k, d.crate, i)
                            /\ req[d] = Constrain(d.req, releases[k].num)
    BY <2>1 DEF Judged
  <2>3. stage \in {"clean", "total"}
    BY VisitedStage
  <2>4. releases[k] \in Published(r, d.crate)
    BY <2>1, <2>2, <2>3, WhatIsPublished DEF Top
  <2>5. req[d] = CaretOf(releases[k].num)
    BY <2>2 DEF Constrain
  <2>6. ASSUME NEW t \in Published(r, d.crate), t.time < r.time
        PROVE  ~VersionLess(releases[k].num, t.num)
    <3>1. t.crate = d.crate /\ \E j \in 1 .. i : t = releases[j]
      BY <2>1, <2>3, <2>6, WhatIsPublished
    <3> QED BY <2>2, <3>1 DEF Top
  <2> QED BY <2>4, <2>5, <2>6
<1> QED BY <1>1, IInvHolds, PTL

(***************************************************************************)
(* For dumps of any size: what clean has looked at does not admit the next *)
(* incompatible version of what was published before.                      *)
(***************************************************************************)
THEOREM NoneStaysOpenEnded == Spec => []NoneIsOpenEnded
<1>1. IInv => NoneIsOpenEnded
  <2> SUFFICES ASSUME IInv, NEW r \in Visited, NEW d \in rows, d.from = r.id,
                      NEW s \in Published(r, d.crate),
                      \A t \in Published(r, d.crate) : ~VersionLess(s.num, t.num)
                                                       /\ t.time < r.time
               PROVE  ~Matches(req[d], Incompatible(s.num))
    BY DEF NoneIsOpenEnded
  <2>1. PICK i \in 1 .. next - 1 : r = releases[i] /\ Judged(releases, d, req[d], i)
    BY VisitedIsCleaned
  <2>2. stage \in {"clean", "total"}
    BY VisitedStage
  <2>3. s.crate = d.crate /\ s.num \in Version /\ Fits(s.num) /\ \E j \in 1 .. i : s = releases[j]
    <3>1. s.time < r.time
      OBVIOUS
    <3> QED BY <2>1, <2>2, <3>1, WhatIsPublished
  <2>4. PICK k \in 1 .. i : Top(releases, k, d.crate, i)
                            /\ req[d] = Constrain(d.req, releases[k].num)
    BY <2>1, <2>3 DEF Judged
  <2>5. ~VersionLess(releases[k].num, s.num)
    BY <2>3, <2>4 DEF Top
  <2>6. releases[k] \in Published(r, d.crate)
    BY <2>1, <2>2, <2>4, WhatIsPublished DEF Top
  <2>7. ~VersionLess(s.num, releases[k].num) /\ releases[k].num \in Version
    BY <2>1, <2>2, <2>6, WhatIsPublished
  <2>8. s.num = releases[k].num
    BY <2>3, <2>5, <2>7, OrderOfVersions
  <2> QED BY <2>3, <2>4, <2>8, CleaningCloses
<1> QED BY <1>1, IInvHolds, PTL

(***************************************************************************)
(* A caret gives away the numbers it was made of.                          *)
(***************************************************************************)
LEMMA SameCaret ==
  ASSUME NEW u \in Version, NEW v \in Version, CaretOf(u) = CaretOf(v)
  PROVE  SameTriple(u, v) /\ Incompatible(u) = Incompatible(v)
<1>1. CaretOf(u)[1] = CaretOf(v)[1]
  OBVIOUS
<1>2. u.major = v.major /\ u.minor = v.minor /\ u.patch = v.patch
  BY <1>1 DEF CaretOf
<1> QED BY <1>2 DEF SameTriple, Incompatible

(***************************************************************************)
(* For dumps of any size: a replacement takes nothing that the release     *)
(* could use at the time, and admits no released version that the declared *)
(* requirement does not.                                                   *)
(***************************************************************************)
THEOREM NarrowingKeeps == Spec => []KeepsWhatItNarrows
<1>1. IInv => KeepsWhatItNarrows
  <2> SUFFICES ASSUME IInv, NEW r \in Visited, NEW d \in rows, req[d] # d.req, d.from = r.id,
                      NEW s \in Published(r, d.crate),
                      req[d] = CaretOf(s.num), s.num.pre = NoPre, Matches(d.req, s.num),
                      \A n \in {s.num.major, s.num.minor, s.num.patch} : n + 1 < Limit
               PROVE  /\ Matches(req[d], s.num)
                      /\ \A i \in DOMAIN releases :
                           releases[i].num.pre = NoPre /\ Matches(req[d], releases[i].num)
                              => Matches(d.req, releases[i].num)
    BY DEF KeepsWhatItNarrows, Rewritten
  <2>1. PICK i \in 1 .. next - 1 : r = releases[i] /\ Judged(releases, d, req[d], i)
    BY VisitedIsCleaned
  <2>2. stage \in {"clean", "total"}
    BY VisitedStage
  <2>3. s.num \in Version /\ Grows(s.num)
    BY <2>1, <2>2, WhatIsPublished DEF Grows
  <2>4. PICK k \in 1 .. i : Top(releases, k, d.crate, i)
                            /\ req[d] = Constrain(d.req, releases[k].num)
    BY <2>1 DEF Judged
  <2>5. releases[k] \in Published(r, d.crate)
    BY <2>1, <2>2, <2>4, WhatIsPublished DEF Top
  <2>6. releases[k].num \in Version
    BY <2>1, <2>2, <2>5, WhatIsPublished
  <2>7. /\ Matches(d.req, Incompatible(releases[k].num))
        /\ req[d] = CaretOf(releases[k].num)
    BY <2>4 DEF Constrain
  <2>8. Incompatible(s.num) = Incompatible(releases[k].num)
    BY <2>3, <2>6, <2>7, SameCaret
  <2>9. req[d] = Constrain(d.req, s.num)
    BY <2>7, <2>8 DEF Constrain
  <2>10. d.req \in Seq(Comparator)
    BY DEF IInv, StageInv
  <2>11. /\ Matches(Constrain(d.req, s.num), s.num)
         /\ \A v \in Version : v.pre = NoPre /\ Matches(Constrain(d.req, s.num), v)
                                 => Matches(d.req, v)
    BY <2>3, <2>10, CleaningNarrows
  <2>12. \A j \in DOMAIN releases : releases[j].num \in Version
    BY Places DEF IInv
  <2> QED BY <2>9, <2>11, <2>12
<1> QED BY <1>1, IInvHolds, PTL
=============================================================================
