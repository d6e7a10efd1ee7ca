---------------------------- MODULE SemverProofs ----------------------------
(***************************************************************************)
(* Matching, and the order of requirements, for numbers and tags of any    *)
(* size and requirements of any length; and from it what MCSemver asks of  *)
(* a few small requirements.                                               *)
(***************************************************************************)
EXTENDS MCSemver, WellFoundedInduction, TLAPS

(***************************************************************************)
(* The fields of comparators and versions.                                 *)
(***************************************************************************)
LEMMA Fields ==
  ASSUME NEW c \in Comparator, NEW v \in Version
  PROVE  /\ c.op \in Op /\ c.major \in Nat
         /\ c.minor \in Nat \cup {Absent} /\ c.patch \in Nat \cup {Absent}
         /\ c.pre \in Nat
         /\ c.minor = Absent => c.patch = Absent
         /\ c.patch = Absent => c.pre = NoPre
         /\ c.op = "Wildcard" => c.patch = Absent
         /\ v.major \in Nat /\ v.minor \in Nat /\ v.patch \in Nat
         /\ v.pre \in Nat
  BY DEF Comparator, Version

(***************************************************************************)
(* The comparator functions of version.rs decide the ranges, for every     *)
(* version without a tag and for tagged versions of the triple they name.  *)
(***************************************************************************)
LEMMA ComparatorIsRange ==
  ASSUME NEW c \in Comparator, NEW v \in Version,
         v.pre = NoPre \/ PreIsCompatible(c, v)
  PROVE  MatchesComparator(c, v) <=> InRange(c, v)
<1> USE Fields DEF Absent, NoPre
<1>1. CASE c.op \in {"Exact", "Wildcard"}
  <2>1. MatchesExact(c, v) <=> AtLeast(v, c) /\ AtMost(v, c)
    BY <1>1 DEF MatchesExact, AtLeast, AtMost, VersionLess, TripleLess,
       SameTriple, PreLess, Floor, Ceiling, OrZero, Triple, PreIsCompatible
  <2> QED BY <1>1, <2>1 DEF MatchesComparator, InRange
<1>2. MatchesGreater(c, v) <=> ~AtMost(v, c)
  BY DEF MatchesGreater, AtMost, VersionLess, TripleLess,
     SameTriple, PreLess, Floor, Ceiling, OrZero, Triple, PreIsCompatible
<1>3. MatchesExact(c, v) \/ MatchesGreater(c, v) <=> AtLeast(v, c)
  BY DEF MatchesExact, MatchesGreater, AtLeast, VersionLess, TripleLess,
     SameTriple, PreLess, Floor, OrZero, Triple, PreIsCompatible
<1>4. MatchesLess(c, v) <=> ~AtLeast(v, c)
  BY DEF MatchesLess, AtLeast, VersionLess, TripleLess,
     SameTriple, PreLess, Floor, OrZero, Triple, PreIsCompatible
<1>5. MatchesExact(c, v) \/ MatchesLess(c, v) <=> AtMost(v, c)
  BY DEF MatchesExact, MatchesLess, AtMost, VersionLess, TripleLess,
     SameTriple, PreLess, Floor, Ceiling, OrZero, Triple, PreIsCompatible
<1>6. MatchesTilde(c, v) <=> AtLeast(v, c) /\ TripleLess(v, Ceiling(c))
  BY DEF MatchesTilde, AtLeast, VersionLess, TripleLess,
     SameTriple, PreLess, Floor, Ceiling, OrZero, Triple, PreIsCompatible
<1>7. MatchesCaret(c, v) <=> AtLeast(v, c) /\ TripleLess(v, CaretCeiling(c))
  BY DEF MatchesCaret, AtLeast, VersionLess, TripleLess,
     SameTriple, PreLess, Floor, CaretCeiling, OrZero, Triple, PreIsCompatible
<1> QED
  BY <1>1, <1>2, <1>3, <1>4, <1>5, <1>6, <1>7
     DEF MatchesComparator, InRange, Op

(***************************************************************************)
(* A range is convex: it admits what lies between two admitted releases.   *)
(***************************************************************************)
LEMMA RangeIsConvex ==
  ASSUME NEW c \in Comparator, NEW u \in Version, NEW v \in Version,
         NEW w \in Version, u.pre = NoPre, v.pre = NoPre, w.pre = NoPre,
         VersionLess(u, v), VersionLess(v, w), InRange(c, u), InRange(c, w)
  PROVE  InRange(c, v)
<1> USE Fields DEF Absent, NoPre, Op
<1>1. TripleLess(u, v) /\ TripleLess(v, w)
  BY DEF VersionLess, PreLess
<1>2. AtLeast(u, c) => AtLeast(v, c)
  BY <1>1 DEF AtLeast, VersionLess, TripleLess, SameTriple, PreLess, Floor,
     OrZero
<1>3. AtMost(w, c) => AtMost(v, c)
  BY <1>1 DEF AtMost, VersionLess, TripleLess, SameTriple, PreLess, Floor,
     OrZero, Ceiling, Triple
<1>4. ~AtMost(u, c) => ~AtMost(v, c)
  BY <1>1 DEF AtMost, VersionLess, TripleLess, SameTriple, PreLess, Floor,
     OrZero, Ceiling, Triple
<1>5. ~AtLeast(w, c) => ~AtLeast(v, c)
  BY <1>1 DEF AtLeast, VersionLess, TripleLess, SameTriple, PreLess, Floor,
     OrZero
<1>6. TripleLess(w, Ceiling(c)) => TripleLess(v, Ceiling(c))
  BY <1>1 DEF TripleLess, Ceiling, Triple
<1>7. TripleLess(w, CaretCeiling(c)) => TripleLess(v, CaretCeiling(c))
  BY <1>1 DEF TripleLess, CaretCeiling, Triple
<1> QED BY <1>2, <1>3, <1>4, <1>5, <1>6, <1>7 DEF InRange

(***************************************************************************)
(* What a requirement of any number of comparators admits among releases   *)
(* is convex: the maximum that resolution takes and the interval that      *)
(* cleaning narrows are those of one unbroken range.                       *)
(***************************************************************************)
THEOREM MatchesIsConvex ==
  ASSUME NEW r \in Seq(Comparator), NEW u \in Version, NEW v \in Version,
         NEW w \in Version, u.pre = NoPre, v.pre = NoPre, w.pre = NoPre,
         VersionLess(u, v), VersionLess(v, w), Matches(r, u), Matches(r, w)
  PROVE  Matches(r, v)
<1>1. SUFFICES ASSUME NEW i \in DOMAIN r PROVE MatchesComparator(r[i], v)
  BY DEF Matches
<1>2. r[i] \in Comparator
  OBVIOUS
<1>3. MatchesComparator(r[i], u) /\ MatchesComparator(r[i], w)
  BY DEF Matches
<1>4. InRange(r[i], u) /\ InRange(r[i], w)
  BY <1>2, <1>3, ComparatorIsRange
<1>5. InRange(r[i], v)
  BY <1>2, <1>4, RangeIsConvex
<1> QED BY <1>2, <1>5, ComparatorIsRange

-----------------------------------------------------------------------------
(***************************************************************************)
(* The fields of a comparator make it what it is.                          *)
(***************************************************************************)
LEMMA SameFields ==
  ASSUME NEW c \in Comparator, NEW d \in Comparator, c.op = d.op,
         SameTriple(c, d), c.pre = d.pre
  PROVE  c = d
BY DEF Comparator, SameTriple

(***************************************************************************)
(* The comparison of comparators is total and asymmetric.                  *)
(***************************************************************************)
LEMMA ComparatorOrder ==
  ASSUME NEW c \in Comparator, NEW d \in Comparator
  PROVE  /\ ComparatorLess(c, d) \/ ComparatorLess(d, c) \/ c = d
         /\ ComparatorLess(c, d) => ~ComparatorLess(d, c) /\ c # d
<1>1. /\ OpIndex[c.op] \in Nat /\ OpIndex[d.op] \in Nat
      /\ OpIndex[c.op] = OpIndex[d.op] => c.op = d.op
  BY DEF OpIndex, Op, Comparator
<1>2. VersionLess(c, d) \/ VersionLess(d, c) \/ (SameTriple(c, d) /\ c.pre = d.pre)
  BY DEF Comparator, VersionLess, TripleLess, SameTriple, PreLess, NoPre, Absent
<1>3. VersionLess(c, d) => ~VersionLess(d, c)
  BY DEF Comparator, VersionLess, TripleLess, SameTriple, PreLess, NoPre, Absent
<1>4. ~VersionLess(c, c)
  BY DEF Comparator, VersionLess, TripleLess, SameTriple, PreLess, NoPre, Absent
<1>5. c = d => ~ComparatorLess(c, d)
  BY <1>1, <1>4 DEF ComparatorLess
<1>6. ComparatorLess(c, d) => ~ComparatorLess(d, c)
  BY <1>1, <1>3 DEF ComparatorLess
<1> QED BY <1>1, <1>2, <1>5, <1>6, SameFields DEF ComparatorLess

(***************************************************************************)
(* A set of numbers that is not empty has a least element.                 *)
(***************************************************************************)
LEMMA LeastOf ==
  ASSUME NEW S \in SUBSET Nat, S # {}
  PROVE  \E n \in S : \A m \in S : n <= m
<1>1. PICK n \in S : \A m \in S : ~ (<<m, n>> \in OpToRel(<, Nat))
  BY NatLessThanWellFounded, WFMin
<1>2. ASSUME NEW m \in S, m < n
      PROVE  FALSE
  <2>1. m \in Nat /\ n \in Nat
    OBVIOUS
  <2>2. <<m, n>> \in OpToRel(<, Nat)
    BY <1>2, <2>1, Zenon DEF OpToRel
  <2> QED BY <1>1, <2>2
<1>3. \A m \in S : m \in Nat /\ n \in Nat
  OBVIOUS
<1> QED BY <1>2, <1>3

(***************************************************************************)
(* The order of requirements is total on requirements of any length.       *)
(***************************************************************************)
THEOREM RequirementsCompare ==
  ASSUME NEW r \in Seq(Comparator), NEW s \in Seq(Comparator)
  PROVE  ReqLess(r, s) \/ ReqLess(s, r) \/ r = s
<1> DEFINE D == { n \in Nat : n < Len(r) /\ n < Len(s) /\ r[n + 1] # s[n + 1] }
<1> Len(r) \in Nat /\ Len(s) \in Nat
  OBVIOUS
<1>1. CASE D = {}
  <2>1. \A i \in Nat \ {0} : i <= Len(r) /\ i <= Len(s) => r[i] = s[i]
    <3> SUFFICES ASSUME NEW i \in Nat \ {0}, i <= Len(r), i <= Len(s), r[i] # s[i]
                 PROVE  FALSE
      OBVIOUS
    <3>1. i - 1 \in D
      OBVIOUS
    <3> QED BY <1>1, <3>1
  <2>2. CASE Len(r) = Len(s)
    BY <2>1, <2>2
  <2>3. CASE Len(r) < Len(s)
    <3>1. ReqLessAt(Len(r), r, s)
      BY <2>1, <2>3 DEF ReqLessAt
    <3> QED BY <3>1 DEF ReqLess
  <2>4. CASE Len(s) < Len(r)
    <3>1. ReqLessAt(Len(s), s, r)
      BY <2>1, <2>4 DEF ReqLessAt
    <3> QED BY <3>1 DEF ReqLess
  <2> QED BY <2>2, <2>3, <2>4
<1>2. CASE D # {}
  <2>1. PICK n \in D : \A m \in D : n <= m
    BY <1>2, LeastOf
  <2>2. \A i \in 1 .. n : r[i] = s[i]
    <3> SUFFICES ASSUME NEW i \in 1 .. n, r[i] # s[i] PROVE FALSE
      OBVIOUS
    <3>1. i - 1 \in D /\ ~(n <= i - 1)
      OBVIOUS
    <3> QED BY <2>1, <3>1
  <2>3. r[n + 1] \in Comparator /\ s[n + 1] \in Comparator
    OBVIOUS
  <2>4. ComparatorLess(r[n + 1], s[n + 1]) \/ ComparatorLess(s[n + 1], r[n + 1])
    BY <2>3, ComparatorOrder
  <2>5. ReqLessAt(n, r, s) \/ ReqLessAt(n, s, r)
    BY <2>2, <2>4 DEF ReqLessAt
  <2> QED BY <2>5 DEF ReqLess
<1> QED BY <1>1, <1>2

(***************************************************************************)
(* No two requirements of any length are each less than the other, and     *)
(* none is less than itself.                                               *)
(***************************************************************************)
LEMMA RequirementsDiffer ==
  ASSUME NEW r \in Seq(Comparator), NEW s \in Seq(Comparator),
         ReqLess(r, s), ReqLess(s, r)
  PROVE  FALSE
<1>1. PICK n \in 0 .. Len(r) : ReqLessAt(n, r, s)
  BY DEF ReqLess
<1>2. PICK m \in 0 .. Len(s) : ReqLessAt(m, s, r)
  BY DEF ReqLess
<1>3. CASE n = m
  <2>1. ComparatorLess(r[n + 1], s[n + 1]) /\ ComparatorLess(s[n + 1], r[n + 1])
    BY <1>1, <1>2, <1>3 DEF ReqLessAt
  <2>2. r[n + 1] \in Comparator /\ s[n + 1] \in Comparator
    BY <1>1, <1>2, <1>3 DEF ReqLessAt
  <2> QED BY <2>1, <2>2, ComparatorOrder
<1>4. CASE n < m
  <2>1. r[n + 1] = s[n + 1] /\ ComparatorLess(r[n + 1], s[n + 1])
    BY <1>1, <1>2, <1>4 DEF ReqLessAt
  <2>2. r[n + 1] \in Comparator
    BY <1>1, <1>2, <1>4 DEF ReqLessAt
  <2> QED BY <2>1, <2>2, ComparatorOrder
<1>5. CASE m < n
  <2>1. s[m + 1] = r[m + 1] /\ ComparatorLess(s[m + 1], r[m + 1])
    BY <1>1, <1>2, <1>5 DEF ReqLessAt
  <2>2. s[m + 1] \in Comparator
    BY <1>1, <1>2, <1>5 DEF ReqLessAt
  <2> QED BY <2>1, <2>2, ComparatorOrder
<1> QED BY <1>3, <1>4, <1>5

\* It is transitive, too.
LEMMA ComparatorLessTransitive ==
  ASSUME NEW c \in Comparator, NEW d \in Comparator, NEW e \in Comparator,
         ComparatorLess(c, d), ComparatorLess(d, e)
  PROVE  ComparatorLess(c, e)
<1>1. OpIndex[c.op] \in Nat /\ OpIndex[d.op] \in Nat /\ OpIndex[e.op] \in Nat
  BY DEF OpIndex, Op, Comparator
<1>2. VersionLess(c, d) /\ VersionLess(d, e) => VersionLess(c, e)
  BY DEF Comparator, VersionLess, TripleLess, SameTriple, PreLess, NoPre, Absent
<1> QED BY <1>1, <1>2 DEF ComparatorLess

(***************************************************************************)
(* What is less than a requirement is less than what that is less than: up *)
(* to the earlier of two first differences all three agree.                *)
(***************************************************************************)
LEMMA RequirementsTransitive ==
  ASSUME NEW r \in Seq(Comparator), NEW s \in Seq(Comparator), NEW q \in Seq(Comparator),
         ReqLess(r, s), ReqLess(s, q)
  PROVE  ReqLess(r, q)
<1>1. PICK n \in 0 .. Len(r) : ReqLessAt(n, r, s)
  BY DEF ReqLess
<1>2. PICK m \in 0 .. Len(s) : ReqLessAt(m, s, q)
  BY DEF ReqLess
<1>3. /\ n \in Nat /\ m \in Nat /\ Len(r) \in Nat /\ Len(s) \in Nat /\ Len(q) \in Nat
      /\ n <= Len(r) /\ n < Len(s) /\ m <= Len(s) /\ m < Len(q)
      /\ \A i \in 1 .. n : r[i] = s[i]
      /\ \A i \in 1 .. m : s[i] = q[i]
      /\ n = Len(r) \/ ComparatorLess(r[n + 1], s[n + 1])
      /\ m = Len(s) \/ ComparatorLess(s[m + 1], q[m + 1])
  BY <1>1, <1>2 DEF ReqLessAt
<1>4. /\ n < Len(r) => r[n + 1] \in Comparator
      /\ s[n + 1] \in Comparator /\ q[m + 1] \in Comparator
      /\ m < Len(s) => s[m + 1] \in Comparator
  BY <1>3
<1>5. CASE n < m
  <2>1. s[n + 1] = q[n + 1] /\ \A i \in 1 .. n : r[i] = q[i]
    BY <1>3, <1>5
  <2>2. ReqLessAt(n, r, q)
    BY <1>3, <1>5, <2>1 DEF ReqLessAt
  <2> QED BY <2>2 DEF ReqLess
<1>6. CASE m < n
  <2>1. r[m + 1] = s[m + 1] /\ \A i \in 1 .. m : r[i] = q[i]
    BY <1>3, <1>6
  <2>2. ReqLessAt(m, r, q)
    BY <1>3, <1>6, <2>1 DEF ReqLessAt
  <2> QED BY <1>3, <1>6, <2>2 DEF ReqLess
<1>7. CASE n = m
  <2>1. \A i \in 1 .. n : r[i] = q[i]
    BY <1>3, <1>7
  <2>2. n = Len(r) \/ ComparatorLess(r[n + 1], q[n + 1])
    <3>1. CASE n = Len(r)
      BY <3>1
    <3>2. CASE n < Len(r)
      <4>1. ComparatorLess(r[n + 1], s[n + 1]) /\ ComparatorLess(s[n + 1], q[n + 1])
        BY <1>3, <1>7, <3>2
      <4>2. r[n + 1] \in Comparator /\ s[n + 1] \in Comparator /\ q[n + 1] \in Comparator
        BY <1>4, <1>7, <3>2
      <4> QED BY <4>1, <4>2, ComparatorLessTransitive
    <3> QED BY <1>3, <3>1, <3>2
  <2>3. ReqLessAt(n, r, q)
    BY <1>3, <1>7, <2>1, <2>2 DEF ReqLessAt
  <2> QED BY <2>3 DEF ReqLess
<1> QED BY <1>3, <1>5, <1>6, <1>7

(***************************************************************************)
(* The hand-written Ord of requirements is a strict total order, whatever  *)
(* their lengths, numbers and tags, and agrees with the derived Eq: of two *)
(* that differ exactly one is less.  So no two of them are one join key,   *)
(* and sorting by it is sorting.                                           *)
(***************************************************************************)
THEOREM OrderSeparates ==
  ASSUME NEW r \in Seq(Comparator), NEW s \in Seq(Comparator), NEW q \in Seq(Comparator)
  PROVE  /\ ~ ReqLess(r, r)
         /\ r # s => (ReqLess(r, s) <=> ~ ReqLess(s, r))
         /\ ReqLess(r, s) /\ ReqLess(s, q) => ReqLess(r, q)
<1>1. ~ ReqLess(r, r)
  BY RequirementsDiffer
<1>2. r # s => (ReqLess(r, s) <=> ~ ReqLess(s, r))
  BY RequirementsCompare, RequirementsDiffer
<1>3. ReqLess(r, s) /\ ReqLess(s, q) => ReqLess(r, q)
  BY RequirementsTransitive
<1> QED BY <1>1, <1>2, <1>3

-----------------------------------------------------------------------------
(***************************************************************************)
(* The questions asked are about comparators and versions.                 *)
(***************************************************************************)
Questions == req \in Seq(Comparator) /\ ver \in Version /\ other \in Seq(Comparator)

LEMMA Enumerated ==
  Comparators \subseteq Comparator /\ Versions \subseteq Version
BY BoundsAssumption DEF Comparators, Comparator, Versions, Version, Numbers

LEMMA QuestionsInvariant == Spec => []Questions
<1>1. Init => Questions
  BY DEF Init, Questions, Start, Version, NoPre
<1>2. Questions /\ [Next]_vars => Questions'
  <2> SUFFICES ASSUME Questions, [Next]_vars PROVE Questions'
    OBVIOUS
  <2>1. CASE AskOne
    <3>1. PICK c \in Comparators : req' = <<c>>
      BY <2>1 DEF AskOne
    <3> QED BY <2>1, <3>1, Enumerated DEF AskOne, Questions
  <2>2. CASE AskTwo
    <3>1. PICK c \in LowerBounds, d \in Comparators : req' = <<c, d>>
      BY <2>2 DEF AskTwo
    <3>2. c \in Comparator /\ d \in Comparator
      BY Enumerated DEF LowerBounds
    <3>3. ver' \in Version
      BY <2>2, Enumerated DEF AskTwo, Released
    <3> QED BY <2>2, <3>1, <3>2, <3>3 DEF AskTwo, Questions
  <2>3. CASE AskOrder
    <3>1. Short \subseteq Comparator
      BY Enumerated DEF Short
    <3>2. \A c \in Short, d \in Short : <<c>> \in Seq(Comparator) /\ <<c, d>> \in Seq(Comparator)
      BY <3>1
    <3>3. ASSUME NEW r \in Shorts PROVE r \in Seq(Comparator)
      <4>1. << >> \in Seq(Comparator)
        OBVIOUS
      <4>2. CASE r \in { <<c>> : c \in Short }
        BY <3>2, <4>2
      <4>3. CASE \E c \in Short, d \in Short : r = <<c, d>>
        BY <3>2, <4>3
      <4>4. \/ r = << >>
            \/ r \in { <<c>> : c \in Short }
            \/ \E c \in Short, d \in Short : r = <<c, d>>
        BY <3>3 DEF Shorts
      <4> QED BY <4>1, <4>2, <4>3, <4>4
    <3> QED BY <2>3, <3>3 DEF AskOrder, Questions
  <2>4. CASE UNCHANGED vars
    BY <2>4 DEF vars, Questions
  <2> QED BY <2>1, <2>2, <2>3, <2>4 DEF Next
<1> QED BY <1>1, <1>2, PTL DEF Spec

(***************************************************************************)
(* For numbers and tags of any size, a requirement admits the versions in  *)
(* the ranges of its comparators.                                          *)
(***************************************************************************)
THEOREM MatchingIsRange == Spec => []MatchesIsRange
<1>1. Questions => MatchesIsRange
  <2> SUFFICES ASSUME Questions, ver.pre = NoPre \/ Len(req) = 1
               PROVE  Matches(req, ver) <=>
                        /\ \A i \in DOMAIN req : InRange(req[i], ver)
                        /\ ver.pre = NoPre \/ \E i \in DOMAIN req :
                                                 PreIsCompatible(req[i], ver)
    BY DEF MatchesIsRange
  <2>1. \A i \in DOMAIN req : req[i] \in Comparator
    BY DEF Questions
  <2>2. ASSUME NEW i \in DOMAIN req,
               ver.pre = NoPre \/ PreIsCompatible(req[i], ver)
        PROVE  MatchesComparator(req[i], ver) <=> InRange(req[i], ver)
    BY <2>1, <2>2, ComparatorIsRange DEF Questions
  <2>3. CASE ver.pre = NoPre
    BY <2>2, <2>3 DEF Matches
  <2>4. CASE ver.pre # NoPre
    <3>1. DOMAIN req = {1}
      BY <2>4 DEF Questions
    <3> QED BY <2>2, <2>4, <3>1 DEF Matches
  <2> QED BY <2>3, <2>4
<1> QED BY <1>1, QuestionsInvariant, PTL

(***************************************************************************)
(* For numbers of any size, no requirement asked about has a hole.         *)
(***************************************************************************)
THEOREM NoRequirementHasHole == Spec => []NoHole
<1>1. Questions => NoHole
  <2> SUFFICES ASSUME Questions, ver.pre = NoPre, ~Matches(req, ver),
                      NEW u \in Released, VersionLess(u, ver),
                      Matches(req, u), NEW w \in Released,
                      VersionLess(ver, w), Matches(req, w)
               PROVE  FALSE
    BY DEF NoHole
  <2>1. u \in Version /\ w \in Version /\ u.pre = NoPre /\ w.pre = NoPre
    BY Enumerated DEF Released
  <2> QED BY <2>1, MatchesIsConvex DEF Questions
<1> QED BY <1>1, QuestionsInvariant, PTL

(***************************************************************************)
(* So the order tells apart the requirements that MCSemver asks about, of  *)
(* at most two comparators; OrderSeparates is the general fact.            *)
(***************************************************************************)
LEMMA QuestionsToldApart == Spec => []OrderTellsApart
<1>1. Questions => OrderTellsApart
  <2> SUFFICES ASSUME Questions PROVE OrderTellsApart
    OBVIOUS
  <2>1. req \in Seq(Comparator) /\ other \in Seq(Comparator)
    BY DEF Questions
  <2>2. ReqLess(req, other) \/ ReqLess(other, req) \/ req = other
    BY <2>1, RequirementsCompare
  <2>3. ReqLess(req, other) => ~ReqLess(other, req) /\ req # other
    BY <2>1, RequirementsDiffer
  <2> QED BY <2>2, <2>3 DEF OrderTellsApart
<1> QED BY <1>1, QuestionsInvariant, PTL
=============================================================================
