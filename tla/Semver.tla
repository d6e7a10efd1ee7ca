------------------------------- MODULE Semver -------------------------------
(***************************************************************************)
(* Version numbers, version requirements and which version satisfies which *)
(* requirement: src/src/version.rs.                                        *)
(*                                                                         *)
(* A prerelease tag is modelled by its rank in the order of tags: 1, 2,... *)
(* for tags such as alpha, beta; NoPre is the absence of a tag, which      *)
(* sorts above every tag.  Build metadata never takes part in matching and *)
(* is left out.                                                            *)
(***************************************************************************)
EXTENDS Integers, Sequences

NoPre  == 0       \* semver::Prerelease::EMPTY
Absent == -1      \* None in the minor or patch field of a comparator

\* A missing number counts as zero.
OrZero(n) == IF n = Absent THEN 0 ELSE n

Version == [major : Nat, minor : Nat, patch : Nat, pre : Nat]

Op == {"Exact", "Greater", "GreaterEq", "Less", "LessEq",
       "Tilde", "Caret", "Wildcard"}

(***************************************************************************)
(* The comparators the semver grammar can produce: a patch number comes    *)
(* after a minor number, a tag after a patch number, and a wildcard stands *)
(* for a missing number.                                                   *)
(***************************************************************************)
Comparator ==
  { c \in [op : Op, major : Nat, minor : Nat \cup {Absent},
           patch : Nat \cup {Absent}, pre : Nat] :
      /\ c.minor = Absent => c.patch = Absent
      /\ c.patch = Absent => c.pre = NoPre
      /\ c.op = "Wildcard" => c.patch = Absent }

(***************************************************************************)
(* The order on versions (derived Ord of Version).                         *)
(***************************************************************************)
PreLess(a, b) == a # NoPre /\ (b = NoPre \/ a < b)

TripleLess(v, w) ==
  \/ v.major < w.major
  \/ v.major = w.major /\ v.minor < w.minor
  \/ v.major = w.major /\ v.minor = w.minor /\ v.patch < w.patch

SameTriple(v, w) ==
  v.major = w.major /\ v.minor = w.minor /\ v.patch = w.patch

VersionLess(v, w) ==
  TripleLess(v, w) \/ (SameTriple(v, w) /\ PreLess(v.pre, w.pre))

-----------------------------------------------------------------------------
(***************************************************************************)
(* One comparator against one version.                                     *)
(***************************************************************************)
MatchesExact(c, v) ==
  /\ v.major = c.major
  /\ c.minor # Absent => v.minor = c.minor
  /\ c.patch # Absent => v.patch = c.patch
  /\ v.pre = c.pre

\* Mutant: every number compared for itself.
GreaterFieldwise(c, v) ==
  \/ v.major > c.major
  \/ c.minor # Absent /\ v.minor > c.minor
  \/ c.patch # Absent /\ v.patch > c.patch

MatchesGreater(c, v) ==
  \/ v.major > c.major
  \/ /\ v.major = c.major
     /\ c.minor # Absent
     /\ \/ v.minor > c.minor
        \/ /\ v.minor = c.minor
           /\ c.patch # Absent
           /\ \/ v.patch > c.patch
              \/ v.patch = c.patch /\ PreLess(c.pre, v.pre)

MatchesLess(c, v) ==
  \/ v.major < c.major
  \/ /\ v.major = c.major
     /\ c.minor # Absent
     /\ \/ v.minor < c.minor
        \/ /\ v.minor = c.minor
           /\ c.patch # Absent
           /\ \/ v.patch < c.patch
              \/ v.patch = c.patch /\ PreLess(v.pre, c.pre)

MatchesTilde(c, v) ==
  /\ v.major = c.major
  /\ c.minor # Absent => v.minor = c.minor
  /\ \/ c.patch # Absent /\ v.patch > c.patch
     \/ c.patch \in {Absent, v.patch} /\ ~PreLess(v.pre, c.pre)

\* Mutant: a zero before the minor number is not taken into account.
CaretLikeOne(c, v) ==
  /\ v.major = c.major
  /\ \/ v.minor > OrZero(c.minor)
     \/ /\ v.minor = OrZero(c.minor)
        /\ \/ v.patch > OrZero(c.patch)
           \/ v.patch = OrZero(c.patch) /\ ~PreLess(v.pre, c.pre)

(***************************************************************************)
(* A caret freezes everything up to the first nonzero number it names.     *)
(***************************************************************************)
MatchesCaret(c, v) ==
  /\ v.major = c.major
  /\ \/ c.minor = Absent
     \/ /\ c.minor # Absent /\ c.patch = Absent
        /\ v.minor = c.minor \/ (c.major > 0 /\ v.minor > c.minor)
     \/ /\ c.minor # Absent /\ c.patch # Absent
        /\ \/ c.major > 0 /\ v.minor > c.minor
           \/ /\ v.minor = c.minor
              /\ \/ (c.major > 0 \/ c.minor > 0) /\ v.patch > c.patch
                 \/ v.patch = c.patch /\ ~PreLess(v.pre, c.pre)

MatchesComparator(c, v) ==
  \/ c.op \in {"Exact", "Wildcard", "GreaterEq", "LessEq"} /\ MatchesExact(c, v)
  \/ c.op \in {"Greater", "GreaterEq"} /\ MatchesGreater(c, v)
  \/ c.op \in {"Less", "LessEq"} /\ MatchesLess(c, v)
  \/ c.op = "Tilde" /\ MatchesTilde(c, v)
  \/ c.op = "Caret" /\ MatchesCaret(c, v)

PreIsCompatible(c, v) == SameTriple(c, v) /\ c.pre # NoPre

(***************************************************************************)
(* A requirement is a sequence of comparators, all of which must hold; a   *)
(* version with a prerelease tag also needs one comparator that names its  *)
(* major.minor.patch together with a tag.                                  *)
(***************************************************************************)
Matches(req, v) ==
  /\ \A i \in DOMAIN req : MatchesComparator(req[i], v)
  /\ v.pre # NoPre => \E i \in DOMAIN req : PreIsCompatible(req[i], v)

-----------------------------------------------------------------------------
(***************************************************************************)
(* The order on requirements (Ord of VersionReq), by which the join keys   *)
(* of the dataflow are sorted: comparators are compared field by field,    *)
(* requirements comparator by comparator, and one that goes on comes after *)
(* one that ends.  An absent number comes before every number.             *)
(***************************************************************************)
OpIndex == [Exact |-> 0, Greater |-> 1, GreaterEq |-> 2, Less |-> 3, LessEq |-> 4,
            Tilde |-> 5, Caret |-> 6, Wildcard |-> 7]

\* Mutant: the tag is not compared.
LessButForTag(c, d) ==
  \/ OpIndex[c.op] < OpIndex[d.op]
  \/ c.op = d.op /\ TripleLess(c, d)

ComparatorLess(c, d) ==
  \/ OpIndex[c.op] < OpIndex[d.op]
  \/ c.op = d.op /\ VersionLess(c, d)

\* The requirements agree up to n, and there one ends or is less.
ReqLessAt(n, r, s) ==
  /\ n <= Len(r) /\ n < Len(s)
  /\ \A i \in 1 .. n : r[i] = s[i]
  /\ n = Len(r) \/ ComparatorLess(r[n + 1], s[n + 1])

ReqLess(r, s) == \E n \in 0 .. Len(r) : ReqLessAt(n, r, s)

-----------------------------------------------------------------------------
(***************************************************************************)
(* What the comparators mean, as ranges of the version order.  These are   *)
(* the reference definitions the matching above is checked against; they   *)
(* stand for no code.                                                      *)
(***************************************************************************)
Triple(a, b, c) == [major |-> a, minor |-> b, patch |-> c]

\* The least version a comparator names.
Floor(c) == [major |-> c.major, minor |-> OrZero(c.minor),
             patch |-> OrZero(c.patch), pre |-> c.pre]

\* The first triple above everything a partial comparator names.
Ceiling(c) ==
  IF c.minor = Absent THEN Triple(c.major + 1, 0, 0)
                      ELSE Triple(c.major, c.minor + 1, 0)

\* The first triple incompatible with the least version a caret names.
CaretCeiling(c) ==
  IF c.major > 0 \/ c.minor = Absent THEN Triple(c.major + 1, 0, 0)
  ELSE IF c.minor > 0 \/ c.patch = Absent THEN Triple(0, c.minor + 1, 0)
  ELSE Triple(0, 0, c.patch + 1)

AtLeast(v, c) == ~VersionLess(v, Floor(c))

AtMost(v, c) ==
  IF c.patch = Absent THEN TripleLess(v, Ceiling(c))
                      ELSE ~VersionLess(Floor(c), v)

InRange(c, v) ==
  \/ c.op \in {"Exact", "Wildcard"} /\ AtLeast(v, c) /\ AtMost(v, c)
  \/ c.op = "Greater" /\ ~AtMost(v, c)
  \/ c.op = "GreaterEq" /\ AtLeast(v, c)
  \/ c.op = "Less" /\ ~AtLeast(v, c)
  \/ c.op = "LessEq" /\ AtMost(v, c)
  \/ c.op = "Tilde" /\ AtLeast(v, c) /\ TripleLess(v, Ceiling(c))
  \/ c.op = "Caret" /\ AtLeast(v, c) /\ TripleLess(v, CaretCeiling(c))
=============================================================================
