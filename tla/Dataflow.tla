------------------------------ MODULE Dataflow ------------------------------
(***************************************************************************)
(* What the dataflow of src/src/lib.rs computes from a set of releases R,  *)
(* a set of dependency rows D and a set of queries Q, at one moment of the *)
(* history: for each query the releases that contribute to its tally.      *)
(*                                                                         *)
(*   release     [id, crate, num, time, features]                          *)
(*               features is a set of [id, enables, weak], enables and     *)
(*               weak are sets of [crate, feature]; weak is not looked at  *)
(*   dependency  [id, from, crate, req, feature, default, features, kind]  *)
(*   query       [id, predicates], a predicate is [crate, any, req]: any   *)
(*               stands for a predicate without a version requirement      *)
(*                                                                         *)
(* A collection whose differences are Present or Max is a set.  One whose  *)
(* differences are isize is a multiset: the records of Contributions carry *)
(* in the field via the row and the target they stem from, which is what   *)
(* makes two of them differ until Distinct forgets it.                     *)
(***************************************************************************)
EXTENDS Semver, FiniteSets

CONSTANT Rounds          \* rounds a u16 iteration counter allows: 2^16

ASSUME DataflowAssumption == Rounds \in Nat

CRATE   == 0             \* FeatureId::CRATE, the crate without any feature
DEFAULT == 1             \* FeatureId::DEFAULT

Node(version, feature) == [version |-> version, feature |-> feature]

\* Mutant: the latest release instead of the highest version.
EarlierBelow(r, s) == r.time < s.time \/ (r.time = s.time /\ r.id < s.id)

VersionBelow(r, s) ==
  VersionLess(r.num, s.num) \/ (r.num = s.num /\ r.id < s.id)

(***************************************************************************)
(* MaxByKey: the elements of S that no other exceeds.                      *)
(***************************************************************************)
Highest(S) == { r \in S : \A s \in S : ~VersionBelow(r, s) }

\* Mutant: the highest version of all is matched, not the highest match.
ResolvedIfHighest(R, crate, req) ==
  { r.id : r \in { x \in Highest({ y \in R : y.crate = crate }) :
                     Matches(req, x.num) } }

(***************************************************************************)
(* resolved: the release a requirement on a crate currently refers to, as  *)
(* a set of at most one version id.                                        *)
(***************************************************************************)
Resolved(R, crate, req) ==
  { r.id : r \in Highest({ x \in R : x.crate = crate /\ Matches(req, x.num) }) }

\* Mutant: no tie-break by id.
RecentBelowByTime(r, s) ==
  /\ r.crate = s.crate
  /\ \/ r.num.pre # NoPre /\ s.num.pre = NoPre
     \/ ((r.num.pre = NoPre) <=> (s.num.pre = NoPre)) /\ r.time < s.time

(***************************************************************************)
(* most_recent_crate_version: a released version beats a prerelease, then  *)
(* the later one wins, then the larger id.                                 *)
(***************************************************************************)
RecentBelow(r, s) ==
  /\ r.crate = s.crate
  /\ \/ r.num.pre # NoPre /\ s.num.pre = NoPre
     \/ /\ (r.num.pre = NoPre) <=> (s.num.pre = NoPre)
        /\ r.time < s.time \/ (r.time = s.time /\ r.id < s.id)

MostRecent(R) ==
  { r.id : r \in { x \in R : \A s \in R : ~RecentBelow(x, s) } }

(***************************************************************************)
(* match_releases: the releases a query asks about.                        *)
(***************************************************************************)
Asks(q, r) == \E p \in q.predicates :
                 p.crate = r.crate /\ (p.any \/ Matches(p.req, r.num))

MatchReleases(R, Q) ==
  UNION { { [version |-> r.id, query |-> q.id] :
              r \in { s \in R : Asks(q, s) } } : q \in Q }

(***************************************************************************)
(* direct_dependency_edges, and the direct part of query_results: most     *)
(* recent releases with a row that resolves to a release the query asks    *)
(* about.                                                                  *)
(***************************************************************************)
DirectEdges(R, D) ==
  UNION { { [dep |-> d, to |-> v] : v \in Resolved(R, d.crate, d.req) } :
            d \in D }

\* Mutant: no join with the most recent releases.
DirectResultsOfAll(R, D, Q) ==
  UNION { { [version |-> e.dep.from, query |-> m.query,
             via |-> <<e.dep.id, e.to, CRATE>>] :
              e \in { f \in DirectEdges(R, D) : f.to = m.version } } :
            m \in MatchReleases(R, Q) }

DirectResults(R, D, Q) ==
  LET recent == { e \in DirectEdges(R, D) : e.dep.from \in MostRecent(R) }
  IN UNION { { [version |-> e.dep.from, query |-> m.query,
                via |-> <<e.dep.id, e.to, CRATE>>] :
                 e \in { f \in recent : f.to = m.version } } :
               m \in MatchReleases(R, Q) }

-----------------------------------------------------------------------------
(***************************************************************************)
(* The transitive graph: its nodes are features of releases.               *)
(***************************************************************************)

\* FeatureIter: the features of its target a row asks for.
Requested(d) ==
  (IF d.default THEN {DEFAULT}
   ELSE IF d.features = {} THEN {CRATE} ELSE {}) \cup d.features

\* Mutant: dev-dependencies are followed as well.
DepEdgesOfAllKinds(R, D) ==
  UNION { { <<Node(d.from, d.feature), Node(v, f)>> :
              v \in Resolved(R, d.crate, d.req), f \in Requested(d) } : d \in D }

\* dep_dependency_edges; a dev-dependency has none.
DepEdges(R, D) ==
  UNION { { <<Node(d.from, d.feature), Node(v, f)>> :
              v \in Resolved(R, d.crate, d.req), f \in Requested(d) } :
            d \in { e \in D : e.kind # "Dev" } }

\* Mutant: a crate without a default feature has no node for it.
IntraEdgesOfDeclared(R) ==
  UNION { { <<Node(r.id, f.id), Node(r.id, CRATE)>> : f \in r.features } \cup
          UNION { { <<Node(r.id, f.id), Node(r.id, e.feature)>> :
                      e \in { x \in f.enables : x.crate = r.crate } } :
                  f \in r.features } : r \in R }

\* feature_intracrate_edges: a feature leads to the features of the same
\* release it enables; every feature, and DEFAULT, leads to the crate.
IntraEdges(R) ==
  UNION { { <<Node(r.id, f), Node(r.id, CRATE)>> :
              f \in {DEFAULT} \cup { x.id : x \in r.features } } \cup
          UNION { { <<Node(r.id, f.id), Node(r.id, e.feature)>> :
                      e \in { x \in f.enables : x.crate = r.crate } } :
                  f \in r.features } : r \in R }

\* feature_dependency_edges: a feature leads to the features it enables in
\* the releases that rows of any kind on that crate resolve to.
FeatureEdges(R, D) ==
  UNION { UNION { UNION {
    { <<Node(r.id, f.id), Node(v, e.feature)>> :
        v \in UNION { Resolved(R, d.crate, d.req) :
                d \in { x \in D : x.from = r.id /\ x.crate = e.crate } } } :
      e \in { x \in f.enables : x.crate # r.crate } } :
      f \in r.features } : r \in R }

Edges(R, D) == DepEdges(R, D) \cup IntraEdges(R) \cup FeatureEdges(R, D)

(***************************************************************************)
(* addend_transitive_releases: from the crates asked about, against the    *)
(* edges, as far as Rounds rounds reach.                                   *)
(***************************************************************************)
CratesAsked(R, Q) ==
  { <<Node(m.version, CRATE), m.query>> : m \in MatchReleases(R, Q) }

\* One round: what has been reached, and what an edge leads from into it.
Spread(edges, S) ==
  UNION { {s} \cup { <<e[1], s[2]>> : e \in { x \in edges : x[2] = s[1] } } : s \in S }

Reached(R, D, Q) ==
  LET edges == Edges(R, D)
      after[n \in 0 .. Rounds] ==
        IF n = 0 THEN CratesAsked(R, Q) ELSE Spread(edges, after[n - 1])
  IN after[Rounds]

TransitiveResults(R, D, Q) ==
  { [version |-> s[1].version, query |-> s[2], via |-> <<0, 0, s[1].feature>>] :
      s \in { x \in Reached(R, D, Q) : x[1].version \in MostRecent(R) } }

-----------------------------------------------------------------------------
(***************************************************************************)
(* query_results and what is counted of it; transitive is the option.      *)
(***************************************************************************)
Contributions(R, D, Q, transitive) ==
  DirectResults(R, D, Q) \cup
  (IF transitive THEN TransitiveResults(R, D, Q) ELSE {})

Distinct(C) == { [version |-> c.version, query |-> c.query] : c \in C }

Tally(R, D, Q, transitive, q) ==
  Cardinality({ c \in Distinct(Contributions(R, D, Q, transitive)) : c.query = q })
=============================================================================
