--------------------------- MODULE HistoryProofs ----------------------------
(***************************************************************************)
(* For registries of any size: a tally counts crates, resolution never     *)
(* regresses, a crate leaves a direct tally only for a reason, the past is *)
(* final, also that of the transitive graph, in however many rounds it is  *)
(* searched, and what it counts is what chains of dependencies lead from.  *)
(***************************************************************************)
EXTENDS History, FiniteSetTheorems, WellFoundedInduction, TLAPS

(***************************************************************************)
(* What is published comes from the catalog, is finite, and is not yanked. *)
(***************************************************************************)
IInv ==
  /\ registry \in Registries
  /\ Ids \subseteq DOMAIN Catalog
  /\ IsFiniteSet(Ids)
  /\ Ids \cap yanked = {}
  /\ now \in Nat
  /\ created \in [Ids -> Nat]
  /\ \A v \in Ids : created[v] <= now

LEMMA IInvHolds == Spec => []IInv
<1>1. Init => IInv
  BY FS_EmptySet DEF Init, IInv, Ids
<1>2. IInv /\ [Next]_vars => IInv'
  <2> SUFFICES ASSUME IInv, [Next]_vars PROVE IInv'
    OBVIOUS
  <2>1. CASE Tick
    BY <2>1, HistoryAssumption DEF Tick, IInv, Ids, Catalog
  <2>2. ASSUME NEW v \in DOMAIN Catalog, Publish(v) PROVE IInv'
    <3>1. Ids' = Ids \cup {v}
      BY <2>2 DEF Publish, Ids
    <3>2. IsFiniteSet(Ids \cup {v})
      BY FS_AddElement DEF IInv
    <3>3. created' \in [Ids \cup {v} -> Nat]
      BY <2>2 DEF Publish, IInv
    <3> QED BY <2>2, <3>1, <3>2, <3>3 DEF Publish, IInv, Catalog
  <2>3. ASSUME NEW v \in DOMAIN Catalog, Yank(v) PROVE IInv'
    <3>1. Ids' = Ids \ {v}
      BY <2>3 DEF Yank, Ids
    <3>2. IsFiniteSet(Ids \ {v})
      BY FS_RemoveElement DEF IInv
    <3>3. created' \in [Ids \ {v} -> Nat]
      BY <2>3 DEF Yank, IInv
    <3> QED BY <2>3, <3>1, <3>2, <3>3 DEF Yank, IInv, Catalog
  <2>4. CASE UNCHANGED vars
    BY <2>4 DEF vars, IInv, Ids, Catalog
  <2> QED BY <2>1, <2>2, <2>3, <2>4 DEF Next
<1> QED BY <1>1, <1>2, PTL DEF Spec

-----------------------------------------------------------------------------
(***************************************************************************)
(* A published release has the number the catalog gives it, and its id     *)
(* tells it apart.                                                         *)
(***************************************************************************)
LEMMA ReleaseFields ==
  ASSUME IInv, NEW t, NEW r \in ReleasesAt(t)
  PROVE  /\ r.id \in Ids /\ r = Release(r.id)
         /\ r.id \in Nat /\ r.time \in Nat /\ r.num \in Version
         /\ r.crate = CrateOf(r.id) /\ r.num = Catalog[r.id].num
         /\ r.time = created[r.id] /\ created[r.id] <= t
<1>1. PICK v \in Ids : created[v] <= t /\ r = Release(v)
  BY DEF ReleasesAt
<1>2. v \in Nat /\ Catalog[v].num \in Version /\ created[v] \in Nat
  BY HistoryAssumption DEF IInv, Catalog
<1> QED BY <1>1, <1>2 DEF Release, CrateOf

(***************************************************************************)
(* A crate has at most one most recent release.                            *)
(***************************************************************************)
LEMMA OneIsMostRecent ==
  ASSUME IInv, NEW t, NEW v \in MostRecent(ReleasesAt(t)),
         NEW w \in MostRecent(ReleasesAt(t)), CrateOf(v) = CrateOf(w)
  PROVE  v = w
<1> DEFINE R == ReleasesAt(t)
<1>1. PICK r \in R : r.id = v /\ \A s \in R : ~RecentBelow(r, s)
  BY DEF MostRecent
<1>2. PICK s \in R : s.id = w /\ \A u \in R : ~RecentBelow(s, u)
  BY DEF MostRecent
<1>3. ~RecentBelow(r, s) /\ ~RecentBelow(s, r)
  BY <1>1, <1>2
<1>4. r.crate = s.crate
  BY <1>1, <1>2, ReleaseFields
<1>5. r.id \in Nat /\ s.id \in Nat /\ r.time \in Nat /\ s.time \in Nat
  BY ReleaseFields
<1>6. (r.num.pre = NoPre) <=> (s.num.pre = NoPre)
  BY <1>3, <1>4 DEF RecentBelow
<1>7. r.time = s.time
  BY <1>3, <1>4, <1>5, <1>6 DEF RecentBelow
<1>8. r.id = s.id
  BY <1>3, <1>4, <1>5, <1>6, <1>7 DEF RecentBelow
<1> QED BY <1>1, <1>2, <1>8

(***************************************************************************)
(* Whoever contributes to a tally is a most recent release.                *)
(***************************************************************************)
LEMMA ContributorsAreRecent ==
  ASSUME NEW R, NEW D, NEW Q, NEW transitive,
         NEW c \in Distinct(Contributions(R, D, Q, transitive))
  PROVE  /\ c.version \in MostRecent(R)
         /\ c = [version |-> c.version, query |-> c.query]
<1>1. PICK b \in Contributions(R, D, Q, transitive) :
        c = [version |-> b.version, query |-> b.query]
  BY DEF Distinct
<1>2. CASE b \in DirectResults(R, D, Q)
  BY <1>1, <1>2 DEF DirectResults
<1>3. CASE b \in TransitiveResults(R, D, Q)
  BY <1>1, <1>3 DEF TransitiveResults
<1> QED BY <1>1, <1>2, <1>3 DEF Contributions

(***************************************************************************)
(* A tally counts crates, in a registry of any size, at any time, whatever *)
(* its rows, features and queries: the number of contributions that        *)
(* distinct() leaves is the number of crates they come from.               *)
(***************************************************************************)
THEOREM TalliesCountCrates == Spec => []CountsCrates
<1>1. IInv => CountsCrates
  <2> SUFFICES ASSUME IInv, NEW q \in Queries
               PROVE  TallyAt(now, q.id) =
                        Cardinality({ CrateOf(c.version) :
                          c \in { x \in Outcome(now) : x.query = q.id } })
    BY DEF CountsCrates
  <2> DEFINE S == { x \in Outcome(now) : x.query = q.id }
             T == { CrateOf(c.version) : c \in S }
             f == [c \in S |-> CrateOf(c.version)]
             V == MostRecent(ReleasesAt(now))
             g == [c \in S |-> c.version]
  <2>1. TallyAt(now, q.id) = Cardinality(S)
    BY DEF TallyAt, Tally, Outcome
  <2>2. \A c \in S : c.version \in V /\ c = [version |-> c.version, query |-> q.id]
    BY ContributorsAreRecent DEF Outcome
  <2>3. \A c, d \in S : CrateOf(c.version) = CrateOf(d.version) => c = d
    BY <2>2, OneIsMostRecent
  <2>4. IsFiniteSet(V)
    <3>1. V \subseteq Ids
      BY ReleaseFields DEF MostRecent
    <3> QED BY <3>1, FS_Subset DEF IInv
  <2>5. IsFiniteSet(S)
    <3>1. g \in Injection(S, V)
      BY <2>2 DEF Injection, IsInjective
    <3> QED BY <3>1, <2>4, FS_Injection
  <2>6. f \in Bijection(S, T)
    <3>1. f \in Injection(S, T)
      BY <2>3 DEF Injection, IsInjective
    <3>2. f \in Surjection(S, T)
      BY DEF Surjection
    <3> QED BY <3>1, <3>2 DEF Bijection
  <2>7. Cardinality(T) = Cardinality(S)
    BY <2>5, <2>6, FS_Bijection DEF ExistsBijection
  <2> QED BY <2>1, <2>7
<1> QED BY <1>1, IInvHolds, PTL

-----------------------------------------------------------------------------
(***************************************************************************)
(* Versions, and releases by version and id, are ordered.                  *)
(***************************************************************************)
LEMMA BelowIsOrder ==
  ASSUME NEW r, NEW s, NEW u,
         r.num \in Version, s.num \in Version, u.num \in Version,
         r.id \in Nat, s.id \in Nat, u.id \in Nat
  PROVE  /\ VersionBelow(r, s) /\ VersionBelow(s, u) => VersionBelow(r, u)
         /\ ~VersionBelow(r, r)
         /\ VersionBelow(r, s) => ~VersionLess(s.num, r.num)
<1>1. ASSUME NEW a \in Version, NEW b \in Version, NEW c \in Version
      PROVE  /\ VersionLess(a, b) /\ VersionLess(b, c) => VersionLess(a, c)
             /\ VersionLess(a, b) => ~VersionLess(b, a)
             /\ ~VersionLess(a, a)
  BY DEF Version, VersionLess, TripleLess, SameTriple, PreLess, NoPre
<1>2. ~VersionLess(r.num, r.num)
  BY <1>1
<1>3. VersionBelow(r, s) => ~VersionLess(s.num, r.num)
  BY <1>1 DEF VersionBelow
<1>4. VersionBelow(r, s) /\ VersionBelow(s, u) => VersionBelow(r, u)
  BY <1>1 DEF VersionBelow
<1> QED BY <1>2, <1>3, <1>4 DEF VersionBelow

(***************************************************************************)
(* Adding a release to those that match leaves a highest one, and not a    *)
(* lower one.                                                              *)
(***************************************************************************)
LEMMA HighestRises ==
  ASSUME NEW S, NEW n, NEW r \in Highest(S),
         \A x \in S \cup {n} : x.num \in Version /\ x.id \in Nat
  PROVE  \E s \in Highest(S \cup {n}) : ~VersionLess(s.num, r.num)
<1>1. r \in S /\ \A s \in S : ~VersionBelow(r, s)
  BY DEF Highest
<1>2. CASE VersionBelow(r, n)
  <2>1. \A s \in S : ~VersionBelow(n, s)
    BY <1>1, <1>2, BelowIsOrder
  <2>2. ~VersionBelow(n, n) /\ ~VersionLess(n.num, r.num)
    BY <1>1, <1>2, BelowIsOrder
  <2>3. n \in Highest(S \cup {n})
    BY <2>1, <2>2 DEF Highest
  <2> QED BY <2>2, <2>3
<1>3. CASE ~VersionBelow(r, n)
  <2>1. r \in Highest(S \cup {n})
    BY <1>1, <1>3 DEF Highest
  <2>2. ~VersionBelow(r, r)
    BY <1>1, BelowIsOrder
  <2>3. ~VersionLess(r.num, r.num)
    BY <2>2 DEF VersionBelow
  <2> QED BY <2>1, <2>3
<1> QED BY <1>2, <1>3

(***************************************************************************)
(* Publishing adds one release, and it is there at once.                   *)
(***************************************************************************)
Now(n) == [id |-> n, crate |-> Catalog[n].crate, num |-> Catalog[n].num,
           time |-> now, features |-> Catalog[n].features]

LEMMA PublishAdds ==
  ASSUME IInv, NEW n \in DOMAIN Catalog, Publish(n)
  PROVE  ReleasesAt(now)' = ReleasesAt(now) \cup {Now(n)}
<1>1. Ids' = Ids \cup {n} /\ n \notin Ids /\ now' = now /\ Catalog' = Catalog
  BY DEF Publish, Ids, Catalog
<1>2. \A w \in Ids : created'[w] = created[w]
  BY DEF Publish
<1>3. created'[n] = now
  BY DEF Publish
<1>4. \A w \in Ids : Release(w)' = Release(w)
  BY <1>1, <1>2 DEF Release
<1>5. Release(n)' = Now(n)
  BY <1>1, <1>3 DEF Release, Now
<1>6. ReleasesAt(now)' = { Release(w)' : w \in { x \in Ids \cup {n} : created'[x] <= now } }
  BY <1>1 DEF ReleasesAt, Release
<1>7. { x \in Ids \cup {n} : created'[x] <= now } = Ids \cup {n}
  BY <1>2, <1>3 DEF IInv
<1>8. ReleasesAt(now) = { Release(w) : w \in Ids }
  BY DEF ReleasesAt, IInv
<1> QED BY <1>4, <1>5, <1>6, <1>7, <1>8

(***************************************************************************)
(* Unless the release that is added is the highest, what was stays so.     *)
(***************************************************************************)
LEMMA HighestStays ==
  ASSUME NEW S, NEW n, NEW r \in Highest(S), n \notin Highest(S \cup {n}),
         \A x \in S \cup {n} : x.num \in Version /\ x.id \in Nat
  PROVE  r \in Highest(S \cup {n})
<1>1. r \in S /\ \A s \in S : ~VersionBelow(r, s)
  BY DEF Highest
<1>2. SUFFICES ASSUME VersionBelow(r, n) PROVE n \in Highest(S \cup {n})
  BY <1>1 DEF Highest
<1>3. \A s \in S : ~VersionBelow(n, s)
  BY <1>1, <1>2, BelowIsOrder
<1>4. ~VersionBelow(n, n)
  BY BelowIsOrder
<1> QED BY <1>3, <1>4 DEF Highest

(***************************************************************************)
(* In a registry of any size, a dependency that resolves goes on doing so  *)
(* when something is published or time passes, and never to a lower        *)
(* version.                                                                *)
(***************************************************************************)
THEOREM NeverRegresses == Spec => ResolutionNeverRegresses
<1> DEFINE Step == yanked' = yanked => \A d \in Dependencies :
             \A v \in Resolved(ReleasesAt(now), d.crate, d.req) :
               \E w \in Resolved(ReleasesAt(now), d.crate, d.req)' :
                  ~VersionLess(Catalog[w].num, Catalog[v].num)
<1>1. IInv /\ IInv' /\ [Next]_vars => Step
  <2> SUFFICES ASSUME IInv, IInv', [Next]_vars, yanked' = yanked,
                      NEW d \in Dependencies,
                      NEW v \in Resolved(ReleasesAt(now), d.crate, d.req)
               PROVE  \E w \in Resolved(ReleasesAt(now)', d.crate, d.req) :
                        ~VersionLess(Catalog[w].num, Catalog[v].num)
    BY DEF Resolved, Highest, VersionBelow, VersionLess, TripleLess, SameTriple, PreLess,
           Matches
  <2> DEFINE M(R) == { x \in R : x.crate = d.crate /\ Matches(d.req, x.num) }
  <2>1. PICK r \in Highest(M(ReleasesAt(now))) : r.id = v
    BY DEF Resolved
  <2>2. r \in ReleasesAt(now) /\ r.num = Catalog[v].num
    BY <2>1, ReleaseFields DEF Highest
  <2>3. SUFFICES \E s \in Highest(M(ReleasesAt(now)')) :
                   ~VersionLess(s.num, r.num) /\ s.num = Catalog[s.id].num
    BY <2>2 DEF Resolved
  <2>4. \A x \in ReleasesAt(now) : x.num \in Version /\ x.id \in Nat
                                   /\ x.num = Catalog[x.id].num
    BY ReleaseFields
  <2>5. CASE ReleasesAt(now)' = ReleasesAt(now)
    <3>1. ~VersionBelow(r, r)
      BY <2>1 DEF Highest
    <3>2. ~VersionLess(r.num, r.num)
      BY <3>1 DEF VersionBelow
    <3> QED BY <2>1, <2>2, <2>4, <2>5, <3>2
  <2>6. CASE Tick \/ UNCHANGED vars
    <3>1. ReleasesAt(now)' = ReleasesAt(now)
      BY <2>6, HistoryAssumption DEF Tick, vars, ReleasesAt, IInv, Ids, Release, Catalog
    <3> QED BY <3>1, <2>5
  <2>7. ASSUME NEW n \in DOMAIN Catalog, Publish(n)
        PROVE  \E s \in Highest(M(ReleasesAt(now)')) :
                 ~VersionLess(s.num, r.num) /\ s.num = Catalog[s.id].num
    <3> DEFINE new == Now(n)
    <3>1. ReleasesAt(now)' = ReleasesAt(now) \cup {new}
      BY <2>7, PublishAdds
    <3>2. new.num \in Version /\ new.id \in Nat /\ new.num = Catalog[new.id].num
      BY HistoryAssumption DEF IInv, Catalog, Now
    <3>3. CASE new \in M({new})
      <4>1. M(ReleasesAt(now)') = M(ReleasesAt(now)) \cup {new}
        BY <3>1, <3>3
      <4>2. \A x \in M(ReleasesAt(now)) \cup {new} : x.num \in Version /\ x.id \in Nat
        BY <2>4, <3>2
      <4>3. \E s \in Highest(M(ReleasesAt(now)) \cup {new}) : ~VersionLess(s.num, r.num)
        BY <2>1, <4>2, HighestRises
      <4> QED BY <2>4, <3>2, <4>1, <4>3 DEF Highest
    <3>4. CASE new \notin M({new})
      <4>1. M(ReleasesAt(now)') = M(ReleasesAt(now))
        BY <3>1, <3>4
      <4>2. ~VersionBelow(r, r)
        BY <2>1 DEF Highest
      <4>3. ~VersionLess(r.num, r.num)
        BY <4>2 DEF VersionBelow
      <4> QED BY <2>1, <2>2, <2>4, <4>1, <4>3
    <3> QED BY <3>3, <3>4
  <2>8. ASSUME NEW n \in DOMAIN Catalog, Yank(n) PROVE FALSE
    BY <2>8 DEF Yank, IInv
  <2> QED BY <2>6, <2>7, <2>8 DEF Next
<1>2. IInv /\ IInv' /\ [Next]_vars => [Step]_vars
  BY <1>1
<1> QED BY <1>2, IInvHolds, PTL DEF Spec, ResolutionNeverRegresses

-----------------------------------------------------------------------------
(***************************************************************************)
(* Without --transitive: what it takes to contribute, and that it is       *)
(* enough.                                                                 *)
(***************************************************************************)
LEMMA DirectContribution ==
  ASSUME NEW R, NEW D, NEW Q, NEW v, NEW i
  PROVE  [version |-> v, query |-> i] \in Distinct(DirectResults(R, D, Q)) <=>
           /\ v \in MostRecent(R)
           /\ \E d \in D : \E w : /\ d.from = v
                                   /\ w \in Resolved(R, d.crate, d.req)
                                   /\ [version |-> w, query |-> i] \in MatchReleases(R, Q)
<1> DEFINE C == DirectResults(R, D, Q)
<1>1. Distinct(C) = { [version |-> c.version, query |-> c.query] : c \in C }
  BY DEF Distinct
<1>2. ASSUME NEW c \in C, c.version = v, c.query = i
      PROVE  /\ v \in MostRecent(R)
             /\ \E d \in D : \E w : /\ d.from = v
                                     /\ w \in Resolved(R, d.crate, d.req)
                                     /\ [version |-> w, query |-> i] \in MatchReleases(R, Q)
  <2>1. PICK m \in MatchReleases(R, Q), e \in DirectEdges(R, D) :
          /\ e.dep.from \in MostRecent(R) /\ e.to = m.version
          /\ c.version = e.dep.from /\ c.query = m.query
    BY DEF DirectResults
  <2>2. e.dep \in D /\ e.to \in Resolved(R, e.dep.crate, e.dep.req)
    BY DEF DirectEdges
  <2>3. m = [version |-> m.version, query |-> m.query]
    BY DEF MatchReleases
  <2> QED BY <1>2, <2>1, <2>2, <2>3
<1>3. ASSUME v \in MostRecent(R), NEW d \in D, NEW w, d.from = v,
             w \in Resolved(R, d.crate, d.req),
             [version |-> w, query |-> i] \in MatchReleases(R, Q)
      PROVE  \E c \in C : c.version = v /\ c.query = i
  <2> DEFINE e == [dep |-> d, to |-> w]
             m == [version |-> w, query |-> i]
             recent == { f \in DirectEdges(R, D) : f.dep.from \in MostRecent(R) }
             T(x) == { [version |-> f.dep.from, query |-> x.query,
                        via |-> <<f.dep.id, f.to, CRATE>>] :
                          f \in { g \in recent : g.to = x.version } }
             c == [version |-> e.dep.from, query |-> m.query,
                   via |-> <<e.dep.id, e.to, CRATE>>]
  <2>1. e \in DirectEdges(R, D)
    BY <1>3 DEF DirectEdges
  <2>2. e \in { g \in recent : g.to = m.version }
    BY <1>3, <2>1
  <2>3. c \in T(m)
    BY <2>2
  <2>4. m \in MatchReleases(R, Q)
    BY <1>3
  <2>5. C = UNION { T(x) : x \in MatchReleases(R, Q) }
    BY DEF DirectResults
  <2>6. c \in C
    <3> HIDE DEF C, T, c, m
    <3> QED BY <2>3, <2>4, <2>5
  <2> QED BY <1>3, <2>6
<1> QED BY <1>1, <1>2, <1>3

(***************************************************************************)
(* Publishing a release of another crate makes nothing less recent.        *)
(***************************************************************************)
LEMMA RecentStays ==
  ASSUME NEW R, NEW n, NEW v \in MostRecent(R),
         \A r \in R : r.id = v => r.crate # n.crate
  PROVE  v \in MostRecent(R \cup {n})
BY DEF MostRecent, RecentBelow

(***************************************************************************)
(* What a query asks about, it goes on asking about.                       *)
(***************************************************************************)
LEMMA AskedStays ==
  ASSUME NEW R, NEW n, NEW Q
  PROVE  MatchReleases(R, Q) \subseteq MatchReleases(R \cup {n}, Q)
BY DEF MatchReleases

(***************************************************************************)
(* In a registry of any size, without --transitive: if publishing a        *)
(* release takes a dependent from a tally, it is one of the same crate, or *)
(* a row of the dependent now resolves to what was published, which is not *)
(* what the query asks about.                                              *)
(***************************************************************************)
THEOREM LossesAreExplained == Spec => LossIsExplained
<1> DEFINE Step == \A v \in DOMAIN Catalog : Publish(v) /\ ~registry.transitive =>
       \A c \in Outcome(now) \ Outcome(now)' :
         \/ CrateOf(c.version) = CrateOf(v)
         \/ /\ \E d \in Dependencies :
                 /\ d.from = c.version
                 /\ v \in Resolved(ReleasesAt(now), d.crate, d.req)'
            /\ [version |-> v, query |-> c.query] \notin
                  MatchReleases(ReleasesAt(now), Queries)'
<1>1. IInv /\ IInv' => Step
  <2> SUFFICES ASSUME IInv, NEW v \in DOMAIN Catalog, Publish(v), ~registry.transitive,
                      NEW c \in Outcome(now), c \notin Outcome(now)',
                      CrateOf(c.version) # CrateOf(v)
               PROVE  /\ \E d \in Dependencies :
                           /\ d.from = c.version
                           /\ v \in Resolved(ReleasesAt(now), d.crate, d.req)'
                      /\ [version |-> v, query |-> c.query] \notin
                           MatchReleases(ReleasesAt(now), Queries)'
    OBVIOUS
  <2> DEFINE R == ReleasesAt(now)
             N == R \cup {Now(v)}
             M(X, d) == { x \in X : x.crate = d.crate /\ Matches(d.req, x.num) }
  <2>1. ReleasesAt(now)' = N
    BY PublishAdds
  <2>2. registry' = registry /\ Queries' = Queries
    BY DEF Publish, Queries
  <2>3. Dependencies \subseteq Dependencies'
    BY <2>2 DEF Publish, Dependencies, Ids, Rows
  <2>4. \A d : Resolved(ReleasesAt(now), d.crate, d.req)' = Resolved(N, d.crate, d.req)
    BY <2>1 DEF Resolved, Highest, VersionBelow, VersionLess, TripleLess, SameTriple, PreLess,
       Matches
  <2>5. MatchReleases(ReleasesAt(now), Queries)' = MatchReleases(N, Queries)
    BY <2>1, <2>2 DEF MatchReleases, Asks
  <2>6. Outcome(now) = Distinct(DirectResults(R, Dependencies, Queries))
    BY DEF Outcome, Contributions
  <2>7. Outcome(now)' = Distinct(DirectResults(N, Dependencies', Queries))
    <3>1. now' = now
      BY DEF Publish
    <3> QED BY <2>1, <2>2, <3>1 DEF Outcome, Contributions
  <2>8. c = [version |-> c.version, query |-> c.query] /\ c.version \in MostRecent(R)
    <3>1. Outcome(now) = Distinct(Contributions(R, Dependencies, Queries, registry.transitive))
      BY DEF Outcome
    <3> QED BY <3>1, ContributorsAreRecent
  <2>0. PICK d \in Dependencies : \E w :
           /\ d.from = c.version
           /\ w \in Resolved(R, d.crate, d.req)
           /\ [version |-> w, query |-> c.query] \in MatchReleases(R, Queries)
    <3>1. [version |-> c.version, query |-> c.query] \in
            Distinct(DirectResults(R, Dependencies, Queries))
      BY <2>6, <2>8
    <3> QED BY <3>1, DirectContribution
  <2>9. PICK w : /\ d.from = c.version
                 /\ w \in Resolved(R, d.crate, d.req)
                 /\ [version |-> w, query |-> c.query] \in MatchReleases(R, Queries)
    BY <2>0
  <2>10. c.version \in MostRecent(N)
    <3>1. \A r \in R : r.id = c.version => r.crate # Now(v).crate
      BY ReleaseFields DEF CrateOf, Now
    <3> QED BY <2>8, <3>1, RecentStays
  <2>11. \A u : u \in Resolved(N, d.crate, d.req) =>
            [version |-> u, query |-> c.query] \notin MatchReleases(N, Queries)
    <3>1. [version |-> c.version, query |-> c.query] \notin
            Distinct(DirectResults(N, Dependencies', Queries))
      BY <2>7, <2>8
    <3>2. d \in Dependencies' /\ d.from = c.version
      BY <2>3, <2>9
    <3> QED BY <2>10, <3>1, <3>2, DirectContribution
  <2>12. v \in Resolved(N, d.crate, d.req)
    <3> SUFFICES ASSUME v \notin Resolved(N, d.crate, d.req) PROVE FALSE
      OBVIOUS
    <3>1. PICK r \in Highest(M(R, d)) : r.id = w
      BY <2>9 DEF Resolved
    <3>2. \A x \in N : x.num \in Version /\ x.id \in Nat
      BY ReleaseFields, HistoryAssumption DEF IInv, Catalog, Now
    <3>3. r \in Highest(M(N, d))
      <4>1. CASE Now(v) \in M(N, d)
        <5>1. M(N, d) = M(R, d) \cup {Now(v)}
          BY <4>1
        <5>2. Now(v) \notin Highest(M(R, d) \cup {Now(v)})
          <6>1. Now(v).id = v
            BY DEF Now
          <6>2. Now(v) \notin Highest(M(N, d))
            BY <6>1 DEF Resolved
          <6> QED BY <5>1, <6>2
        <5>3. \A x \in M(R, d) \cup {Now(v)} : x.num \in Version /\ x.id \in Nat
          BY <3>2, <5>1
        <5> QED BY <3>1, <5>1, <5>2, <5>3, HighestStays
      <4>2. CASE Now(v) \notin M(N, d)
        <5>1. M(N, d) = M(R, d)
          BY <4>2
        <5> QED BY <3>1, <5>1
      <4> QED BY <4>1, <4>2
    <3>4. w \in Resolved(N, d.crate, d.req)
      BY <3>1, <3>3 DEF Resolved
    <3> QED BY <2>9, <2>11, <3>4, AskedStays
  <2> QED BY <2>4, <2>5, <2>9, <2>11, <2>12
<1>2. IInv /\ IInv' /\ [Next]_vars => [Step]_vars
  BY <1>1
<1> QED BY <1>2, IInvHolds, PTL DEF Spec, LossIsExplained

-----------------------------------------------------------------------------
(***************************************************************************)
(* Induction over the numbers, for a set instead of a predicate.           *)
(***************************************************************************)
LEMMA AllNumbers ==
  ASSUME NEW G, 0 \in G, \A n \in Nat : n \in G => n + 1 \in G
  PROVE  \A n \in Nat : n \in G
<1> SUFFICES ASSUME NEW k \in Nat, k \notin G PROVE FALSE
  OBVIOUS
<1> DEFINE S == { n \in Nat : n \notin G }
<1>1. PICK n \in S : \A m \in S : ~ (<<m, n>> \in OpToRel(<, Nat))
  <2>1. S \subseteq Nat /\ S # {}
    OBVIOUS
  <2> HIDE DEF S
  <2> QED BY <2>1, NatLessThanWellFounded, WFMin
<1>2. n \in Nat /\ n - 1 \in Nat /\ n - 1 < n
  OBVIOUS
<1>3. n - 1 \notin S
  <2>1. <<n - 1, n>> \in OpToRel(<, Nat)
    BY <1>2, Zenon DEF OpToRel
  <2> QED BY <1>1, <2>1
<1>4. n - 1 \in G
  BY <1>2, <1>3
<1> QED BY <1>2, <1>4

-----------------------------------------------------------------------------
(***************************************************************************)
(* The rounds of the transitive graph, as the function that Reached        *)
(* defines.                                                                *)
(***************************************************************************)
RoundStep(edges, S, after, n) == IF n = 0 THEN S ELSE Spread(edges, after[n - 1])

After(edges, S) ==
  CHOOSE after : after = [n \in 0 .. Rounds |-> RoundStep(edges, S, after, n)]

(***************************************************************************)
(* Reached is the last of the rounds.                                      *)
(***************************************************************************)
LEMMA ReachedIsAfter ==
  ASSUME NEW R, NEW D, NEW Q
  PROVE  Reached(R, D, Q) = After(Edges(R, D), CratesAsked(R, Q))[Rounds]
BY DEF Reached, After, RoundStep

(***************************************************************************)
(* There is that function, and each round adds one step of the edges to    *)
(* the one before.                                                         *)
(***************************************************************************)
LEMMA RoundsAdd ==
  ASSUME NEW edges, NEW S
  PROVE  \A n \in 0 .. Rounds : After(edges, S)[n] = RoundStep(edges, S, After(edges, S), n)
<1> DEFINE N == { n \in Nat : \E f : f = [m \in 0 .. n |-> RoundStep(edges, S, f, m)] }
<1>1. 0 \in N
  <2> DEFINE f == [m \in 0 .. 0 |-> S]
  <2>1. \A m \in 0 .. 0 : RoundStep(edges, S, f, m) = S
    BY DEF RoundStep
  <2>2. f = [m \in 0 .. 0 |-> RoundStep(edges, S, f, m)]
    BY <2>1
  <2> HIDE DEF f
  <2> QED BY <2>2
<1>2. ASSUME NEW n \in Nat, n \in N PROVE n + 1 \in N
  <2>1. PICK f : f = [m \in 0 .. n |-> RoundStep(edges, S, f, m)]
    BY <1>2
  <2> DEFINE g == [m \in 0 .. n + 1 |-> RoundStep(edges, S, f, m)]
  <2>2. \A m \in 0 .. n : g[m] = f[m]
    BY <2>1
  <2>3. \A m \in 0 .. n + 1 : m # 0 => m - 1 \in 0 .. n
    OBVIOUS
  <2>4. \A k : k = g => k = [m \in 0 .. n + 1 |-> RoundStep(edges, S, k, m)]
    <3> SUFFICES ASSUME NEW k, k = g
                 PROVE  k = [m \in 0 .. n + 1 |-> RoundStep(edges, S, k, m)]
      OBVIOUS
    <3>1. \A m \in 0 .. n + 1 : RoundStep(edges, S, f, m) = RoundStep(edges, S, k, m)
      <4> HIDE DEF g
      <4> QED BY <2>2, <2>3 DEF RoundStep
    <3> QED BY <3>1
  <2> HIDE DEF g
  <2> QED BY <2>4
<1>3. \A n \in Nat : n \in N
  <2> HIDE DEF N
  <2> QED BY <1>1, <1>2, AllNumbers
<1>4. Rounds \in N
  BY <1>3, DataflowAssumption
<1>5. \E f : f = [m \in 0 .. Rounds |-> RoundStep(edges, S, f, m)]
  BY <1>4
<1>6. After(edges, S) = [m \in 0 .. Rounds |-> RoundStep(edges, S, After(edges, S), m)]
  BY <1>5 DEF After
<1> QED BY <1>6

(***************************************************************************)
(* Edges that depart from a release to which no edge leads change nothing  *)
(* of what is reached elsewhere, in however many rounds.                   *)
(***************************************************************************)
LEMMA DeadEndsDoNotMatter ==
  ASSUME NEW E, NEW F, NEW S, NEW v, E \subseteq F,
         \A e \in F : e[2].version # v,
         \A e \in F \ E : e[1].version = v
  PROVE  \A n \in 0 .. Rounds : \A s :
           s[1].version # v => (s \in After(F, S)[n] <=> s \in After(E, S)[n])
<1> DEFINE Agree(n) == \A s : s[1].version # v => (s \in After(F, S)[n] <=> s \in After(E, S)[n])
           N == { n \in Nat : n \in 0 .. Rounds => Agree(n) }
<1>1. 0 \in N
  <2>1. 0 \in 0 .. Rounds => After(F, S)[0] = S /\ After(E, S)[0] = S
    BY RoundsAdd DEF RoundStep
  <2> QED BY <2>1
<1>2. ASSUME NEW n \in Nat, n \in N PROVE n + 1 \in N
  <2> SUFFICES ASSUME n + 1 \in 0 .. Rounds PROVE Agree(n + 1)
    OBVIOUS
  <2>1. n \in 0 .. Rounds /\ Agree(n)
    BY <1>2, DataflowAssumption
  <2>2. After(F, S)[n + 1] = Spread(F, After(F, S)[n])
    BY <2>1, RoundsAdd DEF RoundStep
  <2>3. After(E, S)[n + 1] = Spread(E, After(E, S)[n])
    BY <2>1, RoundsAdd DEF RoundStep
  <2> DEFINE A == After(E, S)[n]
             B == After(F, S)[n]
  <2>4. \A s : s[1].version # v => (s \in B <=> s \in A)
    BY <2>1
  <2> HIDE DEF A, B
  <2>5. ASSUME NEW s, s[1].version # v, s \in Spread(F, B) PROVE s \in Spread(E, A)
    <3>1. CASE s \in B
      BY <2>4, <2>5, <3>1 DEF Spread
    <3>2. CASE s \notin B
      <4>1. PICK x \in B, e \in F : e[2] = x[1] /\ s = <<e[1], x[2]>>
        BY <2>5, <3>2 DEF Spread
      <4>2. x[1].version # v /\ x \in A
        BY <2>4, <4>1
      <4>3. s[1] = e[1] /\ e \in E
        BY <2>5, <4>1
      <4> QED BY <4>1, <4>2, <4>3 DEF Spread
    <3> QED BY <3>1, <3>2
  <2>6. ASSUME NEW s, s[1].version # v, s \in Spread(E, A) PROVE s \in Spread(F, B)
    <3>1. CASE s \in A
      BY <2>4, <2>6, <3>1 DEF Spread
    <3>2. CASE s \notin A
      <4>1. PICK x \in A, e \in E : e[2] = x[1] /\ s = <<e[1], x[2]>>
        BY <2>6, <3>2 DEF Spread
      <4>2. e \in F /\ x[1].version # v /\ x \in B
        BY <2>4, <4>1
      <4> QED BY <4>1, <4>2 DEF Spread
    <3> QED BY <3>1, <3>2
  <2> QED BY <2>2, <2>3, <2>5, <2>6 DEF A, B
<1>3. \A n \in Nat : n \in N
  <2> HIDE DEF N
  <2> QED BY <1>1, <1>2, AllNumbers
<1> QED BY <1>3, DataflowAssumption

-----------------------------------------------------------------------------
(***************************************************************************)
(* A requirement resolves to a release that is there.                      *)
(***************************************************************************)
LEMMA ResolvedIsThere ==
  ASSUME NEW R, NEW crate, NEW req, NEW v \in Resolved(R, crate, req)
  PROVE  \E r \in R : r.id = v
BY DEF Resolved, Highest

(***************************************************************************)
(* The rows of a release that is not there give only edges that depart     *)
(* from it, and none leads to it.                                          *)
(***************************************************************************)
LEMMA RowsOfTheAbsent ==
  ASSUME NEW R, NEW D, NEW F, NEW v, D \subseteq F,
         \A d \in F \ D : d.from = v,
         \A r \in R : r.id # v
  PROVE  /\ Edges(R, D) \subseteq Edges(R, F)
         /\ \A e \in Edges(R, F) : e[2].version # v
         /\ \A e \in Edges(R, F) \ Edges(R, D) : e[1].version = v
<1>1. ASSUME NEW e \in DepEdges(R, F)
      PROVE  e[2].version # v /\ (e \in DepEdges(R, D) \/ e[1].version = v)
  <2>1. PICK d \in F : /\ d.kind # "Dev"
                       /\ \E w \in Resolved(R, d.crate, d.req), f \in Requested(d) :
                            e = <<Node(d.from, d.feature), Node(w, f)>>
    BY DEF DepEdges
  <2>2. PICK w \in Resolved(R, d.crate, d.req), f \in Requested(d) :
          e = <<Node(d.from, d.feature), Node(w, f)>>
    BY <2>1
  <2>3. e[2].version # v
    BY <2>2, ResolvedIsThere DEF Node
  <2>4. d \in D => e \in DepEdges(R, D)
    BY <2>1, <2>2 DEF DepEdges
  <2>5. d \notin D => e[1].version = v
    BY <2>2 DEF Node
  <2> QED BY <2>3, <2>4, <2>5
<1>2. ASSUME NEW e \in IntraEdges(R) PROVE e[2].version # v
  BY DEF IntraEdges, Node
<1>3. FeatureEdges(R, F) = FeatureEdges(R, D)
  <2> DEFINE Targets(X, i, c) == UNION { Resolved(R, d.crate, d.req) :
                                   d \in { x \in X : x.from = i /\ x.crate = c } }
  <2>1. ASSUME NEW X, NEW e
        PROVE  e \in FeatureEdges(R, X) <=>
                 \E r \in R : \E f \in r.features :
                   \E g \in { x \in f.enables : x.crate # r.crate } :
                     \E w \in Targets(X, r.id, g.crate) :
                        e = <<Node(r.id, f.id), Node(w, g.feature)>>
    <3> DEFINE Made(r, f, g) == { <<Node(r.id, f.id), Node(w, g.feature)>> :
                                    w \in Targets(X, r.id, g.crate) }
               Others(r, f) == { x \in f.enables : x.crate # r.crate }
    <3>1. FeatureEdges(R, X) =
            UNION { UNION { UNION { Made(r, f, g) : g \in Others(r, f) } : f \in r.features } :
                      r \in R }
      BY DEF FeatureEdges
    <3>2. e \in FeatureEdges(R, X) <=>
            \E r \in R : \E f \in r.features : \E g \in Others(r, f) : e \in Made(r, f, g)
      <4> HIDE DEF Made, Others
      <4> QED BY <3>1
    <3> HIDE DEF Targets
    <3> QED BY <3>2
  <2>2. ASSUME NEW r \in R, NEW c PROVE Targets(F, r.id, c) = Targets(D, r.id, c)
    <3>1. { x \in F : x.from = r.id /\ x.crate = c } = { x \in D : x.from = r.id /\ x.crate = c }
      OBVIOUS
    <3> DEFINE T(X) == UNION { Resolved(R, d.crate, d.req) : d \in X }
    <3>2. T({ x \in F : x.from = r.id /\ x.crate = c }) = T({ x \in D : x.from = r.id /\ x.crate = c })
      <4> HIDE DEF T
      <4> QED BY <3>1
    <3> QED BY <3>2
  <2> HIDE DEF Targets
  <2>3. \A e : e \in FeatureEdges(R, F) <=> e \in FeatureEdges(R, D)
    <3>1. ASSUME NEW e \in FeatureEdges(R, F) PROVE e \in FeatureEdges(R, D)
      <4>1. PICK r \in R : \E f \in r.features : \E g \in { x \in f.enables : x.crate # r.crate } :
               \E w \in Targets(F, r.id, g.crate) : e = <<Node(r.id, f.id), Node(w, g.feature)>>
        BY <2>1
      <4>2. \A g : Targets(F, r.id, g.crate) = Targets(D, r.id, g.crate)
        BY <2>2
      <4> QED BY <2>1, <4>1, <4>2
    <3>2. ASSUME NEW e \in FeatureEdges(R, D) PROVE e \in FeatureEdges(R, F)
      <4>1. PICK r \in R : \E f \in r.features : \E g \in { x \in f.enables : x.crate # r.crate } :
               \E w \in Targets(D, r.id, g.crate) : e = <<Node(r.id, f.id), Node(w, g.feature)>>
        BY <2>1
      <4>2. \A g : Targets(F, r.id, g.crate) = Targets(D, r.id, g.crate)
        BY <2>2
      <4> QED BY <2>1, <4>1, <4>2
    <3> QED BY <3>1, <3>2
  <2> QED BY <2>3
<1>4. ASSUME NEW e \in FeatureEdges(R, F) PROVE e[2].version # v
  <2>1. \E r \in R : \E f \in r.features : \E g \in f.enables :
          \E w \in UNION { Resolved(R, d.crate, d.req) :
                             d \in { x \in F : x.from = r.id /\ x.crate = g.crate } } :
            e = <<Node(r.id, f.id), Node(w, g.feature)>>
    BY DEF FeatureEdges
  <2>2. PICK r \in R : \E f \in r.features : \E g \in f.enables : \E d \in F :
          \E w \in Resolved(R, d.crate, d.req) :
            e = <<Node(r.id, f.id), Node(w, g.feature)>>
    BY <2>1
  <2>3. PICK w, g, d : w \in Resolved(R, d.crate, d.req) /\ e[2] = Node(w, g)
    BY <2>2
  <2> QED BY <2>3, ResolvedIsThere DEF Node
<1>5. DepEdges(R, D) \subseteq DepEdges(R, F)
  BY DEF DepEdges
<1> QED BY <1>1, <1>2, <1>3, <1>4, <1>5 DEF Edges

-----------------------------------------------------------------------------
(***************************************************************************)
(* So they change neither the direct nor the transitive results.           *)
(***************************************************************************)
LEMMA TheAbsentAddsNothing ==
  ASSUME NEW R, NEW D, NEW F, NEW Q, D \subseteq F,
         \A d \in F \ D : \A e \in F \ D : d.from = e.from,
         \A d \in F \ D : \A r \in R : r.id # d.from
  PROVE  /\ DirectResults(R, F, Q) = DirectResults(R, D, Q)
         /\ TransitiveResults(R, F, Q) = TransitiveResults(R, D, Q)
<1> SUFFICES ASSUME NEW new \in F \ D
             PROVE  /\ DirectResults(R, F, Q) = DirectResults(R, D, Q)
                    /\ TransitiveResults(R, F, Q) = TransitiveResults(R, D, Q)
  <2>1. F \ D = {} => F = D
    OBVIOUS
  <2> QED BY <2>1
<1> DEFINE v == new.from
<1>0. (\A d \in F \ D : d.from = v) /\ (\A r \in R : r.id # v)
  OBVIOUS
<1> HIDE DEF v
<1>1. v \notin MostRecent(R)
  BY <1>0 DEF MostRecent
<1>2. DirectResults(R, F, Q) = DirectResults(R, D, Q)
  <2> DEFINE recent(X) == { e \in DirectEdges(R, X) : e.dep.from \in MostRecent(R) }
  <2>1. ASSUME NEW e \in recent(F) PROVE e \in recent(D)
    <3>1. PICK d \in F : \E w \in Resolved(R, d.crate, d.req) : e = [dep |-> d, to |-> w]
      BY DEF DirectEdges
    <3>2. d \in D
      BY <1>0, <1>1, <2>1, <3>1
    <3>3. e \in DirectEdges(R, D)
      BY <3>1, <3>2 DEF DirectEdges
    <3> QED BY <2>1, <3>3
  <2>2. recent(D) \subseteq recent(F)
    BY DEF DirectEdges
  <2>3. recent(D) = recent(F)
    BY <2>1, <2>2
  <2> DEFINE Results(E) ==
        UNION { { [version |-> e.dep.from, query |-> m.query,
                   via |-> <<e.dep.id, e.to, CRATE>>] :
                     e \in { f \in E : f.to = m.version } } : m \in MatchReleases(R, Q) }
  <2>4. DirectResults(R, F, Q) = Results(recent(F)) /\ DirectResults(R, D, Q) = Results(recent(D))
    BY DEF DirectResults
  <2> HIDE DEF recent, Results
  <2> QED BY <2>3, <2>4
<1>3. TransitiveResults(R, F, Q) = TransitiveResults(R, D, Q)
  <2> DEFINE S == CratesAsked(R, Q)
  <2>1. \A s : s[1].version # v =>
           (s \in After(Edges(R, F), S)[Rounds] <=> s \in After(Edges(R, D), S)[Rounds])
    <3>1. /\ Edges(R, D) \subseteq Edges(R, F)
          /\ \A e \in Edges(R, F) : e[2].version # v
          /\ \A e \in Edges(R, F) \ Edges(R, D) : e[1].version = v
      BY <1>0, RowsOfTheAbsent, Zenon
    <3>4. Rounds \in 0 .. Rounds
      BY DataflowAssumption
    <3> HIDE DEF S
    <3> QED BY <3>1, <3>4, DeadEndsDoNotMatter
  <2>2. \A s : s[1].version # v => (s \in Reached(R, F, Q) <=> s \in Reached(R, D, Q))
    BY <2>1, ReachedIsAfter
  <2>3. { x \in Reached(R, F, Q) : x[1].version \in MostRecent(R) } =
        { x \in Reached(R, D, Q) : x[1].version \in MostRecent(R) }
    BY <1>1, <2>2
  <2> QED BY <2>3 DEF TransitiveResults
<1> QED BY <1>2, <1>3

(***************************************************************************)
(* In a registry of any size, with or without --transitive and for any     *)
(* number of rounds: publishing a release, with rows that are entered at   *)
(* the minimum time, changes nothing of an earlier moment.                 *)
(***************************************************************************)
THEOREM PastStaysFinal == Spec => PastIsFinal
<1> DEFINE Step == yanked' = yanked => \A t \in 1 .. now - 1 : Outcome(t)' = Outcome(t)
<1>1. ASSUME IInv, [Next]_vars, yanked' = yanked, NEW t \in 1 .. now - 1
      PROVE  /\ Outcome(t)' = Outcome(t)
  <2>1. CASE Tick \/ UNCHANGED vars
    <3>1. ReleasesAt(t)' = ReleasesAt(t)
      BY <2>1 DEF Tick, vars, ReleasesAt, Ids, Release, Catalog
    <3>2. Dependencies' = Dependencies
      BY <2>1 DEF Tick, vars, Dependencies, Ids, Rows
    <3> QED BY <2>1, <3>1, <3>2 DEF Tick, vars, Outcome, Queries
  <2>2. ASSUME NEW v \in DOMAIN Catalog, Publish(v) PROVE Outcome(t)' = Outcome(t)
    <3> DEFINE R == ReleasesAt(t)
    <3>1. Ids' = Ids \cup {v} /\ v \notin Ids /\ Catalog' = Catalog
      BY <2>2 DEF Publish, Ids, Catalog
    <3>2. \A w \in Ids : created'[w] = created[w]
      BY <2>2 DEF Publish
    <3>3. created'[v] = now /\ ~(now <= t)
      BY <1>1, <2>2 DEF Publish, IInv
    <3>4. \A w \in Ids : Release(w)' = Release(w)
      BY <3>1, <3>2 DEF Release
    <3>5. { w \in Ids' : created'[w] <= t } = { w \in Ids : created[w] <= t }
      BY <3>1, <3>2, <3>3
    <3>6. ReleasesAt(t)' = R
      <4>1. ReleasesAt(t)' = { Release(w)' : w \in { x \in Ids' : created'[x] <= t } }
        BY DEF ReleasesAt, Release
      <4> QED BY <3>4, <3>5, <4>1 DEF ReleasesAt
    <3>7. \A r \in R : r.id # v
      BY <1>1, <3>1, ReleaseFields
    <3>8. registry' = registry /\ Queries' = Queries
      BY <2>2 DEF Publish, Queries
    <3>9. Dependencies \subseteq Dependencies' /\ \A d \in Dependencies' \ Dependencies : d.from = v
      BY <2>2, <3>1, <3>8 DEF Publish, Dependencies, Rows
    <3>10. /\ DirectResults(R, Dependencies', Queries) = DirectResults(R, Dependencies, Queries)
           /\ TransitiveResults(R, Dependencies', Queries) =
                TransitiveResults(R, Dependencies, Queries)
      <4> DEFINE D == Dependencies
                 F == Dependencies'
                 Q == Queries
      <4>1. /\ D \subseteq F
            /\ \A d \in F \ D : \A e \in F \ D : d.from = e.from
            /\ \A d \in F \ D : \A r \in R : r.id # d.from
        BY <3>7, <3>9
      <4> HIDE DEF R, D, F, Q
      <4>2. /\ DirectResults(R, F, Q) = DirectResults(R, D, Q)
            /\ TransitiveResults(R, F, Q) = TransitiveResults(R, D, Q)
        BY <4>1, TheAbsentAddsNothing
      <4> QED BY <4>2 DEF D, F, Q
    <3>11. \A D : Distinct(Contributions(R, D, Queries, registry.transitive)) =
              Distinct(DirectResults(R, D, Queries) \cup
                       (IF registry.transitive THEN TransitiveResults(R, D, Queries) ELSE {}))
      BY DEF Contributions
    <3>12. /\ Outcome(t) = Distinct(Contributions(R, Dependencies, Queries, registry.transitive))
           /\ Outcome(t)' = Distinct(Contributions(R, Dependencies', Queries, registry.transitive))
      BY <3>6, <3>8 DEF Outcome
    <3> HIDE DEF R
    <3> QED BY <3>10, <3>11, <3>12
  <2>3. ASSUME NEW v \in DOMAIN Catalog, Yank(v) PROVE FALSE
    BY <1>1, <2>3 DEF Yank, IInv
  <2> QED BY <1>1, <2>1, <2>2, <2>3 DEF Next
<1>2. IInv /\ [Next]_vars => [Step]_vars
  BY <1>1
<1> QED BY <1>2, IInvHolds, PTL DEF Spec, PastIsFinal

-----------------------------------------------------------------------------
(***************************************************************************)
(* A step that leads into the closure starts in it.                        *)
(***************************************************************************)
LEMMA ClosureIsClosed ==
  ASSUME NEW S, NEW steps, NEW x \in steps, x[2] \in Closure(S, steps)
  PROVE  x[1] \in Closure(S, steps)
<1> DEFINE ends == { y[1] : y \in steps }
           Closed(T) == \A y \in steps : y[2] \in S \cup T => y[1] \in T
<1>1. \A v : v \in Closure(S, steps) <=>
               v \in S \/ (v \in ends /\ \A T \in SUBSET ends : Closed(T) => v \in T)
  BY DEF Closure
<1>2. x[1] \in ends
  OBVIOUS
<1>3. ASSUME NEW T \in SUBSET ends, Closed(T) PROVE x[1] \in T
  BY <1>1, <1>3
<1> HIDE DEF ends, Closed
<1> QED BY <1>1, <1>2, <1>3

(***************************************************************************)
(* And whatever is closed in that way has all of it.                       *)
(***************************************************************************)
LEMMA ClosureIsLeast ==
  ASSUME NEW S, NEW steps, NEW C, S \subseteq C,
         \A x \in steps : x[2] \in C => x[1] \in C
  PROVE  Closure(S, steps) \subseteq C
<1> SUFFICES ASSUME NEW v \in Closure(S, steps), v \notin S PROVE v \in C
  OBVIOUS
<1> DEFINE ends == { x[1] : x \in steps }
           T == ends \cap C
<1>1. \A x \in steps : x[2] \in S \cup T => x[1] \in T
  OBVIOUS
<1>2. T \in SUBSET ends
  OBVIOUS
<1>3. \A U \in SUBSET ends : (\A x \in steps : x[2] \in S \cup U => x[1] \in U) => v \in U
  BY DEF Closure
<1>4. v \in T
  <2> HIDE DEF T, ends
  <2> QED BY <1>1, <1>2, <1>3
<1> QED BY <1>4

(***************************************************************************)
(* An edge of the graph stays within a release, or goes along a row that   *)
(* resolves to where it leads and is not only for development unless a     *)
(* feature names it.                                                       *)
(***************************************************************************)
LEMMA EdgesFollowRows ==
  ASSUME IInv, NEW e \in Edges(ReleasesAt(now), Dependencies), e[1].version \in Ids
  PROVE  \/ e[1].version = e[2].version
         \/ <<e[1].version, e[2].version>> \in Steps(Links)
<1> DEFINE R == ReleasesAt(now)
           D == Dependencies
<1>1. ASSUME NEW d \in D, NEW v \in Resolved(R, d.crate, d.req), d.from \in Ids,
             d.kind # "Dev" \/ Named(d)
      PROVE  <<d.from, v>> \in Steps(Links)
  <2>1. d \in Links
    BY <1>1 DEF Links, Held
  <2>2. [dep |-> d, to |-> v] \in DirectEdges(R, Links)
    BY <2>1 DEF DirectEdges
  <2> QED BY <2>2 DEF Steps
<1>2. CASE e \in DepEdges(R, D)
  <2>1. PICK d \in D : /\ d.kind # "Dev"
                       /\ \E v \in Resolved(R, d.crate, d.req), f \in Requested(d) :
                            e = <<Node(d.from, d.feature), Node(v, f)>>
    BY <1>2 DEF DepEdges
  <2> QED BY <1>1, <2>1 DEF Node
<1>3. CASE e \in IntraEdges(R)
  BY <1>3 DEF IntraEdges, Node
<1>4. CASE e \in FeatureEdges(R, D)
  <2>1. \E r \in R : \E f \in r.features : \E g \in f.enables :
          \E v \in UNION { Resolved(R, d.crate, d.req) :
                             d \in { x \in D : x.from = r.id /\ x.crate = g.crate } } :
            e = <<Node(r.id, f.id), Node(v, g.feature)>>
    BY <1>4 DEF FeatureEdges
  <2>2. PICK r \in R : \E f \in r.features : \E g \in f.enables : \E d \in D :
          \E v \in Resolved(R, d.crate, d.req) :
            /\ d.from = r.id /\ d.crate = g.crate
            /\ e = <<Node(r.id, f.id), Node(v, g.feature)>>
    BY <2>1
  <2>3. PICK f, g, d, v :
          /\ f \in r.features /\ g \in f.enables
          /\ d \in D /\ v \in Resolved(R, d.crate, d.req)
          /\ d.from = r.id /\ d.crate = g.crate
          /\ e = <<Node(r.id, f.id), Node(v, g.feature)>>
    BY <2>2
  <2>4. r.features = Catalog[d.from].features /\ d.from \in Ids
    BY <2>3, ReleaseFields DEF Release
  <2>5. Named(d)
    BY <2>3, <2>4 DEF Named
  <2> QED BY <1>1, <2>3, <2>4, <2>5 DEF Node
<1> QED BY <1>2, <1>3, <1>4 DEF Edges

(***************************************************************************)
(* An edge leads to a release that is there.                               *)
(***************************************************************************)
LEMMA EdgesEndAtReleases ==
  ASSUME IInv, NEW D, NEW e \in Edges(ReleasesAt(now), D)
  PROVE  e[2].version \in Ids
<1> DEFINE v == e[2].version
<1> SUFFICES ASSUME v \notin Ids PROVE FALSE
  OBVIOUS
<1>1. \A r \in ReleasesAt(now) : r.id # v
  BY ReleaseFields
<1> HIDE DEF v
<1>2. \A x \in Edges(ReleasesAt(now), D) : x[2].version # v
  BY <1>1, RowsOfTheAbsent
<1> QED BY <1>2 DEF v

(***************************************************************************)
(* Whatever the rounds reach of a release that is there, for a query, has  *)
(* a chain of rows to what the query asks about.                           *)
(***************************************************************************)
LEMMA ReachedHasChain ==
  ASSUME IInv, NEW q \in Queries,
         NEW s \in Reached(ReleasesAt(now), Dependencies, Queries),
         s[2] = q.id, s[1].version \in Ids
  PROVE  s[1].version \in Closure(Asked(q), Steps(Links))
<1> DEFINE E == Edges(ReleasesAt(now), Dependencies)
           S == CratesAsked(ReleasesAt(now), Queries)
           C == Closure(Asked(q), Steps(Links))
           Chained(X) == \A x \in X : x[2] = q.id /\ x[1].version \in Ids => x[1].version \in C
           N == { n \in Nat : n \in 0 .. Rounds => Chained(After(E, S)[n]) }
<1>1. 0 \in N
  <2>1. 0 \in 0 .. Rounds => After(E, S)[0] = S
    BY RoundsAdd DEF RoundStep
  <2>2. ASSUME NEW x \in S, x[2] = q.id PROVE x[1].version \in C
    <3>1. PICK m \in MatchReleases(ReleasesAt(now), Queries) :
            x = <<Node(m.version, CRATE), m.query>>
      BY DEF CratesAsked
    <3>2. x[1].version \in Asked(q)
      BY <2>2, <3>1 DEF Asked, Node
    <3> QED BY <3>2 DEF Closure
  <2> HIDE DEF S, C
  <2> QED BY <2>1, <2>2
<1>2. ASSUME NEW n \in Nat, n \in N PROVE n + 1 \in N
  <2> SUFFICES ASSUME n + 1 \in 0 .. Rounds PROVE Chained(After(E, S)[n + 1])
    OBVIOUS
  <2>1. n \in 0 .. Rounds /\ Chained(After(E, S)[n])
    BY <1>2, DataflowAssumption
  <2>2. After(E, S)[n + 1] = Spread(E, After(E, S)[n])
    BY <2>1, RoundsAdd DEF RoundStep
  <2> DEFINE A == After(E, S)[n]
  <2>3. Chained(A)
    BY <2>1
  <2> HIDE DEF A
  <2>4. ASSUME NEW x \in Spread(E, A), x[2] = q.id, x[1].version \in Ids
        PROVE  x[1].version \in C
    <3>1. CASE x \in A
      BY <2>3, <2>4, <3>1
    <3>2. CASE x \notin A
      <4>1. PICK y \in A, e \in E : e[2] = y[1] /\ x = <<e[1], y[2]>>
        BY <3>2 DEF Spread
      <4>2. e[2].version \in Ids
        BY EdgesEndAtReleases
      <4>3. e[2].version \in C
        BY <2>3, <2>4, <4>1, <4>2
      <4>4. x[1] = e[1]
        BY <4>1
      <4>5. \/ e[1].version = e[2].version
            \/ <<e[1].version, e[2].version>> \in Steps(Links)
        BY <2>4, <4>4, EdgesFollowRows
      <4>6. ASSUME NEW z \in Steps(Links), z[2] \in C PROVE z[1] \in C
        BY <4>6, ClosureIsClosed
      <4> HIDE DEF C
      <4>7. CASE <<e[1].version, e[2].version>> \in Steps(Links)
        <5> DEFINE z == <<e[1].version, e[2].version>>
        <5>1. z[1] = e[1].version /\ z[2] = e[2].version
          OBVIOUS
        <5> QED BY <4>3, <4>4, <4>6, <4>7, <5>1
      <4> QED BY <4>3, <4>4, <4>5, <4>7
    <3> QED BY <3>1, <3>2
  <2> QED BY <2>2, <2>4 DEF A
<1>3. \A n \in Nat : n \in N
  <2> HIDE DEF N
  <2> QED BY <1>1, <1>2, AllNumbers
<1>4. Chained(After(E, S)[Rounds])
  BY <1>3, DataflowAssumption
<1> QED BY <1>4, ReachedIsAfter

(***************************************************************************)
(* In a registry of any size and for any number of rounds: who is counted  *)
(* has a chain of dependencies to what is asked about, and only a single   *)
(* step may be of a dev-dependency that no feature names.                  *)
(***************************************************************************)
THEOREM CountedDepend == Spec => []CountedAreDependents
<1> DEFINE R == ReleasesAt(now)
           D == Dependencies
<1>1. ASSUME IInv, NEW q \in Queries, NEW v \in Counted(q)
      PROVE  v \in Closure(Asked(q), Steps(Links)) \cup
                     { s[1] : s \in { x \in Steps(Held) : x[2] \in Asked(q) } }
  <2>1. PICK c \in Outcome(now) : c.query = q.id /\ c.version = v
    BY DEF Counted
  <2>2. v \in MostRecent(R) /\ c = [version |-> v, query |-> q.id]
    BY <2>1, ContributorsAreRecent DEF Outcome
  <2>3. v \in Ids
    BY <1>1, <2>2, ReleaseFields DEF MostRecent
  <2>4. PICK b \in Contributions(R, D, Queries, registry.transitive) :
          b.version = v /\ b.query = q.id
    BY <2>1 DEF Outcome, Distinct
  <2>5. CASE b \in DirectResults(R, D, Queries)
    <3>1. [version |-> v, query |-> q.id] \in Distinct(DirectResults(R, D, Queries))
      BY <2>4, <2>5 DEF Distinct
    <3>2. PICK d \in D : \E w : /\ d.from = v
                                /\ w \in Resolved(R, d.crate, d.req)
                                /\ [version |-> w, query |-> q.id] \in MatchReleases(R, Queries)
      BY <3>1, DirectContribution, Z3
    <3> PICK w : /\ w \in Resolved(R, d.crate, d.req)
                 /\ [version |-> w, query |-> q.id] \in MatchReleases(R, Queries)
      BY <3>2
    <3>3. [dep |-> d, to |-> w] \in DirectEdges(R, Held)
      <4>1. d \in Held
        BY <2>3, <3>2 DEF Held
      <4> QED BY <4>1 DEF DirectEdges
    <3>4. <<v, w>> \in Steps(Held)
      BY <3>2, <3>3 DEF Steps
    <3>5. w \in Asked(q)
      BY <3>2 DEF Asked
    <3> QED BY <3>4, <3>5
  <2>6. CASE b \in TransitiveResults(R, D, Queries)
    <3>1. PICK s \in Reached(R, D, Queries) : s[1].version = v /\ s[2] = q.id
      BY <2>4, <2>6 DEF TransitiveResults
    <3> QED BY <1>1, <2>3, <3>1, ReachedHasChain
  <2> QED BY <2>4, <2>5, <2>6 DEF Contributions
<1>2. IInv => CountedAreDependents
  BY <1>1 DEF CountedAreDependents
<1> QED BY <1>2, IInvHolds, PTL

-----------------------------------------------------------------------------
(***************************************************************************)
(* The rounds suffice: another one would reach nothing more.  With 2^16 of *)
(* them this is so unless the shortest chain to some feature of a release  *)
(* is longer.                                                              *)
(***************************************************************************)
Settled ==
  LET reached == Reached(ReleasesAt(now), Dependencies, Queries)
  IN Spread(Edges(ReleasesAt(now), Dependencies), reached) \subseteq reached

(***************************************************************************)
(* No round loses what was there before it.                                *)
(***************************************************************************)
LEMMA AskedIsReached ==
  ASSUME NEW R, NEW D, NEW Q
  PROVE  CratesAsked(R, Q) \subseteq Reached(R, D, Q)
<1> DEFINE E == Edges(R, D)
           S == CratesAsked(R, Q)
           N == { n \in Nat : n \in 0 .. Rounds => S \subseteq After(E, S)[n] }
<1> HIDE DEF E, S
<1>1. 0 \in N
  <2>1. 0 \in 0 .. Rounds => After(E, S)[0] = S
    BY RoundsAdd DEF RoundStep
  <2> QED BY <2>1
<1>2. ASSUME NEW n \in Nat, n \in N PROVE n + 1 \in N
  <2> SUFFICES ASSUME n + 1 \in 0 .. Rounds PROVE S \subseteq After(E, S)[n + 1]
    OBVIOUS
  <2>1. n \in 0 .. Rounds /\ S \subseteq After(E, S)[n]
    BY <1>2, DataflowAssumption
  <2>2. After(E, S)[n + 1] = Spread(E, After(E, S)[n])
    BY <2>1, RoundsAdd DEF RoundStep
  <2>3. After(E, S)[n] \subseteq Spread(E, After(E, S)[n])
    BY DEF Spread
  <2> QED BY <2>1, <2>2, <2>3
<1>3. \A n \in Nat : n \in N
  <2> HIDE DEF N
  <2> QED BY <1>1, <1>2, AllNumbers
<1> QED BY <1>3, DataflowAssumption, ReachedIsAfter DEF E, S

(***************************************************************************)
(* The rounds suffice if there are as many as there are pairs of a node    *)
(* with an edge and a query: until nothing is added, a round adds one.     *)
(***************************************************************************)
Places(E, S) == S \cup { <<e[1], s[2]>> : e \in E, s \in S }

LEMMA EnoughRoundsSettle ==
  ASSUME NEW E, NEW S, IsFiniteSet(Places(E, S)), Cardinality(Places(E, S)) <= Rounds
  PROVE  Spread(E, After(E, S)[Rounds]) \subseteq After(E, S)[Rounds]
<1> DEFINE P == Places(E, S)
           A(n) == After(E, S)[n]
           Grown(n) == /\ A(n) \subseteq P
                       /\ Spread(E, A(n)) \subseteq A(n) \/ n <= Cardinality(A(n))
           N == { n \in Nat : n \in 0 .. Rounds => Grown(n) }
<1>0. ASSUME NEW X, X \subseteq P
      PROVE  X \subseteq Spread(E, X) /\ Spread(E, X) \subseteq P
  <2>1. ASSUME NEW x \in X, NEW e \in E PROVE <<e[1], x[2]>> \in P
    <3>1. \E s \in S : s[2] = x[2]
      BY <1>0 DEF Places
    <3> QED BY <3>1 DEF Places
  <2>2. Spread(E, X) \subseteq P
    <3> HIDE DEF P
    <3> QED BY <1>0, <2>1 DEF Spread
  <2> QED BY <2>2 DEF Spread
<1>1. 0 \in N
  <2>1. 0 \in 0 .. Rounds => A(0) = S
    BY RoundsAdd DEF RoundStep
  <2>2. S \subseteq P
    BY DEF Places
  <2>3. Cardinality(S) \in Nat
    BY <2>2, FS_Subset, FS_CardinalityType
  <2> HIDE DEF A
  <2> QED BY <2>1, <2>2, <2>3
<1>2. ASSUME NEW n \in Nat, n \in N PROVE n + 1 \in N
  <2> SUFFICES ASSUME n + 1 \in 0 .. Rounds PROVE Grown(n + 1)
    OBVIOUS
  <2>1. n \in 0 .. Rounds /\ Grown(n)
    BY <1>2, DataflowAssumption
  <2>2. A(n + 1) = Spread(E, A(n))
    BY <2>1, RoundsAdd DEF RoundStep
  <2> DEFINE X == A(n)
  <2>3. X \subseteq P /\ (Spread(E, X) \subseteq X \/ n <= Cardinality(X))
    BY <2>1
  <2>4. X \subseteq Spread(E, X) /\ Spread(E, X) \subseteq P
    BY <1>0, <2>3
  <2>5. SUFFICES Spread(E, Spread(E, X)) \subseteq Spread(E, X)
                   \/ n + 1 <= Cardinality(Spread(E, X))
    BY <2>2, <2>4
  <2> HIDE DEF X, P
  <2>6. CASE Spread(E, X) \subseteq X
    <3>1. Spread(E, X) = X
      BY <2>4, <2>6
    <3> QED BY <3>1, <2>6
  <2>7. CASE ~(Spread(E, X) \subseteq X)
    <3>1. IsFiniteSet(Spread(E, X)) /\ X # Spread(E, X)
      BY <2>4, <2>7, FS_Subset DEF P
    <3>2. /\ Cardinality(X) <= Cardinality(Spread(E, X))
          /\ Cardinality(X) # Cardinality(Spread(E, X))
      BY <2>4, <3>1, FS_Subset
    <3>3. Cardinality(X) \in Nat /\ Cardinality(Spread(E, X)) \in Nat
      BY <2>4, <3>1, FS_Subset, FS_CardinalityType
    <3> QED BY <2>3, <2>7, <3>2, <3>3
  <2> QED BY <2>6, <2>7
<1>3. \A n \in Nat : n \in N
  <2> HIDE DEF N
  <2> QED BY <1>1, <1>2, AllNumbers
<1>4. Rounds \in N
  BY <1>3, DataflowAssumption
<1>5. Rounds \in 0 .. Rounds => Grown(Rounds)
  BY <1>4
<1>6. Grown(Rounds)
  <2> HIDE DEF Grown
  <2> QED BY <1>5, DataflowAssumption
<1> DEFINE X == A(Rounds)
<1>7. X \subseteq P /\ (Spread(E, X) \subseteq X \/ Rounds <= Cardinality(X))
  BY <1>6
<1> HIDE DEF X, P
<1>8. CASE Rounds <= Cardinality(X)
  <2>1. Cardinality(X) <= Cardinality(P) /\ (Cardinality(X) = Cardinality(P) => X = P)
    BY <1>7, FS_Subset DEF P
  <2>2. Cardinality(P) <= Rounds /\ Cardinality(P) \in Nat /\ Cardinality(X) \in Nat
    BY <1>7, FS_Subset, FS_CardinalityType DEF P
  <2>3. X = P
    BY <1>8, <2>1, <2>2, DataflowAssumption
  <2> QED BY <1>0, <2>3 DEF X
<1> QED BY <1>7, <1>8 DEF X

(***************************************************************************)
(* The search goes back along a firm row from crate to crate: some feature *)
(* the row asks for is CRATE, or leads to it.                              *)
(***************************************************************************)
LEMMA FirmRowsSpread ==
  ASSUME IInv, Settled, NEW i, NEW d \in FirmRows,
         NEW v \in Resolved(ReleasesAt(now), d.crate, d.req),
         <<Node(v, CRATE), i>> \in Reached(ReleasesAt(now), Dependencies, Queries)
  PROVE  <<Node(d.from, CRATE), i>> \in Reached(ReleasesAt(now), Dependencies, Queries)
<1> DEFINE R == ReleasesAt(now)
           E == Edges(R, Dependencies)
           X == Reached(R, Dependencies, Queries)
<1>1. ASSUME NEW a, NEW b, <<a, b>> \in E, <<b, i>> \in X PROVE <<a, i>> \in X
  <2>1. <<a, i>> \in Spread(E, X)
    <3> DEFINE s == <<b, i>>
               e == <<a, b>>
    <3>1. s \in X /\ e \in E /\ e[2] = s[1] /\ <<a, i>> = <<e[1], s[2]>>
      BY <1>1
    <3> HIDE DEF s, e, X, E
    <3> QED BY <3>1 DEF Spread
  <2> QED BY <2>1 DEF Settled
<1>2. d \in Dependencies /\ d.kind # "Dev" /\ d.feature = CRATE /\ Requested(d) \subseteq Declared(v)
  BY DEF FirmRows, Firm
<1>3. PICK f \in Requested(d) : TRUE
  BY DEF Requested
<1>4. <<Node(v, f), i>> \in X
  <2>1. CASE f = CRATE
    BY <2>1
  <2>2. CASE f # CRATE
    <3>1. PICK r \in R : r.id = v
      BY ResolvedIsThere
    <3>2. r.features = Catalog[v].features
      BY <3>1, ReleaseFields DEF Release
    <3>3. f \in {DEFAULT} \cup { x.id : x \in r.features }
      BY <1>2, <1>3, <2>2, <3>2 DEF Declared
    <3>4. <<Node(v, f), Node(v, CRATE)>> \in IntraEdges(R)
      BY <3>1, <3>3 DEF IntraEdges
    <3> QED BY <1>1, <3>4 DEF Edges
  <2> QED BY <2>1, <2>2
<1>5. <<Node(d.from, CRATE), Node(v, f)>> \in DepEdges(R, Dependencies)
  BY <1>2, <1>3 DEF DepEdges
<1> QED BY <1>1, <1>4, <1>5 DEF Edges

(***************************************************************************)
(* In a registry of any size: as long as the rounds suffice, every chain   *)
(* of firm dependencies to what is asked about is counted.                 *)
(***************************************************************************)
THEOREM ChainsCount == Spec => [](Settled => ChainsAreCounted)
<1> DEFINE R == ReleasesAt(now)
           X == Reached(R, Dependencies, Queries)
<1>1. ASSUME IInv, Settled, registry.transitive, NEW q \in Queries,
             NEW v \in Closure(Asked(q), Steps(FirmRows)), v \in MostRecent(R)
      PROVE  v \in Counted(q)
  <2> DEFINE C == { w \in Closure(Asked(q), Steps(FirmRows)) :
                      <<Node(w, CRATE), q.id>> \in X }
  <2>1. Asked(q) \subseteq C
    <3>1. ASSUME NEW w \in Asked(q) PROVE <<Node(w, CRATE), q.id>> \in X
      BY AskedIsReached DEF Asked, CratesAsked
    <3> QED BY <3>1 DEF Closure
  <2>2. ASSUME NEW x \in Steps(FirmRows), x[2] \in C PROVE x[1] \in C
    <3>1. PICK e \in DirectEdges(R, FirmRows) : x = <<e.dep.from, e.to>>
      BY DEF Steps
    <3>2. e.dep \in FirmRows /\ e.to \in Resolved(R, e.dep.crate, e.dep.req)
      BY DEF DirectEdges
    <3>3. x[1] = e.dep.from /\ x[2] = e.to
      BY <3>1
    <3>4. <<Node(x[1], CRATE), q.id>> \in X
      BY <1>1, <2>2, <3>2, <3>3, FirmRowsSpread
    <3>5. x[1] \in Closure(Asked(q), Steps(FirmRows))
      BY <2>2, ClosureIsClosed
    <3> QED BY <3>4, <3>5
  <2>3. <<Node(v, CRATE), q.id>> \in X
    <3> HIDE DEF X
    <3>1. Closure(Asked(q), Steps(FirmRows)) \subseteq C
      <4> HIDE DEF C
      <4> QED BY <2>1, <2>2, ClosureIsLeast
    <3> QED BY <3>1
  <2> DEFINE s == <<Node(v, CRATE), q.id>>
             c == [version |-> s[1].version, query |-> s[2], via |-> <<0, 0, s[1].feature>>]
  <2>4. s[1].version = v /\ s[2] = q.id
    BY DEF Node
  <2>5. c \in TransitiveResults(R, Dependencies, Queries)
    BY <1>1, <2>3, <2>4 DEF TransitiveResults
  <2>6. c \in Contributions(R, Dependencies, Queries, registry.transitive)
    BY <1>1, <2>5 DEF Contributions
  <2>7. [version |-> c.version, query |-> c.query] \in Outcome(now)
    BY <2>6 DEF Outcome, Distinct
  <2>8. c.version = v /\ c.query = q.id
    BY <2>4
  <2> HIDE DEF c
  <2> QED BY <2>7, <2>8 DEF Counted
<1>2. IInv => (Settled => ChainsAreCounted)
  BY <1>1 DEF ChainsAreCounted
<1> QED BY <1>2, IInvHolds, PTL

(***************************************************************************)
(* So with a round for every pair of a node and a query all chains are     *)
(* counted, whatever the registry.                                         *)
(***************************************************************************)
Enough ==
  LET places == Places(Edges(ReleasesAt(now), Dependencies),
                       CratesAsked(ReleasesAt(now), Queries))
  IN IsFiniteSet(places) /\ Cardinality(places) <= Rounds

COROLLARY ChainsCountWithin == Spec => [](Enough => ChainsAreCounted)
<1>1. Enough => Settled
  <2> SUFFICES ASSUME Enough PROVE Settled
    OBVIOUS
  <2> DEFINE E == Edges(ReleasesAt(now), Dependencies)
             S == CratesAsked(ReleasesAt(now), Queries)
  <2>1. IsFiniteSet(Places(E, S)) /\ Cardinality(Places(E, S)) <= Rounds
    BY DEF Enough
  <2>2. Spread(E, After(E, S)[Rounds]) \subseteq After(E, S)[Rounds]
    <3> HIDE DEF E, S
    <3> QED BY <2>1, EnoughRoundsSettle
  <2> QED BY <2>2, ReachedIsAfter DEF Settled
<1> QED BY <1>1, ChainsCount, PTL
=============================================================================
