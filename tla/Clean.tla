------------------------------- MODULE Clean --------------------------------
(***************************************************************************)
(* What happens to a loaded dump before the dataflow sees it: the releases *)
(* of excluded crates are dropped (filter.rs), the rest is sorted by time  *)
(* (main.rs), and requirements that would match a release incompatible     *)
(* with everything published at the time are replaced (clean.rs).          *)
(*                                                                         *)
(*   release  [id, crate, num, time]        row  [id, from, crate, req]    *)
(***************************************************************************)
EXTENDS Semver, FiniteSets

CONSTANTS Dumps,      \* the dumps load may return: [releases, rows]
          Excludes,   \* the sets of crates that --exclude may match
          Limit       \* version numbers are below it: 2^64

\* Every release of every dump.
Loadable == UNION { { d.releases[i] : i \in DOMAIN d.releases } : d \in Dumps }

\* The numbers of a version are those of the type u64.
Fits(v) == v.major < Limit /\ v.minor < Limit /\ v.patch < Limit

ASSUME CleanAssumption ==
  /\ Limit \in Nat \ {0, 1}
  /\ \A r \in Loadable : r.num \in Version /\ Fits(r.num) /\ r.time \in Nat
  /\ \A d \in Dumps :
       /\ d.releases \in Seq(Loadable)
       /\ \A i, j \in DOMAIN d.releases :
             d.releases[i].id = d.releases[j].id => i = j
       /\ \A x \in d.rows : x.req \in Seq(Comparator)

VARIABLES releases,   \* db_dump.releases
          rows,       \* db_dump.dependencies, as loaded
          req,        \* row -> its requirement now
          exclude,
          stage,      \* the next call of main
          next,       \* index of the release clean looks at next
          highest     \* crate_max_version
vars == <<releases, rows, req, exclude, stage, next, highest>>

Init ==
  /\ \E d \in Dumps : releases = d.releases /\ rows = d.rows
  /\ exclude \in Excludes
  /\ req = [d \in rows |-> d.req]
  /\ stage = "filter"
  /\ next = 1
  /\ highest = << >>

Filter ==
  /\ stage = "filter"
  /\ LET kept == { i \in DOMAIN releases : releases[i].crate \notin exclude }
     IN \E p \in [1 .. Cardinality(kept) -> kept] :
          /\ \A i, j \in DOMAIN p : i < j => p[i] < p[j]
          /\ releases' = [i \in DOMAIN p |-> releases[p[i]]]
  /\ stage' = "sort"
  /\ UNCHANGED <<rows, req, exclude, next, highest>>

\* Mutant: cleaning in the order of loading.
SkipSort ==
  /\ stage = "sort"
  /\ stage' = "clean"
  /\ UNCHANGED <<releases, rows, req, exclude, next, highest>>

\* sort_by_key is stable.
SortByTime ==
  /\ stage = "sort"
  /\ \E p \in [DOMAIN releases -> DOMAIN releases] :
       /\ \A i, j \in DOMAIN releases : i < j =>
            \/ releases[p[i]].time < releases[p[j]].time
            \/ releases[p[i]].time = releases[p[j]].time /\ p[i] < p[j]
       /\ releases' = [i \in DOMAIN releases |-> releases[p[i]]]
  /\ stage' = "clean"
  /\ UNCHANGED <<rows, req, exclude, next, highest>>

-----------------------------------------------------------------------------
Plain(major, minor, patch) ==
  [major |-> major, minor |-> minor, patch |-> patch, pre |-> NoPre]

Increment(n) == (n + 1) % Limit

\* A release incompatible with v.
Incompatible(v) ==
  IF v.major > 0 THEN Plain(Increment(v.major), 0, 0)
  ELSE IF v.minor > 0 THEN Plain(0, Increment(v.minor), 0)
  ELSE Plain(0, 0, Increment(v.patch))

\* Mutant: the requirement ^major.
CaretOfMajor(v) == <<[op |-> "Caret", major |-> v.major, minor |-> Absent,
                      patch |-> Absent, pre |-> NoPre]>>

\* The requirement ^major.minor.patch, without the tag v may have.
CaretOf(v) == <<[op |-> "Caret", major |-> v.major, minor |-> v.minor,
                 patch |-> v.patch, pre |-> NoPre]>>

\* Mutant: only a requirement without comparators counts as silly.
ConstrainStars(r, max) == IF r = << >> THEN CaretOf(max) ELSE r

Constrain(r, max) == IF Matches(r, Incompatible(max)) THEN CaretOf(max) ELSE r

\* Mutant: the first release of a crate is not entered.
RaiseKnown(rel) ==
  [c \in DOMAIN highest |->
     IF c # rel.crate \/ VersionLess(rel.num, highest[c])
     THEN highest[c] ELSE rel.num]

\* crate_max_version once rel is published.
Raise(rel) ==
  [c \in DOMAIN highest \cup {rel.crate} |->
     IF c # rel.crate THEN highest[c]
     ELSE IF c \in DOMAIN highest /\ VersionLess(rel.num, highest[c])
     THEN highest[c] ELSE rel.num]

\* One turn of the loop over the releases.
CleanRelease ==
  /\ stage = "clean" /\ next <= Len(releases)
  /\ highest' = Raise(releases[next])
  /\ req' = [d \in rows |->
       IF d.from = releases[next].id /\ d.crate \in DOMAIN highest'
       THEN Constrain(req[d], highest'[d.crate]) ELSE req[d]]
  /\ next' = next + 1
  /\ UNCHANGED <<releases, rows, exclude, stage>>

CleanEnds ==
  /\ stage = "clean" /\ next > Len(releases)
  /\ stage' = "total"
  /\ UNCHANGED <<releases, rows, req, exclude, next, highest>>

Next == Filter \/ SortByTime \/ CleanRelease \/ CleanEnds

Spec == Init /\ [][Next]_vars

-----------------------------------------------------------------------------
(***************************************************************************)
(* A type invariant.                                                       *)
(***************************************************************************)
TypeOK ==
  /\ stage \in {"filter", "sort", "clean", "total"}
  /\ next \in 1 .. Len(releases) + 1
  /\ DOMAIN req = rows
  /\ DOMAIN highest =
       { releases[i].crate : i \in 1 .. next - 1 }

\* What is published on c when release r is: earlier, or just before it.
Published(r, c) == { releases[i] : i \in { j \in DOMAIN releases :
                       releases[j].crate = c /\ releases[j].time <= r.time } }

Visited == { releases[i] : i \in 1 .. next - 1 }

Rewritten == { d \in rows : req[d] # d.req }

(***************************************************************************)
(* A requirement is judged by what was published at the time, never by a   *)
(* later release: it is replaced only by the caret of a version of its     *)
(* crate created no later than the release it belongs to, and no lower     *)
(* than any version created before.  Holds because main sorts before it    *)
(* cleans.                                                                 *)
(***************************************************************************)
JudgedByThePast ==
  \A r \in Visited : \A d \in { x \in Rewritten : x.from = r.id } :
     \E s \in Published(r, d.crate) :
        /\ req[d] = CaretOf(s.num)
        /\ \A t \in Published(r, d.crate) :
              t.time < r.time => ~VersionLess(s.num, t.num)

(***************************************************************************)
(* No requirement that clean has looked at and whose crate was known       *)
(* admits the next incompatible release of every version published before  *)
(* it: not before cleaning, or not any more.                               *)
(***************************************************************************)
NoneIsOpenEnded ==
  \A r \in Visited : \A d \in { x \in rows : x.from = r.id } :
     \A s \in Published(r, d.crate) :
        (\A t \in Published(r, d.crate) : ~VersionLess(s.num, t.num)
                                          /\ t.time < r.time)
           => ~Matches(req[d], Incompatible(s.num))

(***************************************************************************)
(* Cleaning takes nothing from a requirement that its release could use at *)
(* the time: if the requirement as declared admits the highest published   *)
(* version, which has no tag, the replacement admits it as well, and       *)
(* admits no released version that the declared one does not.              *)
(***************************************************************************)
KeepsWhatItNarrows ==
  \A r \in Visited : \A d \in { x \in Rewritten : x.from = r.id } :
     \A s \in Published(r, d.crate) :
        ( /\ req[d] = CaretOf(s.num)
          /\ s.num.pre = NoPre
          /\ Matches(d.req, s.num)
          /\ \A n \in {s.num.major, s.num.minor, s.num.patch} : n + 1 < Limit )
           => /\ Matches(req[d], s.num)
              /\ \A i \in DOMAIN releases :
                   (releases[i].crate = d.crate /\ releases[i].num.pre = NoPre
                      /\ Matches(req[d], releases[i].num))
                        => Matches(d.req, releases[i].num)

-----------------------------------------------------------------------------
(***************************************************************************)
(* args.rs: "Ignore a dependency coming from any crates matching regex":   *)
(* a dependency that comes from another crate keeps what it could resolve  *)
(* to.                                                                     *)
(***************************************************************************)
ExcludeIgnoresSources ==
  [][Filter => \A d \in rows, r \in { releases[i] : i \in DOMAIN releases } :
       (d.from = r.id /\ r.crate \notin exclude) =>
          \A i \in DOMAIN releases :
             (releases[i].crate = d.crate /\ Matches(d.req, releases[i].num))
                => \E j \in DOMAIN releases' : releases'[j] = releases[i]]_vars
=============================================================================
