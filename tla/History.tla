------------------------------ MODULE History -------------------------------
(***************************************************************************)
(* The history of a registry, one publication at a time, and what the      *)
(* dataflow makes of it.  The state is the database dump a run would load: *)
(* time passes, releases appear with their dependency rows, and a yanked   *)
(* release disappears while its rows stay (load.rs skips yanked versions   *)
(* and enters every row).                                                  *)
(***************************************************************************)
EXTENDS Dataflow

(***************************************************************************)
(* A registry is what may be published and what is asked about it:         *)
(*   catalog      version id -> [crate, num, features]                     *)
(*   rows         the dependency rows of the releases in the catalog       *)
(*   queries      the queries asked                                        *)
(*   transitive   whether --transitive is given                            *)
(***************************************************************************)
CONSTANTS Registries,   \* the registries considered
          MaxTime,      \* bound on the clock
          MaxReleases,  \* bound on the number of releases published
          MaxYanks      \* bound on the number of releases yanked

ASSUME HistoryAssumption ==
  /\ MaxTime \in Nat
  /\ MaxReleases \in Nat
  /\ MaxYanks \in Nat
  /\ \A g \in Registries :
       /\ DOMAIN g.catalog \subseteq Nat
       /\ \A d \in g.rows : d.from \in DOMAIN g.catalog
       /\ \A v \in DOMAIN g.catalog : g.catalog[v].num \in Version
       /\ g.transitive \in BOOLEAN

VARIABLES registry,     \* the registry of this behaviour
          created,      \* version id -> created_at, for what is published
          yanked,       \* the version ids yanked
          now
vars == <<registry, created, yanked, now>>

Catalog == registry.catalog
Rows    == registry.rows
Queries == registry.queries

Ids == DOMAIN created

Release(v) == [id |-> v, crate |-> Catalog[v].crate, num |-> Catalog[v].num,
               time |-> created[v], features |-> Catalog[v].features]

(***************************************************************************)
(* What the sessions of the dataflow hold once it has advanced to t: the   *)
(* releases created up to t, but every dependency row and every query,     *)
(* which are inserted at the minimum time.                                 *)
(***************************************************************************)
ReleasesAt(t) == { Release(v) : v \in { w \in Ids : created[w] <= t } }
Dependencies  == { d \in Rows : d.from \in Ids \cup yanked }

Outcome(t) ==
  Distinct(Contributions(ReleasesAt(t), Dependencies, Queries, registry.transitive))

TallyAt(t, q) ==
  Tally(ReleasesAt(t), Dependencies, Queries, registry.transitive, q)

Init == registry \in Registries /\ created = [v \in {} |-> 0] /\ yanked = {} /\ now = 1

Publish(v) ==
  /\ v \notin Ids \cup yanked
  /\ Cardinality(Ids) < MaxReleases
  /\ \A w \in Ids \cup yanked : <<Catalog[w].crate, Catalog[w].num>> #
                    <<Catalog[v].crate, Catalog[v].num>>
  /\ created' = [w \in Ids \cup {v} |-> IF w = v THEN now ELSE created[w]]
  /\ UNCHANGED <<registry, yanked, now>>

Yank(v) ==
  /\ v \in Ids
  /\ Cardinality(yanked) < MaxYanks
  /\ created' = [w \in Ids \ {v} |-> created[w]]
  /\ yanked' = yanked \cup {v}
  /\ UNCHANGED <<registry, now>>

Tick == now < MaxTime /\ now' = now + 1 /\ UNCHANGED <<registry, created, yanked>>

Next == Tick \/ \E v \in DOMAIN Catalog : Publish(v) \/ Yank(v)

Spec == Init /\ [][Next]_vars

-----------------------------------------------------------------------------
CrateOf(v) == Catalog[v].crate

(***************************************************************************)
(* A tally counts crates: no crate contributes twice to a query, however   *)
(* many of its releases, rows, predicates or features lead to it.  Relies  *)
(* on the tie-breaks of most_recent_crate_version and on the final         *)
(* distinct().                                                             *)
(***************************************************************************)
CountsCrates ==
  \A q \in Queries :
    TallyAt(now, q.id) =
      Cardinality({ CrateOf(c.version) :
                      c \in { x \in Outcome(now) : x.query = q.id } })

(***************************************************************************)
(* A run on tomorrow's dump draws the same past: publishing a release, and *)
(* with it dependency rows that the dataflow inserts at the minimum time,  *)
(* changes no tally of an earlier moment.  Only a yank does.               *)
(***************************************************************************)
PastIsFinal ==
  [][yanked' = yanked => \A t \in 1 .. now - 1 : Outcome(t)' = Outcome(t)]_vars

(***************************************************************************)
(* A dependency that resolves keeps resolving, and never to a lower        *)
(* version, as releases are published.                                     *)
(***************************************************************************)
ResolutionNeverRegresses ==
  [][yanked' = yanked => \A d \in Dependencies :
       \A v \in Resolved(ReleasesAt(now), d.crate, d.req) :
         \E w \in Resolved(ReleasesAt(now), d.crate, d.req)' :
            ~VersionLess(Catalog[w].num, Catalog[v].num)]_vars

(***************************************************************************)
(* A crate that published nothing leaves a tally of direct dependents only *)
(* because a row of its now resolves to the release just published, which  *)
(* the query does not ask about.                                           *)
(***************************************************************************)
LossIsExplained ==
  [][\A v \in DOMAIN Catalog : Publish(v) /\ ~registry.transitive =>
       \A c \in Outcome(now) \ Outcome(now)' :
         \/ CrateOf(c.version) = CrateOf(v)
         \/ /\ \E d \in Dependencies :
                 /\ d.from = c.version
                 /\ v \in Resolved(ReleasesAt(now), d.crate, d.req)'
            /\ [version |-> v, query |-> c.query] \notin
                  MatchReleases(ReleasesAt(now), Queries)']_vars

-----------------------------------------------------------------------------
(***************************************************************************)
(* The transitive tally against paths of releases.                         *)
(***************************************************************************)
Steps(D) == { <<e.dep.from, e.to>> : e \in DirectEdges(ReleasesAt(now), D) }

\* Everything from which a path of steps leads into S: the least set that S
\* and the steps into it require.
Closure(S, steps) ==
  LET ends == { x[1] : x \in steps }
  IN S \cup { v \in ends : \A T \in SUBSET ends :
                (\A x \in steps : x[2] \in S \cup T => x[1] \in T) => v \in T }

Asked(q) == { m.version : m \in { x \in MatchReleases(ReleasesAt(now), Queries)
                                    : x.query = q.id } }

Counted(q) == { c.version : c \in { x \in Outcome(now) : x.query = q.id } }

(***************************************************************************)
(* A crate is counted only if a chain of dependencies of releases that are *)
(* there leads from its most recent release to a release asked about, and  *)
(* a dev-dependency that no feature names takes part in no chain of        *)
(* several steps.  The rows of yanked releases, which are loaded, lead     *)
(* nowhere.                                                                *)
(***************************************************************************)
Named(d) == \E f \in Catalog[d.from].features : \E e \in f.enables :
               e.crate = d.crate

Held  == { d \in Dependencies : d.from \in Ids }
Links == { d \in Held : d.kind # "Dev" \/ Named(d) }

CountedAreDependents ==
  \A q \in Queries :
    Counted(q) \subseteq Closure(Asked(q), Steps(Links)) \cup
      { s[1] : s \in { x \in Steps(Held) : x[2] \in Asked(q) } }

(***************************************************************************)
(* Every chain of dependencies that are always built and ask only for      *)
(* features their target declares is counted, however long, whichever      *)
(* release it passes through.                                              *)
(***************************************************************************)
Declared(v) == {CRATE, DEFAULT} \cup { f.id : f \in Catalog[v].features }

Firm(d) == /\ d.kind # "Dev"
           /\ d.feature = CRATE
           /\ \A v \in Resolved(ReleasesAt(now), d.crate, d.req) :
                 Requested(d) \subseteq Declared(v)

FirmRows == { d \in Dependencies : Firm(d) }

ChainsAreCounted ==
  registry.transitive => \A q \in Queries :
    Closure(Asked(q), Steps(FirmRows)) \cap MostRecent(ReleasesAt(now))
       \subseteq Counted(q)

(***************************************************************************)
(* "the number of crates that depend directly or indirectly on a crate"    *)
(* (README.md:5-6), in a registry whose optional dependencies are all      *)
(* switched on by default features: whatever depends on a crate through a  *)
(* chain of dependencies is counted.                                       *)
(***************************************************************************)
IndirectDependentsCount ==
  LET built == { d \in Dependencies : d.kind # "Dev" }
  IN \A q \in Queries :
       (Closure(Asked(q), Steps(built)) \ Asked(q))
          \cap MostRecent(ReleasesAt(now)) \subseteq Counted(q)
=============================================================================
