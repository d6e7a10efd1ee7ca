-------------------------------- MODULE Load --------------------------------
(***************************************************************************)
(* Loading a database dump (load.rs) and filling in deleted releases       *)
(* (mend.rs).  The tables of the archive come one after the other, in any  *)
(* order; a callback per row enters it.  Names become ids at once, but     *)
(* which crate a feature name stands for is known only after the last row. *)
(*                                                                         *)
(*   crate row       [id, name]                                            *)
(*   version row     [id, crate, num, time, yanked, features]              *)
(*   dependency row  [id, version, crate, req, optional, default,          *)
(*                    features, alias, kind]                               *)
(*                                                                         *)
(* The text "a?/f" of an enabled feature is [krate |-> "a", weak |-> TRUE, *)
(* feature |-> "f"]; without a slash krate is the empty name.  An alias is *)
(* empty if there is none.  What is loaded are releases and dependencies   *)
(* as module Dataflow has them.                                            *)
(***************************************************************************)
EXTENDS Integers, FiniteSets, SequencesExt

CONSTANTS Dumps,           \* the dumps: [crates, versions, dependencies]
          Folded,          \* name -> the name with "_" replaced by "-"
          MendedCrates,    \* the names mend_crates restores, in order
          MendedReleases,  \* the releases mend_releases restores, in order
          KnownBroken      \* a crate, its version and the feature it lacks

VARIABLES dump,          \* the archive
          unread,        \* table -> its rows that are still to come
          names,         \* crates.names; crates.ids is its inverse
          features,      \* feature_names.names
          releases,      \* db_dump.releases
          dependencies,  \* db_dump.dependencies
          renames,       \* dep_renames
          resolve,       \* dep_renames_resolve
          pc,            \* how far load has come
          next           \* the turn of the loop at pc
vars == <<dump, unread, names, features, releases, dependencies, renames,
          resolve, pc, next>>

-----------------------------------------------------------------------------
(* FeatureNames: a feature id is the place of its name, counted from zero. *)

CRATE   == 0
DEFAULT == 1
TBD     == -1     \* FeatureId(!0)

\* Mutant: every name gets a new id.
InternAnew(table, name) == Append(table, name)

Intern(table, name) ==
  IF Contains(table, name) THEN table ELSE Append(table, name)

\* The names of seq, from the first to the last.
InternAll(table, seq) ==
  LET upto[n \in 0 .. Len(seq)] ==
        IF n = 0 THEN table ELSE Intern(upto[n - 1], seq[n])
  IN upto[Len(seq)]

FeatureId(table, name) ==
  (CHOOSE i \in DOMAIN table : table[i] = name) - 1

FeatureName(table, id) == table[id + 1]

-----------------------------------------------------------------------------
(* CrateMap: the names differ in more than "-" against "_".                *)

None == -1

CrateId(table, name) ==
  LET same == { c \in DOMAIN table : Folded[table[c]] = Folded[name] }
  IN IF same = {} THEN None ELSE CHOOSE c \in same : TRUE

CanInsert(table, id, name) ==
  id \notin DOMAIN table /\ CrateId(table, name) = None

Insert(table, id, name) ==
  [c \in DOMAIN table \cup {id} |-> IF c = id THEN name ELSE table[c]]

LeastUnused(used, first) ==
  CHOOSE n \in first .. first + Cardinality(used) :
    n \notin used /\ \A k \in first .. n - 1 : k \in used

-----------------------------------------------------------------------------
Init ==
  /\ dump \in Dumps
  /\ unread = dump
  /\ names = << >>
  /\ features = <<"", "default">>
  /\ releases = << >>
  /\ dependencies = << >>
  /\ renames = << >>
  /\ resolve = << >>
  /\ pc = "read"
  /\ next = 1

\* A table is read from its first to its last row, in any order of rows.
Read(table, row) ==
  /\ pc = "read"
  /\ row \in unread[table]
  /\ \A t \in DOMAIN unread \ {table} : unread[t] \in {{}, dump[t]}
  /\ unread' = [unread EXCEPT ![table] = @ \ {row}]

ReadCrate(row) ==
  /\ Read("crates", row)
  /\ IF CanInsert(names, row.id, row.name)
       THEN names' = Insert(names, row.id, row.name) /\ UNCHANGED pc
       ELSE pc' = "panicked" /\ UNCHANGED names
  /\ UNCHANGED <<dump, features, releases, dependencies, renames, resolve, next>>

\* The names a version row mentions, in the order of the callback.
Mentioned(row) ==
  LET Of(f) == <<f.name>> \o
                 FlattenSeq([i \in DOMAIN f.enables |->
                               <<f.enables[i].krate, f.enables[i].feature>>])
  IN FlattenSeq([i \in DOMAIN row.features |-> Of(row.features[i])])

\* The crate of an enabled feature is, for now, the feature id of its name.
Encoded(table, row) ==
  LET Id(name) == FeatureId(table, name)
      Enabled(f, weak) ==
        { [crate |-> Id(e.krate), feature |-> Id(e.feature)] :
            e \in { x \in ToSet(f.enables) : x.weak = weak } }
  IN [id |-> row.id, crate |-> row.crate, num |-> row.num, time |-> row.time,
      features |-> { [id |-> Id(f.name), enables |-> Enabled(f, FALSE),
                      weak |-> Enabled(f, TRUE)] : f \in ToSet(row.features) }]

ReadVersion(row) ==
  /\ Read("versions", row)
  /\ IF row.yanked
       THEN UNCHANGED <<features, releases>>
       ELSE /\ features' = InternAll(features, Mentioned(row))
            /\ releases' = Append(releases, Encoded(features', row))
  /\ UNCHANGED <<dump, names, dependencies, renames, resolve, pc, next>>

EncodedRow(table, row) ==
  LET ids == { FeatureId(table, f) : f \in ToSet(row.features) }
  IN [id |-> row.id, from |-> row.version, crate |-> row.crate, req |-> row.req,
      feature |-> IF row.optional THEN TBD ELSE CRATE,
      default |-> row.default \/ DEFAULT \in ids,
      features |-> ids \ {DEFAULT}, kind |-> row.kind]

ReadDependency(row) ==
  /\ Read("dependencies", row)
  /\ features' = InternAll(features, IF row.alias = "" THEN row.features
                                     ELSE Append(row.features, row.alias))
  /\ dependencies' = Append(dependencies, EncodedRow(features', row))
  /\ IF row.alias = ""
       THEN UNCHANGED <<renames, resolve>>
       ELSE /\ renames' = Insert(renames, row.id, row.alias)
            /\ resolve' = Insert(resolve,
                 <<row.version, FeatureId(features', row.alias)>>, row.crate)
  /\ UNCHANGED <<dump, names, releases, pc, next>>

\* Mutant: as soon as the crates and their versions are known.
VersionsRead == unread.crates = {} /\ unread.versions = {}

AllRead == \A t \in DOMAIN unread : unread[t] = {}

EndOfTables ==
  /\ pc = "read"
  /\ AllRead
  /\ pc' = "restore"
  /\ UNCHANGED <<dump, unread, names, features, releases, dependencies, renames,
                 resolve, next>>

\* Mutant: counted, not looked for.
CountedCrate == Cardinality(DOMAIN names)

\* The first id from one on that no crate has.
FreshCrate == LeastUnused(DOMAIN names, 1)

\* The loop of mend_crates, which restores what is missing.
MendCrate ==
  /\ pc = "restore"
  /\ next <= Len(MendedCrates)
  /\ next' = next + 1
  /\ LET name == MendedCrates[next]
     IN CASE CrateId(names, name) # None -> UNCHANGED <<names, pc>>
          [] CanInsert(names, FreshCrate, name) ->
               names' = Insert(names, FreshCrate, name) /\ UNCHANGED pc
          [] OTHER -> pc' = "panicked" /\ UNCHANGED names
  /\ UNCHANGED <<dump, unread, features, releases, dependencies, renames, resolve>>

CratesMended ==
  /\ pc = "restore"
  /\ next > Len(MendedCrates)
  /\ pc' = "resolve"
  /\ next' = 1
  /\ UNCHANGED <<dump, unread, names, features, releases, dependencies, renames, resolve>>

-----------------------------------------------------------------------------
\* The one release that is let through.
IsKnownBroken(rel, name) ==
  /\ rel.crate = CrateId(names, KnownBroken.crate)
  /\ rel.num = KnownBroken.num
  /\ name = KnownBroken.feature

\* Mutant: crates before renamed dependencies.
CratesFirst(rel, feature) ==
  LET name == FeatureName(features, feature)
  IN IF feature = CRATE THEN rel.crate
     ELSE IF CrateId(names, name) # None THEN CrateId(names, name)
     ELSE IF <<rel.id, feature>> \in DOMAIN resolve THEN resolve[<<rel.id, feature>>]
     ELSE IF IsKnownBroken(rel, name) THEN rel.crate
     ELSE None

\* The crate that a feature id, left in the place of a crate id, stands for.
CrateOf(rel, feature) ==
  LET name == FeatureName(features, feature)
  IN IF feature = CRATE THEN rel.crate
     ELSE IF <<rel.id, feature>> \in DOMAIN resolve THEN resolve[<<rel.id, feature>>]
     ELSE IF CrateId(names, name) # None THEN CrateId(names, name)
     ELSE IF IsKnownBroken(rel, name) THEN rel.crate
     ELSE None

IsLost(rel) ==
  \E f \in rel.features : \E e \in f.enables \cup f.weak : CrateOf(rel, e.crate) = None

Resolved(rel) ==
  LET Crates(E) == { [e EXCEPT !.crate = CrateOf(rel, @)] : e \in E }
  IN [rel EXCEPT !.features =
        { [f EXCEPT !.enables = Crates(@), !.weak = Crates(@)] : f \in rel.features }]

ResolveRelease ==
  /\ pc = "resolve"
  /\ next <= Len(releases)
  /\ IF IsLost(releases[next])
       THEN pc' = "failed" /\ UNCHANGED <<releases, next>>
       ELSE /\ releases' = [releases EXCEPT ![next] = Resolved(@)]
            /\ next' = next + 1
            /\ UNCHANGED pc
  /\ UNCHANGED <<dump, unread, names, features, dependencies, renames, resolve>>

\* The name of the feature that an optional dependency is.
FeatureOf(dep) ==
  IF dep.id \in DOMAIN renames THEN renames[dep.id] ELSE names[dep.crate]

\* An optional dependency is the feature of that name.
Settled(table, dep) ==
  IF dep.feature = TBD THEN [dep EXCEPT !.feature = FeatureId(table, FeatureOf(dep))] ELSE dep

\* The names that optional dependencies are called by, in their order.
OptionalNames(deps) ==
  FlattenSeq([i \in DOMAIN deps |->
                IF deps[i].feature = TBD THEN << FeatureOf(deps[i]) >> ELSE << >>])

ResolveDependencies ==
  /\ pc = "resolve"
  /\ next > Len(releases)
  /\ IF \E d \in ToSet(dependencies) : /\ d.feature = TBD
                                       /\ d.id \notin DOMAIN renames
                                       /\ d.crate \notin DOMAIN names
       THEN pc' = "panicked" /\ UNCHANGED <<features, dependencies, next>>
       ELSE /\ features' = InternAll(features, OptionalNames(dependencies))
            /\ dependencies' = [i \in DOMAIN dependencies |->
                                  Settled(features', dependencies[i])]
            /\ pc' = "mend"
            /\ next' = 1
  /\ UNCHANGED <<dump, unread, names, releases, renames, resolve>>

-----------------------------------------------------------------------------
\* Mutant: ids from zero on, whether or not they are taken.
FreshFromZero(taken) == 0

\* next_version_id and next_dependency_id: the least id nothing has yet.
Fresh(taken) == LeastUnused(taken, 0)

AddDependency(deps, dep) ==
  Append(deps, [dep EXCEPT !.id = Fresh({ d.id : d \in ToSet(deps) })])

\* One after the other, each with an id of its own.
AddAll(deps, added) ==
  LET upto[n \in 0 .. Len(added)] ==
        IF n = 0 THEN deps ELSE AddDependency(upto[n - 1], added[n])
  IN upto[Len(added)]

\* What the list says of a release, and of what it depends on.
Restocked(table, crates, id, mended) ==
  LET crate == CrateId(crates, mended.crate)
      Id(name) == FeatureId(table, name)
      Enabled(f) == { [crate |-> crate, feature |-> Id(g)] : g \in f.enables }
  IN [id |-> id, crate |-> crate, num |-> mended.num, time |-> mended.time,
      features |-> { [id |-> Id(f.name), enables |-> Enabled(f), weak |-> {}] :
                       f \in mended.features }]

RestockedRow(table, crates, id, d) ==
  [id |-> None, from |-> id, crate |-> CrateId(crates, d.crate), req |-> d.req,
   feature |-> FeatureId(table, d.feature), default |-> TRUE, features |-> {},
   kind |-> d.kind]

\* The names it mentions.
ListedNames(mended) ==
  { f.name : f \in mended.features }
    \cup (UNION { f.enables : f \in mended.features })
    \cup { d.feature : d \in ToSet(mended.dependencies) }

MendRelease ==
  /\ pc = "mend"
  /\ LET mended == MendedReleases[next]
         crate  == CrateId(names, mended.crate)
         id     == Fresh({ rel.id : rel \in ToSet(releases) })
     IN IF \/ crate = None
           \/ \E d \in ToSet(mended.dependencies) : CrateId(names, d.crate) = None
           \/ \E rel \in ToSet(releases) : rel.crate = crate /\ rel.num = mended.num
          THEN pc' = "panicked" /\ UNCHANGED <<features, releases, dependencies, next>>
          ELSE /\ features' = InternAll(features, SetToSeq(ListedNames(mended)))
               /\ releases' = Append(releases, Restocked(features', names, id, mended))
               /\ dependencies' = AddAll(dependencies,
                    [i \in DOMAIN mended.dependencies |->
                       RestockedRow(features', names, id, mended.dependencies[i])])
               /\ IF next = Len(MendedReleases)
                    THEN pc' = "done" /\ UNCHANGED next
                    ELSE next' = next + 1 /\ UNCHANGED pc
  /\ UNCHANGED <<dump, unread, names, renames, resolve>>

Next ==
  \/ \E row \in unread.crates : ReadCrate(row)
  \/ \E row \in unread.versions : ReadVersion(row)
  \/ \E row \in unread.dependencies : ReadDependency(row)
  \/ EndOfTables
  \/ MendCrate
  \/ CratesMended
  \/ ResolveRelease
  \/ ResolveDependencies
  \/ MendRelease

Spec == Init /\ [][Next]_vars

(***************************************************************************)
(* What a dump may be taken to be.  Rows have ids, which tell them apart,  *)
(* and list what they list once and in order; they refer to rows that are  *)
(* there; neither two crates nor two versions of one crate are called the  *)
(* same; and nothing that is to be mended is published.                    *)
(***************************************************************************)
IsList(s) == s \in Seq(ToSet(s))

WellFormed(d) ==
  /\ DOMAIN d = {"crates", "versions", "dependencies"}
  /\ \A t \in DOMAIN d : /\ IsFiniteSet(d[t])
                         /\ \A r \in d[t] : r.id \in Nat
                         /\ \A r, s \in d[t] : r.id = s.id => r = s
  /\ \A v \in d.versions :
       /\ IsList(v.features)
       /\ \A f \in ToSet(v.features) :
            IsList(f.enables) /\ \A e \in ToSet(f.enables) : e.weak \in BOOLEAN
       /\ \A f, g \in ToSet(v.features) : f.name = g.name => f = g
  /\ \A r \in d.dependencies : IsList(r.features)

Consistent(d) ==
  /\ \A r, s \in d.crates : Folded[r.name] = Folded[s.name] => r = s
  /\ \A v, w \in d.versions : v.crate = w.crate /\ v.num = w.num => v = w
  /\ \A v \in d.versions : \E c \in d.crates : c.id = v.crate
  /\ \A r \in d.dependencies : /\ \E c \in d.crates : c.id = r.crate
                               /\ \E v \in d.versions : v.id = r.version
  /\ \A v \in d.versions : \A c \in d.crates : \A m \in ToSet(MendedReleases) :
       c.id = v.crate /\ Folded[c.name] = Folded[m.crate] /\ v.num = m.num => v.yanked

(***************************************************************************)
(* What mend.rs lists: releases of crates that it restores, each once.     *)
(***************************************************************************)
ListedOnce ==
  /\ IsList(MendedCrates) /\ IsList(MendedReleases) /\ MendedReleases # << >>
  /\ \A m \in ToSet(MendedReleases) :
       /\ IsFiniteSet(m.features) /\ IsList(m.dependencies)
       /\ \A f \in m.features : /\ IsFiniteSet(f.enables)
                                /\ f = [name |-> f.name, enables |-> f.enables]
       /\ {m.crate} \cup { d.crate : d \in ToSet(m.dependencies) } \subseteq ToSet(MendedCrates)
  /\ \A i, j \in DOMAIN MendedReleases :
       Folded[MendedReleases[i].crate] = Folded[MendedReleases[j].crate]
         /\ MendedReleases[i].num = MendedReleases[j].num => i = j

ASSUME LoadAssumption ==
  /\ \A d \in Dumps : WellFormed(d) /\ Consistent(d)
  /\ ListedOnce

-----------------------------------------------------------------------------
(***************************************************************************)
(* The type invariant.  Feature names are interned once each, so ids and   *)
(* names correspond, and so do crate ids and folded names.                 *)
(***************************************************************************)
TypeOK ==
  /\ pc \in {"read", "restore", "resolve", "mend", "done", "failed", "panicked"}
  /\ next \in Nat
  /\ IsInjective(features)
  /\ features[CRATE + 1] = "" /\ features[DEFAULT + 1] = "default"
  /\ \A c, d \in DOMAIN names : Folded[names[c]] = Folded[names[d]] => c = d
  /\ \A i \in DOMAIN dependencies :
       dependencies[i].feature \in {TBD} \cup 0 .. Len(features) - 1

(***************************************************************************)
(* No assertion, unwrap or index of load and mend fails on a dump that is  *)
(* consistent, in whatever order its tables and rows come.                 *)
(***************************************************************************)
NeverPanics == pc # "panicked"

(***************************************************************************)
(* What a version row says of a name before a slash: its own crate, a      *)
(* crate that the version depends on under this name, else the crate of    *)
(* that name, published or mended.                                         *)
(***************************************************************************)
Published == { c.name : c \in dump.crates } \cup ToSet(MendedCrates)

NameOf(crate) == (CHOOSE c \in dump.crates : c.id = crate).name

Meant(row, krate) ==
  LET aliased == { NameOf(d.crate) : d \in { x \in dump.dependencies :
                     x.version = row.id /\ x.alias = krate } }
  IN IF krate = "" THEN {NameOf(row.crate)}
     ELSE IF aliased # {} THEN aliased
     ELSE { name \in Published : Folded[name] = Folded[krate] }

Broken(row, krate) ==
  /\ Meant(row, krate) = {}
  /\ ~ ( /\ Folded[NameOf(row.crate)] = Folded[KnownBroken.crate]
         /\ row.num = KnownBroken.num
         /\ krate = KnownBroken.feature )

(***************************************************************************)
(* Loading fails exactly if a release that is not yanked enables a feature *)
(* of something that is neither a dependency nor a crate: whether the      *)
(* crate's row, or the row that renames it, comes later does not matter.   *)
(***************************************************************************)
FailsOnlyIfBroken ==
  LET broken == \E row \in dump.versions : ~row.yanked /\
                  \E f \in ToSet(row.features) : \E e \in ToSet(f.enables) :
                    Broken(row, e.krate)
  IN (pc = "failed" => broken) /\ (pc \in {"mend", "done"} => ~broken)

(***************************************************************************)
(* By names, the loaded releases and rows are those of the dump and of the *)
(* list of what is mended: nothing depends on the order in which rows came *)
(* and names got their ids.                                                *)
(***************************************************************************)
Says(f, e, row, h) ==
  /\ FeatureName(features, e.feature) = h.feature
  /\ e \in IF h.weak THEN f.weak ELSE f.enables
  /\ names[e.crate] \in Meant(row, h.krate) \/ Meant(row, h.krate) = {}

IsOf(rel, row) ==
  /\ names[rel.crate] = NameOf(row.crate) /\ rel.num = row.num /\ rel.time = row.time
  /\ { FeatureName(features, f.id) : f \in rel.features }
       = { f.name : f \in ToSet(row.features) }
  /\ \A f \in rel.features : \A g \in ToSet(row.features) :
       FeatureName(features, f.id) = g.name =>
         /\ \A e \in f.enables \cup f.weak : \E h \in ToSet(g.enables) : Says(f, e, row, h)
         /\ \A h \in ToSet(g.enables) : \E e \in f.enables \cup f.weak : Says(f, e, row, h)

SaysTheSame(dep, row) ==
  /\ dep.from = row.version /\ dep.req = row.req /\ dep.kind = row.kind
  /\ names[dep.crate] = NameOf(row.crate)
  /\ FeatureName(features, dep.feature) =
       IF ~row.optional THEN "" ELSE IF row.alias # "" THEN row.alias
                                     ELSE NameOf(row.crate)
  /\ dep.default <=> row.default \/ "default" \in ToSet(row.features)
  /\ { FeatureName(features, f) : f \in dep.features } = ToSet(row.features) \ {"default"}

Restored(i) == releases[Len(releases) - Len(MendedReleases) + i]

IsAsListed(rel, mended) ==
  /\ Folded[names[rel.crate]] = Folded[mended.crate]
  /\ rel.num = mended.num /\ rel.time = mended.time
  /\ { [name |-> FeatureName(features, f.id),
        enables |-> { FeatureName(features, e.feature) : e \in f.enables }] :
          f \in rel.features } = mended.features
  /\ \A f \in rel.features : \A e \in f.enables : e.crate = rel.crate
  /\ \A d \in ToSet(mended.dependencies) : \E dep \in ToSet(dependencies) :
       /\ dep.from = rel.id
       /\ Folded[names[dep.crate]] = Folded[d.crate]
       /\ dep.req = d.req /\ dep.kind = d.kind
       /\ FeatureName(features, dep.feature) = d.feature

LoadedAsWritten ==
  pc = "done" =>
    /\ \A row \in dump.versions : ~row.yanked =>
         \E rel \in ToSet(releases) : rel.id = row.id /\ IsOf(rel, row)
    /\ \A row \in dump.dependencies :
         \E dep \in ToSet(dependencies) : dep.id = row.id /\ SaysTheSame(dep, row)
    /\ \A i \in DOMAIN MendedReleases : IsAsListed(Restored(i), MendedReleases[i])
    /\ Len(releases) = Cardinality({ r \in dump.versions : ~r.yanked }) + Len(MendedReleases)

(***************************************************************************)
(* What mend adds is told apart from what was loaded: ids stay unique, and *)
(* so do the numbers of a crate, although mended ids fill the gaps left by *)
(* whatever is missing from the dump.                                      *)
(***************************************************************************)
IdsAreUnique ==
  /\ \A i, j \in DOMAIN releases :
       \/ releases[i].id = releases[j].id
       \/ releases[i].crate = releases[j].crate /\ releases[i].num = releases[j].num
       => i = j
  /\ \A i, j \in DOMAIN dependencies : dependencies[i].id = dependencies[j].id => i = j

(***************************************************************************)
(* mend.rs:1-2 says that deleted releases are filled back in.  A release   *)
(* that is filled in depends on what the list in mend.rs says of it and on *)
(* nothing else.                                                           *)
(***************************************************************************)
MendedAsDeleted ==
  pc = "done" =>
    \A i \in DOMAIN MendedReleases :
      { names[d.crate] : d \in { x \in ToSet(dependencies) : x.from = Restored(i).id } }
           \subseteq { d.crate : d \in ToSet(MendedReleases[i].dependencies) }
=============================================================================
