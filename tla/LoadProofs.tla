----------------------------- MODULE LoadProofs -----------------------------
(***************************************************************************)
(* Loading, for dumps of any size that are read in any order: what is      *)
(* loaded is what was written, it is told apart by its ids, and nothing    *)
(* but a feature of something unknown stops it.                            *)
(***************************************************************************)
EXTENDS Load, FiniteSetTheorems, WellFoundedInduction, TLAPS

-----------------------------------------------------------------------------
(* The inductive invariant.                                                *)

Tables == {"crates", "versions", "dependencies"}

Seen(table) == dump[table] \ unread[table]

\* The versions that are loaded.
Kept == { row \in Seen("versions") : ~row.yanked }

\* How many releases are mended by now, and how many were loaded.
Mends == IF pc = "mend" THEN next - 1 ELSE IF pc = "done" THEN Len(MendedReleases) ELSE 0

Loads == Len(releases) - Mends

(***************************************************************************)
(* After the first phase everything is read.                               *)
(***************************************************************************)
TablesInv ==
  /\ dump \in Dumps
  /\ DOMAIN unread = Tables
  /\ \A t \in Tables : unread[t] \subseteq dump[t]
  /\ pc \in {"read", "restore", "resolve", "mend", "done", "failed"}
  /\ pc # "read" => AllRead
  /\ next \in Nat \ {0}
  /\ pc = "read" => next = 1
  /\ pc = "restore" => next <= Len(MendedCrates) + 1
  /\ pc \in {"resolve", "failed"} => next <= Len(releases) + 1
  /\ pc = "mend" => next <= Len(MendedReleases)

(***************************************************************************)
(* Crates have the ids of their rows, or are mended, and are told apart by *)
(* their names.                                                            *)
(***************************************************************************)
IsMended(k) ==
  \/ pc = "restore" /\ k < next
  \/ pc \in {"resolve", "mend", "done", "failed"}

NamesInv ==
  /\ DOMAIN names \subseteq Nat /\ IsFiniteSet(DOMAIN names)
  /\ \A c, d \in DOMAIN names : Folded[names[c]] = Folded[names[d]] => c = d
  /\ \A row \in Seen("crates") : row.id \in DOMAIN names /\ names[row.id] = row.name
  /\ \A c \in DOMAIN names : \/ \E row \in Seen("crates") : row.id = c
                             \/ pc # "read" /\ names[c] \in ToSet(MendedCrates)
  /\ \A k \in DOMAIN MendedCrates :
       IsMended(k) => CrateId(names, MendedCrates[k]) # None

(***************************************************************************)
(* A feature id stands for one name, ever since the name was met.          *)
(***************************************************************************)
FeaturesInv ==
  /\ IsList(features) /\ IsInjective(features) /\ Len(features) >= 2
  /\ features[1] = "" /\ features[2] = "default"

\* The names of a version, of a dependency, are in the table.
VersionKnown(table, row) ==
  \A f \in ToSet(row.features) :
    /\ f.name \in ToSet(table)
    /\ \A e \in ToSet(f.enables) : e.krate \in ToSet(table) /\ e.feature \in ToSet(table)

RowKnown(table, row) ==
  /\ ToSet(row.features) \subseteq ToSet(table)
  /\ row.alias # "" => row.alias \in ToSet(table)

(***************************************************************************)
(* CrateOf, IsLost and Resolved for crates n, features t and renames r.    *)
(***************************************************************************)
CrateIn(n, t, r, rel, feature) ==
  IF feature = CRATE THEN rel.crate
  ELSE IF <<rel.id, feature>> \in DOMAIN r THEN r[<<rel.id, feature>>]
  ELSE IF CrateId(n, FeatureName(t, feature)) # None THEN CrateId(n, FeatureName(t, feature))
  ELSE IF /\ rel.crate = CrateId(n, KnownBroken.crate)
          /\ rel.num = KnownBroken.num
          /\ FeatureName(t, feature) = KnownBroken.feature THEN rel.crate
  ELSE None

IsLostIn(n, t, r, rel) ==
  \E f \in rel.features : \E e \in f.enables \cup f.weak : CrateIn(n, t, r, rel, e.crate) = None

EnablesIn(n, t, r, rel, E) == { [e EXCEPT !.crate = CrateIn(n, t, r, rel, @)] : e \in E }

ResolvedIn(n, t, r, rel) ==
  [rel EXCEPT !.features =
     { [f EXCEPT !.enables = EnablesIn(n, t, r, rel, @), !.weak = EnablesIn(n, t, r, rel, @)] :
         f \in rel.features }]

(***************************************************************************)
(* What a release enables is encoded as long as its turn has not come, and *)
(* resolved from then on.                                                  *)
(***************************************************************************)
IsResolved(i) == \/ pc \in {"resolve", "failed"} /\ i < next
                 \/ pc \in {"mend", "done"}

IsReleaseOf(i, row) ==
  IF IsResolved(i)
    THEN /\ releases[i] = ResolvedIn(names, features, resolve, Encoded(features, row))
         /\ ~IsLostIn(names, features, resolve, Encoded(features, row))
    ELSE releases[i] = Encoded(features, row)

ReleasesInv ==
  /\ IsList(releases)
  /\ Loads = Cardinality(Kept)
  /\ \A i \in 1 .. Loads : \E row \in Kept : IsReleaseOf(i, row)
  /\ \A row \in Kept : /\ VersionKnown(features, row)
                       /\ \E i \in 1 .. Loads : IsReleaseOf(i, row)
  /\ pc = "failed" => next <= Loads /\ IsLostIn(names, features, resolve, releases[next])

(***************************************************************************)
(* What is renamed is renamed by a row, and resolve finds one of the rows  *)
(* of a version that rename.                                               *)
(***************************************************************************)
RenamesInv ==
  /\ \A row \in Seen("dependencies") :
       row.alias # "" => /\ row.id \in DOMAIN renames /\ renames[row.id] = row.alias
                         /\ <<row.version, FeatureId(features, row.alias)>> \in DOMAIN resolve
  /\ \A id \in DOMAIN renames : \E row \in Seen("dependencies") : row.id = id /\ row.alias # ""
  /\ \A key \in DOMAIN resolve : \E row \in Seen("dependencies") :
       /\ row.alias # ""
       /\ key = <<row.version, FeatureId(features, row.alias)>>
       /\ resolve[key] = row.crate

(***************************************************************************)
(* The dependencies are the rows of the dump and those that the list says  *)
(* of what is mended.                                                      *)
(***************************************************************************)
HaveIds(s) ==
  /\ IsList(s)
  /\ \A x \in ToSet(s) : x.id \in Nat
  /\ \A i, j \in DOMAIN s : s[i].id = s[j].id => i = j

IsRowOf(dep, row) ==
  IF pc \in {"mend", "done"}
    THEN /\ dep = Settled(features, EncodedRow(features, row))
         /\ row.optional => FeatureOf(EncodedRow(features, row)) \in ToSet(features)
    ELSE dep = EncodedRow(features, row)

Listed(dep) ==
  \E k \in 1 .. Mends : \E d \in ToSet(MendedReleases[k].dependencies) :
    /\ d.feature \in ToSet(features)
    /\ dep = [RestockedRow(features, names, releases[Loads + k].id, d) EXCEPT !.id = dep.id]

DependenciesInv ==
  /\ HaveIds(dependencies)
  /\ \A dep \in ToSet(dependencies) :
       (\E row \in Seen("dependencies") : IsRowOf(dep, row)) \/ Listed(dep)
  /\ \A row \in Seen("dependencies") :
       RowKnown(features, row) /\ \E dep \in ToSet(dependencies) : IsRowOf(dep, row)

(***************************************************************************)
(* What is mended is what the list says, in its order.                     *)
(***************************************************************************)
MendedInv ==
  \A k \in 1 .. Mends :
    LET mended == MendedReleases[k]
        rel    == releases[Loads + k]
    IN /\ rel.id \in Nat
       /\ rel = Restocked(features, names, rel.id, mended)
       /\ ListedNames(mended) \subseteq ToSet(features)
       /\ \A d \in ToSet(mended.dependencies) : \E dep \in ToSet(dependencies) :
            dep = [RestockedRow(features, names, rel.id, d) EXCEPT !.id = dep.id]

LoadInv == /\ TablesInv /\ NamesInv /\ FeaturesInv /\ ReleasesInv /\ RenamesInv
           /\ DependenciesInv /\ MendedInv /\ IdsAreUnique

-----------------------------------------------------------------------------
(***************************************************************************)
(* Induction over the numbers, by a set instead of a predicate.            *)
(***************************************************************************)
LEMMA CountUp ==
  ASSUME NEW G, 0 \in G, \A n \in Nat : n \in G => n + 1 \in G
  PROVE  Nat \subseteq G
<1> DEFINE S == Nat \ G
<1> SUFFICES ASSUME S # {} PROVE FALSE
  OBVIOUS
<1>1. PICK n \in S : \A m \in S : ~ (<<m, n>> \in OpToRel(<, Nat))
  <2>1. S \subseteq Nat
    OBVIOUS
  <2> HIDE DEF S
  <2> QED BY <2>1, NatLessThanWellFounded, WFMin
<1>2. n \in Nat /\ n # 0 /\ n - 1 \in Nat /\ n - 1 < n
  OBVIOUS
<1>3. <<n - 1, n>> \in OpToRel(<, Nat)
  BY <1>2, Zenon DEF OpToRel
<1>4. n - 1 \in G
  BY <1>1, <1>2, <1>3
<1> QED BY <1>2, <1>4

(***************************************************************************)
(* What lists are.                                                         *)
(***************************************************************************)
LEMMA Lists ==
  ASSUME NEW s, IsList(s)
  PROVE  /\ Len(s) \in Nat /\ DOMAIN s = 1 .. Len(s) /\ s \in Seq(ToSet(s))
         /\ ToSet(s) = { s[i] : i \in 1 .. Len(s) }
         /\ \A i \in 1 .. Len(s) : s[i] \in ToSet(s)
         /\ \A x \in ToSet(s) : \E i \in 1 .. Len(s) : s[i] = x
<1>1. s \in Seq(ToSet(s))
  BY DEF IsList
<1>2. Len(s) \in Nat /\ DOMAIN s = 1 .. Len(s)
  BY <1>1
<1> QED BY <1>1, <1>2 DEF ToSet

(***************************************************************************)
(* A function on the first numbers is a list.                              *)
(***************************************************************************)
LEMMA ListOf ==
  ASSUME NEW n \in Nat, NEW s, DOMAIN s = 1 .. n, s = [i \in 1 .. n |-> s[i]]
  PROVE  IsList(s) /\ Len(s) = n
<1> DEFINE S == ToSet(s)
<1>1. \A i \in 1 .. n : s[i] \in S
  BY DEF ToSet
<1> HIDE DEF S
<1>2. s \in [1 .. n -> S]
  BY <1>1
<1>3. s \in Seq(S) /\ Len(s) = n
  BY <1>2
<1> QED BY <1>3 DEF IsList, S

(***************************************************************************)
(* Appending to a list.                                                    *)
(***************************************************************************)
LEMMA Appended ==
  ASSUME NEW s, IsList(s), NEW x
  PROVE  LET t == Append(s, x)
         IN /\ IsList(t) /\ Len(t) = Len(s) + 1
            /\ \A i \in 1 .. Len(s) : t[i] = s[i]
            /\ t[Len(s) + 1] = x
            /\ ToSet(t) = ToSet(s) \cup {x}
<1> DEFINE t == Append(s, x)
           S == ToSet(s) \cup {x}
<1>1. s \in Seq(S) /\ x \in S /\ Len(s) \in Nat
  <2>1. s \in Seq(ToSet(s)) /\ ToSet(s) \subseteq S
    BY DEF IsList
  <2> HIDE DEF S
  <2>2. s \in Seq(S)
    BY <2>1
  <2> QED BY <2>1, <2>2 DEF S
<1>2. /\ t \in Seq(S) /\ Len(t) = Len(s) + 1 /\ DOMAIN t = 1 .. Len(s) + 1
      /\ \A i \in 1 .. Len(s) : t[i] = s[i]
      /\ t[Len(s) + 1] = x
  <2> HIDE DEF S
  <2> QED BY <1>1
<1>3. ToSet(s) = { s[i] : i \in 1 .. Len(s) }
  BY Lists
<1>4. ToSet(t) = S
  <2> HIDE DEF t
  <2>1. ToSet(t) \subseteq S
    BY <1>1, <1>2, <1>3 DEF ToSet
  <2>2. S \subseteq ToSet(t)
    <3>1. 1 .. Len(s) \subseteq DOMAIN t /\ Len(s) + 1 \in DOMAIN t
      BY <1>1, <1>2
    <3>2. \A i \in 1 .. Len(s) : s[i] \in ToSet(t)
      BY <1>2, <3>1 DEF ToSet
    <3>3. x \in ToSet(t)
      BY <1>2, <3>1 DEF ToSet
    <3> QED BY <1>3, <3>2, <3>3
  <2> QED BY <2>1, <2>2
<1> HIDE DEF t
<1>5. IsList(t)
  BY <1>2, <1>4 DEF IsList
<1> QED BY <1>2, <1>4, <1>5 DEF t

-----------------------------------------------------------------------------
(***************************************************************************)
(* A table of names: each is in it once.                                   *)
(***************************************************************************)
IsTable(table) == IsList(table) /\ IsInjective(table)

\* u goes on where t ends.
Continues(t, u) ==
  Len(t) <= Len(u) /\ \A i \in 1 .. Len(t) : u[i] = t[i]

(***************************************************************************)
(* A name that is in a table has an id, which stands for it.               *)
(***************************************************************************)
LEMMA IdOfName ==
  ASSUME NEW table, IsTable(table), NEW name \in ToSet(table)
  PROVE  /\ FeatureId(table, name) \in 0 .. Len(table) - 1
         /\ FeatureName(table, FeatureId(table, name)) = name
<1>1. PICK i \in 1 .. Len(table) : table[i] = name
  BY Lists DEF IsTable
<1>2. DOMAIN table = 1 .. Len(table) /\ Len(table) \in Nat
  BY Lists DEF IsTable
<1> DEFINE j == CHOOSE k \in DOMAIN table : table[k] = name
<1>3. j \in 1 .. Len(table) /\ table[j] = name
  BY <1>1, <1>2
<1>4. FeatureId(table, name) = j - 1
  BY DEF FeatureId
<1> HIDE DEF j
<1> QED BY <1>2, <1>3, <1>4 DEF FeatureName

(***************************************************************************)
(* Different names have different ids.                                     *)
(***************************************************************************)
LEMMA IdsDiffer ==
  ASSUME NEW table, IsTable(table), NEW a \in ToSet(table), NEW b \in ToSet(table),
         FeatureId(table, a) = FeatureId(table, b)
  PROVE  a = b
<1>1. FeatureName(table, FeatureId(table, a)) = a
  BY IdOfName
<1>2. FeatureName(table, FeatureId(table, b)) = b
  BY IdOfName
<1> QED BY <1>1, <1>2

(***************************************************************************)
(* The name at a place has the id of that place.                           *)
(***************************************************************************)
LEMMA IdOfPlace ==
  ASSUME NEW table, IsTable(table), NEW i \in 1 .. Len(table)
  PROVE  table[i] \in ToSet(table) /\ FeatureId(table, table[i]) = i - 1
<1>1. table[i] \in ToSet(table) /\ Len(table) \in Nat /\ DOMAIN table = 1 .. Len(table)
  BY Lists DEF IsTable
<1> DEFINE j == CHOOSE k \in DOMAIN table : table[k] = table[i]
<1>2. j \in 1 .. Len(table) /\ table[j] = table[i]
  BY <1>1
<1>3. FeatureId(table, table[i]) = j - 1
  BY DEF FeatureId
<1> HIDE DEF j
<1>4. j = i
  BY <1>1, <1>2 DEF IsTable, IsInjective
<1> QED BY <1>1, <1>3, <1>4

(***************************************************************************)
(* A name keeps its id as the table grows.                                 *)
(***************************************************************************)
LEMMA IdStays ==
  ASSUME NEW t, NEW u, IsTable(t), IsTable(u), Continues(t, u), NEW name \in ToSet(t)
  PROVE  name \in ToSet(u) /\ FeatureId(u, name) = FeatureId(t, name)
<1>1. PICK i \in 1 .. Len(t) : t[i] = name
  BY Lists DEF IsTable
<1>2. i \in 1 .. Len(u) /\ u[i] = name
  <2>1. Len(t) \in Nat /\ Len(u) \in Nat
    BY Lists DEF IsTable
  <2> QED BY <1>1, <2>1 DEF Continues
<1>3. FeatureId(t, name) = i - 1
  BY <1>1, IdOfPlace
<1>4. name \in ToSet(u) /\ FeatureId(u, name) = i - 1
  BY <1>2, IdOfPlace
<1> QED BY <1>3, <1>4

(***************************************************************************)
(* Interning adds a name unless it is there.                               *)
(***************************************************************************)
LEMMA InternGives ==
  ASSUME NEW table, IsTable(table), NEW name
  PROVE  LET t == Intern(table, name)
         IN IsTable(t) /\ Continues(table, t) /\ ToSet(t) = ToSet(table) \cup {name}
<1> DEFINE t == Intern(table, name)
<1>1. Len(table) \in Nat /\ DOMAIN table = 1 .. Len(table)
  BY Lists DEF IsTable
<1>2. Contains(table, name) <=> name \in ToSet(table)
  <2>1. name \in ToSet(table) <=> \E i \in 1 .. Len(table) : table[i] = name
    BY Lists DEF IsTable
  <2> QED BY <2>1 DEF Contains
<1>3. CASE Contains(table, name)
  BY <1>1, <1>2, <1>3 DEF Intern, Continues
<1>4. CASE ~Contains(table, name)
  <2>1. t = Append(table, name)
    BY <1>4 DEF Intern
  <2>2. /\ IsList(t) /\ Len(t) = Len(table) + 1
        /\ \A i \in 1 .. Len(table) : t[i] = table[i]
        /\ t[Len(table) + 1] = name
        /\ ToSet(t) = ToSet(table) \cup {name}
    BY <2>1, Appended DEF IsTable
  <2> HIDE DEF t
  <2>3. DOMAIN t = 1 .. Len(table) + 1
    BY <2>2, Lists
  <2>4. \A i \in 1 .. Len(table) : t[i] # name
    BY <1>4, <2>2 DEF Contains
  <2>5. ASSUME NEW i \in 1 .. Len(table) + 1, NEW j \in 1 .. Len(table) + 1, t[i] = t[j]
        PROVE  i = j
    <3>1. i \in 1 .. Len(table) \/ i = Len(table) + 1
      BY <1>1
    <3>2. j \in 1 .. Len(table) \/ j = Len(table) + 1
      BY <1>1
    <3>3. CASE i \in 1 .. Len(table) /\ j \in 1 .. Len(table)
      BY <1>1, <2>2, <2>5, <3>3 DEF IsTable, IsInjective
    <3> QED BY <2>2, <2>4, <2>5, <3>1, <3>2, <3>3
  <2>6. IsInjective(t)
    BY <2>3, <2>5 DEF IsInjective
  <2>7. Continues(table, t)
    BY <1>1, <2>2 DEF Continues
  <2> QED BY <2>2, <2>6, <2>7 DEF IsTable, t
<1> QED BY <1>3, <1>4

(***************************************************************************)
(* Tables continue one another step by step.                               *)
(***************************************************************************)
LEMMA ContinuesOn ==
  ASSUME NEW t, NEW u, NEW v, IsTable(t), IsTable(u), IsTable(v),
         Continues(t, u), Continues(u, v)
  PROVE  Continues(t, v)
<1>1. Len(t) \in Nat /\ Len(u) \in Nat /\ Len(v) \in Nat
  BY Lists DEF IsTable
<1> QED BY <1>1 DEF Continues

(***************************************************************************)
(* InternAll interns one name after the other.                             *)
(***************************************************************************)
InternStep(table, seq, f, n) == IF n = 0 THEN table ELSE Intern(f[n - 1], seq[n])

InternSteps(table, seq) ==
  CHOOSE f : f = [n \in 0 .. Len(seq) |-> InternStep(table, seq, f, n)]

\* Interning one more name comes last.
LEMMA InternAllIsLast ==
  ASSUME NEW table, NEW seq, Len(seq) \in Nat
  PROVE  /\ InternAll(table, seq) = InternSteps(table, seq)[Len(seq)]
         /\ \A n \in 0 .. Len(seq) :
              InternSteps(table, seq)[n] = InternStep(table, seq, InternSteps(table, seq), n)
<1> DEFINE G == { n \in Nat : \E f : f = [m \in 0 .. n |-> InternStep(table, seq, f, m)] }
<1>1. 0 \in G
  <2> DEFINE f == [m \in 0 .. 0 |-> table]
  <2>1. \A m \in 0 .. 0 : InternStep(table, seq, f, m) = table
    BY DEF InternStep
  <2>2. f = [m \in 0 .. 0 |-> InternStep(table, seq, f, m)]
    BY <2>1
  <2> HIDE DEF f
  <2> QED BY <2>2
<1>2. ASSUME NEW n \in Nat, n \in G PROVE n + 1 \in G
  <2>1. PICK f : f = [m \in 0 .. n |-> InternStep(table, seq, f, m)]
    BY <1>2
  <2> DEFINE g == [m \in 0 .. n + 1 |-> InternStep(table, seq, f, m)]
  <2>2. \A m \in 0 .. n : g[m] = f[m]
    BY <2>1
  <2>3. \A m \in 0 .. n + 1 : m # 0 => m - 1 \in 0 .. n
    OBVIOUS
  <2>4. \A k : k = g => k = [m \in 0 .. n + 1 |-> InternStep(table, seq, k, m)]
    <3> SUFFICES ASSUME NEW k, k = g
                 PROVE  k = [m \in 0 .. n + 1 |-> InternStep(table, seq, k, m)]
      OBVIOUS
    <3>1. \A m \in 0 .. n + 1 : InternStep(table, seq, f, m) = InternStep(table, seq, k, m)
      <4> HIDE DEF g
      <4> QED BY <2>2, <2>3 DEF InternStep
    <3> QED BY <3>1
  <2> HIDE DEF g
  <2> QED BY <2>4
<1>3. Len(seq) \in G
  <2> HIDE DEF G
  <2> QED BY <1>1, <1>2, CountUp
<1>4. InternSteps(table, seq)
        = [n \in 0 .. Len(seq) |-> InternStep(table, seq, InternSteps(table, seq), n)]
  BY <1>3 DEF InternSteps
<1>5. InternAll(table, seq) = InternSteps(table, seq)[Len(seq)]
  BY DEF InternAll, InternSteps, InternStep
<1> QED BY <1>4, <1>5

(***************************************************************************)
(* Interning a list of names adds those that are missing.                  *)
(***************************************************************************)
LEMMA InternAllGives ==
  ASSUME NEW table, IsTable(table), NEW seq, IsList(seq)
  PROVE  LET t == InternAll(table, seq)
         IN IsTable(t) /\ Continues(table, t) /\ ToSet(t) = ToSet(table) \cup ToSet(seq)
<1> DEFINE N == Len(seq)
           f == InternSteps(table, seq)
           Upto(n) == { seq[i] : i \in 1 .. n }
           Good(n) == /\ IsTable(f[n]) /\ Continues(table, f[n])
                      /\ ToSet(f[n]) = ToSet(table) \cup Upto(n)
           G == { n \in Nat : n <= N => Good(n) }
<1>0. N \in Nat /\ ToSet(seq) = Upto(N)
  BY Lists
<1>1. /\ InternAll(table, seq) = f[N]
      /\ \A n \in 0 .. N : f[n] = InternStep(table, seq, f, n)
  BY <1>0, InternAllIsLast
<1> HIDE DEF f
<1>2. 0 \in G
  <2>1. f[0] = table
    BY <1>0, <1>1 DEF InternStep
  <2>2. Continues(table, table)
    BY Lists DEF Continues, IsTable
  <2>3. Upto(0) = {}
    OBVIOUS
  <2> QED BY <2>1, <2>2, <2>3
<1>3. ASSUME NEW n \in Nat, n \in G PROVE n + 1 \in G
  <2> SUFFICES ASSUME n + 1 <= N PROVE Good(n + 1)
    OBVIOUS
  <2>1. Good(n)
    BY <1>0, <1>3
  <2>2. f[n + 1] = Intern(f[n], seq[n + 1])
    <3>1. n + 1 \in 0 .. N /\ n + 1 # 0 /\ (n + 1) - 1 = n
      BY <1>0
    <3> QED BY <1>1, <3>1 DEF InternStep
  <2>3. /\ IsTable(f[n + 1]) /\ Continues(f[n], f[n + 1])
        /\ ToSet(f[n + 1]) = ToSet(f[n]) \cup {seq[n + 1]}
    BY <2>1, <2>2, InternGives
  <2>4. Continues(table, f[n + 1])
    BY <2>1, <2>3, ContinuesOn
  <2>5. Upto(n + 1) = Upto(n) \cup {seq[n + 1]}
    <3>1. 1 .. n + 1 = (1 .. n) \cup {n + 1}
      OBVIOUS
    <3> QED BY <3>1
  <2> HIDE DEF Upto
  <2> QED BY <2>1, <2>3, <2>4, <2>5
<1>4. N \in G
  <2> HIDE DEF G, N
  <2> QED BY <1>0, <1>2, <1>3, CountUp
<1> HIDE DEF Upto
<1> QED BY <1>0, <1>1, <1>4

-----------------------------------------------------------------------------
(***************************************************************************)
(* Concatenation, one list after the other.                                *)
(***************************************************************************)
LEMMA Concatenated ==
  ASSUME NEW S, NEW a \in Seq(S), NEW b \in Seq(S)
  PROVE  a \o b \in Seq(S) /\ ToSet(a \o b) = ToSet(a) \cup ToSet(b)
<1> DEFINE c == a \o b
<1>1. /\ Len(a) \in Nat /\ Len(b) \in Nat /\ DOMAIN a = 1 .. Len(a) /\ DOMAIN b = 1 .. Len(b)
      /\ c \in Seq(S) /\ DOMAIN c = 1 .. Len(a) + Len(b)
      /\ \A i \in 1 .. Len(a) + Len(b) : c[i] = IF i <= Len(a) THEN a[i] ELSE b[i - Len(a)]
  OBVIOUS
<1> HIDE DEF c
<1>2. ASSUME NEW i \in 1 .. Len(a) + Len(b) PROVE c[i] \in ToSet(a) \cup ToSet(b)
  <2>1. i <= Len(a) => i \in DOMAIN a
    BY <1>1
  <2>2. ~(i <= Len(a)) => i - Len(a) \in DOMAIN b
    BY <1>1
  <2> QED BY <1>1, <2>1, <2>2 DEF ToSet
<1>3. ASSUME NEW i \in 1 .. Len(a) PROVE a[i] \in ToSet(c)
  <2>1. i \in DOMAIN c /\ c[i] = a[i]
    BY <1>1
  <2> QED BY <2>1 DEF ToSet
<1>4. ASSUME NEW i \in 1 .. Len(b) PROVE b[i] \in ToSet(c)
  <2>1. /\ Len(a) + i \in DOMAIN c /\ ~(Len(a) + i <= Len(a))
        /\ (Len(a) + i) - Len(a) = i
    BY <1>1
  <2>2. c[Len(a) + i] = b[i]
    BY <1>1, <2>1
  <2> QED BY <2>1, <2>2 DEF ToSet
<1> QED BY <1>1, <1>2, <1>3, <1>4 DEF c, ToSet

(***************************************************************************)
(* FlattenSeq joins one list after the other.                              *)
(***************************************************************************)
JoinStep(ss, f, i) == IF i = 1 THEN ss[i] ELSE f[i - 1] \o ss[i]

Joins(ss) == CHOOSE f : f = [i \in 1 .. Len(ss) |-> JoinStep(ss, f, i)]

\* The last list of many comes last.
LEMMA FlattenIsLast ==
  ASSUME NEW ss, Len(ss) \in Nat \ {0}
  PROVE  /\ FlattenSeq(ss) = Joins(ss)[Len(ss)]
         /\ \A i \in 1 .. Len(ss) : Joins(ss)[i] = JoinStep(ss, Joins(ss), i)
<1> DEFINE G == { n \in Nat : \E f : f = [i \in 1 .. n |-> JoinStep(ss, f, i)] }
<1>1. 0 \in G
  <2> DEFINE f == [i \in 1 .. 0 |-> 0]
  <2>1. f = [i \in 1 .. 0 |-> JoinStep(ss, f, i)]
    OBVIOUS
  <2> HIDE DEF f
  <2> QED BY <2>1
<1>2. ASSUME NEW n \in Nat, n \in G PROVE n + 1 \in G
  <2>1. PICK f : f = [i \in 1 .. n |-> JoinStep(ss, f, i)]
    BY <1>2
  <2> DEFINE g == [i \in 1 .. n + 1 |-> JoinStep(ss, f, i)]
  <2>2. \A i \in 1 .. n : g[i] = f[i]
    BY <2>1
  <2>3. \A i \in 1 .. n + 1 : i # 1 => i - 1 \in 1 .. n
    OBVIOUS
  <2>4. \A k : k = g => k = [i \in 1 .. n + 1 |-> JoinStep(ss, k, i)]
    <3> SUFFICES ASSUME NEW k, k = g
                 PROVE  k = [i \in 1 .. n + 1 |-> JoinStep(ss, k, i)]
      OBVIOUS
    <3>1. \A i \in 1 .. n + 1 : JoinStep(ss, f, i) = JoinStep(ss, k, i)
      <4> HIDE DEF g
      <4> QED BY <2>2, <2>3 DEF JoinStep
    <3> QED BY <3>1
  <2> HIDE DEF g
  <2> QED BY <2>4
<1>3. Len(ss) \in G
  <2> HIDE DEF G
  <2> QED BY <1>1, <1>2, CountUp
<1>4. Joins(ss) = [i \in 1 .. Len(ss) |-> JoinStep(ss, Joins(ss), i)]
  BY <1>3 DEF Joins
<1>5. FlattenSeq(ss) = Joins(ss)[Len(ss)]
  BY DEF FlattenSeq, Joins, JoinStep
<1> QED BY <1>4, <1>5

(***************************************************************************)
(* Flattening loses nothing and adds nothing.                              *)
(***************************************************************************)
LEMMA FlattenGives ==
  ASSUME NEW S, NEW n \in Nat, NEW ss, Len(ss) = n, DOMAIN ss = 1 .. n,
         n = 0 => ss = << >>, \A i \in 1 .. n : ss[i] \in Seq(S)
  PROVE  /\ FlattenSeq(ss) \in Seq(S)
         /\ ToSet(FlattenSeq(ss)) = UNION { ToSet(ss[i]) : i \in 1 .. n }
<1> DEFINE J == Joins(ss)
           Upto(i) == UNION { ToSet(ss[k]) : k \in 1 .. i }
           Good(i) == J[i] \in Seq(S) /\ ToSet(J[i]) = Upto(i)
           G == { m \in Nat : m \in 1 .. n => Good(m) }
<1>1. CASE n = 0
  <2>1. FlattenSeq(ss) = << >> /\ DOMAIN ss = {} /\ << >> \in Seq(S)
    BY <1>1 DEF FlattenSeq
  <2>2. ToSet(<< >>) = {}
    BY DEF ToSet
  <2> QED BY <1>1, <2>1, <2>2
<1>2. CASE n # 0
  <2>1. /\ FlattenSeq(ss) = J[n]
        /\ \A i \in 1 .. n : J[i] = IF i = 1 THEN ss[i] ELSE J[i - 1] \o ss[i]
    BY <1>2, FlattenIsLast DEF JoinStep
  <2> HIDE DEF J
  <2>2. 0 \in G
    OBVIOUS
  <2>3. ASSUME NEW m \in Nat, m \in G PROVE m + 1 \in G
    <3> SUFFICES ASSUME m + 1 \in 1 .. n PROVE Good(m + 1)
      OBVIOUS
    <3>1. 1 .. m + 1 = (1 .. m) \cup {m + 1}
      OBVIOUS
    <3>2. Upto(m + 1) = Upto(m) \cup ToSet(ss[m + 1])
      BY <3>1
    <3>3. CASE m = 0
      <4>1. J[m + 1] = ss[m + 1] /\ Upto(m) = {}
        BY <2>1, <3>3
      <4> HIDE DEF Upto
      <4> QED BY <3>2, <4>1
    <3>4. CASE m # 0
      <4>1. m \in 1 .. n /\ m + 1 # 1 /\ (m + 1) - 1 = m
        BY <3>4
      <4>2. Good(m) /\ J[m + 1] = J[m] \o ss[m + 1]
        BY <2>1, <2>3, <4>1
      <4> HIDE DEF Upto
      <4>3. /\ J[m] \o ss[m + 1] \in Seq(S)
            /\ ToSet(J[m] \o ss[m + 1]) = ToSet(J[m]) \cup ToSet(ss[m + 1])
        BY <4>2, Concatenated
      <4> QED BY <3>2, <4>2, <4>3
    <3> QED BY <3>3, <3>4
  <2>4. n \in G
    <3> HIDE DEF G
    <3> QED BY <2>2, <2>3, CountUp
  <2> HIDE DEF Upto
  <2>5. Good(n)
    BY <1>2, <2>4
  <2> QED BY <2>1, <2>5 DEF Upto
<1> QED BY <1>1, <1>2

(***************************************************************************)
(* The names a version row mentions.                                       *)
(***************************************************************************)
LEMMA MentionedGives ==
  ASSUME NEW row, IsList(row.features), \A f \in ToSet(row.features) : IsList(f.enables)
  PROVE  /\ IsList(Mentioned(row))
         /\ \A f \in ToSet(row.features) :
              /\ f.name \in ToSet(Mentioned(row))
              /\ \A e \in ToSet(f.enables) :
                   e.krate \in ToSet(Mentioned(row)) /\ e.feature \in ToSet(Mentioned(row))
<1> DEFINE NamesOf(f) == {f.name} \cup { e.krate : e \in ToSet(f.enables) }
                           \cup { e.feature : e \in ToSet(f.enables) }
           S == UNION { NamesOf(f) : f \in ToSet(row.features) }
           Pairs(f) == [i \in DOMAIN f.enables |-> <<f.enables[i].krate, f.enables[i].feature>>]
           Of(f) == <<f.name>> \o FlattenSeq(Pairs(f))
           ss == [i \in DOMAIN row.features |-> Of(row.features[i])]
<1>1. ASSUME NEW f \in ToSet(row.features)
      PROVE  Of(f) \in Seq(S) /\ ToSet(Of(f)) = NamesOf(f)
  <2> DEFINE n == Len(f.enables)
             p == Pairs(f)
  <2>1. /\ n \in Nat /\ DOMAIN f.enables = 1 .. n
        /\ ToSet(f.enables) = { f.enables[i] : i \in 1 .. n }
    BY Lists
  <2>2. NamesOf(f) \subseteq S
    OBVIOUS
  <2>3. \A i \in 1 .. n : f.enables[i].krate \in S /\ f.enables[i].feature \in S
    BY <2>1, <2>2
  <2>4. DOMAIN p = 1 .. n /\ \A i \in 1 .. n : p[i] = <<f.enables[i].krate, f.enables[i].feature>>
    BY <2>1
  <2>5. Len(p) = n
    BY <2>1
  <2>6. n = 0 => p = << >>
    BY <2>1
  <2> HIDE DEF S, p, n
  <2>7. \A i \in 1 .. n : p[i] \in Seq(S)
    <3>1. \A a, b \in S : <<a, b>> \in Seq(S)
      OBVIOUS
    <3> QED BY <2>3, <2>4, <3>1
  <2>8. /\ FlattenSeq(p) \in Seq(S)
        /\ ToSet(FlattenSeq(p)) = UNION { ToSet(p[i]) : i \in 1 .. n }
    BY <2>1, <2>4, <2>5, <2>6, <2>7, FlattenGives
  <2>9. \A i \in 1 .. n : ToSet(p[i]) = {f.enables[i].krate, f.enables[i].feature}
    <3>1. \A a, b : ToSet(<<a, b>>) = {a, b}
      BY DEF ToSet
    <3> QED BY <2>4, <3>1
  <2>10. <<f.name>> \in Seq(S) /\ ToSet(<<f.name>>) = {f.name}
    <3>1. f.name \in S
      BY <2>2
    <3> QED BY <3>1 DEF ToSet
  <2>11. /\ Of(f) \in Seq(S)
         /\ ToSet(Of(f)) = {f.name} \cup UNION { ToSet(p[i]) : i \in 1 .. n }
    <3>1. Of(f) = <<f.name>> \o FlattenSeq(p)
      BY DEF p
    <3> DEFINE a == <<f.name>>
               b == FlattenSeq(p)
    <3> HIDE DEF a, b, Of
    <3>2. Of(f) = a \o b /\ a \in Seq(S) /\ b \in Seq(S)
      BY <2>8, <2>10, <3>1 DEF a, b
    <3>3. Of(f) \in Seq(S) /\ ToSet(Of(f)) = ToSet(a) \cup ToSet(b)
      BY <3>2, Concatenated
    <3> QED BY <2>8, <2>10, <3>3 DEF a, b
  <2>12. UNION { ToSet(p[i]) : i \in 1 .. n }
           = { e.krate : e \in ToSet(f.enables) } \cup { e.feature : e \in ToSet(f.enables) }
    <3>1. UNION { ToSet(p[i]) : i \in 1 .. n }
            = UNION { {f.enables[i].krate, f.enables[i].feature} : i \in 1 .. n }
      BY <2>9
    <3> DEFINE E == ToSet(f.enables)
    <3>2. E = { f.enables[i] : i \in 1 .. n }
      BY <2>1
    <3> HIDE DEF E
    <3> QED BY <3>1, <3>2 DEF E
  <2> QED BY <2>11, <2>12
<1> DEFINE N == Len(row.features)
<1>2. /\ N \in Nat /\ DOMAIN row.features = 1 .. N
      /\ ToSet(row.features) = { row.features[i] : i \in 1 .. N }
  BY Lists
<1> HIDE DEF Of, S
<1>3. /\ DOMAIN ss = 1 .. N /\ Len(ss) = N /\ (N = 0 => ss = << >>)
      /\ \A i \in 1 .. N : ss[i] = Of(row.features[i])
  BY <1>2
<1>4. Mentioned(row) = FlattenSeq(ss)
  BY DEF Mentioned, Of
<1> HIDE DEF ss, N, NamesOf
<1>5. \A i \in 1 .. N : ss[i] \in Seq(S) /\ ToSet(ss[i]) = NamesOf(row.features[i])
  BY <1>1, <1>2, <1>3
<1>6. /\ FlattenSeq(ss) \in Seq(S)
      /\ ToSet(FlattenSeq(ss)) = UNION { ToSet(ss[i]) : i \in 1 .. N }
  BY <1>2, <1>3, <1>5, FlattenGives
<1>7. IsList(Mentioned(row))
  BY <1>4, <1>6 DEF IsList, ToSet
<1>8. ASSUME NEW f \in ToSet(row.features) PROVE NamesOf(f) \subseteq ToSet(Mentioned(row))
  BY <1>2, <1>4, <1>5, <1>6
<1> QED BY <1>7, <1>8 DEF NamesOf

-----------------------------------------------------------------------------
(***************************************************************************)
(* The least number that is not used is one that is not used.              *)
(***************************************************************************)
LEMMA LeastUnusedGives ==
  ASSUME NEW used, used \subseteq Nat, IsFiniteSet(used), NEW first \in Nat
  PROVE  LeastUnused(used, first) \in Nat /\ LeastUnused(used, first) \notin used
<1> DEFINE C == Cardinality(used)
           I == first .. first + C
           S == Nat \ (used \cup 0 .. first - 1)
           Good(n) == n \notin used /\ \A k \in first .. n - 1 : k \in used
<1>1. C \in Nat
  BY FS_CardinalityType
<1>2. PICK m \in I : m \notin used
  <2> SUFFICES ASSUME I \subseteq used PROVE FALSE
    OBVIOUS
  <2>1. IsFiniteSet(I) /\ Cardinality(I) = C + 1
    <3>1. first \in Int /\ first + C \in Int /\ ~(first > first + C)
      BY <1>1
    <3>2. Cardinality(first .. first + C) = (first + C) - first + 1
      BY <3>1, FS_Interval
    <3> QED BY <1>1, <3>1, <3>2, FS_Interval
  <2>2. Cardinality(I) <= C
    <3> HIDE DEF I, C
    <3> QED BY FS_Subset DEF C
  <2> QED BY <1>1, <2>1, <2>2
<1>3. m \in S
  BY <1>1, <1>2
<1>4. PICK n \in S : \A k \in S : ~ (<<k, n>> \in OpToRel(<, Nat))
  <2>1. S \subseteq Nat /\ S # {}
    BY <1>3
  <2> HIDE DEF S
  <2> QED BY <2>1, NatLessThanWellFounded, WFMin
<1>5. \A k \in S : ~(k < n)
  <2> SUFFICES ASSUME NEW k \in S, k < n PROVE FALSE
    OBVIOUS
  <2>1. k \in Nat /\ n \in Nat
    OBVIOUS
  <2>2. <<k, n>> \in OpToRel(<, Nat)
    BY <2>1, Zenon DEF OpToRel
  <2> QED BY <1>4, <2>2
<1>6. n \in I /\ Good(n)
  <2>1. n \in Nat /\ n >= first /\ n \notin used
    OBVIOUS
  <2>2. n <= m
    BY <1>1, <1>3, <1>5
  <2>3. \A k \in first .. n - 1 : k \in used
    BY <1>5, <2>1
  <2> QED BY <1>1, <2>1, <2>2, <2>3
<1>7. LeastUnused(used, first) = CHOOSE k \in I : Good(k)
  BY DEF LeastUnused
<1> HIDE DEF Good
<1>8. LeastUnused(used, first) \in I /\ Good(LeastUnused(used, first))
  BY <1>6, <1>7
<1> QED BY <1>1, <1>8 DEF Good

(***************************************************************************)
(* The ids on a list are finitely many.                                    *)
(***************************************************************************)
LEMMA IdsAreFinite ==
  ASSUME NEW s, IsList(s)
  PROVE  IsFiniteSet({ x.id : x \in ToSet(s) })
<1> DEFINE n == Len(s)
           I == { x.id : x \in ToSet(s) }
           f == [i \in 1 .. n |-> s[i].id]
<1>1. n \in Nat /\ ToSet(s) = { s[i] : i \in 1 .. n }
  BY Lists
<1> HIDE DEF n
<1>2. I = { s[i].id : i \in 1 .. n }
  BY <1>1
<1>3. f \in [1 .. n -> I] /\ \A x \in I : \E i \in 1 .. n : f[i] = x
  BY <1>2
<1>4. f \in Surjection(1 .. n, I)
  <2> HIDE DEF f, I
  <2> QED BY <1>3 DEF Surjection
<1>5. IsFiniteSet(1 .. n)
  BY <1>1, FS_Interval
<1> HIDE DEF f, I
<1>6. IsFiniteSet(I)
  BY <1>4, <1>5, FS_Surjection
<1> QED BY <1>6 DEF I

(***************************************************************************)
(* A finite set, put in some order.                                        *)
(***************************************************************************)
LEMMA SetInOrder ==
  ASSUME NEW S, IsFiniteSet(S)
  PROVE  IsList(SetToSeq(S)) /\ ToSet(SetToSeq(S)) = S
<1> DEFINE n == Cardinality(S)
           s == SetToSeq(S)
<1>1. n \in Nat /\ ExistsBijection(1 .. n, S)
  BY FS_CardinalityType
<1>2. PICK b \in [1 .. n -> S] : IsInjective(b)
  BY <1>1 DEF ExistsBijection, Bijection, Injection, IsInjective
<1>3. s \in [1 .. n -> S] /\ IsInjective(s)
  BY <1>2 DEF SetToSeq
<1> HIDE DEF s
<1>4. s \in Injection(1 .. n, S)
  BY <1>3 DEF Injection, IsInjective
<1>5. Cardinality(1 .. n) = n
  BY <1>1, FS_Interval
<1>6. s \in Surjection(1 .. n, S)
  BY <1>4, <1>5, FS_Injection
<1>7. DOMAIN s = 1 .. n /\ ToSet(s) = S
  BY <1>3, <1>6 DEF Surjection, ToSet
<1>8. s \in Seq(S)
  BY <1>1, <1>3
<1> QED BY <1>7, <1>8 DEF IsList, s

-----------------------------------------------------------------------------
(***************************************************************************)
(* The crate of a name is one whose name is the same, if there is one.     *)
(***************************************************************************)
LEMMA CrateIdGives ==
  ASSUME NEW table, DOMAIN table \subseteq Nat, NEW name
  PROVE  /\ CrateId(table, name) # None =>
              /\ CrateId(table, name) \in DOMAIN table
              /\ Folded[table[CrateId(table, name)]] = Folded[name]
         /\ CrateId(table, name) = None =>
              \A c \in DOMAIN table : Folded[table[c]] # Folded[name]
<1> DEFINE same == { c \in DOMAIN table : Folded[table[c]] = Folded[name] }
<1>1. CrateId(table, name) = IF same = {} THEN None ELSE CHOOSE c \in same : TRUE
  BY DEF CrateId
<1>2. CASE same = {}
  BY <1>1, <1>2
<1>3. CASE same # {}
  <2>1. CrateId(table, name) \in same
    BY <1>1, <1>3
  <2>2. CrateId(table, name) # None
    BY <2>1 DEF None
  <2> QED BY <2>1, <2>2
<1> QED BY <1>2, <1>3

(***************************************************************************)
(* The crate that is called so, if no two are called the same.             *)
(***************************************************************************)
LEMMA CrateIdIs ==
  ASSUME NEW table, DOMAIN table \subseteq Nat,
         \A c, d \in DOMAIN table : Folded[table[c]] = Folded[table[d]] => c = d,
         NEW name, NEW c \in DOMAIN table, Folded[table[c]] = Folded[name]
  PROVE  CrateId(table, name) = c
BY CrateIdGives

(***************************************************************************)
(* A crate that can be inserted keeps the names apart.                     *)
(***************************************************************************)
LEMMA Inserted ==
  ASSUME NEW table, DOMAIN table \subseteq Nat, IsFiniteSet(DOMAIN table),
         \A c, d \in DOMAIN table : Folded[table[c]] = Folded[table[d]] => c = d,
         NEW id \in Nat, NEW name, CanInsert(table, id, name)
  PROVE  LET t == Insert(table, id, name)
         IN /\ DOMAIN t = DOMAIN table \cup {id}
            /\ DOMAIN t \subseteq Nat /\ IsFiniteSet(DOMAIN t)
            /\ \A c \in DOMAIN table : c # id /\ t[c] = table[c]
            /\ t[id] = name
            /\ \A c, d \in DOMAIN t : Folded[t[c]] = Folded[t[d]] => c = d
            /\ \A n : CrateId(table, n) # None => CrateId(t, n) # None
            /\ CrateId(t, name) # None
<1> DEFINE t == Insert(table, id, name)
<1>1. /\ DOMAIN t = DOMAIN table \cup {id} /\ id \notin DOMAIN table
      /\ \A c \in DOMAIN table : c # id /\ t[c] = table[c]
      /\ t[id] = name
  BY DEF Insert, CanInsert
<1> HIDE DEF t
<1>2. DOMAIN t \subseteq Nat /\ IsFiniteSet(DOMAIN t)
  BY <1>1, FS_AddElement
<1>3. \A c \in DOMAIN table : Folded[table[c]] # Folded[name]
  BY CrateIdGives DEF CanInsert
<1>4. \A c, d \in DOMAIN t : Folded[t[c]] = Folded[t[d]] => c = d
  BY <1>1, <1>3
<1>5. ASSUME NEW n, NEW c \in DOMAIN t, Folded[t[c]] = Folded[n] PROVE CrateId(t, n) # None
  BY <1>2, <1>5, CrateIdGives
<1>6. ASSUME NEW n, CrateId(table, n) # None PROVE CrateId(t, n) # None
  <2>1. CrateId(table, n) \in DOMAIN table /\ Folded[table[CrateId(table, n)]] = Folded[n]
    BY <1>6, CrateIdGives
  <2> QED BY <1>1, <1>5, <2>1
<1>7. CrateId(t, name) # None
  BY <1>1, <1>5
<1> QED BY <1>1, <1>2, <1>4, <1>6, <1>7 DEF t

-----------------------------------------------------------------------------
(***************************************************************************)
(* An id that is fresh tells what has it from everything else.             *)
(***************************************************************************)
LEMMA FreshGives ==
  ASSUME NEW s, IsList(s), \A x \in ToSet(s) : x.id \in Nat
  PROVE  LET id == Fresh({ x.id : x \in ToSet(s) })
         IN id \in Nat /\ \A x \in ToSet(s) : x.id # id
<1> DEFINE I == { x.id : x \in ToSet(s) }
<1>1. I \subseteq Nat /\ IsFiniteSet(I)
  BY IdsAreFinite
<1> HIDE DEF I
<1>2. Fresh(I) \in Nat /\ Fresh(I) \notin I
  BY <1>1, LeastUnusedGives DEF Fresh
<1> QED BY <1>2 DEF I

\* What is appended with an id of its own keeps the ids apart.
LEMMA AppendKeepsIds ==
  ASSUME NEW s, HaveIds(s), NEW x, x.id \in Nat, \A y \in ToSet(s) : y.id # x.id
  PROVE  HaveIds(Append(s, x))
<1> DEFINE t == Append(s, x)
<1>1. /\ IsList(t) /\ Len(t) = Len(s) + 1 /\ Len(s) \in Nat
      /\ \A i \in 1 .. Len(s) : t[i] = s[i] /\ s[i] \in ToSet(s)
      /\ t[Len(s) + 1] = x /\ ToSet(t) = ToSet(s) \cup {x}
      /\ DOMAIN s = 1 .. Len(s)
  BY Appended, Lists DEF HaveIds
<1> HIDE DEF t
<1>2. DOMAIN t = 1 .. Len(s) + 1
  BY <1>1, Lists
<1>3. ASSUME NEW i \in 1 .. Len(s) + 1, NEW j \in 1 .. Len(s) + 1, t[i].id = t[j].id
      PROVE  i = j
  <2>1. i \in 1 .. Len(s) \/ i = Len(s) + 1
    BY <1>1
  <2>2. j \in 1 .. Len(s) \/ j = Len(s) + 1
    BY <1>1
  <2> QED BY <1>1, <1>3, <2>1, <2>2 DEF HaveIds
<1> QED BY <1>1, <1>2, <1>3 DEF HaveIds, t

(***************************************************************************)
(* AddAll adds one row after the other.                                    *)
(***************************************************************************)
AddStep(deps, added, f, n) == IF n = 0 THEN deps ELSE AddDependency(f[n - 1], added[n])

AddSteps(deps, added) ==
  CHOOSE f : f = [n \in 0 .. Len(added) |-> AddStep(deps, added, f, n)]

\* Adding one more row comes last.
LEMMA AddAllIsLast ==
  ASSUME NEW deps, NEW added, Len(added) \in Nat
  PROVE  /\ AddAll(deps, added) = AddSteps(deps, added)[Len(added)]
         /\ \A n \in 0 .. Len(added) :
              AddSteps(deps, added)[n] = AddStep(deps, added, AddSteps(deps, added), n)
<1> DEFINE G == { n \in Nat : \E f : f = [m \in 0 .. n |-> AddStep(deps, added, f, m)] }
<1>1. 0 \in G
  <2> DEFINE f == [m \in 0 .. 0 |-> deps]
  <2>1. \A m \in 0 .. 0 : AddStep(deps, added, f, m) = deps
    BY DEF AddStep
  <2>2. f = [m \in 0 .. 0 |-> AddStep(deps, added, f, m)]
    BY <2>1
  <2> HIDE DEF f
  <2> QED BY <2>2
<1>2. ASSUME NEW n \in Nat, n \in G PROVE n + 1 \in G
  <2>1. PICK f : f = [m \in 0 .. n |-> AddStep(deps, added, f, m)]
    BY <1>2
  <2> DEFINE g == [m \in 0 .. n + 1 |-> AddStep(deps, added, f, m)]
  <2>2. \A m \in 0 .. n : g[m] = f[m]
    BY <2>1
  <2>3. \A m \in 0 .. n + 1 : m # 0 => m - 1 \in 0 .. n
    OBVIOUS
  <2>4. \A k : k = g => k = [m \in 0 .. n + 1 |-> AddStep(deps, added, k, m)]
    <3> SUFFICES ASSUME NEW k, k = g
                 PROVE  k = [m \in 0 .. n + 1 |-> AddStep(deps, added, k, m)]
      OBVIOUS
    <3>1. \A m \in 0 .. n + 1 : AddStep(deps, added, f, m) = AddStep(deps, added, k, m)
      <4> HIDE DEF g
      <4> QED BY <2>2, <2>3 DEF AddStep
    <3> QED BY <3>1
  <2> HIDE DEF g
  <2> QED BY <2>4
<1>3. Len(added) \in G
  <2> HIDE DEF G
  <2> QED BY <1>1, <1>2, CountUp
<1>4. AddSteps(deps, added)
        = [n \in 0 .. Len(added) |-> AddStep(deps, added, AddSteps(deps, added), n)]
  BY <1>3 DEF AddSteps
<1>5. AddAll(deps, added) = AddSteps(deps, added)[Len(added)]
  BY DEF AddAll, AddSteps, AddStep
<1> QED BY <1>4, <1>5

(***************************************************************************)
(* Every row is added, with an id that nothing else has, and nothing else  *)
(* is added or taken away.                                                 *)
(***************************************************************************)
LEMMA AddAllGives ==
  ASSUME NEW deps, HaveIds(deps), NEW added, IsList(added),
         \A d \in ToSet(added) : "id" \in DOMAIN d
  PROVE  LET all == AddAll(deps, added)
         IN /\ HaveIds(all)
            /\ ToSet(deps) \subseteq ToSet(all)
            /\ \A x \in ToSet(all) : \/ x \in ToSet(deps)
                                     \/ \E d \in ToSet(added) : x = [d EXCEPT !.id = x.id]
            /\ \A d \in ToSet(added) : \E x \in ToSet(all) : x = [d EXCEPT !.id = x.id]
<1> DEFINE N == Len(added)
           f == AddSteps(deps, added)
           Good(n) ==
             /\ HaveIds(f[n])
             /\ ToSet(deps) \subseteq ToSet(f[n])
             /\ \A x \in ToSet(f[n]) : \/ x \in ToSet(deps)
                                       \/ \E d \in ToSet(added) : x = [d EXCEPT !.id = x.id]
             /\ \A i \in 1 .. n : \E x \in ToSet(f[n]) : x = [added[i] EXCEPT !.id = x.id]
           G == { n \in Nat : n <= N => Good(n) }
<1>0. N \in Nat /\ ToSet(added) = { added[i] : i \in 1 .. N }
  BY Lists
<1>1. AddAll(deps, added) = f[N] /\ \A n \in 0 .. N : f[n] = AddStep(deps, added, f, n)
  BY <1>0, AddAllIsLast
<1> HIDE DEF f, N
<1>2. 0 \in G
  <2>1. f[0] = deps
    BY <1>0, <1>1 DEF AddStep
  <2>2. Good(0)
    BY <2>1
  <2> HIDE DEF Good
  <2> QED BY <2>2
<1>3. ASSUME NEW n \in Nat, n \in G PROVE n + 1 \in G
  <2> DEFINE d  == added[n + 1]
             id == Fresh({ x.id : x \in ToSet(f[n]) })
             x  == [d EXCEPT !.id = id]
  <2>1. Good(n + 1) => n + 1 \in G
    <3> HIDE DEF Good
    <3> QED OBVIOUS
  <2> SUFFICES ASSUME n + 1 <= N PROVE Good(n + 1)
    BY <2>1
  <2>2. Good(n)
    <3> HIDE DEF Good
    <3> QED BY <1>0, <1>3
  <2>3. d \in ToSet(added) /\ "id" \in DOMAIN d
    BY <1>0
  <2>4. f[n + 1] = Append(f[n], x)
    <3>1. n + 1 \in 0 .. N /\ n + 1 # 0 /\ (n + 1) - 1 = n
      BY <1>0
    <3> QED BY <1>1, <3>1 DEF AddStep, AddDependency
  <2>5. id \in Nat /\ \A y \in ToSet(f[n]) : y.id # id
    BY <2>2, FreshGives DEF HaveIds
  <2>6. x.id = id /\ x = [d EXCEPT !.id = x.id]
    BY <2>3
  <2> HIDE DEF x, id, d
  <2>7. HaveIds(f[n + 1])
    BY <2>2, <2>4, <2>5, <2>6, AppendKeepsIds
  <2>8. ToSet(f[n + 1]) = ToSet(f[n]) \cup {x}
    BY <2>2, <2>4, Appended DEF HaveIds
  <2>9. \A i \in 1 .. n + 1 : i \in 1 .. n \/ i = n + 1
    OBVIOUS
  <2>10. \A i \in 1 .. n + 1 : \E y \in ToSet(f[n + 1]) : y = [added[i] EXCEPT !.id = y.id]
    BY <2>2, <2>6, <2>8, <2>9 DEF d
  <2>11. \A y \in ToSet(f[n + 1]) : \/ y \in ToSet(deps)
                                    \/ \E e \in ToSet(added) : y = [e EXCEPT !.id = y.id]
    BY <2>2, <2>3, <2>6, <2>8
  <2> QED BY <2>2, <2>7, <2>8, <2>10, <2>11
<1>4. N \in G
  <2> HIDE DEF G
  <2> QED BY <1>0, <1>2, <1>3, CountUp
<1>5. Good(N)
  <2> HIDE DEF Good
  <2> QED BY <1>0, <1>4
<1> HIDE DEF Good
<1>6. /\ HaveIds(f[N])
      /\ ToSet(deps) \subseteq ToSet(f[N])
      /\ \A x \in ToSet(f[N]) : \/ x \in ToSet(deps)
                                \/ \E d \in ToSet(added) : x = [d EXCEPT !.id = x.id]
      /\ \A i \in 1 .. N : \E x \in ToSet(f[N]) : x = [added[i] EXCEPT !.id = x.id]
  BY <1>5 DEF Good
<1>7. \A d \in ToSet(added) : \E x \in ToSet(f[N]) : x = [d EXCEPT !.id = x.id]
  BY <1>0, <1>6
<1> QED BY <1>1, <1>6, <1>7

-----------------------------------------------------------------------------
(***************************************************************************)
(* What is known of a dump.                                                *)
(***************************************************************************)
LEMMA DumpFacts ==
  ASSUME dump \in Dumps
  PROVE  /\ DOMAIN dump = Tables
         /\ \A t \in Tables : /\ IsFiniteSet(dump[t])
                              /\ \A r \in dump[t] : r.id \in Nat
                              /\ \A r, s \in dump[t] : r.id = s.id => r = s
         /\ \A v \in dump.versions :
              /\ IsList(v.features)
              /\ \A f \in ToSet(v.features) :
                   IsList(f.enables) /\ \A e \in ToSet(f.enables) : e.weak \in BOOLEAN
              /\ \A f, g \in ToSet(v.features) : f.name = g.name => f = g
         /\ \A r \in dump.dependencies : IsList(r.features)
         /\ Consistent(dump)
<1>1. WellFormed(dump) /\ Consistent(dump)
  BY LoadAssumption
<1> QED BY <1>1 DEF WellFormed, Tables

(***************************************************************************)
(* Reading a row adds it to what is seen.                                  *)
(***************************************************************************)
LEMMA ReadGives ==
  ASSUME TablesInv, NEW table \in Tables, NEW row, Read(table, row), UNCHANGED dump
  PROVE  /\ pc = "read" /\ row \in dump[table] /\ row \notin Seen(table)
         /\ Seen(table)' = Seen(table) \cup {row}
         /\ \A t \in Tables \ {table} : Seen(t)' = Seen(t)
         /\ DOMAIN unread' = Tables /\ \A t \in Tables : unread'[t] \subseteq dump'[t]
BY DEF TablesInv, Read, Seen

\* Reading a row keeps what is said of the tables.
LEMMA ReadKeepsTables ==
  ASSUME TablesInv, NEW table \in Tables, NEW row, Read(table, row), UNCHANGED <<dump, pc, next>>
  PROVE  TablesInv'
<1>1. /\ pc = "read"
      /\ DOMAIN unread' = Tables /\ \A t \in Tables : unread'[t] \subseteq dump'[t]
  BY ReadGives
<1> QED BY <1>1 DEF TablesInv

-----------------------------------------------------------------------------
(* Features grow.                                                          *)

\* What a step may do to the names of features.
Grows == IsTable(features) /\ IsTable(features') /\ Continues(features, features')

\* Names that stay as they are go on where they end.
LEMMA GrowsNot ==
  ASSUME FeaturesInv, UNCHANGED features
  PROVE  Grows /\ FeaturesInv'
<1>1. Len(features) \in Nat
  BY Lists DEF FeaturesInv
<1>2. IsTable(features)
  BY DEF FeaturesInv, IsTable
<1>3. Continues(features, features)
  BY <1>1 DEF Continues
<1>4. FeaturesInv'
  BY DEF FeaturesInv
<1> QED BY <1>2, <1>3, <1>4 DEF Grows

\* Interning goes on where the names end.
LEMMA GrowsBy ==
  ASSUME FeaturesInv, NEW seq, IsList(seq), features' = InternAll(features, seq)
  PROVE  Grows /\ FeaturesInv' /\ ToSet(features') = ToSet(features) \cup ToSet(seq)
<1>1. IsTable(features)
  BY DEF FeaturesInv, IsTable
<1>2. /\ IsTable(features') /\ Continues(features, features')
      /\ ToSet(features') = ToSet(features) \cup ToSet(seq)
  BY <1>1, InternAllGives
<1>3. Len(features) \in Nat /\ Len(features') \in Nat
  BY <1>1, <1>2, Lists DEF IsTable
<1>4. Len(features) >= 2 /\ features[1] = "" /\ features[2] = "default"
  BY DEF FeaturesInv, CRATE, DEFAULT
<1>5. 1 \in 1 .. Len(features) /\ 2 \in 1 .. Len(features) /\ Len(features') >= 2
  <2>1. Len(features) >= 2
    BY <1>4
  <2>2. Len(features) <= Len(features')
    BY <1>2 DEF Continues
  <2> QED BY <1>3, <2>1, <2>2
<1>6. features'[1] = "" /\ features'[2] = "default"
  BY <1>2, <1>4, <1>5 DEF Continues
<1>7. FeaturesInv'
  BY <1>2, <1>5, <1>6 DEF FeaturesInv, IsTable, CRATE, DEFAULT
<1> QED BY <1>1, <1>2, <1>7 DEF Grows

(***************************************************************************)
(* The names that are in a table stay there.                               *)
(***************************************************************************)
LEMMA NamesStay ==
  ASSUME Grows
  PROVE  /\ ToSet(features) \subseteq ToSet(features')
         /\ \A name \in ToSet(features) : FeatureId(features', name) = FeatureId(features, name)
         /\ \A row : VersionKnown(features, row) => VersionKnown(features', row)
         /\ \A row : RowKnown(features, row) => RowKnown(features', row)
<1>1. \A name \in ToSet(features) :
        name \in ToSet(features') /\ FeatureId(features', name) = FeatureId(features, name)
  BY IdStays DEF Grows
<1> QED BY <1>1 DEF VersionKnown, RowKnown

(***************************************************************************)
(* What is encoded stays so.                                               *)
(***************************************************************************)
LEMMA EncodedStays ==
  ASSUME NEW t, NEW u, NEW row, VersionKnown(t, row),
         \A name \in ToSet(t) : FeatureId(u, name) = FeatureId(t, name)
  PROVE  Encoded(u, row) = Encoded(t, row)
<1> DEFINE Enabled(v, f, weak) ==
             { [crate |-> FeatureId(v, e.krate), feature |-> FeatureId(v, e.feature)] :
                 e \in { x \in ToSet(f.enables) : x.weak = weak } }
           Of(v, f) == [id |-> FeatureId(v, f.name), enables |-> Enabled(v, f, FALSE),
                        weak |-> Enabled(v, f, TRUE)]
<1>1. ASSUME NEW f \in ToSet(row.features) PROVE Of(u, f) = Of(t, f)
  <2>1. ASSUME NEW weak PROVE Enabled(u, f, weak) = Enabled(t, f, weak)
    <3>1. \A e \in ToSet(f.enables) : /\ FeatureId(u, e.krate) = FeatureId(t, e.krate)
                                      /\ FeatureId(u, e.feature) = FeatureId(t, e.feature)
      BY DEF VersionKnown
    <3> QED BY <3>1
  <2>2. FeatureId(u, f.name) = FeatureId(t, f.name)
    BY DEF VersionKnown
  <2> HIDE DEF Enabled
  <2> QED BY <2>1, <2>2
<1>2. \A v : Encoded(v, row) =
        [id |-> row.id, crate |-> row.crate, num |-> row.num, time |-> row.time,
         features |-> { Of(v, f) : f \in ToSet(row.features) }]
  BY DEF Encoded
<1> HIDE DEF Of
<1>3. { Of(u, f) : f \in ToSet(row.features) } = { Of(t, f) : f \in ToSet(row.features) }
  BY <1>1
<1> QED BY <1>2, <1>3

\* A dependency stays what it is as the table grows.
LEMMA EncodedRowStays ==
  ASSUME NEW t, NEW u, NEW row, RowKnown(t, row),
         \A name \in ToSet(t) : FeatureId(u, name) = FeatureId(t, name)
  PROVE  EncodedRow(u, row) = EncodedRow(t, row)
<1>1. \A f \in ToSet(row.features) : FeatureId(u, f) = FeatureId(t, f)
  BY DEF RowKnown
<1>2. { FeatureId(u, f) : f \in ToSet(row.features) } = { FeatureId(t, f) : f \in ToSet(row.features) }
  BY <1>1
<1> QED BY <1>2 DEF EncodedRow

-----------------------------------------------------------------------------
(* What a step does not touch.                                             *)

Early == {"read", "restore"}

\* Releases stay those of their rows while only the table grows.
LEMMA ReleasesKept ==
  ASSUME ReleasesInv, pc \in Early, pc' \in Early \cup {"resolve"}, pc' = "resolve" => next' = 1,
         Kept' = Kept, UNCHANGED releases, Grows
  PROVE  ReleasesInv'
<1>1. Mends = 0 /\ Mends' = 0 /\ Len(releases) \in Nat
  BY Lists DEF Mends, Early, ReleasesInv
<1>2. Loads = Len(releases) /\ Loads' = Loads
  BY <1>1 DEF Loads
<1>3. ASSUME NEW row \in Kept, NEW i \in 1 .. Loads, IsReleaseOf(i, row)
      PROVE  IsReleaseOf(i, row)'
  <2>1. ~IsResolved(i) /\ ~IsResolved(i)'
    BY DEF IsResolved, Early
  <2>2. releases[i] = Encoded(features, row)
    BY <1>3, <2>1 DEF IsReleaseOf
  <2>3. VersionKnown(features, row)
    BY DEF ReleasesInv
  <2>4. Encoded(features', row) = Encoded(features, row)
    BY <2>3, NamesStay, EncodedStays
  <2>5. releases'[i] = Encoded(features', row)
    BY <2>2, <2>4
  <2> QED BY <2>1, <2>5 DEF IsReleaseOf
<1>4. \A row \in Kept : VersionKnown(features', row)
  BY NamesStay DEF ReleasesInv
<1>5. pc' # "failed"
  BY DEF Early
<1> QED BY <1>2, <1>3, <1>4, <1>5 DEF ReleasesInv

\* Dependencies stay those of their rows while only the table grows.
LEMMA DependenciesKept ==
  ASSUME DependenciesInv, pc \in Early \cup {"resolve"}, pc' \in Early \cup {"resolve", "failed"},
         Seen("dependencies")' = Seen("dependencies"), UNCHANGED dependencies, Grows
  PROVE  DependenciesInv'
<1>1. ASSUME NEW dep, Listed(dep) PROVE FALSE
  BY <1>1 DEF Listed, Mends, Early
<1>2. ASSUME NEW row \in Seen("dependencies"), NEW dep, IsRowOf(dep, row) PROVE IsRowOf(dep, row)'
  <2>1. dep = EncodedRow(features, row)
    BY <1>2 DEF IsRowOf, Early
  <2>2. EncodedRow(features', row) = EncodedRow(features, row)
    BY NamesStay, EncodedRowStays DEF DependenciesInv
  <2>3. dep = EncodedRow(features', row)
    BY <2>1, <2>2
  <2>4. pc' \notin {"mend", "done"}
    BY DEF Early
  <2> QED BY <2>3, <2>4 DEF IsRowOf
<1>3. \A row \in Seen("dependencies") : RowKnown(features', row)
  BY NamesStay DEF DependenciesInv
<1> HIDE DEF Seen
<1> QED BY <1>1, <1>2, <1>3 DEF DependenciesInv

\* What is renamed stays so while only the table grows.
LEMMA RenamesKept ==
  ASSUME RenamesInv, DependenciesInv, Seen("dependencies")' = Seen("dependencies"),
         UNCHANGED <<renames, resolve>>, Grows
  PROVE  RenamesInv'
<1>1. ASSUME NEW row \in Seen("dependencies"), row.alias # ""
      PROVE  FeatureId(features', row.alias) = FeatureId(features, row.alias)
  BY <1>1, NamesStay DEF DependenciesInv, RowKnown
<1> HIDE DEF Seen
<1>2. \A id \in DOMAIN renames' : \E row \in Seen("dependencies")' : row.id = id /\ row.alias # ""
  BY DEF RenamesInv
<1>3. \A row \in Seen("dependencies")' :
        row.alias # "" => /\ row.id \in DOMAIN renames' /\ renames'[row.id] = row.alias
                          /\ <<row.version, FeatureId(features', row.alias)>> \in DOMAIN resolve'
  BY <1>1 DEF RenamesInv
<1>4. \A key \in DOMAIN resolve' : \E row \in Seen("dependencies")' :
        /\ row.alias # ""
        /\ key = <<row.version, FeatureId(features', row.alias)>>
        /\ resolve'[key] = row.crate
  <2> SUFFICES ASSUME NEW key \in DOMAIN resolve
               PROVE  \E row \in Seen("dependencies") :
                        /\ row.alias # ""
                        /\ key = <<row.version, FeatureId(features', row.alias)>>
                        /\ resolve[key] = row.crate
    OBVIOUS
  <2>1. PICK row \in Seen("dependencies") :
          /\ row.alias # ""
          /\ key = <<row.version, FeatureId(features, row.alias)>>
          /\ resolve[key] = row.crate
    BY DEF RenamesInv
  <2>2. FeatureId(features', row.alias) = FeatureId(features, row.alias)
    BY <1>1, <2>1
  <2> QED BY <2>1, <2>2
<1> QED BY <1>2, <1>3, <1>4 DEF RenamesInv

\* Crates keep their names while none is added.
LEMMA NamesKept ==
  ASSUME NamesInv, Seen("crates")' = Seen("crates"), UNCHANGED names,
         pc # "read" => pc' # "read", \A k \in DOMAIN MendedCrates : IsMended(k)' => IsMended(k)
  PROVE  NamesInv'
BY DEF NamesInv

\* Before the last phase nothing is mended.
LEMMA NothingMended ==
  ASSUME pc' \notin {"mend", "done"}
  PROVE  MendedInv'
BY DEF MendedInv, Mends

-----------------------------------------------------------------------------
(* Nothing is loaded at first.                                             *)

\* Nothing is read to begin with.
LEMMA InitHolds == Init => LoadInv
<1> SUFFICES ASSUME Init PROVE LoadInv
  OBVIOUS
<1>1. dump \in Dumps /\ unread = dump /\ pc = "read" /\ next = 1
  BY DEF Init
<1>2. features = <<"", "default">>
  BY DEF Init
<1>3. names = << >> /\ releases = << >> /\ dependencies = << >> /\ renames = << >> /\ resolve = << >>
  BY DEF Init
<1>4. Seen("crates") = {} /\ Seen("versions") = {} /\ Seen("dependencies") = {} /\ Kept = {}
  BY <1>1 DEF Seen, Kept
<1>5. IsList(<< >>) /\ Len(<< >>) = 0 /\ DOMAIN << >> = {} /\ ToSet(<< >>) = {}
  BY DEF IsList, ToSet
<1>6. TablesInv
  <2>1. DOMAIN unread = Tables
    BY <1>1, DumpFacts
  <2>2. next \in Nat \ {0}
    BY <1>1
  <2> QED BY <1>1, <2>1, <2>2 DEF TablesInv
<1>7. NamesInv
  BY <1>1, <1>3, <1>4, <1>5, FS_EmptySet DEF NamesInv, IsMended
<1>13. FeaturesInv
  <2>1. Len(features) = 2
    BY <1>2
  <2>2. /\ DOMAIN features = 1 .. 2 /\ features = [i \in 1 .. 2 |-> features[i]]
        /\ features[1] = "" /\ features[2] = "default"
    <3>1. features[1] = "" /\ features[2] = "default"
      BY <1>2
    <3>2. <<"", "default">> \in Seq({"", "default"})
      OBVIOUS
    <3>3. features \in Seq({"", "default"})
      BY <1>2, <3>2
    <3>4. \A S : \A f \in Seq(S) : DOMAIN f = 1 .. Len(f) /\ f \in [1 .. Len(f) -> S]
      OBVIOUS
    <3>5. DOMAIN features = 1 .. 2 /\ features \in [1 .. 2 -> {"", "default"}]
      BY <2>1, <3>3, <3>4
    <3> QED BY <3>1, <3>5
  <2>3. IsList(features)
    BY <2>2, ListOf
  <2>4. IsInjective(features)
    <3>1. \A i \in DOMAIN features : i = 1 \/ i = 2
      <4>1. DOMAIN features = 1 .. 2
        BY <2>2
      <4> QED BY <4>1
    <3> QED BY <2>2, <3>1 DEF IsInjective
  <2>5. Len(features) >= 2
    BY <2>1
  <2> QED BY <2>2, <2>3, <2>4, <2>5 DEF FeaturesInv
<1>14. Mends = 0 /\ Loads = 0
  <2>1. Mends = 0
    BY <1>1 DEF Mends
  <2>2. Len(releases) = 0
    BY <1>3, <1>5
  <2> QED BY <2>1, <2>2 DEF Loads
<1>8. ReleasesInv
  <2>1. IsList(releases) /\ Loads = Cardinality(Kept)
    BY <1>3, <1>4, <1>5, <1>14, FS_EmptySet
  <2>2. 1 .. Loads = {}
    BY <1>14
  <2> QED BY <1>1, <1>4, <2>1, <2>2 DEF ReleasesInv
<1>9. RenamesInv
  BY <1>3, <1>4, <1>5 DEF RenamesInv
<1>10. DependenciesInv
  BY <1>3, <1>4, <1>5 DEF DependenciesInv, HaveIds
<1>11. MendedInv
  BY <1>14 DEF MendedInv
<1>12. IdsAreUnique
  BY <1>3, <1>5 DEF IdsAreUnique
<1> QED BY <1>6, <1>7, <1>13, <1>8, <1>9, <1>10, <1>11, <1>12 DEF LoadInv

-----------------------------------------------------------------------------
(***************************************************************************)
(* The row of a crate can be entered: neither its id nor its name is taken *)
(* by a row that was read before.                                          *)
(***************************************************************************)
LEMMA ReadCrateKeeps ==
  ASSUME LoadInv, NEW row, ReadCrate(row)
  PROVE  LoadInv'
<1>1. /\ Read("crates", row)
      /\ UNCHANGED <<dump, features, releases, dependencies, renames, resolve, next>>
  BY DEF ReadCrate
<1>2. /\ TablesInv /\ NamesInv /\ FeaturesInv /\ ReleasesInv /\ RenamesInv
      /\ DependenciesInv /\ IdsAreUnique
  BY DEF LoadInv
<1>3. /\ pc = "read" /\ row \in dump.crates /\ row \notin Seen("crates")
      /\ Seen("crates")' = Seen("crates") \cup {row}
      /\ Seen("versions")' = Seen("versions") /\ Seen("dependencies")' = Seen("dependencies")
  <2>1. "crates" \in Tables /\ {"versions", "dependencies"} \subseteq Tables \ {"crates"}
    BY DEF Tables
  <2> QED BY <1>1, <1>2, <2>1, ReadGives
<1>4. /\ row.id \in Nat
      /\ \A r \in dump.crates : r.id = row.id \/ Folded[r.name] = Folded[row.name] => r = row
  BY <1>2, <1>3, DumpFacts DEF TablesInv, Tables, Consistent
<1>5. \A c \in DOMAIN names : \E r \in Seen("crates") : r.id = c /\ names[c] = r.name
  BY <1>2, <1>3 DEF NamesInv
<1>6. Seen("crates") \subseteq dump.crates
  BY DEF Seen
<1>7. CanInsert(names, row.id, row.name)
  <2>1. row.id \notin DOMAIN names
    BY <1>3, <1>4, <1>5, <1>6
  <2>2. \A c \in DOMAIN names : Folded[names[c]] # Folded[row.name]
    BY <1>3, <1>4, <1>5, <1>6
  <2>3. CrateId(names, row.name) = None
    BY <1>2, <2>2, CrateIdGives DEF NamesInv
  <2> QED BY <2>1, <2>3 DEF CanInsert
<1>8. names' = Insert(names, row.id, row.name) /\ pc' = pc
  BY <1>7 DEF ReadCrate
<1>9. TablesInv'
  BY <1>1, <1>2, <1>8, ReadKeepsTables DEF Tables
<1>10. /\ DOMAIN names' = DOMAIN names \cup {row.id}
       /\ DOMAIN names' \subseteq Nat /\ IsFiniteSet(DOMAIN names')
       /\ \A c \in DOMAIN names : c # row.id /\ names'[c] = names[c]
       /\ names'[row.id] = row.name
       /\ \A c, d \in DOMAIN names' : Folded[names'[c]] = Folded[names'[d]] => c = d
  <2>1. /\ DOMAIN names \subseteq Nat /\ IsFiniteSet(DOMAIN names)
        /\ \A c, d \in DOMAIN names : Folded[names[c]] = Folded[names[d]] => c = d
    BY <1>2 DEF NamesInv
  <2>2. row.id \in Nat
    BY <1>4
  <2> DEFINE t == Insert(names, row.id, row.name)
  <2>3. /\ DOMAIN t = DOMAIN names \cup {row.id}
        /\ DOMAIN t \subseteq Nat /\ IsFiniteSet(DOMAIN t)
        /\ \A c \in DOMAIN names : c # row.id /\ t[c] = names[c]
        /\ t[row.id] = row.name
        /\ \A c, d \in DOMAIN t : Folded[t[c]] = Folded[t[d]] => c = d
    BY <1>7, <2>1, <2>2, Inserted
  <2> HIDE DEF t
  <2>4. names' = t
    BY <1>8 DEF t
  <2> QED BY <2>3, <2>4
<1>11. NamesInv'
  <2>1. \A r \in Seen("crates")' : r.id \in DOMAIN names' /\ names'[r.id] = r.name
    BY <1>2, <1>3, <1>10 DEF NamesInv
  <2>2. \A c \in DOMAIN names' : \E r \in Seen("crates")' : r.id = c
    BY <1>3, <1>5, <1>10
  <2>3. \A k : ~IsMended(k)'
    BY <1>3, <1>8 DEF IsMended
  <2> QED BY <1>10, <2>1, <2>2, <2>3 DEF NamesInv
<1>12. Grows /\ FeaturesInv'
  BY <1>1, <1>2, GrowsNot
<1>13. ReleasesInv'
  <2>1. Kept' = Kept
    BY <1>3 DEF Kept
  <2> QED BY <1>1, <1>2, <1>3, <1>8, <1>12, <2>1, ReleasesKept DEF Early
<1>14. DependenciesInv' /\ RenamesInv'
  BY <1>1, <1>2, <1>3, <1>8, <1>12, DependenciesKept, RenamesKept DEF Early
<1>15. MendedInv'
  BY <1>3, <1>8, NothingMended
<1>16. IdsAreUnique'
  BY <1>1, <1>2 DEF IdsAreUnique
<1> QED BY <1>9, <1>11, <1>12, <1>13, <1>14, <1>15, <1>16 DEF LoadInv

(***************************************************************************)
(* A version that is not yanked is one more release, whose id and number   *)
(* no other row has.                                                       *)
(***************************************************************************)
LEMMA ReadVersionKeeps ==
  ASSUME LoadInv, NEW row, ReadVersion(row)
  PROVE  LoadInv'
<1>1. /\ Read("versions", row)
      /\ UNCHANGED <<dump, names, dependencies, renames, resolve, pc, next>>
  BY DEF ReadVersion
<1>2. /\ TablesInv /\ NamesInv /\ FeaturesInv /\ ReleasesInv /\ RenamesInv
      /\ DependenciesInv /\ IdsAreUnique
  BY DEF LoadInv
<1>3. /\ pc = "read" /\ row \in dump.versions /\ row \notin Seen("versions")
      /\ Seen("versions")' = Seen("versions") \cup {row}
      /\ Seen("crates")' = Seen("crates") /\ Seen("dependencies")' = Seen("dependencies")
  <2>1. "versions" \in Tables /\ {"crates", "dependencies"} \subseteq Tables \ {"versions"}
    BY DEF Tables
  <2> QED BY <1>1, <1>2, <2>1, ReadGives
<1>4. TablesInv'
  BY <1>1, <1>2, ReadKeepsTables DEF Tables
<1>5. NamesInv'
  BY <1>1, <1>2, <1>3, NamesKept DEF IsMended
<1>6. MendedInv'
  BY <1>1, <1>3, NothingMended
<1>7. CASE row.yanked
  <2>1. UNCHANGED <<features, releases>>
    BY <1>7 DEF ReadVersion
  <2>2. Grows /\ FeaturesInv'
    BY <1>2, <2>1, GrowsNot
  <2>3. Kept' = Kept
    BY <1>3, <1>7 DEF Kept
  <2>4. ReleasesInv'
    BY <1>1, <1>2, <1>3, <2>1, <2>2, <2>3, ReleasesKept DEF Early
  <2>5. DependenciesInv' /\ RenamesInv'
    BY <1>1, <1>2, <1>3, <2>2, DependenciesKept, RenamesKept DEF Early
  <2>6. IdsAreUnique'
    BY <1>1, <1>2, <2>1 DEF IdsAreUnique
  <2> QED BY <1>4, <1>5, <1>6, <2>2, <2>4, <2>5, <2>6 DEF LoadInv
<1>8. CASE ~row.yanked
  <2>1. /\ features' = InternAll(features, Mentioned(row))
        /\ releases' = Append(releases, Encoded(features', row))
    BY <1>8 DEF ReadVersion
  <2>2. /\ IsList(row.features) /\ \A f \in ToSet(row.features) : IsList(f.enables)
        /\ \A r \in dump.versions : r.id = row.id => r = row
        /\ \A r \in dump.versions : r.crate = row.crate /\ r.num = row.num => r = row
    BY <1>2, <1>3, DumpFacts DEF TablesInv, Tables, Consistent
  <2>3. /\ IsList(Mentioned(row))
        /\ \A f \in ToSet(row.features) :
             /\ f.name \in ToSet(Mentioned(row))
             /\ \A e \in ToSet(f.enables) :
                  e.krate \in ToSet(Mentioned(row)) /\ e.feature \in ToSet(Mentioned(row))
    BY <2>2, MentionedGives
  <2>4. Grows /\ FeaturesInv' /\ ToSet(features') = ToSet(features) \cup ToSet(Mentioned(row))
    BY <1>2, <2>1, <2>3, GrowsBy
  <2>5. VersionKnown(features', row)
    BY <2>3, <2>4 DEF VersionKnown
  <2>6. Kept' = Kept \cup {row} /\ row \notin Kept /\ Kept \subseteq dump.versions
    BY <1>3, <1>8 DEF Kept, Seen
  <2>7. Mends = 0 /\ Mends' = 0
    BY <1>1, <1>3 DEF Mends
  <2>8. /\ IsList(releases) /\ Len(releases) \in Nat
        /\ IsList(releases') /\ Len(releases') = Len(releases) + 1
        /\ \A i \in 1 .. Len(releases) : releases'[i] = releases[i]
        /\ releases'[Len(releases) + 1] = Encoded(features', row)
    BY <1>2, <2>1, Lists, Appended DEF ReleasesInv
  <2>9. Loads = Len(releases) /\ Loads' = Len(releases) + 1
    BY <2>7, <2>8 DEF Loads
  <2>10. Cardinality(Kept') = Cardinality(Kept) + 1
    <3>1. IsFiniteSet(Kept)
      <4>1. IsFiniteSet(dump.versions)
        BY <1>2, DumpFacts DEF TablesInv, Tables
      <4> QED BY <2>6, <4>1, FS_Subset
    <3> QED BY <2>6, <3>1, FS_AddElement
  <2>11. \A i : ~IsResolved(i) /\ ~IsResolved(i)'
    BY <1>1, <1>3 DEF IsResolved
  <2>12. \A i \in 1 .. Len(releases), r \in Kept :
           IsReleaseOf(i, r) => /\ IsReleaseOf(i, r)' /\ releases'[i].id = r.id
                                /\ releases'[i].crate = r.crate /\ releases'[i].num = r.num
    <3> SUFFICES ASSUME NEW i \in 1 .. Len(releases), NEW r \in Kept, IsReleaseOf(i, r)
                 PROVE  /\ IsReleaseOf(i, r)' /\ releases'[i].id = r.id
                        /\ releases'[i].crate = r.crate /\ releases'[i].num = r.num
      OBVIOUS
    <3>1. releases[i] = Encoded(features, r) /\ VersionKnown(features, r)
      BY <1>2, <2>11 DEF IsReleaseOf, ReleasesInv
    <3>2. Encoded(features', r) = Encoded(features, r)
      BY <2>4, <3>1, NamesStay, EncodedStays
    <3>3. releases'[i] = Encoded(features', r)
      BY <2>8, <3>1, <3>2
    <3>4. IsReleaseOf(i, r)'
      BY <2>11, <3>3 DEF IsReleaseOf
    <3> QED BY <3>3, <3>4 DEF Encoded
  <2>13. \A i : i = Len(releases) + 1 => IsReleaseOf(i, row)'
    BY <2>8, <2>11 DEF IsReleaseOf
  <2>14. ReleasesInv'
    <3>1. ASSUME NEW i \in 1 .. Len(releases) + 1 PROVE \E r \in Kept' : IsReleaseOf(i, r)'
      <4>1. CASE i \in 1 .. Len(releases)
        BY <1>2, <2>6, <2>9, <2>12, <4>1 DEF ReleasesInv
      <4>2. CASE i = Len(releases) + 1
        BY <2>6, <2>13, <4>2
      <4> QED BY <2>8, <4>1, <4>2
    <3>2. ASSUME NEW r \in Kept'
          PROVE  /\ VersionKnown(features', r)
                 /\ \E i \in 1 .. Len(releases) + 1 : IsReleaseOf(i, r)'
      <4>1. CASE r \in Kept
        <5>1. VersionKnown(features', r)
          BY <1>2, <2>4, <4>1, NamesStay DEF ReleasesInv
        <5>2. PICK i \in 1 .. Len(releases) : IsReleaseOf(i, r)
          BY <1>2, <2>9, <4>1 DEF ReleasesInv
        <5>3. i \in 1 .. Len(releases) + 1
          BY <2>8
        <5> QED BY <2>12, <4>1, <5>1, <5>2, <5>3
      <4>2. CASE r = row
        <5>1. Len(releases) + 1 \in 1 .. Len(releases) + 1
          BY <2>8
        <5> QED BY <2>5, <2>13, <4>2, <5>1
      <4> QED BY <2>6, <4>1, <4>2
    <3>3. Loads' = Cardinality(Kept')
      BY <1>2, <2>8, <2>9, <2>10 DEF ReleasesInv
    <3>4. pc' # "failed"
      BY <1>1, <1>3
    <3> QED BY <2>8, <2>9, <3>1, <3>2, <3>3, <3>4 DEF ReleasesInv
  <2>15. DependenciesInv' /\ RenamesInv'
    BY <1>1, <1>2, <1>3, <2>4, DependenciesKept, RenamesKept DEF Early
  <2>16. IdsAreUnique'
    <3>1. \A i \in 1 .. Len(releases) :
            releases'[i].id # row.id /\ ~(releases'[i].crate = row.crate /\ releases'[i].num = row.num)
      <4> SUFFICES ASSUME NEW i \in 1 .. Len(releases)
                   PROVE  /\ releases'[i].id # row.id
                          /\ ~(releases'[i].crate = row.crate /\ releases'[i].num = row.num)
        OBVIOUS
      <4>1. PICK r \in Kept : IsReleaseOf(i, r)
        BY <1>2, <2>9 DEF ReleasesInv
      <4>2. r # row /\ r \in dump.versions
        BY <2>6
      <4> QED BY <2>2, <2>12, <4>1, <4>2
    <3>2. LET rel == releases'[Len(releases) + 1]
          IN rel.id = row.id /\ rel.crate = row.crate /\ rel.num = row.num
      BY <2>8 DEF Encoded
    <3>3. DOMAIN releases = 1 .. Len(releases) /\ DOMAIN releases' = 1 .. Len(releases) + 1
      BY <2>8, Lists
    <3>4. ASSUME NEW i \in 1 .. Len(releases) + 1, NEW j \in 1 .. Len(releases) + 1,
                 \/ releases'[i].id = releases'[j].id
                 \/ releases'[i].crate = releases'[j].crate /\ releases'[i].num = releases'[j].num
          PROVE  i = j
      <4>1. i \in 1 .. Len(releases) \/ i = Len(releases) + 1
        BY <2>8
      <4>2. j \in 1 .. Len(releases) \/ j = Len(releases) + 1
        BY <2>8
      <4>3. CASE i \in 1 .. Len(releases) /\ j \in 1 .. Len(releases)
        <5>1. releases'[i] = releases[i] /\ releases'[j] = releases[j]
          BY <2>8, <4>3
        <5> QED BY <1>2, <3>3, <3>4, <4>3, <5>1 DEF IdsAreUnique
      <4> QED BY <3>1, <3>2, <3>4, <4>1, <4>2, <4>3
    <3> QED BY <1>1, <1>2, <3>3, <3>4 DEF IdsAreUnique
  <2> QED BY <1>4, <1>5, <1>6, <2>4, <2>14, <2>15, <2>16 DEF LoadInv
<1> QED BY <1>7, <1>8

-----------------------------------------------------------------------------
(***************************************************************************)
(* A row of a dependency is one more dependency, whose id no other row     *)
(* has; what it renames is renamed, under the id of the alias.             *)
(***************************************************************************)
LEMMA ReadDependencyKeeps ==
  ASSUME LoadInv, NEW row, ReadDependency(row)
  PROVE  LoadInv'
<1>1. /\ Read("dependencies", row)
      /\ UNCHANGED <<dump, names, releases, pc, next>>
      /\ dependencies' = Append(dependencies, EncodedRow(features', row))
  BY DEF ReadDependency
<1>2. /\ TablesInv /\ NamesInv /\ FeaturesInv /\ ReleasesInv /\ RenamesInv
      /\ DependenciesInv /\ IdsAreUnique
  BY DEF LoadInv
<1>3. /\ pc = "read" /\ row \in dump.dependencies /\ row \notin Seen("dependencies")
      /\ Seen("dependencies")' = Seen("dependencies") \cup {row}
      /\ Seen("crates")' = Seen("crates") /\ Seen("versions")' = Seen("versions")
  <2>1. "dependencies" \in Tables /\ {"crates", "versions"} \subseteq Tables \ {"dependencies"}
    BY DEF Tables
  <2> QED BY <1>1, <1>2, <2>1, ReadGives
<1>4. TablesInv'
  BY <1>1, <1>2, ReadKeepsTables DEF Tables
<1>5. NamesInv'
  BY <1>1, <1>2, <1>3, NamesKept DEF IsMended
<1>6. MendedInv'
  BY <1>1, <1>3, NothingMended
<1>7. /\ row.id \in Nat /\ IsList(row.features)
      /\ \A r \in dump.dependencies : r.id = row.id => r = row
  BY <1>2, <1>3, DumpFacts DEF TablesInv, Tables
<1>8. Seen("dependencies") \subseteq dump.dependencies
  BY DEF Seen
<1>9. /\ Grows /\ FeaturesInv' /\ RowKnown(features', row)
  <2> DEFINE seq == IF row.alias = "" THEN row.features ELSE Append(row.features, row.alias)
  <2>1. /\ IsList(seq) /\ ToSet(row.features) \subseteq ToSet(seq)
        /\ row.alias # "" => row.alias \in ToSet(seq)
    <3>1. LET t == Append(row.features, row.alias)
          IN IsList(t) /\ ToSet(t) = ToSet(row.features) \cup {row.alias}
      BY <1>7, Appended
    <3> QED BY <1>7, <3>1
  <2>2. features' = InternAll(features, seq)
    BY DEF ReadDependency
  <2> HIDE DEF seq
  <2>3. Grows /\ FeaturesInv' /\ ToSet(features') = ToSet(features) \cup ToSet(seq)
    BY <1>2, <2>1, <2>2, GrowsBy
  <2> QED BY <2>1, <2>3 DEF RowKnown
<1>10. ReleasesInv'
  <2>1. Kept' = Kept
    BY <1>3 DEF Kept
  <2> QED BY <1>1, <1>2, <1>3, <1>9, <2>1, ReleasesKept DEF Early
<1>11. \A dep : ~Listed(dep)
  BY <1>3 DEF Listed, Mends
<1>12. \A dep, r : /\ IsRowOf(dep, r) <=> dep = EncodedRow(features, r)
                   /\ IsRowOf(dep, r)' <=> dep = EncodedRow(features', r)
  BY <1>1, <1>3 DEF IsRowOf
<1>13. \A r \in Seen("dependencies") :
         /\ EncodedRow(features', r) = EncodedRow(features, r)
         /\ RowKnown(features', r)
         /\ r.alias # "" => FeatureId(features', r.alias) = FeatureId(features, r.alias)
  <2> SUFFICES ASSUME NEW r \in Seen("dependencies")
               PROVE  /\ EncodedRow(features', r) = EncodedRow(features, r)
                      /\ RowKnown(features', r)
                      /\ r.alias # "" => FeatureId(features', r.alias) = FeatureId(features, r.alias)
    OBVIOUS
  <2>1. RowKnown(features, r)
    BY <1>2 DEF DependenciesInv
  <2>2. EncodedRow(features', r) = EncodedRow(features, r)
    BY <1>9, <2>1, NamesStay, EncodedRowStays
  <2>3. RowKnown(features', r)
    BY <1>9, <2>1, NamesStay
  <2>4. r.alias # "" => FeatureId(features', r.alias) = FeatureId(features, r.alias)
    BY <1>9, <2>1, NamesStay DEF RowKnown
  <2> QED BY <2>2, <2>3, <2>4
<1>22. PICK dep0 : dep0 = EncodedRow(features', row)
  OBVIOUS
<1>14. dep0.id = row.id
  BY <1>22 DEF EncodedRow
<1>15. dependencies' = Append(dependencies, dep0)
  BY <1>1, <1>22
<1>16. \A dep \in ToSet(dependencies) : dep.id # dep0.id
  <2> SUFFICES ASSUME NEW dep \in ToSet(dependencies) PROVE dep.id # row.id
    BY <1>14
  <2>1. PICK r \in Seen("dependencies") : dep = EncodedRow(features, r)
    BY <1>2, <1>11, <1>12 DEF DependenciesInv
  <2>2. dep.id = r.id
    BY <2>1 DEF EncodedRow
  <2> QED BY <1>3, <1>7, <1>8, <2>2
<1>17. HaveIds(dependencies')
  BY <1>2, <1>7, <1>14, <1>15, <1>16, AppendKeepsIds DEF DependenciesInv
<1>18. ToSet(dependencies') = ToSet(dependencies) \cup {dep0}
  BY <1>2, <1>15, Appended DEF DependenciesInv, HaveIds
<1>19. DependenciesInv'
  <2>1. ASSUME NEW dep \in ToSet(dependencies')
        PROVE  \E r \in Seen("dependencies")' : IsRowOf(dep, r)'
    <3>1. CASE dep \in ToSet(dependencies)
      <4>1. PICK r \in Seen("dependencies") : IsRowOf(dep, r)
        BY <1>2, <1>11, <3>1 DEF DependenciesInv
      <4>2. r \in Seen("dependencies")' /\ IsRowOf(dep, r)'
        BY <1>3, <1>12, <1>13, <4>1
      <4> QED BY <4>2
    <3>2. CASE dep = dep0
      BY <1>3, <1>12, <1>22, <3>2
    <3> QED BY <1>18, <3>1, <3>2
  <2>2. ASSUME NEW r \in Seen("dependencies")'
        PROVE  RowKnown(features', r) /\ \E dep \in ToSet(dependencies') : IsRowOf(dep, r)'
    <3>1. CASE r \in Seen("dependencies")
      <4>1. PICK dep \in ToSet(dependencies) : IsRowOf(dep, r)
        BY <1>2, <3>1 DEF DependenciesInv
      <4>2. dep \in ToSet(dependencies') /\ IsRowOf(dep, r)'
        BY <1>12, <1>13, <1>18, <3>1, <4>1
      <4> QED BY <1>13, <3>1, <4>2
    <3>2. CASE r = row
      <4>1. dep0 \in ToSet(dependencies') /\ IsRowOf(dep0, row)'
        BY <1>12, <1>18, <1>22
      <4> QED BY <1>9, <3>2, <4>1
    <3> QED BY <1>3, <3>1, <3>2
  <2> QED BY <1>17, <2>1, <2>2 DEF DependenciesInv
<1>20. RenamesInv'
  <2>1. CASE row.alias = ""
    <3>1. UNCHANGED <<renames, resolve>>
      BY <2>1 DEF ReadDependency
    <3>2. \A r \in Seen("dependencies")' :
            r.alias # "" => /\ r.id \in DOMAIN renames' /\ renames'[r.id] = r.alias
                            /\ <<r.version, FeatureId(features', r.alias)>> \in DOMAIN resolve'
      BY <1>2, <1>3, <1>13, <2>1, <3>1 DEF RenamesInv
    <3>3. \A id \in DOMAIN renames' : \E r \in Seen("dependencies")' : r.id = id /\ r.alias # ""
      BY <1>2, <1>3, <3>1 DEF RenamesInv
    <3>4. ASSUME NEW key \in DOMAIN resolve
          PROVE  \E r \in Seen("dependencies")' :
                   /\ r.alias # ""
                   /\ key = <<r.version, FeatureId(features', r.alias)>>
                   /\ resolve[key] = r.crate
      <4>1. PICK r \in Seen("dependencies") :
              /\ r.alias # ""
              /\ key = <<r.version, FeatureId(features, r.alias)>>
              /\ resolve[key] = r.crate
        BY <1>2 DEF RenamesInv
      <4> QED BY <1>3, <1>13, <4>1
    <3> QED BY <3>1, <3>2, <3>3, <3>4 DEF RenamesInv
  <2>2. CASE row.alias # ""
    <3> DEFINE key0 == <<row.version, FeatureId(features', row.alias)>>
    <3>1. /\ renames' = Insert(renames, row.id, row.alias)
          /\ resolve' = Insert(resolve, key0, row.crate)
      BY <2>2 DEF ReadDependency
    <3>2. /\ DOMAIN renames' = DOMAIN renames \cup {row.id}
          /\ renames'[row.id] = row.alias
          /\ \A id \in DOMAIN renames : id # row.id => renames'[id] = renames[id]
      <4> DEFINE t == Insert(renames, row.id, row.alias)
      <4>1. /\ DOMAIN t = DOMAIN renames \cup {row.id}
            /\ t[row.id] = row.alias
            /\ \A id \in DOMAIN renames : id # row.id => t[id] = renames[id]
        BY DEF Insert
      <4>2. renames' = t
        BY <3>1
      <4> HIDE DEF t
      <4> QED BY <4>1, <4>2
    <3>3. /\ DOMAIN resolve' = DOMAIN resolve \cup {key0}
          /\ resolve'[key0] = row.crate
          /\ \A key \in DOMAIN resolve : key # key0 => resolve'[key] = resolve[key]
      <4> DEFINE t == Insert(resolve, key0, row.crate)
      <4> HIDE DEF key0
      <4>1. /\ DOMAIN t = DOMAIN resolve \cup {key0}
            /\ t[key0] = row.crate
            /\ \A key \in DOMAIN resolve : key # key0 => t[key] = resolve[key]
        BY DEF Insert
      <4>2. resolve' = t
        BY <3>1
      <4> HIDE DEF t
      <4> QED BY <4>1, <4>2
    <3>4. ASSUME NEW r \in Seen("dependencies")', r.alias # ""
          PROVE  /\ r.id \in DOMAIN renames' /\ renames'[r.id] = r.alias
                 /\ <<r.version, FeatureId(features', r.alias)>> \in DOMAIN resolve'
      <4>1. CASE r \in Seen("dependencies")
        <5>1. r.id # row.id
          BY <1>3, <1>7, <1>8, <4>1
        <5>2. /\ r.id \in DOMAIN renames /\ renames[r.id] = r.alias
              /\ <<r.version, FeatureId(features', r.alias)>> \in DOMAIN resolve
          BY <1>2, <1>13, <3>4, <4>1 DEF RenamesInv
        <5> QED BY <3>2, <3>3, <5>1, <5>2
      <4>2. CASE r = row
        BY <3>2, <3>3, <4>2
      <4> QED BY <1>3, <4>1, <4>2
    <3>5. \A id \in DOMAIN renames' : \E r \in Seen("dependencies")' : r.id = id /\ r.alias # ""
      BY <1>2, <1>3, <2>2, <3>2 DEF RenamesInv
    <3>6. ASSUME NEW key \in DOMAIN resolve'
          PROVE  \E r \in Seen("dependencies")' :
                   /\ r.alias # ""
                   /\ key = <<r.version, FeatureId(features', r.alias)>>
                   /\ resolve'[key] = r.crate
      <4>1. CASE key = key0
        BY <1>3, <2>2, <3>3, <4>1
      <4>2. CASE key # key0
        <5>1. key \in DOMAIN resolve /\ resolve'[key] = resolve[key]
          BY <3>3, <4>2
        <5>2. PICK r \in Seen("dependencies") :
                /\ r.alias # ""
                /\ key = <<r.version, FeatureId(features, r.alias)>>
                /\ resolve[key] = r.crate
          BY <1>2, <5>1 DEF RenamesInv
        <5> QED BY <1>3, <1>13, <5>1, <5>2
      <4> QED BY <4>1, <4>2
    <3> QED BY <3>4, <3>5, <3>6 DEF RenamesInv
  <2> QED BY <2>1, <2>2
<1>21. IdsAreUnique'
  BY <1>1, <1>2, <1>17 DEF IdsAreUnique, HaveIds
<1> QED BY <1>4, <1>5, <1>6, <1>9, <1>10, <1>19, <1>20, <1>21 DEF LoadInv

-----------------------------------------------------------------------------
(***************************************************************************)
(* Between the tables and the releases.                                    *)
(***************************************************************************)
LEMMA NothingRead ==
  ASSUME UNCHANGED <<dump, unread>>
  PROVE  /\ \A t : Seen(t)' = Seen(t)
         /\ Kept' = Kept
         /\ AllRead' = AllRead
BY DEF Seen, Kept, AllRead

\* The lists of mend.rs are lists, of which the second is not empty.
LEMMA ListFacts ==
  /\ IsList(MendedCrates) /\ Len(MendedCrates) \in Nat
  /\ DOMAIN MendedCrates = 1 .. Len(MendedCrates)
  /\ IsList(MendedReleases) /\ Len(MendedReleases) \in Nat \ {0}
  /\ DOMAIN MendedReleases = 1 .. Len(MendedReleases)
  /\ \A k \in 1 .. Len(MendedReleases) : MendedReleases[k] \in ToSet(MendedReleases)
<1>1. IsList(MendedCrates) /\ IsList(MendedReleases) /\ MendedReleases # << >>
  BY LoadAssumption DEF ListedOnce
<1>2. \A S : \A s \in Seq(S) : s # << >> => Len(s) # 0
  OBVIOUS
<1>3. Len(MendedReleases) # 0
  BY <1>1, <1>2 DEF IsList
<1> QED BY <1>1, <1>3, Lists

\* The end of the tables changes nothing that was read.
LEMMA EndOfTablesKeeps ==
  ASSUME LoadInv, EndOfTables
  PROVE  LoadInv'
<1>1. /\ pc = "read" /\ pc' = "restore" /\ AllRead
      /\ UNCHANGED <<dump, unread, names, features, releases, dependencies, renames, resolve, next>>
  BY DEF EndOfTables
<1>2. /\ TablesInv /\ NamesInv /\ FeaturesInv /\ ReleasesInv /\ RenamesInv
      /\ DependenciesInv /\ IdsAreUnique
  BY DEF LoadInv
<1>3. (\A t : Seen(t)' = Seen(t)) /\ Kept' = Kept /\ AllRead'
  BY <1>1, NothingRead
<1>4. TablesInv'
  BY <1>1, <1>2, <1>3, ListFacts DEF TablesInv
<1>5. NamesInv'
  <2>1. \A k \in DOMAIN MendedCrates : ~IsMended(k)'
    BY <1>1, <1>2, ListFacts DEF IsMended, TablesInv
  <2> QED BY <1>1, <1>2, <1>3, <2>1, NamesKept
<1>6. Grows /\ FeaturesInv'
  BY <1>1, <1>2, GrowsNot
<1>7. ReleasesInv'
  BY <1>1, <1>2, <1>3, <1>6, ReleasesKept DEF Early
<1>8. DependenciesInv' /\ RenamesInv'
  BY <1>1, <1>2, <1>3, <1>6, DependenciesKept, RenamesKept DEF Early
<1>9. MendedInv'
  BY <1>1, NothingMended
<1>10. IdsAreUnique'
  BY <1>1, <1>2 DEF IdsAreUnique
<1> QED BY <1>4, <1>5, <1>6, <1>7, <1>8, <1>9, <1>10 DEF LoadInv

(***************************************************************************)
(* A crate that is missing gets an id that is free, so that it can be      *)
(* inserted.                                                               *)
(***************************************************************************)
LEMMA MendCrateKeeps ==
  ASSUME LoadInv, MendCrate
  PROVE  LoadInv'
<1> DEFINE name == MendedCrates[next]
<1>1. /\ pc = "restore" /\ next <= Len(MendedCrates) /\ next' = next + 1
      /\ UNCHANGED <<dump, unread, features, releases, dependencies, renames, resolve>>
  BY DEF MendCrate
<1>2. /\ TablesInv /\ NamesInv /\ FeaturesInv /\ ReleasesInv /\ RenamesInv
      /\ DependenciesInv /\ IdsAreUnique
  BY DEF LoadInv
<1>3. (\A t : Seen(t)' = Seen(t)) /\ Kept' = Kept /\ AllRead' = AllRead
  BY <1>1, NothingRead
<1>4. /\ next \in 1 .. Len(MendedCrates) /\ name \in ToSet(MendedCrates)
      /\ DOMAIN MendedCrates = 1 .. Len(MendedCrates)
  <2>1. next \in 1 .. Len(MendedCrates)
    BY <1>1, <1>2, ListFacts DEF TablesInv
  <2> QED BY <2>1, ListFacts, Lists
<1>5. /\ DOMAIN names \subseteq Nat /\ IsFiniteSet(DOMAIN names)
      /\ \A c, d \in DOMAIN names : Folded[names[c]] = Folded[names[d]] => c = d
  BY <1>2 DEF NamesInv
<1>6. CrateId(names, name) = None =>
        FreshCrate \in Nat /\ CanInsert(names, FreshCrate, name)
  <2>1. FreshCrate \in Nat /\ FreshCrate \notin DOMAIN names
    BY <1>5, LeastUnusedGives DEF FreshCrate
  <2> QED BY <2>1 DEF CanInsert
<1>7. /\ pc' = pc
      /\ DOMAIN names' \subseteq Nat /\ IsFiniteSet(DOMAIN names')
      /\ \A c, d \in DOMAIN names' : Folded[names'[c]] = Folded[names'[d]] => c = d
      /\ \A c \in DOMAIN names : c \in DOMAIN names' /\ names'[c] = names[c]
      /\ \A c \in DOMAIN names' : c \in DOMAIN names \/ names'[c] = name
      /\ \A n : CrateId(names, n) # None => CrateId(names', n) # None
      /\ CrateId(names', name) # None
  <2>1. CASE CrateId(names, name) # None
    <3>1. UNCHANGED <<names, pc>>
      BY <2>1 DEF MendCrate, CanInsert
    <3> QED BY <1>5, <2>1, <3>1
  <2>2. CASE CrateId(names, name) = None
    <3>1. names' = Insert(names, FreshCrate, name) /\ pc' = pc
      BY <1>6, <2>2 DEF MendCrate
    <3>2. PICK id \in Nat : id = FreshCrate /\ CanInsert(names, id, name)
      BY <1>6, <2>2
    <3> DEFINE t == Insert(names, id, name)
    <3> HIDE DEF name
    <3>3. /\ DOMAIN t = DOMAIN names \cup {id}
          /\ DOMAIN t \subseteq Nat /\ IsFiniteSet(DOMAIN t)
          /\ \A c \in DOMAIN names : c # id /\ t[c] = names[c]
          /\ t[id] = name
          /\ \A c, d \in DOMAIN t : Folded[t[c]] = Folded[t[d]] => c = d
          /\ \A n : CrateId(names, n) # None => CrateId(t, n) # None
          /\ CrateId(t, name) # None
      <4>1. \A i \in Nat : \A n : CanInsert(names, i, n) =>
              LET u == Insert(names, i, n)
              IN /\ DOMAIN u = DOMAIN names \cup {i}
                 /\ DOMAIN u \subseteq Nat /\ IsFiniteSet(DOMAIN u)
                 /\ \A c \in DOMAIN names : c # i /\ u[c] = names[c]
                 /\ u[i] = n
                 /\ \A c, d \in DOMAIN u : Folded[u[c]] = Folded[u[d]] => c = d
                 /\ \A m : CrateId(names, m) # None => CrateId(u, m) # None
                 /\ CrateId(u, n) # None
        BY <1>5, Inserted
      <4> QED BY <3>2, <4>1
    <3> HIDE DEF t
    <3>4. names' = t
      BY <3>1, <3>2 DEF t
    <3> QED BY <3>1, <3>3, <3>4
  <2> QED BY <2>1, <2>2
<1>8. TablesInv'
  BY <1>1, <1>2, <1>3, <1>4, <1>7, ListFacts DEF TablesInv
<1>9. NamesInv'
  <2>1. \A r \in Seen("crates")' : r.id \in DOMAIN names' /\ names'[r.id] = r.name
    BY <1>2, <1>3, <1>7 DEF NamesInv
  <2>2. \A c \in DOMAIN names' : \/ \E r \in Seen("crates")' : r.id = c
                                 \/ pc' # "read" /\ names'[c] \in ToSet(MendedCrates)
    BY <1>1, <1>2, <1>3, <1>4, <1>7 DEF NamesInv
  <2>3. ASSUME NEW k \in DOMAIN MendedCrates, IsMended(k)'
        PROVE  CrateId(names', MendedCrates[k]) # None
    <3>1. k < next \/ k = next
      BY <1>1, <1>4, <1>7, <2>3 DEF IsMended
    <3>2. k < next => CrateId(names, MendedCrates[k]) # None
      BY <1>1, <1>2 DEF NamesInv, IsMended
    <3> QED BY <1>7, <3>1, <3>2
  <2> QED BY <1>7, <2>1, <2>2, <2>3 DEF NamesInv
<1>10. Grows /\ FeaturesInv'
  BY <1>1, <1>2, GrowsNot
<1>11. ReleasesInv'
  BY <1>1, <1>2, <1>3, <1>7, <1>10, ReleasesKept DEF Early
<1>12. DependenciesInv' /\ RenamesInv'
  BY <1>1, <1>2, <1>3, <1>7, <1>10, DependenciesKept, RenamesKept DEF Early
<1>13. MendedInv'
  BY <1>1, <1>7, NothingMended
<1>14. IdsAreUnique'
  BY <1>1, <1>2 DEF IdsAreUnique
<1> QED BY <1>8, <1>9, <1>10, <1>11, <1>12, <1>13, <1>14 DEF LoadInv

\* After the last crate of mend_crates every one of them has a name.
LEMMA CratesMendedKeeps ==
  ASSUME LoadInv, CratesMended
  PROVE  LoadInv'
<1>1. /\ pc = "restore" /\ pc' = "resolve" /\ next > Len(MendedCrates) /\ next' = 1
      /\ UNCHANGED <<dump, unread, names, features, releases, dependencies, renames, resolve>>
  BY DEF CratesMended
<1>2. /\ TablesInv /\ NamesInv /\ FeaturesInv /\ ReleasesInv /\ RenamesInv
      /\ DependenciesInv /\ IdsAreUnique
  BY DEF LoadInv
<1>3. (\A t : Seen(t)' = Seen(t)) /\ Kept' = Kept /\ AllRead' = AllRead
  BY <1>1, NothingRead
<1>4. TablesInv'
  <2>1. Len(releases) \in Nat
    BY <1>2, Lists DEF ReleasesInv
  <2> QED BY <1>1, <1>2, <1>3, <2>1 DEF TablesInv
<1>5. NamesInv'
  <2>1. \A k \in DOMAIN MendedCrates : IsMended(k)
    BY <1>1, <1>2, ListFacts DEF IsMended, TablesInv
  <2> QED BY <1>1, <1>2, <1>3, <2>1, NamesKept
<1>6. Grows /\ FeaturesInv'
  BY <1>1, <1>2, GrowsNot
<1>7. ReleasesInv'
  BY <1>1, <1>2, <1>3, <1>6, ReleasesKept DEF Early
<1>8. DependenciesInv' /\ RenamesInv'
  BY <1>1, <1>2, <1>3, <1>6, DependenciesKept, RenamesKept DEF Early
<1>9. MendedInv'
  BY <1>1, NothingMended
<1>10. IdsAreUnique'
  BY <1>1, <1>2 DEF IdsAreUnique
<1> QED BY <1>4, <1>5, <1>6, <1>7, <1>8, <1>9, <1>10 DEF LoadInv

-----------------------------------------------------------------------------
(* Resolving.                                                              *)

(***************************************************************************)
(* Which crate a feature id stands for stays so as the table grows.        *)
(***************************************************************************)
LEMMA CrateStays ==
  ASSUME NEW t, NEW u, IsTable(t), IsTable(u), Continues(t, u), NEW id \in 0 .. Len(t) - 1
  PROVE  \A n, r, rel : CrateIn(n, u, r, rel, id) = CrateIn(n, t, r, rel, id)
<1>1. FeatureName(u, id) = FeatureName(t, id)
  <2>1. id + 1 \in 1 .. Len(t)
    BY Lists DEF IsTable
  <2> QED BY <2>1 DEF FeatureName, Continues
<1> QED BY <1>1 DEF CrateIn

(***************************************************************************)
(* What a release enables, and what it is, once resolved.                  *)
(***************************************************************************)
LEMMA EncodedIds ==
  ASSUME NEW t, IsTable(t), NEW row, VersionKnown(t, row),
         NEW f \in Encoded(t, row).features, NEW e \in f.enables \cup f.weak
  PROVE  e.crate \in 0 .. Len(t) - 1
<1>1. PICK g \in ToSet(row.features) : \E h \in ToSet(g.enables) : e.crate = FeatureId(t, h.krate)
  BY DEF Encoded
<1> QED BY <1>1, IdOfName DEF VersionKnown

\* Resolving keeps what tells releases apart.
LEMMA ResolvedGives ==
  ASSUME NEW n, NEW t, NEW r, NEW u, NEW row
  PROVE  LET rel == ResolvedIn(n, t, r, Encoded(u, row))
         IN rel.id = row.id /\ rel.crate = row.crate /\ rel.num = row.num /\ rel.time = row.time
BY DEF ResolvedIn, Encoded

\* A release stays what it is, and lost or not, as the table grows.
LEMMA ResolvedStays ==
  ASSUME NEW t, NEW u, IsTable(t), IsTable(u), Continues(t, u), NEW row, VersionKnown(t, row),
         NEW n, NEW r
  PROVE  /\ ResolvedIn(n, u, r, Encoded(u, row)) = ResolvedIn(n, t, r, Encoded(t, row))
         /\ IsLostIn(n, u, r, Encoded(u, row)) <=> IsLostIn(n, t, r, Encoded(t, row))
<1> DEFINE rel == Encoded(t, row)
<1>1. Encoded(u, row) = rel
  BY IdStays, EncodedStays
<1>2. ASSUME NEW f \in rel.features, NEW e \in f.enables \cup f.weak
      PROVE  CrateIn(n, u, r, rel, e.crate) = CrateIn(n, t, r, rel, e.crate)
  BY CrateStays, EncodedIds
<1> HIDE DEF rel
<1>3. ASSUME NEW f \in rel.features
      PROVE  /\ EnablesIn(n, u, r, rel, f.enables) = EnablesIn(n, t, r, rel, f.enables)
             /\ EnablesIn(n, u, r, rel, f.weak) = EnablesIn(n, t, r, rel, f.weak)
  BY <1>2 DEF EnablesIn
<1>4. ResolvedIn(n, u, r, rel) = ResolvedIn(n, t, r, rel)
  BY <1>3 DEF ResolvedIn
<1>5. IsLostIn(n, u, r, rel) <=> IsLostIn(n, t, r, rel)
  BY <1>2 DEF IsLostIn
<1> QED BY <1>1, <1>4, <1>5 DEF rel

(***************************************************************************)
(* Resolving is what the invariant says it is.                             *)
(***************************************************************************)
LEMMA ResolvingIs ==
  ASSUME NEW rel
  PROVE  /\ IsLost(rel) <=> IsLostIn(names, features, resolve, rel)
         /\ Resolved(rel) = ResolvedIn(names, features, resolve, rel)
<1>1. \A id : CrateOf(rel, id) = CrateIn(names, features, resolve, rel, id)
  BY DEF CrateOf, CrateIn, IsKnownBroken
<1>2. IsLost(rel) <=> IsLostIn(names, features, resolve, rel)
  BY <1>1 DEF IsLost, IsLostIn
<1>3. \A E : { [e EXCEPT !.crate = CrateOf(rel, @)] : e \in E }
               = EnablesIn(names, features, resolve, rel, E)
  BY <1>1 DEF EnablesIn
<1>4. Resolved(rel) = ResolvedIn(names, features, resolve, rel)
  BY <1>3 DEF Resolved, ResolvedIn
<1> QED BY <1>2, <1>4

(***************************************************************************)
(* A release is resolved in its turn, or is the one that loading fails at. *)
(***************************************************************************)
LEMMA ResolveReleaseKeeps ==
  ASSUME LoadInv, ResolveRelease
  PROVE  LoadInv'
<1>1. /\ pc = "resolve" /\ next <= Len(releases)
      /\ UNCHANGED <<dump, unread, names, features, dependencies, renames, resolve>>
  BY DEF ResolveRelease
<1>2. /\ TablesInv /\ NamesInv /\ FeaturesInv /\ ReleasesInv /\ RenamesInv
      /\ DependenciesInv /\ IdsAreUnique
  BY DEF LoadInv
<1>3. (\A t : Seen(t)' = Seen(t)) /\ Kept' = Kept /\ AllRead' = AllRead
  BY <1>1, NothingRead
<1>4. Grows /\ FeaturesInv'
  BY <1>1, <1>2, GrowsNot
<1>5. /\ IsList(releases) /\ Len(releases) \in Nat /\ DOMAIN releases = 1 .. Len(releases)
      /\ next \in 1 .. Len(releases)
  BY <1>1, <1>2, Lists DEF ReleasesInv, TablesInv
<1>6. Mends = 0 /\ Loads = Len(releases)
  BY <1>1, <1>5 DEF Mends, Loads
<1>7. CASE IsLost(releases[next])
  <2>1. pc' = "failed" /\ UNCHANGED <<releases, next>>
    BY <1>7 DEF ResolveRelease
  <2>2. TablesInv'
    BY <1>1, <1>2, <1>3, <1>5, <2>1 DEF TablesInv
  <2>3. NamesInv'
    BY <1>1, <1>2, <1>3, <2>1, NamesKept DEF IsMended
  <2>4. DependenciesInv' /\ RenamesInv'
    BY <1>1, <1>2, <1>3, <1>4, <2>1, DependenciesKept, RenamesKept DEF Early
  <2>5. MendedInv'
    BY <2>1, NothingMended
  <2>6. IdsAreUnique'
    BY <1>1, <1>2, <2>1 DEF IdsAreUnique
  <2>7. Loads' = Loads
    BY <1>5, <1>6, <2>1 DEF Loads, Mends
  <2>8. \A i, row : IsReleaseOf(i, row) => IsReleaseOf(i, row)'
    BY <1>1, <2>1 DEF IsReleaseOf, IsResolved
  <2>9. IsLostIn(names, features, resolve, releases[next])
    BY <1>7, ResolvingIs
  <2>10. ReleasesInv'
    BY <1>1, <1>2, <1>3, <1>5, <1>6, <2>1, <2>7, <2>8, <2>9 DEF ReleasesInv
  <2> QED BY <1>4, <2>2, <2>3, <2>4, <2>5, <2>6, <2>10 DEF LoadInv
<1>8. CASE ~IsLost(releases[next])
  <2>1. /\ releases' = [releases EXCEPT ![next] = Resolved(releases[next])]
        /\ next' = next + 1 /\ pc' = pc
    BY <1>8 DEF ResolveRelease
  <2>2. /\ DOMAIN releases' = 1 .. Len(releases)
        /\ releases' = [i \in 1 .. Len(releases) |-> releases'[i]]
        /\ \A i \in 1 .. Len(releases) : i # next => releases'[i] = releases[i]
        /\ releases'[next] = ResolvedIn(names, features, resolve, releases[next])
        /\ ~IsLostIn(names, features, resolve, releases[next])
    <3>1. /\ Resolved(releases[next]) = ResolvedIn(names, features, resolve, releases[next])
          /\ ~IsLostIn(names, features, resolve, releases[next])
      BY <1>8, ResolvingIs
    <3> QED BY <1>5, <2>1, <3>1
  <2>3. IsList(releases') /\ Len(releases') = Len(releases)
    BY <1>5, <2>2, ListOf
  <2>4. TablesInv'
    BY <1>1, <1>2, <1>3, <1>5, <2>1, <2>3 DEF TablesInv
  <2>5. NamesInv'
    BY <1>1, <1>2, <1>3, <2>1, NamesKept DEF IsMended
  <2>6. DependenciesInv' /\ RenamesInv'
    BY <1>1, <1>2, <1>3, <1>4, <2>1, DependenciesKept, RenamesKept DEF Early
  <2>7. MendedInv'
    BY <1>1, <2>1, NothingMended
  <2>8. Mends' = 0 /\ Loads' = Loads
    BY <1>1, <1>5, <1>6, <2>1, <2>3 DEF Loads, Mends
  <2>9. \A i \in 1 .. Len(releases) : \A row :
          IsReleaseOf(i, row) => /\ IsReleaseOf(i, row)'
                                 /\ releases'[i].id = releases[i].id
                                 /\ releases'[i].crate = releases[i].crate
                                 /\ releases'[i].num = releases[i].num
    <3> SUFFICES ASSUME NEW i \in 1 .. Len(releases), NEW row, IsReleaseOf(i, row)
                 PROVE  /\ IsReleaseOf(i, row)'
                        /\ releases'[i].id = releases[i].id
                        /\ releases'[i].crate = releases[i].crate
                        /\ releases'[i].num = releases[i].num
      OBVIOUS
    <3>1. CASE i = next
      <4>1. ~IsResolved(i) /\ IsResolved(i)'
        BY <1>1, <1>5, <2>1, <3>1 DEF IsResolved
      <4>2. releases[i] = Encoded(features, row)
        BY <4>1 DEF IsReleaseOf
      <4>3. /\ releases'[i] = ResolvedIn(names, features, resolve, Encoded(features, row))
            /\ ~IsLostIn(names, features, resolve, Encoded(features, row))
        BY <2>2, <3>1, <4>2
      <4>4. IsReleaseOf(i, row)'
        BY <1>1, <4>1, <4>3 DEF IsReleaseOf
      <4>5. /\ releases[i].id = row.id /\ releases[i].crate = row.crate
            /\ releases[i].num = row.num
        BY <4>2 DEF Encoded
      <4> QED BY <4>3, <4>4, <4>5, ResolvedGives
    <3>2. CASE i # next
      <4>1. IsResolved(i)' <=> IsResolved(i)
        BY <1>1, <1>5, <2>1, <3>2 DEF IsResolved
      <4>2. releases'[i] = releases[i]
        BY <2>2, <3>2
      <4> QED BY <1>1, <4>1, <4>2 DEF IsReleaseOf
    <3> QED BY <3>1, <3>2
  <2>10. ReleasesInv'
    <3>1. \A i \in 1 .. Loads : \E row \in Kept : IsReleaseOf(i, row)'
      BY <1>2, <1>6, <2>9 DEF ReleasesInv
    <3>2. \A row \in Kept : VersionKnown(features, row) /\ \E i \in 1 .. Loads : IsReleaseOf(i, row)'
      BY <1>2, <1>6, <2>9 DEF ReleasesInv
    <3>3. pc' # "failed"
      BY <1>1, <2>1
    <3> QED BY <1>1, <1>2, <1>3, <2>3, <2>8, <3>1, <3>2, <3>3 DEF ReleasesInv
  <2>11. IdsAreUnique'
    <3>1. \A i \in 1 .. Len(releases) : /\ releases'[i].id = releases[i].id
                                        /\ releases'[i].crate = releases[i].crate
                                        /\ releases'[i].num = releases[i].num
      BY <1>2, <1>6, <2>9 DEF ReleasesInv
    <3> QED BY <1>1, <1>2, <1>5, <2>2, <3>1 DEF IdsAreUnique
  <2> QED BY <1>4, <2>4, <2>5, <2>6, <2>7, <2>10, <2>11 DEF LoadInv
<1> QED BY <1>7, <1>8

-----------------------------------------------------------------------------
(***************************************************************************)
(* The names of the optional dependencies on a list.                       *)
(***************************************************************************)
LEMMA OptionalNamesGive ==
  ASSUME NEW deps, IsList(deps)
  PROVE  /\ IsList(OptionalNames(deps))
         /\ \A d \in ToSet(deps) : d.feature = TBD => FeatureOf(d) \in ToSet(OptionalNames(deps))
<1> DEFINE n == Len(deps)
           Called(d) == IF d.feature = TBD THEN << FeatureOf(d) >> ELSE << >>
           ss == [i \in DOMAIN deps |-> Called(deps[i])]
           S == { FeatureOf(d) : d \in ToSet(deps) }
<1>1. n \in Nat /\ DOMAIN deps = 1 .. n /\ ToSet(deps) = { deps[i] : i \in 1 .. n }
  BY Lists
<1> HIDE DEF n
<1>2. \A x : \A T : x \in T => << x >> \in Seq(T) /\ ToSet(<< x >>) = {x}
  BY DEF ToSet
<1>3. \A T : << >> \in Seq(T)
  OBVIOUS
<1>4. ASSUME NEW d \in ToSet(deps)
      PROVE  Called(d) \in Seq(S) /\ (d.feature = TBD => FeatureOf(d) \in ToSet(Called(d)))
  <2>1. FeatureOf(d) \in S
    OBVIOUS
  <2> HIDE DEF S
  <2> QED BY <1>2, <1>3, <2>1
<1>5. DOMAIN ss = 1 .. n /\ \A i \in 1 .. n : ss[i] = Called(deps[i])
  BY <1>1
<1> HIDE DEF Called, S
<1>6. \A i \in 1 .. n : ss[i] \in Seq(S)
  BY <1>1, <1>4, <1>5
<1>7. Len(ss) = n /\ (n = 0 => ss = << >>)
  <2>1. ss \in [1 .. n -> Seq(S)]
    BY <1>1, <1>5, <1>6
  <2> HIDE DEF ss
  <2>2. Len(ss) = n /\ ss \in Seq(Seq(S))
    BY <1>1, <2>1
  <2> QED BY <2>2
<1>8. OptionalNames(deps) = FlattenSeq(ss)
  BY DEF OptionalNames, Called
<1> HIDE DEF ss
<1>9. /\ FlattenSeq(ss) \in Seq(S)
      /\ ToSet(FlattenSeq(ss)) = UNION { ToSet(ss[i]) : i \in 1 .. n }
  BY <1>1, <1>5, <1>6, <1>7, FlattenGives
<1>10. IsList(FlattenSeq(ss))
  <2>1. DOMAIN FlattenSeq(ss) = 1 .. Len(FlattenSeq(ss)) /\ Len(FlattenSeq(ss)) \in Nat
    BY <1>9
  <2>2. FlattenSeq(ss) = [i \in 1 .. Len(FlattenSeq(ss)) |-> FlattenSeq(ss)[i]]
    BY <1>9
  <2> QED BY <2>1, <2>2, ListOf
<1>11. \A d \in ToSet(deps) : d.feature = TBD => FeatureOf(d) \in ToSet(FlattenSeq(ss))
  BY <1>1, <1>4, <1>5, <1>9
<1> QED BY <1>8, <1>10, <1>11

(***************************************************************************)
(* Every crate that the dump refers to has a name by now.                  *)
(***************************************************************************)
LEMMA AllNamed ==
  ASSUME LoadInv, pc # "read"
  PROVE  /\ \A t \in Tables : Seen(t) = dump[t]
         /\ \A v \in dump.versions : v.crate \in DOMAIN names
         /\ \A r \in dump.dependencies : r.crate \in DOMAIN names
         /\ \A c \in dump.crates : c.id \in DOMAIN names /\ names[c.id] = c.name
<1>1. \A t \in Tables : Seen(t) = dump[t]
  BY DEF LoadInv, TablesInv, AllRead, Seen
<1>2. \A c \in dump.crates : c.id \in DOMAIN names /\ names[c.id] = c.name
  BY <1>1 DEF LoadInv, NamesInv, Tables
<1>3. Consistent(dump)
  BY DumpFacts DEF LoadInv, TablesInv
<1> QED BY <1>1, <1>2, <1>3 DEF Consistent

(***************************************************************************)
(* What is a release of a row stays so as the table grows.                 *)
(***************************************************************************)
LEMMA ReleaseStays ==
  ASSUME Grows, UNCHANGED <<names, resolve>>, NEW i, NEW row, VersionKnown(features, row),
         releases'[i] = releases[i], IsResolved(i), IsResolved(i)', IsReleaseOf(i, row)
  PROVE  IsReleaseOf(i, row)'
<1>1. /\ releases[i] = ResolvedIn(names, features, resolve, Encoded(features, row))
      /\ ~IsLostIn(names, features, resolve, Encoded(features, row))
  BY DEF IsReleaseOf
<1>2. /\ ResolvedIn(names, features', resolve, Encoded(features', row))
           = ResolvedIn(names, features, resolve, Encoded(features, row))
      /\ IsLostIn(names, features', resolve, Encoded(features', row))
           <=> IsLostIn(names, features, resolve, Encoded(features, row))
  BY ResolvedStays DEF Grows
<1>3. /\ releases'[i] = ResolvedIn(names', features', resolve', Encoded(features', row))
      /\ ~IsLostIn(names', features', resolve', Encoded(features', row))
  BY <1>1, <1>2
<1> QED BY <1>3 DEF IsReleaseOf

(***************************************************************************)
(* An optional dependency becomes the feature of its name, which there is. *)
(***************************************************************************)
LEMMA ResolveDependenciesKeeps ==
  ASSUME LoadInv, ResolveDependencies
  PROVE  LoadInv'
<1>1. /\ pc = "resolve" /\ next > Len(releases)
      /\ UNCHANGED <<dump, unread, names, releases, renames, resolve>>
  BY DEF ResolveDependencies
<1>2. /\ TablesInv /\ NamesInv /\ FeaturesInv /\ ReleasesInv /\ RenamesInv
      /\ DependenciesInv /\ IdsAreUnique
  BY DEF LoadInv
<1>3. (\A t : Seen(t)' = Seen(t)) /\ Kept' = Kept /\ AllRead' = AllRead
  BY <1>1, NothingRead
<1>4. /\ IsList(releases) /\ Len(releases) \in Nat
      /\ IsList(dependencies) /\ Len(dependencies) \in Nat
      /\ DOMAIN dependencies = 1 .. Len(dependencies)
      /\ \A i \in 1 .. Len(dependencies) : dependencies[i] \in ToSet(dependencies)
      /\ \A dep \in ToSet(dependencies) : \E i \in 1 .. Len(dependencies) : dependencies[i] = dep
  BY <1>2, Lists DEF ReleasesInv, DependenciesInv, HaveIds
<1>5. Mends = 0 /\ Loads = Len(releases)
  BY <1>1, <1>4 DEF Mends, Loads
<1>6. \A dep, row : IsRowOf(dep, row) <=> dep = EncodedRow(features, row)
  BY <1>1 DEF IsRowOf
<1>7. \A dep \in ToSet(dependencies) :
        \E row \in Seen("dependencies") : dep = EncodedRow(features, row)
  <2>1. \A dep : ~Listed(dep)
    BY <1>5 DEF Listed
  <2> QED BY <1>2, <1>6, <2>1 DEF DependenciesInv
<1>8. \A row : LET dep == EncodedRow(features, row)
               IN /\ dep.feature = TBD <=> row.optional
                  /\ dep.crate = row.crate /\ dep.id = row.id
  BY DEF EncodedRow, TBD, CRATE
<1>9. \A dep \in ToSet(dependencies) : dep.crate \in DOMAIN names
  <2>1. /\ Seen("dependencies") = dump.dependencies
        /\ \A r \in dump.dependencies : r.crate \in DOMAIN names
    BY <1>1, AllNamed DEF Tables
  <2> QED BY <1>7, <1>8, <2>1
<1>10. /\ features' = InternAll(features, OptionalNames(dependencies))
       /\ dependencies' = [i \in DOMAIN dependencies |-> Settled(features', dependencies[i])]
       /\ pc' = "mend" /\ next' = 1
  BY <1>9 DEF ResolveDependencies
<1>11. /\ Grows /\ FeaturesInv'
       /\ \A dep \in ToSet(dependencies) : dep.feature = TBD => FeatureOf(dep) \in ToSet(features')
  <2>1. /\ IsList(OptionalNames(dependencies))
        /\ \A dep \in ToSet(dependencies) :
             dep.feature = TBD => FeatureOf(dep) \in ToSet(OptionalNames(dependencies))
    BY <1>4, OptionalNamesGive
  <2> QED BY <1>2, <1>10, <2>1, GrowsBy
<1>12. TablesInv'
  BY <1>1, <1>2, <1>3, <1>10, ListFacts DEF TablesInv
<1>13. NamesInv'
  BY <1>1, <1>2, <1>3, <1>10, NamesKept DEF IsMended
<1>14. RenamesInv'
  BY <1>1, <1>2, <1>3, <1>11, RenamesKept
<1>15. Mends' = 0 /\ Loads' = Loads
  BY <1>1, <1>4, <1>5, <1>10 DEF Loads, Mends
<1>16. MendedInv'
  BY <1>15 DEF MendedInv
<1>17. ReleasesInv'
  <2>1. \A i \in 1 .. Loads, row \in Kept : IsReleaseOf(i, row) => IsReleaseOf(i, row)'
    <3> SUFFICES ASSUME NEW i \in 1 .. Loads, NEW row \in Kept, IsReleaseOf(i, row)
                 PROVE  IsReleaseOf(i, row)'
      OBVIOUS
    <3>1. IsResolved(i) /\ IsResolved(i)'
      BY <1>1, <1>2, <1>4, <1>5, <1>10 DEF IsResolved, TablesInv
    <3>2. VersionKnown(features, row)
      BY <1>2 DEF ReleasesInv
    <3> QED BY <1>1, <1>11, <3>1, <3>2, ReleaseStays
  <2>2. \A row \in Kept : VersionKnown(features', row)
    BY <1>2, <1>11, NamesStay DEF ReleasesInv
  <2>3. pc' # "failed"
    BY <1>10
  <2> QED BY <1>1, <1>2, <1>3, <1>15, <2>1, <2>2, <2>3 DEF ReleasesInv
<1>18. ASSUME NEW row \in Seen("dependencies"), NEW dep \in ToSet(dependencies),
              dep = EncodedRow(features, row), NEW new, new = Settled(features', dep)
       PROVE  IsRowOf(new, row)' /\ new.id = dep.id
  <2>1. EncodedRow(features', row) = dep
    BY <1>2, <1>11, <1>18, NamesStay, EncodedRowStays DEF DependenciesInv
  <2>2. dep.feature = TBD <=> row.optional
    BY <1>8, <1>18
  <2>3. row.optional => FeatureOf(EncodedRow(features', row)) \in ToSet(features')
    BY <1>11, <2>1, <2>2
  <2>4. new = Settled(features', EncodedRow(features', row))
    BY <1>18, <2>1
  <2>5. IsRowOf(new, row)'
    BY <1>1, <1>10, <2>3, <2>4 DEF IsRowOf, Settled, FeatureOf
  <2>6. new.id = dep.id
    <3>1. dep.id = EncodedRow(features, row).id /\ "id" \in DOMAIN dep
      BY <1>18 DEF EncodedRow
    <3> QED BY <1>18, <3>1 DEF Settled
  <2> QED BY <2>5, <2>6
<1>19. /\ IsList(dependencies') /\ Len(dependencies') = Len(dependencies)
       /\ DOMAIN dependencies' = 1 .. Len(dependencies)
       /\ \A i \in 1 .. Len(dependencies) :
            dependencies'[i] = Settled(features', dependencies[i])
  <2>1. DOMAIN dependencies' = 1 .. Len(dependencies)
    BY <1>4, <1>10
  <2>2. \A i \in 1 .. Len(dependencies) : dependencies'[i] = Settled(features', dependencies[i])
    BY <1>4, <1>10
  <2>3. dependencies' = [i \in 1 .. Len(dependencies) |-> dependencies'[i]]
    BY <1>4, <1>10
  <2> QED BY <1>4, <2>1, <2>2, <2>3, ListOf
<1>20. \A i \in 1 .. Len(dependencies) : \E row \in Seen("dependencies") :
         /\ dependencies[i] = EncodedRow(features, row)
         /\ IsRowOf(dependencies[i], row)
         /\ \A new : new = Settled(features', dependencies[i]) =>
              IsRowOf(new, row)' /\ new.id = dependencies[i].id
  BY <1>4, <1>6, <1>7, <1>18
<1>21. DependenciesInv'
  <2>1. HaveIds(dependencies')
    <3>1. \A i \in 1 .. Len(dependencies) :
            dependencies'[i].id = dependencies[i].id /\ dependencies[i].id \in Nat
      BY <1>2, <1>4, <1>19, <1>20 DEF DependenciesInv, HaveIds
    <3>2. \A x \in ToSet(dependencies') : x.id \in Nat
      BY <1>19, <3>1 DEF ToSet
    <3>3. \A i, j \in 1 .. Len(dependencies) : dependencies'[i].id = dependencies'[j].id => i = j
      BY <1>2, <1>4, <3>1 DEF DependenciesInv, HaveIds
    <3> QED BY <1>19, <3>2, <3>3 DEF HaveIds
  <2>2. ASSUME NEW new \in ToSet(dependencies')
        PROVE  \E row \in Seen("dependencies") : IsRowOf(new, row)'
    <3>1. PICK i \in 1 .. Len(dependencies) : new = Settled(features', dependencies[i])
      BY <1>19 DEF ToSet
    <3> QED BY <1>20, <3>1
  <2>3. ASSUME NEW row \in Seen("dependencies")
        PROVE  RowKnown(features', row) /\ \E new \in ToSet(dependencies') : IsRowOf(new, row)'
    <3>1. RowKnown(features', row)
      BY <1>2, <1>11, NamesStay DEF DependenciesInv
    <3>2. PICK i \in 1 .. Len(dependencies) : dependencies[i] = EncodedRow(features, row)
      <4>1. PICK dep \in ToSet(dependencies) : dep = EncodedRow(features, row)
        BY <1>2, <1>6 DEF DependenciesInv
      <4> QED BY <1>4, <4>1
    <3>3. PICK new : new = dependencies'[i]
      OBVIOUS
    <3>4. IsRowOf(new, row)'
      BY <1>4, <1>18, <1>19, <3>2, <3>3
    <3>5. new \in ToSet(dependencies')
      BY <1>19, <3>3 DEF ToSet
    <3> QED BY <3>1, <3>4, <3>5
  <2> QED BY <1>3, <2>1, <2>2, <2>3 DEF DependenciesInv
<1>22. IdsAreUnique'
  BY <1>1, <1>2, <1>21 DEF IdsAreUnique, DependenciesInv, HaveIds
<1> QED BY <1>11, <1>12, <1>13, <1>14, <1>16, <1>17, <1>21, <1>22 DEF LoadInv

-----------------------------------------------------------------------------
(* Mending.                                                                *)

(***************************************************************************)
(* The names that the list mentions are finitely many.                     *)
(***************************************************************************)
LEMMA ListedNamesAreFinite ==
  ASSUME NEW m \in ToSet(MendedReleases)
  PROVE  IsFiniteSet(ListedNames(m))
<1> DEFINE A == { f.name : f \in m.features }
           E == { f.enables : f \in m.features }
           D == { d.feature : d \in ToSet(m.dependencies) }
           a == [f \in m.features |-> f.name]
           e == [f \in m.features |-> f.enables]
<1>1. /\ IsFiniteSet(m.features) /\ IsList(m.dependencies)
      /\ \A f \in m.features : IsFiniteSet(f.enables)
  BY LoadAssumption DEF ListedOnce
<1>2. IsFiniteSet(A)
  <2>1. a \in Surjection(m.features, A)
    BY DEF Surjection
  <2> HIDE DEF A, a
  <2> QED BY <1>1, <2>1, FS_Surjection
<1>3. IsFiniteSet(UNION E)
  <2>1. e \in Surjection(m.features, E)
    BY DEF Surjection
  <2>2. \A T \in E : IsFiniteSet(T)
    BY <1>1
  <2> HIDE DEF E, e
  <2>3. IsFiniteSet(E)
    BY <1>1, <2>1, FS_Surjection
  <2> QED BY <2>2, <2>3, FS_UNION
<1>4. IsFiniteSet(D)
  <2> DEFINE n == Len(m.dependencies)
             d == [i \in 1 .. n |-> m.dependencies[i].feature]
  <2>1. n \in Nat /\ ToSet(m.dependencies) = { m.dependencies[i] : i \in 1 .. n }
    BY <1>1, Lists
  <2>2. IsFiniteSet(1 .. n)
    BY <2>1, FS_Interval
  <2> HIDE DEF n
  <2>3. D = { m.dependencies[i].feature : i \in 1 .. n }
    BY <2>1
  <2>4. d \in Surjection(1 .. n, D)
    <3>1. d \in [1 .. n -> D] /\ \A x \in D : \E i \in 1 .. n : d[i] = x
      BY <2>3
    <3> HIDE DEF d, D
    <3> QED BY <3>1 DEF Surjection
  <2> HIDE DEF d, D
  <2> QED BY <2>2, <2>4, FS_Surjection
<1>5. ListedNames(m) = (A \cup (UNION E)) \cup D
  BY DEF ListedNames
<1> HIDE DEF A, E, D
<1>6. IsFiniteSet(A \cup (UNION E))
  BY <1>2, <1>3, FS_Union
<1>7. IsFiniteSet((A \cup (UNION E)) \cup D)
  <2> DEFINE B == A \cup (UNION E)
  <2>1. IsFiniteSet(B)
    BY <1>6
  <2> HIDE DEF B
  <2>2. IsFiniteSet(B \cup D)
    BY <1>4, <2>1, FS_Union
  <2> QED BY <2>2 DEF B
<1> QED BY <1>5, <1>7

(***************************************************************************)
(* What the list says stays so as the table grows.                         *)
(***************************************************************************)
LEMMA RestockedStays ==
  ASSUME NEW t, NEW u, \A name \in ToSet(t) : FeatureId(u, name) = FeatureId(t, name),
         NEW n, NEW id, NEW m, ListedNames(m) \subseteq ToSet(t)
  PROVE  Restocked(u, n, id, m) = Restocked(t, n, id, m)
<1> DEFINE Of(v, f) ==
             [id |-> FeatureId(v, f.name),
              enables |-> { [crate |-> CrateId(n, m.crate), feature |-> FeatureId(v, g)] :
                              g \in f.enables },
              weak |-> {}]
<1>1. ASSUME NEW f \in m.features PROVE Of(u, f) = Of(t, f)
  <2>1. FeatureId(u, f.name) = FeatureId(t, f.name)
    BY DEF ListedNames
  <2>2. \A g \in f.enables : FeatureId(u, g) = FeatureId(t, g)
    BY DEF ListedNames
  <2>3. { [crate |-> CrateId(n, m.crate), feature |-> FeatureId(u, g)] : g \in f.enables }
          = { [crate |-> CrateId(n, m.crate), feature |-> FeatureId(t, g)] : g \in f.enables }
    BY <2>2
  <2> QED BY <2>1, <2>3
<1>2. \A v : Restocked(v, n, id, m) =
        [id |-> id, crate |-> CrateId(n, m.crate), num |-> m.num, time |-> m.time,
         features |-> { Of(v, f) : f \in m.features }]
  BY DEF Restocked
<1> HIDE DEF Of
<1>3. { Of(u, f) : f \in m.features } = { Of(t, f) : f \in m.features }
  BY <1>1
<1> QED BY <1>2, <1>3

\* What a mended release depends on stays so as the table grows.
LEMMA RestockedRowStays ==
  ASSUME NEW t, NEW u, \A name \in ToSet(t) : FeatureId(u, name) = FeatureId(t, name),
         NEW n, NEW id, NEW d, d.feature \in ToSet(t)
  PROVE  RestockedRow(u, n, id, d) = RestockedRow(t, n, id, d)
BY DEF RestockedRow

(***************************************************************************)
(* While releases are mended, the crates they are of are there, and what   *)
(* is listed is not loaded.                                                *)
(***************************************************************************)
LEMMA ReleasesByNow ==
  ASSUME LoadInv, pc \in {"mend", "done"}
  PROVE  /\ IsList(releases) /\ Len(releases) \in Nat /\ DOMAIN releases = 1 .. Len(releases)
         /\ Mends \in Nat /\ Loads \in Nat /\ Len(releases) = Loads + Mends
         /\ Mends <= Len(MendedReleases)
         /\ \A i \in 1 .. Len(releases) : i \in 1 .. Loads \/ \E k \in 1 .. Mends : i = Loads + k
         /\ \A i \in 1 .. Loads : \E row \in Kept :
              /\ row \in dump.versions /\ ~row.yanked /\ IsReleaseOf(i, row)
              /\ releases[i].id = row.id /\ row.id \in Nat
              /\ releases[i].crate = row.crate /\ releases[i].num = row.num
         /\ \A k \in 1 .. Mends :
              /\ releases[Loads + k].id \in Nat
              /\ releases[Loads + k].crate = CrateId(names, MendedReleases[k].crate)
              /\ releases[Loads + k].num = MendedReleases[k].num
<1>1. TablesInv /\ ReleasesInv /\ MendedInv
  BY DEF LoadInv
<1>2. IsList(releases) /\ Len(releases) \in Nat /\ DOMAIN releases = 1 .. Len(releases)
  BY <1>1, Lists DEF ReleasesInv
<1>3. Mends \in Nat /\ Mends <= Len(MendedReleases)
  BY <1>1, ListFacts DEF Mends, TablesInv
<1>4. Kept \subseteq dump.versions /\ \A row \in Kept : ~row.yanked
  BY DEF Kept, Seen
<1>5. Loads \in Nat
  <2>1. IsFiniteSet(dump.versions)
    BY <1>1, DumpFacts DEF TablesInv, Tables
  <2>2. Cardinality(Kept) \in Nat
    BY <1>4, <2>1, FS_Subset, FS_CardinalityType
  <2> QED BY <1>1, <2>2 DEF ReleasesInv
<1>6. Len(releases) = Loads + Mends
  BY <1>2, <1>3 DEF Loads
<1>7. \A i \in 1 .. Len(releases) : i \in 1 .. Loads \/ \E k \in 1 .. Mends : i = Loads + k
  <2> SUFFICES ASSUME NEW i \in 1 .. Len(releases), i \notin 1 .. Loads
               PROVE  i - Loads \in 1 .. Mends /\ i = Loads + (i - Loads)
    OBVIOUS
  <2> QED BY <1>2, <1>3, <1>5, <1>6
<1>8. ASSUME NEW i \in 1 .. Loads
      PROVE  \E row \in Kept :
               /\ row \in dump.versions /\ ~row.yanked /\ IsReleaseOf(i, row)
               /\ releases[i].id = row.id /\ row.id \in Nat
               /\ releases[i].crate = row.crate /\ releases[i].num = row.num
  <2>1. PICK row \in Kept : IsReleaseOf(i, row)
    BY <1>1 DEF ReleasesInv
  <2>2. releases[i] = ResolvedIn(names, features, resolve, Encoded(features, row))
    BY <2>1 DEF IsReleaseOf, IsResolved
  <2>3. row.id \in Nat
    BY <1>1, <1>4, DumpFacts DEF TablesInv, Tables
  <2> QED BY <1>4, <2>1, <2>2, <2>3, ResolvedGives
<1>9. \A k \in 1 .. Mends :
        /\ releases[Loads + k].id \in Nat
        /\ releases[Loads + k].crate = CrateId(names, MendedReleases[k].crate)
        /\ releases[Loads + k].num = MendedReleases[k].num
  <2> SUFFICES ASSUME NEW k \in 1 .. Mends
               PROVE  /\ releases[Loads + k].id \in Nat
                      /\ releases[Loads + k].crate = CrateId(names, MendedReleases[k].crate)
                      /\ releases[Loads + k].num = MendedReleases[k].num
    OBVIOUS
  <2>1. PICK rel, m : rel = releases[Loads + k] /\ m = MendedReleases[k]
    OBVIOUS
  <2>2. rel.id \in Nat /\ rel = Restocked(features, names, rel.id, m)
    BY <1>1, <2>1 DEF MendedInv
  <2>3. \A id : LET r == Restocked(features, names, id, m)
               IN r.crate = CrateId(names, m.crate) /\ r.num = m.num
    BY DEF Restocked
  <2>4. rel.crate = CrateId(names, m.crate) /\ rel.num = m.num
    BY <2>2, <2>3
  <2> QED BY <2>1, <2>2, <2>4
<1> QED BY <1>2, <1>3, <1>5, <1>6, <1>7, <1>8, <1>9

\* A crate of mend_crates is there by the time it is looked up.
LEMMA CratesRestored ==
  ASSUME LoadInv, pc \in {"resolve", "mend", "done", "failed"}, NEW name \in ToSet(MendedCrates)
  PROVE  /\ CrateId(names, name) # None /\ CrateId(names, name) \in DOMAIN names
         /\ Folded[names[CrateId(names, name)]] = Folded[name]
<1>1. PICK k \in DOMAIN MendedCrates : MendedCrates[k] = name
  BY ListFacts, Lists
<1>2. CrateId(names, name) # None
  BY <1>1 DEF LoadInv, NamesInv, IsMended
<1> QED BY <1>2, CrateIdGives DEF LoadInv, NamesInv

(***************************************************************************)
(* A release that is listed is added: its crate is there, it is not, and   *)
(* what it brings has ids of its own.                                      *)
(***************************************************************************)
LEMMA MendReleaseKeeps ==
  ASSUME LoadInv, MendRelease
  PROVE  LoadInv'
<1>1. pc = "mend" /\ UNCHANGED <<dump, unread, names, renames, resolve>>
  BY DEF MendRelease
<1>2. /\ TablesInv /\ NamesInv /\ FeaturesInv /\ ReleasesInv /\ RenamesInv
      /\ DependenciesInv /\ MendedInv /\ IdsAreUnique
  BY DEF LoadInv
<1>3. (\A t : Seen(t)' = Seen(t)) /\ Kept' = Kept /\ AllRead' = AllRead
  BY <1>1, NothingRead
<1>4. PICK m, crate, id : /\ m = MendedReleases[next] /\ crate = CrateId(names, m.crate)
                          /\ id = Fresh({ rel.id : rel \in ToSet(releases) })
  OBVIOUS
<1>5. /\ next \in 1 .. Len(MendedReleases) /\ m \in ToSet(MendedReleases)
      /\ Mends = next - 1
  <2>1. next \in 1 .. Len(MendedReleases)
    BY <1>1, <1>2, ListFacts DEF TablesInv
  <2> QED BY <1>1, <1>4, <2>1, ListFacts DEF Mends
<1>6. /\ IsList(releases) /\ Len(releases) \in Nat /\ DOMAIN releases = 1 .. Len(releases)
      /\ Mends \in Nat /\ Loads \in Nat /\ Len(releases) = Loads + Mends
      /\ \A i \in 1 .. Len(releases) : i \in 1 .. Loads \/ \E k \in 1 .. Mends : i = Loads + k
  BY <1>1, ReleasesByNow
<1>7. \A i \in 1 .. Loads : \E row \in Kept :
        /\ row \in dump.versions /\ ~row.yanked /\ IsReleaseOf(i, row)
        /\ releases[i].id = row.id /\ row.id \in Nat
        /\ releases[i].crate = row.crate /\ releases[i].num = row.num
  BY <1>1, ReleasesByNow
<1>8. \A k \in 1 .. Mends :
        /\ releases[Loads + k].id \in Nat
        /\ releases[Loads + k].crate = CrateId(names, MendedReleases[k].crate)
        /\ releases[Loads + k].num = MendedReleases[k].num
  BY <1>1, ReleasesByNow
<1>9. /\ m.crate \in ToSet(MendedCrates) /\ IsList(m.dependencies)
      /\ \A d \in ToSet(m.dependencies) : d.crate \in ToSet(MendedCrates)
  BY <1>5, LoadAssumption DEF ListedOnce
<1>10. /\ crate # None /\ crate \in DOMAIN names /\ Folded[names[crate]] = Folded[m.crate]
       /\ \A d \in ToSet(m.dependencies) : CrateId(names, d.crate) # None
  BY <1>1, <1>4, <1>9, CratesRestored
<1>11. ASSUME NEW i \in 1 .. Len(releases)
       PROVE  ~(releases[i].crate = crate /\ releases[i].num = m.num)
  <2> SUFFICES ASSUME releases[i].crate = crate, releases[i].num = m.num PROVE FALSE
    OBVIOUS
  <2>1. CASE i \in 1 .. Loads
    <3>1. PICK row \in dump.versions : ~row.yanked /\ row.crate = crate /\ row.num = m.num
      BY <1>7, <2>1
    <3>2. Consistent(dump)
      BY <1>2, DumpFacts DEF TablesInv
    <3>3. PICK c \in dump.crates : c.id = row.crate
      BY <3>2 DEF Consistent
    <3>4. c.name = names[crate]
      BY <1>1, <3>1, <3>3, AllNamed
    <3> QED BY <1>5, <1>10, <3>1, <3>2, <3>3, <3>4 DEF Consistent
  <2>2. CASE \E k \in 1 .. Mends : i = Loads + k
    <3>1. PICK k \in 1 .. Mends : i = Loads + k
      BY <2>2
    <3>2. k \in 1 .. Len(MendedReleases) /\ k # next
      BY <1>5, <1>6
    <3>3. MendedReleases[k].crate \in ToSet(MendedCrates)
      BY <3>2, ListFacts, LoadAssumption DEF ListedOnce
    <3>4. CrateId(names, MendedReleases[k].crate) = crate /\ MendedReleases[k].num = m.num
      BY <1>8, <3>1
    <3>5. Folded[MendedReleases[k].crate] = Folded[m.crate]
      BY <1>1, <1>10, <3>3, <3>4, CratesRestored
    <3> QED BY <1>4, <1>5, <3>2, <3>4, <3>5, ListFacts, LoadAssumption DEF ListedOnce
  <2> QED BY <1>6, <2>1, <2>2
<1>12. \A rel \in ToSet(releases) : ~(rel.crate = crate /\ rel.num = m.num)
  <2>1. \A rel \in ToSet(releases) : \E i \in 1 .. Len(releases) : releases[i] = rel
    BY <1>6, Lists
  <2> QED BY <1>11, <2>1
<1> DEFINE Added(table) == [i \in DOMAIN m.dependencies |->
                              RestockedRow(table, names, id, m.dependencies[i])]
<1>13. /\ features' = InternAll(features, SetToSeq(ListedNames(m)))
       /\ releases' = Append(releases, Restocked(features', names, id, m))
       /\ dependencies' = AddAll(dependencies, Added(features'))
       /\ \/ next = Len(MendedReleases) /\ pc' = "done" /\ next' = next
          \/ next # Len(MendedReleases) /\ pc' = pc /\ next' = next + 1
  BY <1>4, <1>10, <1>12 DEF MendRelease
<1>14. PICK rel0 : rel0 = Restocked(features', names, id, m)
  OBVIOUS
<1>15. rel0.id = id /\ rel0.crate = crate /\ rel0.num = m.num
  BY <1>4, <1>14 DEF Restocked
<1>16. /\ IsList(releases') /\ Len(releases') = Len(releases) + 1
       /\ \A i \in 1 .. Len(releases) : releases'[i] = releases[i]
       /\ releases'[Len(releases) + 1] = rel0
  BY <1>6, <1>13, <1>14, Appended
<1>17. /\ Mends' = next /\ Loads' = Loads /\ pc' \in {"mend", "done"}
       /\ next' \in 1 .. Len(MendedReleases)
  <2>1. Mends' = next /\ pc' \in {"mend", "done"}
    BY <1>1, <1>5, <1>13 DEF Mends
  <2>2. Loads' = Loads
    BY <1>5, <1>6, <1>16, <2>1 DEF Loads
  <2>3. next' \in 1 .. Len(MendedReleases)
    <3>1. Len(MendedReleases) \in Nat
      BY ListFacts
    <3>2. \/ next = Len(MendedReleases) /\ next' = next
          \/ next # Len(MendedReleases) /\ next' = next + 1
      BY <1>13
    <3> QED BY <1>5, <3>1, <3>2
  <2> QED BY <2>1, <2>2, <2>3
<1>18. Grows /\ FeaturesInv' /\ ListedNames(m) \subseteq ToSet(features')
  <2>1. IsList(SetToSeq(ListedNames(m))) /\ ToSet(SetToSeq(ListedNames(m))) = ListedNames(m)
    BY <1>5, ListedNamesAreFinite, SetInOrder
  <2> QED BY <1>2, <1>13, <2>1, GrowsBy
<1>19. /\ \A name \in ToSet(features) : FeatureId(features', name) = FeatureId(features, name)
       /\ ToSet(features) \subseteq ToSet(features')
  BY <1>18, NamesStay
<1>20. TablesInv'
  <2>1. next' \in Nat \ {0} /\ next' <= Len(MendedReleases)
    BY <1>17, ListFacts
  <2> QED BY <1>1, <1>2, <1>3, <1>17, <2>1 DEF TablesInv
<1>21. NamesInv'
  BY <1>1, <1>2, <1>3, <1>17, NamesKept DEF IsMended
<1>22. RenamesInv'
  BY <1>1, <1>2, <1>3, <1>18, RenamesKept
<1>23. ReleasesInv'
  <2>1. \A i \in 1 .. Loads, row \in Kept : IsReleaseOf(i, row) => IsReleaseOf(i, row)'
    <3> SUFFICES ASSUME NEW i \in 1 .. Loads, NEW row \in Kept, IsReleaseOf(i, row)
                 PROVE  IsReleaseOf(i, row)'
      OBVIOUS
    <3>1. IsResolved(i) /\ IsResolved(i)'
      BY <1>1, <1>17 DEF IsResolved
    <3>2. VersionKnown(features, row)
      BY <1>2 DEF ReleasesInv
    <3>3. releases'[i] = releases[i]
      BY <1>6, <1>16
    <3> QED BY <1>1, <1>18, <3>1, <3>2, <3>3, ReleaseStays
  <2>2. \A row \in Kept : VersionKnown(features', row)
    BY <1>2, <1>18, NamesStay DEF ReleasesInv
  <2>3. pc' # "failed"
    BY <1>17
  <2> QED BY <1>2, <1>3, <1>16, <1>17, <2>1, <2>2, <2>3 DEF ReleasesInv
<1>24. id \in Nat /\ \A rel \in ToSet(releases) : rel.id # id
  <2>1. \A i \in 1 .. Len(releases) : releases[i].id \in Nat
    BY <1>6, <1>7, <1>8
  <2>2. \A rel \in ToSet(releases) : rel.id \in Nat
    BY <1>6, <2>1, Lists
  <2> QED BY <1>4, <1>6, <2>2, FreshGives
<1>25. PICK added : added = Added(features')
  OBVIOUS
<1>26. /\ IsList(added) /\ \A x \in ToSet(added) : "id" \in DOMAIN x
       /\ \A d \in ToSet(m.dependencies) : RestockedRow(features', names, id, d) \in ToSet(added)
       /\ \A x \in ToSet(added) : \E d \in ToSet(m.dependencies) :
            x = RestockedRow(features', names, id, d)
  <2>1. /\ Len(m.dependencies) \in Nat /\ DOMAIN m.dependencies = 1 .. Len(m.dependencies)
        /\ ToSet(m.dependencies) = { m.dependencies[i] : i \in 1 .. Len(m.dependencies) }
    BY <1>9, Lists
  <2>2. /\ DOMAIN added = 1 .. Len(m.dependencies)
        /\ added = [i \in 1 .. Len(m.dependencies) |-> added[i]]
        /\ \A i \in 1 .. Len(m.dependencies) :
             added[i] = RestockedRow(features', names, id, m.dependencies[i])
    BY <1>25, <2>1
  <2>3. IsList(added)
    BY <2>1, <2>2, ListOf
  <2>4. ToSet(added) = { RestockedRow(features', names, id, d) : d \in ToSet(m.dependencies) }
    <3>1. ToSet(added) = { added[i] : i \in 1 .. Len(m.dependencies) }
      BY <2>2 DEF ToSet
    <3>2. \A i \in 1 .. Len(m.dependencies) : m.dependencies[i] \in ToSet(m.dependencies)
      BY <2>1
    <3>3. \A d \in ToSet(m.dependencies) : \E i \in 1 .. Len(m.dependencies) : m.dependencies[i] = d
      BY <2>1
    <3>4. \A x \in ToSet(added) : \E d \in ToSet(m.dependencies) :
            x = RestockedRow(features', names, id, d)
      BY <2>2, <3>1, <3>2
    <3>5. \A d \in ToSet(m.dependencies) : RestockedRow(features', names, id, d) \in ToSet(added)
      BY <2>2, <3>1, <3>3
    <3> QED BY <3>4, <3>5
  <2>5. \A d : "id" \in DOMAIN RestockedRow(features', names, id, d)
    BY DEF RestockedRow
  <2> QED BY <2>3, <2>4, <2>5
<1> HIDE DEF Added
<1>27. /\ HaveIds(dependencies') /\ ToSet(dependencies) \subseteq ToSet(dependencies')
       /\ \A x \in ToSet(dependencies') : \/ x \in ToSet(dependencies)
                                          \/ \E d \in ToSet(added) : x = [d EXCEPT !.id = x.id]
       /\ \A d \in ToSet(added) : \E x \in ToSet(dependencies') : x = [d EXCEPT !.id = x.id]
  <2>1. HaveIds(dependencies)
    BY <1>2 DEF DependenciesInv
  <2>2. dependencies' = AddAll(dependencies, added)
    BY <1>13, <1>25
  <2> DEFINE all == AddAll(dependencies, added)
  <2>3. /\ HaveIds(all) /\ ToSet(dependencies) \subseteq ToSet(all)
        /\ \A x \in ToSet(all) : \/ x \in ToSet(dependencies)
                                 \/ \E d \in ToSet(added) : x = [d EXCEPT !.id = x.id]
        /\ \A d \in ToSet(added) : \E x \in ToSet(all) : x = [d EXCEPT !.id = x.id]
    BY <1>26, <2>1, AddAllGives
  <2> HIDE DEF all
  <2> QED BY <2>2, <2>3 DEF all
<1>28. ASSUME NEW dep, NEW row \in Seen("dependencies"), IsRowOf(dep, row)
       PROVE  IsRowOf(dep, row)'
  <2>1. /\ dep = Settled(features, EncodedRow(features, row))
        /\ row.optional => FeatureOf(EncodedRow(features, row)) \in ToSet(features)
    BY <1>1, <1>28 DEF IsRowOf
  <2>2. EncodedRow(features', row) = EncodedRow(features, row)
    BY <1>2, <1>18, NamesStay, EncodedRowStays DEF DependenciesInv
  <2>3. EncodedRow(features, row).feature = TBD => row.optional
    BY DEF EncodedRow, TBD, CRATE
  <2>4. dep = Settled(features', EncodedRow(features', row))
    BY <1>19, <2>1, <2>2, <2>3 DEF Settled
  <2>5. row.optional => FeatureOf(EncodedRow(features', row)) \in ToSet(features')
    BY <1>19, <2>1, <2>2
  <2> QED BY <1>1, <1>17, <2>4, <2>5 DEF IsRowOf, Settled, FeatureOf
<1>29. ASSUME NEW dep, Listed(dep) PROVE Listed(dep)'
  <2>5. PICK k \in 1 .. Mends : \E d \in ToSet(MendedReleases[k].dependencies) :
          /\ d.feature \in ToSet(features)
          /\ dep = [RestockedRow(features, names, releases[Loads + k].id, d) EXCEPT !.id = dep.id]
    BY <1>29 DEF Listed
  <2>1. PICK d \in ToSet(MendedReleases[k].dependencies) :
          /\ d.feature \in ToSet(features)
          /\ dep = [RestockedRow(features, names, releases[Loads + k].id, d) EXCEPT !.id = dep.id]
    BY <2>5
  <2>2. k \in 1 .. next /\ releases'[Loads + k] = releases[Loads + k]
    <3>1. k \in 1 .. next /\ Loads + k \in 1 .. Len(releases)
      BY <1>5, <1>6
    <3> QED BY <1>16, <3>1
  <2>3. RestockedRow(features', names, releases[Loads + k].id, d)
          = RestockedRow(features, names, releases[Loads + k].id, d)
    BY <1>19, <2>1, RestockedRowStays
  <2>4. /\ d.feature \in ToSet(features')
        /\ dep = [RestockedRow(features', names, releases'[Loads + k].id, d) EXCEPT !.id = dep.id]
    BY <1>19, <2>1, <2>2, <2>3
  <2> QED BY <1>1, <1>17, <2>2, <2>4 DEF Listed
<1>30. Loads' + next = Len(releases) + 1 /\ releases'[Loads' + next] = rel0
  <2>1. Loads' + next = Len(releases) + 1
    BY <1>5, <1>6, <1>17
  <2> QED BY <1>16, <2>1
<1>31. ASSUME NEW dep, NEW x \in ToSet(added), dep = [x EXCEPT !.id = dep.id] PROVE Listed(dep)'
  <2>1. PICK d \in ToSet(m.dependencies) : x = RestockedRow(features', names, id, d)
    BY <1>26
  <2>2. d.feature \in ToSet(features')
    BY <1>18 DEF ListedNames
  <2>3. dep = [RestockedRow(features', names', releases'[Loads' + next].id, d) EXCEPT !.id = dep.id]
    BY <1>1, <1>15, <1>30, <1>31, <2>1
  <2>4. next \in 1 .. Mends' /\ d \in ToSet(MendedReleases[next].dependencies)
    BY <1>4, <1>5, <1>17
  <2>5. PICK k : k = next
    OBVIOUS
  <2> QED BY <2>2, <2>3, <2>4, <2>5 DEF Listed
<1>32. DependenciesInv'
  <2>1. \A dep \in ToSet(dependencies') :
          (\E row \in Seen("dependencies") : IsRowOf(dep, row)') \/ Listed(dep)'
    BY <1>2, <1>27, <1>28, <1>29, <1>31 DEF DependenciesInv
  <2>2. \A row \in Seen("dependencies") :
          RowKnown(features', row) /\ \E dep \in ToSet(dependencies') : IsRowOf(dep, row)'
    BY <1>2, <1>18, <1>27, <1>28, NamesStay DEF DependenciesInv
  <2> QED BY <1>3, <1>27, <2>1, <2>2 DEF DependenciesInv
<1>33. MendedInv'
  <2> DEFINE Good(k, rel) ==
        /\ rel.id \in Nat
        /\ rel = Restocked(features', names, rel.id, MendedReleases[k])
        /\ ListedNames(MendedReleases[k]) \subseteq ToSet(features')
        /\ \A d \in ToSet(MendedReleases[k].dependencies) : \E dep \in ToSet(dependencies') :
             dep = [RestockedRow(features', names, rel.id, d) EXCEPT !.id = dep.id]
  <2>1. ASSUME NEW k \in 1 .. Mends PROVE Good(k, releases'[Loads + k])
    <3>1. PICK rel : rel = releases[Loads + k]
      OBVIOUS
    <3>2. /\ rel.id \in Nat
          /\ rel = Restocked(features, names, rel.id, MendedReleases[k])
          /\ ListedNames(MendedReleases[k]) \subseteq ToSet(features)
          /\ \A d \in ToSet(MendedReleases[k].dependencies) : \E dep \in ToSet(dependencies) :
               dep = [RestockedRow(features, names, rel.id, d) EXCEPT !.id = dep.id]
      BY <1>2, <3>1 DEF MendedInv
    <3>3. releases'[Loads + k] = rel
      <4>1. Loads + k \in 1 .. Len(releases)
        BY <1>6
      <4> QED BY <1>16, <3>1, <4>1
    <3>4. rel = Restocked(features', names, rel.id, MendedReleases[k])
      BY <1>19, <3>2, RestockedStays
    <3>5. \A d \in ToSet(MendedReleases[k].dependencies) :
            RestockedRow(features', names, rel.id, d) = RestockedRow(features, names, rel.id, d)
      BY <1>19, <3>2, RestockedRowStays DEF ListedNames
    <3>6. \A d \in ToSet(MendedReleases[k].dependencies) : \E dep \in ToSet(dependencies') :
            dep = [RestockedRow(features', names, rel.id, d) EXCEPT !.id = dep.id]
      BY <1>27, <3>2, <3>5
    <3> QED BY <1>19, <3>2, <3>3, <3>4, <3>6
  <2>2. Good(next, rel0)
    <3>1. rel0.id \in Nat /\ rel0 = Restocked(features', names, rel0.id, m)
      BY <1>14, <1>15, <1>24
    <3>2. \A d \in ToSet(m.dependencies) : \E dep \in ToSet(dependencies') :
            dep = [RestockedRow(features', names, rel0.id, d) EXCEPT !.id = dep.id]
      BY <1>15, <1>26, <1>27
    <3> QED BY <1>4, <1>18, <3>1, <3>2
  <2>3. \A k \in 1 .. next : k \in 1 .. Mends \/ k = next
    BY <1>5
  <2>4. \A k \in 1 .. Mends' : Good(k, releases'[Loads' + k])
    <3> HIDE DEF Good
    <3> QED BY <1>17, <1>30, <2>1, <2>2, <2>3
  <2> QED BY <1>1, <2>4 DEF MendedInv
<1>34. IdsAreUnique'
  <2>1. \A i \in 1 .. Len(releases) :
          /\ releases'[i] = releases[i] /\ releases[i].id # id
          /\ ~(releases[i].crate = crate /\ releases[i].num = m.num)
    BY <1>6, <1>11, <1>16, <1>24, Lists
  <2>2. DOMAIN releases' = 1 .. Len(releases) + 1
    BY <1>16, Lists
  <2>3. ASSUME NEW i \in 1 .. Len(releases) + 1, NEW j \in 1 .. Len(releases) + 1,
               \/ releases'[i].id = releases'[j].id
               \/ releases'[i].crate = releases'[j].crate /\ releases'[i].num = releases'[j].num
        PROVE  i = j
    <3>1. i \in 1 .. Len(releases) \/ i = Len(releases) + 1
      BY <1>6
    <3>2. j \in 1 .. Len(releases) \/ j = Len(releases) + 1
      BY <1>6
    <3>3. CASE i \in 1 .. Len(releases) /\ j \in 1 .. Len(releases)
      <4>1. releases'[i] = releases[i] /\ releases'[j] = releases[j]
        BY <2>1, <3>3
      <4> QED BY <1>2, <1>6, <2>3, <3>3, <4>1 DEF IdsAreUnique
    <3> QED BY <1>15, <1>16, <2>1, <2>3, <3>1, <3>2, <3>3
  <2> QED BY <1>27, <2>2, <2>3 DEF IdsAreUnique, HaveIds
<1> QED BY <1>18, <1>20, <1>21, <1>22, <1>23, <1>32, <1>33, <1>34 DEF LoadInv

-----------------------------------------------------------------------------
(***************************************************************************)
(* The invariant holds in every state of every load.                       *)
(***************************************************************************)
LEMMA StutterKeeps ==
  ASSUME LoadInv, UNCHANGED vars
  PROVE  LoadInv'
<1>1. UNCHANGED <<dump, unread, names, features, releases, dependencies, renames, resolve, pc, next>>
  BY DEF vars
<1>2. TablesInv' /\ NamesInv' /\ FeaturesInv'
  BY <1>1 DEF LoadInv, TablesInv, NamesInv, FeaturesInv, AllRead, Seen, IsMended
<1>3. ReleasesInv'
  BY <1>1 DEF LoadInv, ReleasesInv, Kept, Seen, Loads, Mends, IsReleaseOf, IsResolved
<1>4. RenamesInv'
  BY <1>1 DEF LoadInv, RenamesInv, Seen
<1>5. DependenciesInv'
  BY <1>1 DEF LoadInv, DependenciesInv, Seen, IsRowOf, Listed, Settled, FeatureOf, Loads, Mends
<1>6. MendedInv'
  <2>1. Mends' = Mends /\ Loads' = Loads
    BY <1>1 DEF Loads, Mends
  <2> QED BY <1>1, <2>1 DEF LoadInv, MendedInv
<1>7. IdsAreUnique'
  BY <1>1 DEF LoadInv, IdsAreUnique
<1> QED BY <1>2, <1>3, <1>4, <1>5, <1>6, <1>7 DEF LoadInv

\* In every state of every load.
THEOREM LoadInvHolds == Spec => []LoadInv
<1>1. LoadInv /\ [Next]_vars => LoadInv'
  <2> SUFFICES ASSUME LoadInv, [Next]_vars PROVE LoadInv'
    OBVIOUS
  <2>1. ASSUME NEW row, ReadCrate(row) PROVE LoadInv'
    BY <2>1, ReadCrateKeeps
  <2>2. ASSUME NEW row, ReadVersion(row) PROVE LoadInv'
    BY <2>2, ReadVersionKeeps
  <2>3. ASSUME NEW row, ReadDependency(row) PROVE LoadInv'
    BY <2>3, ReadDependencyKeeps
  <2>4. CASE EndOfTables
    BY <2>4, EndOfTablesKeeps
  <2>5. CASE MendCrate
    BY <2>5, MendCrateKeeps
  <2>6. CASE CratesMended
    BY <2>6, CratesMendedKeeps
  <2>7. CASE ResolveRelease
    BY <2>7, ResolveReleaseKeeps
  <2>8. CASE ResolveDependencies
    BY <2>8, ResolveDependenciesKeeps
  <2>9. CASE MendRelease
    BY <2>9, MendReleaseKeeps
  <2>10. CASE UNCHANGED vars
    BY <2>10, StutterKeeps
  <2> QED BY <2>1, <2>2, <2>3, <2>4, <2>5, <2>6, <2>7, <2>8, <2>9, <2>10 DEF Next
<1> QED BY <1>1, InitHolds, PTL DEF Spec

(***************************************************************************)
(* No assertion, unwrap or index fails, whatever the order of the tables   *)
(* and of their rows: crates have names when they are asked for, what is   *)
(* mended has crates and is not there yet, and its ids are free.           *)
(***************************************************************************)
THEOREM LoadNeverPanics == Spec => []NeverPanics
<1>1. LoadInv => NeverPanics
  BY DEF LoadInv, TablesInv, NeverPanics
<1> QED BY <1>1, LoadInvHolds, PTL

(***************************************************************************)
(* Mended releases and rows are told apart from loaded ones.               *)
(***************************************************************************)
THEOREM LoadIdsAreUnique == Spec => []IdsAreUnique
<1>1. LoadInv => IdsAreUnique
  BY DEF LoadInv
<1> QED BY <1>1, LoadInvHolds, PTL

(***************************************************************************)
(* Ids and names correspond, and every feature of a dependency has a name. *)
(***************************************************************************)
LEMMA InvGivesType ==
  ASSUME LoadInv
  PROVE  TypeOK
<1>1. /\ TablesInv /\ NamesInv /\ FeaturesInv /\ DependenciesInv
  BY DEF LoadInv
<1>2. IsTable(features) /\ Len(features) \in Nat /\ Len(features) >= 2
  <2>1. IsTable(features)
    BY <1>1 DEF FeaturesInv, IsTable
  <2> QED BY <1>1, <2>1, Lists DEF FeaturesInv, IsTable
<1>3. features[CRATE + 1] = "" /\ features[DEFAULT + 1] = "default"
  <2>1. CRATE + 1 = 1 /\ DEFAULT + 1 = 2
    BY DEF CRATE, DEFAULT
  <2> QED BY <1>1, <2>1 DEF FeaturesInv
<1>4. CRATE \in 0 .. Len(features) - 1
  BY <1>2 DEF CRATE
<1>5. \A name \in ToSet(features) : FeatureId(features, name) \in 0 .. Len(features) - 1
  BY <1>2, IdOfName
<1>6. ASSUME NEW dep \in ToSet(dependencies)
      PROVE  dep.feature \in {TBD} \cup 0 .. Len(features) - 1
  <2>1. CASE Listed(dep)
    <3>1. PICK k \in 1 .. Mends : \E d \in ToSet(MendedReleases[k].dependencies) :
            /\ d.feature \in ToSet(features)
            /\ dep = [RestockedRow(features, names, releases[Loads + k].id, d)
                        EXCEPT !.id = dep.id]
      BY <2>1 DEF Listed
    <3>2. PICK d, id : /\ d.feature \in ToSet(features)
                       /\ dep = [RestockedRow(features, names, id, d) EXCEPT !.id = dep.id]
      BY <3>1
    <3>3. dep.feature = FeatureId(features, d.feature)
      BY <3>2 DEF RestockedRow
    <3> QED BY <1>5, <3>2, <3>3
  <2>2. ASSUME NEW row, IsRowOf(dep, row) PROVE dep.feature \in {TBD} \cup 0 .. Len(features) - 1
    <3>1. LET e == EncodedRow(features, row)
          IN /\ e.feature = IF row.optional THEN TBD ELSE CRATE
             /\ \A x : [e EXCEPT !.feature = x].feature = x
      BY DEF EncodedRow
    <3>2. TBD # CRATE
      BY DEF TBD, CRATE
    <3>3. CASE pc \in {"mend", "done"}
      <4>1. CASE row.optional
        <5>1. dep.feature = FeatureId(features, FeatureOf(EncodedRow(features, row)))
          BY <2>2, <3>1, <3>3, <4>1 DEF IsRowOf, Settled
        <5> QED BY <1>5, <2>2, <3>3, <4>1, <5>1 DEF IsRowOf
      <4>2. CASE ~row.optional
        <5>1. dep.feature = CRATE
          BY <2>2, <3>1, <3>2, <3>3, <4>2 DEF IsRowOf, Settled
        <5> QED BY <1>4, <5>1
      <4> QED BY <4>1, <4>2
    <3>4. CASE pc \notin {"mend", "done"}
      BY <1>4, <2>2, <3>1, <3>4 DEF IsRowOf
    <3> QED BY <3>3, <3>4
  <2> QED BY <1>1, <2>1, <2>2 DEF DependenciesInv
<1>7. \A i \in DOMAIN dependencies : dependencies[i].feature \in {TBD} \cup 0 .. Len(features) - 1
  BY <1>6 DEF ToSet
<1>8. pc \in {"read", "restore", "resolve", "mend", "done", "failed", "panicked"} /\ next \in Nat
  BY <1>1 DEF TablesInv
<1> QED BY <1>1, <1>2, <1>3, <1>7, <1>8 DEF TypeOK, NamesInv, IsTable

\* The types are kept in every state of every load.
THEOREM LoadTyped == Spec => []TypeOK
BY LoadInvHolds, InvGivesType, PTL

-----------------------------------------------------------------------------
(* What is loaded, by names.                                               *)

(***************************************************************************)
(* A crate is called what its row says.                                    *)
(***************************************************************************)
LEMMA NameOfIs ==
  ASSUME LoadInv, pc # "read"
  PROVE  /\ \A v \in dump.versions : /\ v.crate \in DOMAIN names /\ names[v.crate] = NameOf(v.crate)
                                     /\ v.crate # None
         /\ \A d \in dump.dependencies : /\ d.crate \in DOMAIN names /\ names[d.crate] = NameOf(d.crate)
                                         /\ d.crate # None
<1>1. dump \in Dumps
  BY DEF LoadInv, TablesInv
<1>2. ASSUME NEW c \in dump.crates
      PROVE  c.id \in DOMAIN names /\ names[c.id] = NameOf(c.id) /\ c.id # None
  <2>1. c.id \in Nat /\ \A d \in dump.crates : d.id = c.id => d = c
    BY <1>1, DumpFacts DEF Tables
  <2>2. NameOf(c.id) = c.name
    BY <2>1 DEF NameOf
  <2> QED BY <2>1, <2>2, AllNamed DEF None
<1>3. Consistent(dump)
  BY <1>1, DumpFacts
<1> QED BY <1>2, <1>3 DEF Consistent

(***************************************************************************)
(* What the name before a slash is resolved to is what it means: the row   *)
(* that renames it, or the crate of that name, may have come at any time.  *)
(***************************************************************************)
LEMMA CrateMeans ==
  ASSUME LoadInv, pc \in {"resolve", "mend", "done", "failed"}, NEW row \in dump.versions,
         NEW krate \in ToSet(features), NEW rel,
         rel.id = row.id, rel.crate = row.crate, rel.num = row.num
  PROVE  LET c == CrateIn(names, features, resolve, rel, FeatureId(features, krate))
         IN /\ c = None <=> Broken(row, krate)
            /\ c # None => /\ c \in DOMAIN names
                           /\ names[c] \in Meant(row, krate) \/ Meant(row, krate) = {}
<1> DEFINE id == FeatureId(features, krate)
           c == CrateIn(names, features, resolve, rel, id)
           key == <<rel.id, id>>
           aliased == { NameOf(d.crate) : d \in { x \in dump.dependencies :
                          x.version = row.id /\ x.alias = krate } }
<1>1. NamesInv /\ FeaturesInv /\ RenamesInv /\ DependenciesInv
  BY DEF LoadInv
<1>2. /\ row.crate \in DOMAIN names /\ names[row.crate] = NameOf(row.crate) /\ row.crate # None
      /\ \A d \in dump.dependencies :
           d.crate \in DOMAIN names /\ names[d.crate] = NameOf(d.crate) /\ d.crate # None
  BY NameOfIs
<1>3. Seen("dependencies") = dump.dependencies /\ Seen("crates") = dump.crates
  BY AllNamed DEF Tables
<1>4. IsTable(features)
  BY <1>1 DEF FeaturesInv, IsTable
<1>5. FeatureName(features, id) = krate
  BY <1>4, IdOfName
<1>6. id = CRATE <=> krate = ""
  <2>1. features[1] = ""
    BY <1>1 DEF FeaturesInv
  <2>2. FeatureName(features, CRATE) = ""
    <3>1. CRATE + 1 = 1
      BY DEF CRATE
    <3> QED BY <2>1, <3>1 DEF FeatureName
  <2>3. 1 \in 1 .. Len(features)
    <3>1. Len(features) \in Nat
      BY <1>4, Lists DEF IsTable
    <3>2. Len(features) >= 2
      BY <1>1 DEF FeaturesInv
    <3> QED BY <3>1, <3>2
  <2>4. FeatureId(features, features[1]) = 0
    BY <1>4, <2>3, IdOfPlace
  <2>5. krate = "" => id = CRATE
    BY <2>1, <2>4 DEF CRATE
  <2> QED BY <1>5, <2>2, <2>5
<1> HIDE DEF id, aliased
<1>7. CASE krate = ""
  <2>1. c = row.crate
    BY <1>6, <1>7 DEF CrateIn
  <2>2. Meant(row, krate) = {NameOf(row.crate)}
    BY <1>7 DEF Meant
  <2> QED BY <1>2, <2>1, <2>2 DEF Broken, id
<1>8. CASE krate # "" /\ key \in DOMAIN resolve
  <2>1. PICK d \in dump.dependencies :
          /\ d.alias # "" /\ key = <<d.version, FeatureId(features, d.alias)>>
          /\ resolve[key] = d.crate
    BY <1>1, <1>3, <1>8 DEF RenamesInv
  <2>2. d.version = row.id /\ d.alias = krate
    <3>1. d.alias \in ToSet(features)
      BY <1>1, <1>3, <2>1 DEF DependenciesInv, RowKnown
    <3>2. d.version = row.id /\ FeatureId(features, d.alias) = FeatureId(features, krate)
      BY <2>1 DEF id
    <3> QED BY <1>4, <3>1, <3>2, IdsDiffer
  <2>3. c = d.crate
    BY <1>6, <1>8, <2>1 DEF CrateIn
  <2>4. names[c] \in aliased
    BY <1>2, <2>2, <2>3 DEF aliased
  <2>5. Meant(row, krate) = aliased
    BY <1>8, <2>4 DEF Meant, aliased
  <2> QED BY <1>2, <2>3, <2>4, <2>5 DEF Broken, id
<1>9. CASE krate # "" /\ key \notin DOMAIN resolve
  <2>1. aliased = {}
    <3> SUFFICES ASSUME NEW d \in dump.dependencies, d.version = row.id, d.alias = krate PROVE FALSE
      BY DEF aliased
    <3> QED BY <1>1, <1>3, <1>9 DEF RenamesInv, id
  <2>2. Meant(row, krate) = { name \in Published : Folded[name] = Folded[krate] }
    BY <1>9, <2>1 DEF Meant, aliased
  <2>3. CASE CrateId(names, krate) # None
    <3>1. c = CrateId(names, krate)
      BY <1>5, <1>6, <1>9, <2>3 DEF CrateIn
    <3>2. c \in DOMAIN names /\ Folded[names[c]] = Folded[krate]
      BY <1>1, <2>3, <3>1, CrateIdGives DEF NamesInv
    <3>3. names[c] \in Published
      <4>1. CASE \E r \in Seen("crates") : r.id = c
        BY <1>1, <1>3, <4>1 DEF NamesInv, Published
      <4>2. CASE names[c] \in ToSet(MendedCrates)
        BY <4>2 DEF Published
      <4> QED BY <1>1, <3>2, <4>1, <4>2 DEF NamesInv
    <3>4. names[c] \in Meant(row, krate)
      BY <2>2, <3>2, <3>3
    <3> QED BY <2>3, <3>1, <3>2, <3>4 DEF Broken, id
  <2>4. CASE CrateId(names, krate) = None
    <3>1. \A d \in DOMAIN names : Folded[names[d]] # Folded[krate]
      BY <1>1, <2>4, CrateIdGives DEF NamesInv
    <3>2. ASSUME NEW name \in Published PROVE Folded[name] # Folded[krate]
      <4>1. CASE \E r \in dump.crates : r.name = name
        <5>1. PICK r \in dump.crates : r.name = name
          BY <4>1
        <5>2. r.id \in DOMAIN names /\ names[r.id] = name
          BY <1>1, <1>3, <5>1 DEF NamesInv
        <5> QED BY <3>1, <5>2
      <4>2. CASE name \in ToSet(MendedCrates)
        BY <3>1, <4>2, CratesRestored
      <4> QED BY <3>2, <4>1, <4>2 DEF Published
    <3>3. Meant(row, krate) = {}
      BY <2>2, <3>2
    <3>4. row.crate = CrateId(names, KnownBroken.crate)
            <=> Folded[NameOf(row.crate)] = Folded[KnownBroken.crate]
      <4>1. row.crate = CrateId(names, KnownBroken.crate)
              => Folded[names[row.crate]] = Folded[KnownBroken.crate]
        BY <1>1, <1>2, CrateIdGives DEF NamesInv
      <4>2. Folded[names[row.crate]] = Folded[KnownBroken.crate]
              => row.crate = CrateId(names, KnownBroken.crate)
        BY <1>1, <1>2, CrateIdIs DEF NamesInv
      <4> QED BY <1>2, <4>1, <4>2
    <3>5. c = IF /\ row.crate = CrateId(names, KnownBroken.crate)
                 /\ row.num = KnownBroken.num /\ krate = KnownBroken.feature
                THEN row.crate ELSE None
      BY <1>5, <1>6, <1>9, <2>4 DEF CrateIn
    <3> QED BY <1>2, <3>3, <3>4, <3>5 DEF Broken, id
  <2> QED BY <2>3, <2>4
<1> QED BY <1>7, <1>8, <1>9

(***************************************************************************)
(* What a version row enables is encoded, one by one.                      *)
(***************************************************************************)
Pair(t, h) == [crate |-> FeatureId(t, h.krate), feature |-> FeatureId(t, h.feature)]

Pairs(t, g, weak) == { Pair(t, h) : h \in { x \in ToSet(g.enables) : x.weak = weak } }

FeatureIn(t, g) ==
  [id |-> FeatureId(t, g.name), enables |-> Pairs(t, g, FALSE), weak |-> Pairs(t, g, TRUE)]

\* The features of a release, each by itself.
LEMMA EncodedFeatures ==
  ASSUME NEW t, NEW row
  PROVE  Encoded(t, row).features = { FeatureIn(t, g) : g \in ToSet(row.features) }
BY DEF Encoded, FeatureIn, Pairs, Pair

\* An enabled feature is on the list of its kind.
LEMMA PairsGive ==
  ASSUME NEW t, NEW g, \A h \in ToSet(g.enables) : h.weak \in BOOLEAN
  PROVE  \A h \in ToSet(g.enables) :
           /\ Pair(t, h) \in Pairs(t, g, FALSE) \cup Pairs(t, g, TRUE)
           /\ Pair(t, h) \in Pairs(t, g, h.weak)
           /\ Pair(t, h).crate = FeatureId(t, h.krate)
           /\ Pair(t, h).feature = FeatureId(t, h.feature)
<1>1. \A h \in ToSet(g.enables) : Pair(t, h) \in Pairs(t, g, h.weak)
  BY DEF Pairs
<1>2. \A h : Pair(t, h).crate = FeatureId(t, h.krate) /\ Pair(t, h).feature = FeatureId(t, h.feature)
  BY DEF Pair
<1>3. \A h \in ToSet(g.enables) : h.weak = FALSE \/ h.weak = TRUE
  OBVIOUS
<1> QED BY <1>1, <1>2, <1>3

(***************************************************************************)
(* Loading fails exactly if something is broken.                           *)
(***************************************************************************)
LEMMA InvGivesFailures ==
  ASSUME LoadInv
  PROVE  FailsOnlyIfBroken
<1>1. TablesInv /\ ReleasesInv /\ FeaturesInv
  BY DEF LoadInv
<1>2. Kept \subseteq dump.versions /\ \A row \in Kept : ~row.yanked
  BY DEF Kept, Seen
<1>3. ASSUME pc \in {"resolve", "mend", "done", "failed"}, NEW row \in Kept, NEW h,
             h.krate \in ToSet(features)
      PROVE  CrateIn(names, features, resolve, Encoded(features, row), FeatureId(features, h.krate)) = None
               <=> Broken(row, h.krate)
  <2>1. PICK rel : rel = Encoded(features, row)
    OBVIOUS
  <2>2. rel.id = row.id /\ rel.crate = row.crate /\ rel.num = row.num /\ row \in dump.versions
    BY <1>2, <2>1 DEF Encoded
  <2> QED BY <1>3, <2>1, <2>2, CrateMeans
<1>4. \A row \in Kept : \A g \in ToSet(row.features) : \A h \in ToSet(g.enables) :
        h.krate \in ToSet(features)
  BY <1>1 DEF ReleasesInv, VersionKnown
<1>5. ASSUME pc = "failed"
      PROVE  \E row \in dump.versions : ~row.yanked /\
               \E g \in ToSet(row.features) : \E h \in ToSet(g.enables) : Broken(row, h.krate)
  <2>1. next \in 1 .. Loads /\ IsLostIn(names, features, resolve, releases[next])
    <3>1. next <= Loads /\ IsLostIn(names, features, resolve, releases[next])
      BY <1>1, <1>5 DEF ReleasesInv
    <3>2. next \in Nat \ {0} /\ Loads \in Int
      <4>1. Len(releases) \in Nat /\ Mends = 0
        BY <1>1, <1>5, Lists DEF ReleasesInv, Mends
      <4> QED BY <1>1, <4>1 DEF TablesInv, Loads
    <3> QED BY <3>1, <3>2
  <2>2. PICK row \in Kept : IsReleaseOf(next, row)
    BY <1>1, <2>1 DEF ReleasesInv
  <2>3. releases[next] = Encoded(features, row)
    BY <1>1, <1>5, <2>2 DEF IsReleaseOf, IsResolved, TablesInv
  <2>4. PICK f \in Encoded(features, row).features : \E e \in f.enables \cup f.weak :
          CrateIn(names, features, resolve, Encoded(features, row), e.crate) = None
    BY <2>1, <2>3 DEF IsLostIn
  <2>5. PICK g \in ToSet(row.features) : f = FeatureIn(features, g)
    BY EncodedFeatures
  <2>7. PICK h \in ToSet(g.enables) :
          CrateIn(names, features, resolve, Encoded(features, row), FeatureId(features, h.krate)) = None
    <3>2. f.enables = Pairs(features, g, FALSE) /\ f.weak = Pairs(features, g, TRUE)
      BY <2>5 DEF FeatureIn
    <3>3. PICK e \in Pairs(features, g, FALSE) \cup Pairs(features, g, TRUE) :
            CrateIn(names, features, resolve, Encoded(features, row), e.crate) = None
      BY <2>4, <3>2
    <3>5. \A x \in Pairs(features, g, FALSE) \cup Pairs(features, g, TRUE) :
            \E h \in ToSet(g.enables) : x = Pair(features, h)
      BY DEF Pairs
    <3>6. \A h : Pair(features, h).crate = FeatureId(features, h.krate)
      BY DEF Pair
    <3>4. PICK h \in ToSet(g.enables) : e.crate = FeatureId(features, h.krate)
      BY <3>3, <3>5, <3>6
    <3> QED BY <3>3, <3>4
  <2>6. Broken(row, h.krate)
    BY <1>3, <1>4, <1>5, <2>7
  <2> QED BY <1>2, <2>6
<1>6. ASSUME pc \in {"mend", "done"}, NEW row \in dump.versions, ~row.yanked,
             NEW g \in ToSet(row.features), NEW h \in ToSet(g.enables)
      PROVE  ~Broken(row, h.krate)
  <2>1. row \in Kept
    BY <1>6, AllNamed DEF Kept, Tables
  <2>2. PICK i \in 1 .. Loads : IsReleaseOf(i, row)
    BY <1>1, <2>1 DEF ReleasesInv
  <2>3. ~IsLostIn(names, features, resolve, Encoded(features, row))
    BY <1>6, <2>2 DEF IsReleaseOf, IsResolved
  <2>4. \A x \in ToSet(g.enables) : x.weak \in BOOLEAN
    BY <1>1, DumpFacts DEF TablesInv
  <2>5. PICK f \in Encoded(features, row).features : f = FeatureIn(features, g)
    BY EncodedFeatures
  <2>8. f.enables = Pairs(features, g, FALSE) /\ f.weak = Pairs(features, g, TRUE)
    BY <2>5 DEF FeatureIn
  <2>6. \E e \in f.enables \cup f.weak : e.crate = FeatureId(features, h.krate)
    BY <2>4, <2>8, PairsGive
  <2>7. CrateIn(names, features, resolve, Encoded(features, row), FeatureId(features, h.krate)) # None
    BY <2>3, <2>6 DEF IsLostIn
  <2> QED BY <1>3, <1>4, <1>6, <2>1, <2>7
<1> QED BY <1>5, <1>6 DEF FailsOnlyIfBroken

\* Loading fails exactly on a feature of something unknown.
THEOREM LoadFailsOnlyIfBroken == Spec => []FailsOnlyIfBroken
BY LoadInvHolds, InvGivesFailures, PTL

-----------------------------------------------------------------------------
(***************************************************************************)
(* A release that is loaded is, by names, what its row says.               *)
(***************************************************************************)
LEMMA ReleaseIsOfRow ==
  ASSUME LoadInv, pc \in {"mend", "done"}, NEW row \in Kept, NEW rel,
         rel = ResolvedIn(names, features, resolve, Encoded(features, row)),
         ~IsLostIn(names, features, resolve, Encoded(features, row))
  PROVE  IsOf(rel, row)
<1> DEFINE enc == Encoded(features, row)
           C(e) == CrateIn(names, features, resolve, enc, e.crate)
           En(E) == { [e EXCEPT !.crate = C(e)] : e \in E }
           IsRes(f, g) == /\ f.id = FeatureId(features, g.name)
                          /\ f.enables = En(Pairs(features, g, FALSE))
                          /\ f.weak = En(Pairs(features, g, TRUE))
<1>1. /\ TablesInv /\ ReleasesInv /\ FeaturesInv /\ IsTable(features)
  BY DEF LoadInv, FeaturesInv, IsTable
<1>2. row \in dump.versions
  BY DEF Kept, Seen
<1>3. /\ \A f, g \in ToSet(row.features) : f.name = g.name => f = g
      /\ \A g \in ToSet(row.features) : \A h \in ToSet(g.enables) : h.weak \in BOOLEAN
  BY <1>1, <1>2, DumpFacts DEF TablesInv
<1>4. \A g \in ToSet(row.features) :
        /\ g.name \in ToSet(features)
        /\ \A h \in ToSet(g.enables) : h.krate \in ToSet(features) /\ h.feature \in ToSet(features)
  BY <1>1 DEF ReleasesInv, VersionKnown
<1>5. \A name \in ToSet(features) : FeatureName(features, FeatureId(features, name)) = name
  BY <1>1, IdOfName
<1>6. /\ rel.id = row.id /\ rel.crate = row.crate /\ rel.num = row.num /\ rel.time = row.time
      /\ names[rel.crate] = NameOf(row.crate)
  BY <1>2, NameOfIs, ResolvedGives
<1>7. /\ \A f \in rel.features : \E g \in ToSet(row.features) : IsRes(f, g)
      /\ \A g \in ToSet(row.features) : \E f \in rel.features : IsRes(f, g)
  <2> DEFINE X(f) == [f EXCEPT !.enables = EnablesIn(names, features, resolve, enc, f.enables),
                               !.weak = EnablesIn(names, features, resolve, enc, f.weak)]
  <2>1. \A E : EnablesIn(names, features, resolve, enc, E) = En(E)
    BY DEF EnablesIn
  <2>2. rel.features = { X(f) : f \in enc.features }
    BY DEF ResolvedIn, Encoded
  <2>3. enc.features = { FeatureIn(features, g) : g \in ToSet(row.features) }
    BY EncodedFeatures
  <2> HIDE DEF enc, En
  <2>4. ASSUME NEW g PROVE IsRes(X(FeatureIn(features, g)), g)
    <3>1. /\ FeatureIn(features, g).enables = Pairs(features, g, FALSE)
          /\ FeatureIn(features, g).weak = Pairs(features, g, TRUE)
          /\ FeatureIn(features, g).id = FeatureId(features, g.name)
          /\ DOMAIN FeatureIn(features, g) = {"id", "enables", "weak"}
      BY DEF FeatureIn
    <3>2. \A f : DOMAIN f = {"id", "enables", "weak"} =>
            /\ X(f).id = f.id
            /\ X(f).enables = EnablesIn(names, features, resolve, enc, f.enables)
            /\ X(f).weak = EnablesIn(names, features, resolve, enc, f.weak)
      OBVIOUS
    <3> HIDE DEF X
    <3> QED BY <2>1, <3>1, <3>2
  <2> HIDE DEF X, IsRes
  <2> QED BY <2>2, <2>3, <2>4
<1>8. ASSUME NEW g \in ToSet(row.features), NEW h \in ToSet(g.enables)
      PROVE  LET c == C(Pair(features, h))
             IN /\ c # None
                /\ names[c] \in Meant(row, h.krate) \/ Meant(row, h.krate) = {}
  <2>1. /\ Pair(features, h) \in Pairs(features, g, FALSE) \cup Pairs(features, g, TRUE)
        /\ Pair(features, h).crate = FeatureId(features, h.krate)
    <3>1. \A x \in ToSet(g.enables) : x.weak \in BOOLEAN
      BY <1>3
    <3> HIDE DEF C, En, enc
    <3> QED BY <3>1, PairsGive
  <2>2. FeatureIn(features, g) \in enc.features
    BY EncodedFeatures
  <2>3. /\ FeatureIn(features, g).enables = Pairs(features, g, FALSE)
        /\ FeatureIn(features, g).weak = Pairs(features, g, TRUE)
    BY DEF FeatureIn
  <2>4. C(Pair(features, h)) # None
    BY <2>1, <2>2, <2>3 DEF IsLostIn
  <2>5. enc.id = row.id /\ enc.crate = row.crate /\ enc.num = row.num
    BY DEF Encoded
  <2> HIDE DEF enc
  <2> QED BY <1>2, <1>4, <2>1, <2>4, <2>5, CrateMeans
<1>9. ASSUME NEW g \in ToSet(row.features), NEW f, IsRes(f, g)
      PROVE  /\ \A e \in f.enables \cup f.weak : \E h \in ToSet(g.enables) : Says(f, e, row, h)
             /\ \A h \in ToSet(g.enables) : \E e \in f.enables \cup f.weak : Says(f, e, row, h)
  <2>6. \A x \in ToSet(g.enables) : x.weak \in BOOLEAN
    BY <1>3
  <2>7. \A x \in Pairs(features, g, FALSE) \cup Pairs(features, g, TRUE) :
          \E h \in ToSet(g.enables) : x = Pair(features, h)
    BY DEF Pairs
  <2>8. \A h \in ToSet(g.enables) : Pair(features, h) \in Pairs(features, g, h.weak)
    BY <2>6, PairsGive
  <2> DEFINE Out(h) == [Pair(features, h) EXCEPT !.crate = C(Pair(features, h))]
  <2>1. \A h : Out(h).crate = C(Pair(features, h)) /\ Out(h).feature = FeatureId(features, h.feature)
    BY DEF Pair
  <2>2. /\ f.enables = En(Pairs(features, g, FALSE)) /\ f.weak = En(Pairs(features, g, TRUE))
    BY <1>9
  <2>3. ASSUME NEW h \in ToSet(g.enables)
        PROVE  /\ Out(h) \in IF h.weak THEN f.weak ELSE f.enables
               /\ Out(h) \in f.enables \cup f.weak
    <3>1. Pair(features, h) \in Pairs(features, g, h.weak) /\ h.weak \in BOOLEAN
      BY <2>6, <2>8
    <3>2. \A E : \A e \in E : [e EXCEPT !.crate = C(e)] \in En(E)
      OBVIOUS
    <3> HIDE DEF C, En
    <3> QED BY <2>2, <3>1, <3>2
  <2>4. ASSUME NEW e \in f.enables \cup f.weak PROVE \E h \in ToSet(g.enables) : e = Out(h)
    <3>1. PICK x \in Pairs(features, g, FALSE) \cup Pairs(features, g, TRUE) :
            e = [x EXCEPT !.crate = C(x)]
      BY <2>2
    <3>2. PICK h \in ToSet(g.enables) : x = Pair(features, h)
      BY <2>7, <3>1
    <3> HIDE DEF C
    <3> QED BY <3>1, <3>2
  <2>5. ASSUME NEW h \in ToSet(g.enables) PROVE Says(f, Out(h), row, h)
    <3>1. FeatureName(features, Out(h).feature) = h.feature
      BY <1>4, <1>5, <2>1
    <3>2. names[Out(h).crate] \in Meant(row, h.krate) \/ Meant(row, h.krate) = {}
      BY <1>8, <2>1
    <3> HIDE DEF Out
    <3> QED BY <2>3, <3>1, <3>2 DEF Says
  <2> HIDE DEF Out
  <2> QED BY <2>3, <2>4, <2>5
<1>10. \A f, g : IsRes(f, g) => f.id = FeatureId(features, g.name)
  OBVIOUS
<1> HIDE DEF IsRes, C, En, enc
<1>14. \A g \in ToSet(row.features) : \A f : IsRes(f, g) => FeatureName(features, f.id) = g.name
  BY <1>4, <1>5, <1>10
<1>11. { FeatureName(features, f.id) : f \in rel.features } = { g.name : g \in ToSet(row.features) }
  BY <1>7, <1>14
<1>12. ASSUME NEW f \in rel.features, NEW g \in ToSet(row.features),
              FeatureName(features, f.id) = g.name
       PROVE  IsRes(f, g)
  <2>1. PICK k \in ToSet(row.features) : IsRes(f, k)
    BY <1>7
  <2>2. k.name = g.name
    BY <1>12, <1>14, <2>1
  <2> QED BY <1>3, <2>1, <2>2
<1>13. ASSUME NEW f \in rel.features, NEW g \in ToSet(row.features),
              FeatureName(features, f.id) = g.name
       PROVE  /\ \A e \in f.enables \cup f.weak : \E h \in ToSet(g.enables) : Says(f, e, row, h)
              /\ \A h \in ToSet(g.enables) : \E e \in f.enables \cup f.weak : Says(f, e, row, h)
  BY <1>9, <1>12, <1>13
<1> QED BY <1>6, <1>11, <1>13 DEF IsOf

(***************************************************************************)
(* A dependency is, by names, what its row says.                           *)
(***************************************************************************)
LEMMA DependencyIsOfRow ==
  ASSUME LoadInv, pc \in {"mend", "done"}, NEW row \in dump.dependencies, NEW dep, IsRowOf(dep, row)
  PROVE  dep.id = row.id /\ SaysTheSame(dep, row)
<1> DEFINE enc == EncodedRow(features, row)
           ids == { FeatureId(features, f) : f \in ToSet(row.features) }
<1>1. /\ RenamesInv /\ DependenciesInv /\ FeaturesInv /\ IsTable(features) /\ TablesInv
  BY DEF LoadInv, FeaturesInv, IsTable
<1>2. /\ Seen("dependencies") = dump.dependencies
      /\ row.crate \in DOMAIN names /\ names[row.crate] = NameOf(row.crate)
  BY AllNamed, NameOfIs DEF Tables
<1>3. RowKnown(features, row)
  BY <1>1, <1>2 DEF DependenciesInv
<1>4. \A name \in ToSet(features) : FeatureName(features, FeatureId(features, name)) = name
  BY <1>1, IdOfName
<1>5. /\ enc.id = row.id /\ enc.from = row.version /\ enc.crate = row.crate /\ enc.req = row.req
      /\ enc.feature = (IF row.optional THEN TBD ELSE CRATE)
      /\ enc.default = (row.default \/ DEFAULT \in ids)
      /\ enc.features = ids \ {DEFAULT} /\ enc.kind = row.kind
      /\ \A x : LET new == [enc EXCEPT !.feature = x]
                IN /\ new.id = enc.id /\ new.from = enc.from /\ new.crate = enc.crate
                   /\ new.req = enc.req /\ new.default = enc.default
                   /\ new.features = enc.features /\ new.kind = enc.kind /\ new.feature = x
  BY DEF EncodedRow
<1>6. /\ dep = Settled(features, enc)
      /\ row.optional => FeatureOf(enc) \in ToSet(features)
  BY DEF IsRowOf
<1>7. FeatureOf(enc) = IF row.alias # "" THEN row.alias ELSE NameOf(row.crate)
  <2>1. row.id \in DOMAIN renames <=> row.alias # ""
    <3>1. \A r \in dump.dependencies : r.id = row.id => r = row
      BY <1>1, DumpFacts DEF TablesInv, Tables
    <3> QED BY <1>1, <1>2, <3>1 DEF RenamesInv
  <2>2. row.alias # "" => renames[row.id] = row.alias
    BY <1>1, <1>2 DEF RenamesInv
  <2> HIDE DEF enc
  <2> QED BY <1>2, <1>5, <2>1, <2>2 DEF FeatureOf
<1> HIDE DEF enc
<1>8. /\ dep.id = row.id /\ dep.from = row.version /\ dep.crate = row.crate /\ dep.req = row.req
      /\ dep.default = (row.default \/ DEFAULT \in ids)
      /\ dep.features = ids \ {DEFAULT} /\ dep.kind = row.kind
      /\ dep.feature = IF row.optional THEN FeatureId(features, FeatureOf(enc)) ELSE CRATE
  <2>1. TBD # CRATE
    BY DEF TBD, CRATE
  <2>2. CASE row.optional
    <3>1. dep = [enc EXCEPT !.feature = FeatureId(features, FeatureOf(enc))]
      BY <1>5, <1>6, <2>2 DEF Settled
    <3> HIDE DEF ids
    <3> QED BY <1>5, <2>2, <3>1
  <2>3. CASE ~row.optional
    <3>1. dep = enc
      BY <1>5, <1>6, <2>1, <2>3 DEF Settled
    <3> HIDE DEF ids
    <3> QED BY <1>5, <2>3, <3>1
  <2> QED BY <2>2, <2>3
<1>9. FeatureName(features, CRATE) = "" /\ FeatureName(features, DEFAULT) = "default"
  <2>1. CRATE + 1 = 1 /\ DEFAULT + 1 = 2
    BY DEF CRATE, DEFAULT
  <2>2. features[1] = "" /\ features[2] = "default"
    BY <1>1 DEF FeaturesInv
  <2> QED BY <2>1, <2>2 DEF FeatureName
<1>10. FeatureName(features, dep.feature) =
         IF ~row.optional THEN "" ELSE IF row.alias # "" THEN row.alias ELSE NameOf(row.crate)
  BY <1>4, <1>6, <1>7, <1>8, <1>9
<1>11. "default" \in ToSet(features) /\ FeatureId(features, "default") = DEFAULT
  <2>1. 2 \in 1 .. Len(features)
    <3>1. Len(features) \in Nat
      BY <1>1, Lists DEF IsTable
    <3>2. Len(features) >= 2
      BY <1>1 DEF FeaturesInv
    <3> QED BY <3>1, <3>2
  <2>2. features[2] \in ToSet(features) /\ FeatureId(features, features[2]) = 1
    BY <1>1, <2>1, IdOfPlace
  <2>3. features[2] = "default"
    BY <1>1 DEF FeaturesInv
  <2> QED BY <2>2, <2>3 DEF DEFAULT
<1>12. \A name \in ToSet(row.features) : FeatureId(features, name) = DEFAULT <=> name = "default"
  <2>1. \A name \in ToSet(row.features) : name \in ToSet(features)
    BY <1>3 DEF RowKnown
  <2> QED BY <1>4, <1>9, <1>11, <2>1
<1>13. DEFAULT \in ids <=> "default" \in ToSet(row.features)
  BY <1>12
<1>14. { FeatureName(features, f) : f \in ids \ {DEFAULT} } = ToSet(row.features) \ {"default"}
  <2>1. \A name \in ToSet(row.features) : FeatureName(features, FeatureId(features, name)) = name
    BY <1>3, <1>4 DEF RowKnown
  <2>2. ASSUME NEW f \in ids \ {DEFAULT}
        PROVE  FeatureName(features, f) \in ToSet(row.features) \ {"default"}
    BY <1>12, <2>1
  <2>3. ASSUME NEW name \in ToSet(row.features) \ {"default"}
        PROVE  \E f \in ids \ {DEFAULT} : FeatureName(features, f) = name
    BY <1>12, <2>1
  <2> HIDE DEF ids
  <2> QED BY <2>2, <2>3
<1> HIDE DEF ids
<1> QED BY <1>2, <1>8, <1>10, <1>13, <1>14 DEF SaysTheSame

(***************************************************************************)
(* A mended release is, by names, what the list says.                      *)
(***************************************************************************)
LEMMA RestockedIsListed ==
  ASSUME LoadInv, pc = "done", NEW k \in DOMAIN MendedReleases
  PROVE  IsAsListed(Restored(k), MendedReleases[k])
<1>1. /\ MendedInv /\ DependenciesInv /\ FeaturesInv /\ IsTable(features)
  BY DEF LoadInv, FeaturesInv, IsTable
<1>2. /\ Mends = Len(MendedReleases) /\ k \in 1 .. Mends
      /\ Restored(k) = releases[Loads + k]
      /\ MendedReleases[k] \in ToSet(MendedReleases)
  <2>1. Mends = Len(MendedReleases) /\ k \in 1 .. Mends
    BY ListFacts DEF Mends
  <2>2. Len(releases) - Len(MendedReleases) = Loads
    BY <2>1 DEF Loads
  <2> QED BY <2>1, <2>2, ListFacts DEF Restored
<1>3. PICK rel, m : rel = releases[Loads + k] /\ m = MendedReleases[k]
  OBVIOUS
<1>4. /\ rel = Restocked(features, names, rel.id, m)
      /\ ListedNames(m) \subseteq ToSet(features)
      /\ \A d \in ToSet(m.dependencies) : \E dep \in ToSet(dependencies) :
           dep = [RestockedRow(features, names, rel.id, d) EXCEPT !.id = dep.id]
  <2> DEFINE IsMendedRel(r, x) ==
               /\ r = Restocked(features, names, r.id, x)
               /\ ListedNames(x) \subseteq ToSet(features)
               /\ \A d \in ToSet(x.dependencies) : \E dep \in ToSet(dependencies) :
                    dep = [RestockedRow(features, names, r.id, d) EXCEPT !.id = dep.id]
  <2>1. \A i \in 1 .. Mends : IsMendedRel(releases[Loads + i], MendedReleases[i])
    BY <1>1 DEF MendedInv
  <2> HIDE DEF IsMendedRel
  <2>2. IsMendedRel(releases[Loads + k], MendedReleases[k])
    BY <1>2, <2>1
  <2>3. IsMendedRel(rel, m)
    BY <1>3, <2>2
  <2> QED BY <2>3 DEF IsMendedRel
<1>5. /\ \A f \in m.features : f = [name |-> f.name, enables |-> f.enables]
      /\ m.crate \in ToSet(MendedCrates)
      /\ \A d \in ToSet(m.dependencies) : d.crate \in ToSet(MendedCrates)
  BY <1>2, <1>3, LoadAssumption DEF ListedOnce
<1>6. \A name \in ToSet(features) : FeatureName(features, FeatureId(features, name)) = name
  BY <1>1, IdOfName
<1>7. /\ \A f \in m.features : /\ f.name \in ToSet(features)
                               /\ \A g \in f.enables : g \in ToSet(features)
      /\ \A d \in ToSet(m.dependencies) : d.feature \in ToSet(features)
  BY <1>4 DEF ListedNames
<1> DEFINE Enabled(f) == { [crate |-> CrateId(names, m.crate), feature |-> FeatureId(features, g)] :
                             g \in f.enables }
           Stocked(f) == [id |-> FeatureId(features, f.name), enables |-> Enabled(f), weak |-> {}]
           Named(f) == [name |-> FeatureName(features, f.id),
                        enables |-> { FeatureName(features, e.feature) : e \in f.enables }]
<1>8. /\ rel.crate = CrateId(names, m.crate) /\ rel.num = m.num /\ rel.time = m.time
      /\ rel.features = { Stocked(f) : f \in m.features }
  <2>1. \A id : LET r == Restocked(features, names, id, m)
                IN /\ r.crate = CrateId(names, m.crate) /\ r.num = m.num /\ r.time = m.time
                   /\ r.features = { Stocked(f) : f \in m.features }
    BY DEF Restocked
  <2> HIDE DEF Stocked
  <2> QED BY <1>4, <2>1
<1>9. ASSUME NEW f \in m.features
      PROVE  /\ Named(Stocked(f)) = f
             /\ \A e \in Stocked(f).enables : e.crate = rel.crate
  <2>1. FeatureName(features, Stocked(f).id) = f.name
    BY <1>6, <1>7
  <2>2. { FeatureName(features, e.feature) : e \in Enabled(f) } = f.enables
    <3>1. \A g \in f.enables : FeatureName(features, FeatureId(features, g)) = g
      BY <1>6, <1>7
    <3> DEFINE Link(g) == [crate |-> CrateId(names, m.crate), feature |-> FeatureId(features, g)]
    <3>2. Enabled(f) = { Link(g) : g \in f.enables }
      OBVIOUS
    <3>3. \A g : Link(g).feature = FeatureId(features, g)
      OBVIOUS
    <3> HIDE DEF Enabled, Link
    <3> QED BY <3>1, <3>2, <3>3
  <2>3. Stocked(f).enables = Enabled(f)
    OBVIOUS
  <2>4. \A e \in Enabled(f) : e.crate = rel.crate
    BY <1>8
  <2>5. f = [name |-> f.name, enables |-> f.enables]
    BY <1>5
  <2> HIDE DEF Enabled, Stocked
  <2> QED BY <2>1, <2>2, <2>3, <2>4, <2>5
<1> HIDE DEF Stocked
<1>11. \A f \in rel.features : \A e \in f.enables : e.crate = rel.crate
  BY <1>8, <1>9
<1>10. { Named(f) : f \in rel.features } = m.features
  <2> HIDE DEF Named
  <2>1. \A f \in rel.features : \E g \in m.features : f = Stocked(g)
    BY <1>8
  <2>2. \A g \in m.features : Stocked(g) \in rel.features
    BY <1>8
  <2>3. \A g \in m.features : Named(Stocked(g)) = g
    BY <1>9
  <2> QED BY <2>1, <2>2, <2>3
<1>12. Folded[names[rel.crate]] = Folded[m.crate]
  BY <1>5, <1>8, CratesRestored
<1>13. ASSUME NEW d \in ToSet(m.dependencies)
       PROVE  \E dep \in ToSet(dependencies) :
                /\ dep.from = rel.id
                /\ Folded[names[dep.crate]] = Folded[d.crate]
                /\ dep.req = d.req /\ dep.kind = d.kind
                /\ FeatureName(features, dep.feature) = d.feature
  <2>1. PICK dep \in ToSet(dependencies) :
          dep = [RestockedRow(features, names, rel.id, d) EXCEPT !.id = dep.id]
    BY <1>4
  <2>2. \A id : LET r == [RestockedRow(features, names, rel.id, d) EXCEPT !.id = id]
                IN /\ r.from = rel.id /\ r.crate = CrateId(names, d.crate)
                   /\ r.req = d.req /\ r.kind = d.kind
                   /\ r.feature = FeatureId(features, d.feature)
    BY DEF RestockedRow
  <2>3. /\ dep.from = rel.id /\ dep.crate = CrateId(names, d.crate)
        /\ dep.req = d.req /\ dep.kind = d.kind
        /\ dep.feature = FeatureId(features, d.feature)
    BY <2>1, <2>2
  <2>4. Folded[names[dep.crate]] = Folded[d.crate]
    BY <1>5, <2>3, CratesRestored
  <2> QED BY <1>6, <1>7, <2>3, <2>4
<1>14. IsAsListed(rel, m)
  BY <1>8, <1>10, <1>11, <1>12, <1>13 DEF IsAsListed
<1> QED BY <1>2, <1>3, <1>14

(***************************************************************************)
(* By names, the loaded releases and rows are those of the dump and of the *)
(* list of what is mended, and there are no more releases than that.       *)
(***************************************************************************)
LEMMA InvGivesLoaded ==
  ASSUME LoadInv
  PROVE  LoadedAsWritten
<1> SUFFICES ASSUME pc = "done" PROVE LoadedAsWritten
  BY DEF LoadedAsWritten
<1>1. ReleasesInv /\ DependenciesInv
  BY DEF LoadInv
<1>2. Seen("versions") = dump.versions /\ Seen("dependencies") = dump.dependencies
  BY AllNamed DEF Tables
<1>3. Kept = { row \in dump.versions : ~row.yanked }
  BY <1>2 DEF Kept
<1>4. ASSUME NEW row \in dump.versions, ~row.yanked
      PROVE  \E rel \in ToSet(releases) : rel.id = row.id /\ IsOf(rel, row)
  <2>1. row \in Kept
    BY <1>3, <1>4
  <2>2. PICK i \in 1 .. Loads : IsReleaseOf(i, row)
    BY <1>1, <2>1 DEF ReleasesInv
  <2>3. releases[i] \in ToSet(releases)
    <3>1. i \in 1 .. Len(releases)
      BY ReleasesByNow
    <3> QED BY <3>1, ReleasesByNow, Lists
  <2>4. PICK rel : rel = releases[i]
    OBVIOUS
  <2>5. /\ rel = ResolvedIn(names, features, resolve, Encoded(features, row))
        /\ ~IsLostIn(names, features, resolve, Encoded(features, row))
    BY <2>2, <2>4 DEF IsReleaseOf, IsResolved
  <2>6. rel.id = row.id
    BY <2>5, ResolvedGives
  <2>7. IsOf(rel, row)
    BY <2>1, <2>5, ReleaseIsOfRow
  <2> QED BY <2>3, <2>4, <2>6, <2>7
<1>5. ASSUME NEW row \in dump.dependencies
      PROVE  \E dep \in ToSet(dependencies) : dep.id = row.id /\ SaysTheSame(dep, row)
  BY <1>1, <1>2, DependencyIsOfRow DEF DependenciesInv
<1>6. \A i \in DOMAIN MendedReleases : IsAsListed(Restored(i), MendedReleases[i])
  BY RestockedIsListed
<1>7. Len(releases) = Cardinality({ r \in dump.versions : ~r.yanked }) + Len(MendedReleases)
  <2>1. Mends = Len(MendedReleases)
    BY DEF Mends
  <2> QED BY <1>1, <1>3, <2>1, ReleasesByNow DEF ReleasesInv
<1> QED BY <1>4, <1>5, <1>6, <1>7 DEF LoadedAsWritten

(***************************************************************************)
(* However the tables and their rows are ordered, what is loaded is what   *)
(* the dump says and what mend.rs lists.                                   *)
(***************************************************************************)
THEOREM LoadLoadedAsWritten == Spec => []LoadedAsWritten
BY LoadInvHolds, InvGivesLoaded, PTL
=============================================================================
