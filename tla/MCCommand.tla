----------------------------- MODULE MCCommand ------------------------------
(***************************************************************************)
(* Bounded check of Command against the dump as it reads, on a handful of  *)
(* dumps and command lines.                                                *)
(***************************************************************************)
EXTENDS Command

FeatureNames == <<"", "default", "std", "x", "a", "b_c", "d">>

(***************************************************************************)
(* The dump read by names: the releases on crates.io, those that were      *)
(* deleted, and their rows, without the excluded crates' releases.         *)
(***************************************************************************)
F(name) == Loading!FeatureId(FeatureNames, name)

\* The crate a name stands for, as one spelling of it.
The(name) == Folded[name]

ByName(row) ==
  LET Krate(e) == The(CHOOSE name \in Loading!Meant(row, e.krate) : TRUE)
      Enabled(f) == { [crate |-> Krate(e), feature |-> F(e.feature)] :
                        e \in { x \in ToSet(f.enables) : ~x.weak } }
  IN [id |-> row.id, crate |-> The(Loading!NameOf(row.crate)), num |-> row.num,
      time |-> row.time,
      features |-> { [id |-> F(f.name), enables |-> Enabled(f)] : f \in ToSet(row.features) }]

\* Deleted releases are told apart by ids that are out of the way.
DeletedId(i) == 1000 + i

DeletedByName(i) ==
  LET m == MendedReleases[i]
  IN [id |-> DeletedId(i), crate |-> The(m.crate), num |-> m.num, time |-> m.time,
      features |-> { [id |-> F(f.name),
                      enables |-> { [crate |-> The(m.crate), feature |-> F(g)] :
                                      g \in f.enables }] : f \in m.features }]

ReleasesByName ==
  { r \in { ByName(row) : row \in { x \in dump.versions : ~x.yanked } }
            \cup { DeletedByName(i) : i \in DOMAIN MendedReleases } :
      r.crate \notin { The(name) : name \in options.exclude } }

RowByName(row) ==
  LET asked == { F(f) : f \in ToSet(row.features) }
  IN [id |-> row.id, from |-> row.version, crate |-> The(Loading!NameOf(row.crate)),
      req |-> row.req, kind |-> row.kind,
      feature |-> IF ~row.optional THEN CRATE
                  ELSE F(IF row.alias = "" THEN Loading!NameOf(row.crate) ELSE row.alias),
      default |-> row.default \/ DEFAULT \in asked, features |-> asked \ {DEFAULT}]

DeletedRows(i) ==
  { LET d == MendedReleases[i].dependencies[k]
    IN [id |-> 1000 * i + k, from |-> DeletedId(i), crate |-> The(d.crate), req |-> d.req,
        kind |-> d.kind, feature |-> F(d.feature), default |-> TRUE, features |-> {}] :
      k \in DOMAIN MendedReleases[i].dependencies }

RowsByName ==
  { RowByName(row) : row \in dump.dependencies }
    \cup UNION { DeletedRows(i) : i \in DOMAIN MendedReleases }

(***************************************************************************)
(* The requirement of a row once it is cleaned: judged by what was there   *)
(* before its release, itself included, and by some of what was published  *)
(* at the same moment.                                                     *)
(***************************************************************************)
Cleaned(row, R, tied) ==
  LET own   == { r \in R : r.id = row.from }
      known == { s \in R : s.crate = row.crate
                   /\ \E r \in own : s.time < r.time \/ s = r \/ <<s.id, r.id>> \in tied }
      top   == Highest(known)
  IN IF top = {} THEN row
     ELSE [row EXCEPT !.req = Cleaning!Constrain(@, (CHOOSE s \in top : TRUE).num)]

Ties(R) ==
  LET pairs == { <<r.id, s.id>> : <<r, s>> \in { x \in R \X R :
                   x[1].time = x[2].time /\ x[1].crate # x[2].crate } }
  IN { T \in SUBSET pairs : \A p \in pairs : p \in T <=> <<p[2], p[1]>> \notin T }

QueriesByName ==
  { [id |-> i - 1, predicates |-> { [p EXCEPT !.crate = The(@)] : p \in options.queries[i] }] :
      i \in DOMAIN options.queries }

(***************************************************************************)
(* The matrix draws the dump as it reads: whatever the order of its tables *)
(* and rows, and whatever ids names and deleted releases are given, every  *)
(* moment at which a tally of the releases read by name changes is a row,  *)
(* and its values are those tallies; and nothing is drawn without workers. *)
(* Only releases of one moment may be taken in either order.               *)
(***************************************************************************)
DrawsTheDump ==
  stage \in {"ended", "drawn", "zero results"} =>
    LET R == ReleasesByName
        Db(tied) == [releases |-> R, dependencies |-> { Cleaned(d, R, tied) : d \in RowsByName },
                     queries |-> QueriesByName, transitive |-> options.transitive]
    IN IF options.jobs = 0 THEN matrix = << >>
       ELSE \E tied \in Ties(R) : Graph!IsGraphOf(Db(tied), matrix)

-----------------------------------------------------------------------------
(* The dumps.  Yanked releases have ids above those of all others.         *)

Krate(id, name) == [id |-> id, name |-> name]

Release(id, crate, num, time, declared) ==
  [id |-> id, crate |-> crate, num |-> num, time |-> time, yanked |-> FALSE,
   features |-> declared]

Feature(name, enables) == [name |-> name, enables |-> enables]
Enable(krate, feature) == [krate |-> krate, feature |-> feature, weak |-> FALSE]

Dependency(id, version, crate, r, optional, alias) ==
  [id |-> id, version |-> version, crate |-> crate, req |-> r, optional |-> optional,
   default |-> TRUE, features |-> << >>, alias |-> alias, kind |-> "Normal"]

V(major, minor) == [major |-> major, minor |-> minor, patch |-> 0, pre |-> NoPre]
Caret(major) == << [op |-> "Caret", major |-> major, minor |-> Absent,
                    patch |-> Absent, pre |-> NoPre] >>
Star == << >>

\* b needs an a: any a is cleaned to one of its time, also of the same moment.
Ordered ==
  { [crates |-> {Krate(1, "a"), Krate(2, "b_c")},
     versions |-> {Release(1, 1, V(1, 0), 1, << >>), Release(3, 2, V(1, 0), t, << >>),
                   Release(2, 1, V(2, 0), 3, << >>),
                   [Release(9, 1, V(3, 0), 4, << >>) EXCEPT !.yanked = TRUE]},
     dependencies |-> {Dependency(1, 3, 1, r, FALSE, "")}] : t \in 1 .. 4, r \in {Star, Caret(1)} }

\* An optional dependency under another name, reached through a feature.
Optional ==
  [crates |-> {Krate(1, "a"), Krate(2, "b_c"), Krate(3, "d")},
   versions |-> {Release(1, 1, V(1, 0), 1, << >>), Release(2, 3, V(1, 0), 4, << >>),
                 Release(4, 2, V(1, 0), 2, << Feature("default", <<Enable("x", "default")>>) >>)},
   dependencies |-> {Dependency(2, 4, 1, Caret(1), TRUE, "x"),
                     Dependency(1, 2, 2, Caret(1), FALSE, "")}]

\* The deleted release is what a row resolves to; later nothing needs it.
Deleted ==
  [crates |-> {Krate(1, "a"), Krate(2, "old"), Krate(3, "b_c")},
   versions |-> {Release(1, 1, V(1, 0), 1, << >>), Release(4, 3, V(1, 0), 4, << >>),
                 [Release(9, 2, V(0, 2), 2, << >>) EXCEPT !.yanked = TRUE],
                 Release(2, 3, V(2, 0), 5, << >>)},
   dependencies |-> {Dependency(1, 4, 2, Caret(0), FALSE, ""),
                     Dependency(3, 4, 1, Star, FALSE, "")}]

\* A feature of something that is nowhere.
Broken ==
  [crates |-> {Krate(1, "a"), Krate(2, "b_c")},
   versions |-> {Release(1, 1, V(1, 0), 1, << >>),
                 Release(2, 2, V(1, 0), 4, << Feature("std", <<Enable("nope", "std")>>) >>)},
   dependencies |-> {Dependency(1, 2, 1, Caret(1), FALSE, "")}]

SampleDumps == Ordered \cup {Optional, Deleted, Broken}

\* "old" is missing from every dump; it needed the first a.
OldCrates   == <<"old", "a">>
OldReleases == << [crate |-> "old", num |-> V(0, 1), time |-> 3, features |-> {},
                   dependencies |-> << [crate |-> "a", req |-> Caret(1), feature |-> "",
                                        kind |-> "Normal"] >>] >>

Every(crate)   == [crate |-> crate, any |-> TRUE, req |-> Star]
Only(crate, r) == [crate |-> crate, any |-> FALSE, req |-> r]

Lines ==
  [db : {TRUE}, jobs : {None}, exclude : {{}, {"a"}, {"b_c"}}, relative : BOOLEAN,
   transitive : BOOLEAN, tty : BOOLEAN,
   queries : { << {Every("a")}, {Every("b-c"), Only("a", Caret(2))} >> }]

SampleOptions ==
  LET some == CHOOSE line \in Lines : line.tty /\ line.exclude = {}
  IN Lines \cup { [some EXCEPT !.jobs = 0],
                  [some EXCEPT !.queries = << {Every("a")}, {Every("nope")} >>],
                  [some EXCEPT !.db = FALSE] }

FoldedNames ==
  [n \in {"", "a", "b-c", "b_c", "d", "x", "default", "std", "old", "nope"} |->
     IF n = "b_c" THEN "b-c" ELSE n]

NoneBroken == [crate |-> "nope", num |-> V(0, 1), feature |-> "nope"]
=============================================================================
