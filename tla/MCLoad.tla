------------------------------- MODULE MCLoad -------------------------------
(***************************************************************************)
(* Bounded check of Load on a handful of dumps, read in any order of the   *)
(* tables and of the rows of each.                                         *)
(***************************************************************************)
EXTENDS Load

List == INSTANCE Mended

CratesOfMend   == List!Crates
ReleasesOfMend == List!Releases

Names == { "", "default", "app", "json", "fut", "std", "tokio", "modbus",
           "test-server", "lazy-static" } \cup ToSet(CratesOfMend)

FoldedNames == [n \in Names |-> IF n = "lazy_static" THEN "lazy-static" ELSE n]

V(major, minor, patch) == List!Num(major, minor, patch)

ModbusTestServer == [crate |-> "modbus", num |-> V(0, 1, 0), feature |-> "test-server"]

-----------------------------------------------------------------------------
Crate(id, name) == [id |-> id, name |-> name]

Version(id, crate, num, declared) ==
  [id |-> id, crate |-> crate, num |-> num, time |-> id, yanked |-> FALSE,
   features |-> declared]

Feature(name, enables) == [name |-> name, enables |-> enables]
Enable(krate, feature) == [krate |-> krate, feature |-> feature, weak |-> FALSE]
Weak(krate, feature)   == [krate |-> krate, feature |-> feature, weak |-> TRUE]

Dependency(id, version, crate, optional, asked, alias) ==
  [id |-> id, version |-> version, crate |-> crate, req |-> List!Caret(1, id),
   optional |-> optional, default |-> FALSE, features |-> asked, alias |-> alias,
   kind |-> IF optional THEN "Normal" ELSE "Build"]

\* "fut" is what app calls futures, and "futures" is what it calls json.
Renamed ==
  [crates |-> {Crate(2, "app"), Crate(1, "futures"), Crate(4, "json")},
   versions |->
     {Version(3, 2, V(1, 0, 0), << Feature("default", <<Enable("", "json")>>),
                                Feature("json", <<Enable("futures", "std"), Weak("fut", "default")>>) >>),
      Version(2, 1, V(0, 1, 0), << Feature("std", << >>) >>)},
   dependencies |->
     {Dependency(1, 3, 1, TRUE, <<"std">>, "fut"),
      Dependency(3, 3, 4, TRUE, <<"default", "std">>, "futures")}]

\* Crates that are mended, one under the name with the other separator.
Deleted ==
  [crates |-> {Crate(1, "app"), Crate(3, "lazy-static")},
   versions |->
     {Version(1, 1, V(1, 0, 0), << Feature("std", <<Enable("futures", "std"),
                                                 Enable("lazy_static", "std")>>) >>),
      Version(2, 3, V(0, 1, 0), << >>)},
   dependencies |-> {Dependency(2, 1, 3, TRUE, << >>, ""),
                     Dependency(1, 1, 3, FALSE, <<"default">>, "")}]

\* A release whose feature is known to be broken, and an old one, yanked.
Modbus ==
  [crates |-> {Crate(1, "modbus"), Crate(2, "git-version")},
   versions |->
     {Version(1, 1, V(0, 1, 0), << Feature("default", <<Enable("test-server", "std")>>) >>),
      [Version(2, 1, V(0, 0, 1), << Feature("default", <<Enable("tokio", "std")>>) >>)
         EXCEPT !.yanked = TRUE],
      Version(4, 2, V(0, 3, 0), << >>)},
   dependencies |-> {Dependency(5, 2, 2, TRUE, << >>, "")}]

\* Two rows of one release under one name.
Twice ==
  [crates |-> {Crate(1, "app"), Crate(2, "json"), Crate(3, "tokio")},
   versions |-> {Version(1, 1, V(1, 0, 0), << Feature("std", <<Enable("fut", "std")>>) >>)},
   dependencies |-> {Dependency(1, 1, 2, TRUE, << >>, "fut"),
                     Dependency(2, 1, 3, FALSE, << >>, "fut")}]

\* A feature of something that is nowhere.
Dangling ==
  [crates |-> {Crate(1, "app"), Crate(2, "modbus")},
   versions |-> {Version(1, 1, V(1, 0, 0), << Feature("std", <<Enable("", "json")>>) >>),
                 Version(2, 2, V(0, 2, 0), << Feature("default", <<Enable("test-server", "std")>>) >>)},
   dependencies |-> {Dependency(1, 1, 2, TRUE, << >>, "test-server")}]

\* One enabled feature and one dependency, in every relation of their names.
Small ==
  { [crates |-> {Crate(1, "app"), Crate(4, "json"), Crate(2, "tokio")},
     versions |-> {Version(2, 1, V(1, 0, 0), << Feature("std", <<Enable(krate, "default")>>) >>),
                   Version(5, 4, V(1, 0, 0), << Feature("default", <<Enable("app", krate)>>) >>)},
     dependencies |-> {Dependency(1, 2, c, optional, <<f>>, alias)}] :
      krate \in {"", "fut", "futures", "json", "tokio"},
      c \in {2, 4}, optional \in BOOLEAN, f \in {"default", "std"},
      alias \in {"", "fut", "futures", "json"} }

AllDumps == {Renamed, Deleted, Modbus, Twice, Dangling} \cup Small

\* A yanked release with the lowest id, and what it depended on.
YankedFirst ==
  {[crates |-> {Crate(1, "app"), Crate(2, "json")},
    versions |-> {[Version(1, 1, V(0, 1, 0), << >>) EXCEPT !.yanked = TRUE],
                  Version(2, 1, V(1, 0, 0), << >>), Version(3, 2, V(1, 0, 0), << >>)},
    dependencies |-> {Dependency(1, 1, 2, FALSE, << >>, ""),
                      Dependency(2, 2, 2, FALSE, << >>, "")}]}
=============================================================================
