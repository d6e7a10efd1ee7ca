----------------------------- MODULE MCHistory ------------------------------
(***************************************************************************)
(* Catalogs for the bounded checks of History.  Crate "a" is the library   *)
(* asked about, "b" and "c" are built on it.                               *)
(***************************************************************************)
EXTENDS History, Samples

Registry(catalog, rows, queries, transitive) ==
  [catalog |-> catalog, rows |-> rows, queries |-> queries, transitive |-> transitive]

\* Ids of feature names.
Std  == 2
Full == 3
A    == 4     \* the name of crate a, as a feature of an optional dependency
X    == 5
Y    == 6
DepA == 7     \* "dep:a"

(***************************************************************************)
(* Direct dependencies: major and minor updates, a prerelease on either    *)
(* side, a release with two rows on one crate, one that drops its row.     *)
(* The ids are not in the order of publication.                            *)
(***************************************************************************)
DirectCatalog ==
  <<Crate("a", V(1, 0, 0, NoPre), {}),
    Crate("b", V(1, 0, 0, NoPre), {}),
    Crate("a", V(2, 0, 0, NoPre), {}),
    Crate("b", V(1, 1, 0, NoPre), {}),
    Crate("a", V(2, 0, 0, 1), {}),
    Crate("b", V(2, 0, 0, 1), {}),
    Crate("c", V(1, 0, 0, NoPre), {}),
    Crate("c", V(0, 9, 0, NoPre), {})>>

DirectRows ==
  { DepRow(1, 2, "a", AtLeast10),
    DepRow(2, 6, "a", PreTwo),
    [DepRow(3, 7, "a", Caret(1)) EXCEPT !.kind = "Dev"],
    DepRow(4, 7, "a", AtLeast10),
    DepRow(5, 7, "b", Star),
    DepRow(6, 8, "a", Exact(1, 0)) }

DirectQueries ==
  { Ask(0, {Every("a")}),
    Ask(1, {Only("a", Caret(1)), Every("b")}) }

(***************************************************************************)
(* Chains a <- b <- c <- d: an optional dependency enabled through two     *)
(* features, a release that only the exact requirement of an older one     *)
(* still reaches, a dev-dependency alone and one a feature names, and a    *)
(* cycle back from a later release of a.                                   *)
(***************************************************************************)
TransitiveCatalog ==
  <<Crate("a", V(1, 0, 0, NoPre), {Feature(Std, {})}),
    Crate("b", V(1, 0, 0, NoPre), {}),
    Crate("b", V(1, 1, 0, NoPre),
          {Feature(Full, {Enable("b", A), Enable("a", Std)}),
           Feature(DEFAULT, {Enable("b", Full)})}),
    Crate("c", V(1, 0, 0, NoPre), {}),
    Crate("c", V(1, 1, 0, NoPre), {Feature(Y, {Enable("b", Full)})}),
    Crate("d", V(1, 0, 0, NoPre), {Feature(X, {Enable("c", Y)})}),
    Crate("d", V(2, 0, 0, NoPre), {}),
    Crate("a", V(1, 1, 0, NoPre), {})>>

TransitiveRows ==
  { [DepRow(1, 2, "a", Caret(1)) EXCEPT !.default = FALSE, !.features = {Std}],
    [DepRow(2, 3, "a", Caret(1)) EXCEPT !.feature = A],
    DepRow(3, 4, "b", Exact(1, 0)),
    [DepRow(4, 5, "b", Caret(1)) EXCEPT !.default = FALSE],
    [DepRow(5, 6, "c", Caret(1)) EXCEPT !.kind = "Dev"],
    [DepRow(6, 7, "c", Star) EXCEPT !.kind = "Build"],
    [DepRow(7, 8, "d", Star) EXCEPT !.kind = "Dev"] }

TransitiveQueries ==
  { Ask(0, {Every("a")}), Ask(1, {Only("b", Exact(1, 0))}) }

(***************************************************************************)
(* Feature "default" of b names its optional dependency with "dep:a".      *)
(* load.rs:66-85 takes that text, which has no slash, for a feature of b   *)
(* itself, and load.rs:189-195 lets the row depart from feature "a".       *)
(***************************************************************************)
DepSyntaxCatalog ==
  <<Crate("a", V(1, 0, 0, NoPre), {}),
    Crate("b", V(1, 0, 0, NoPre), {Feature(DEFAULT, {Enable("b", DepA)})}),
    Crate("c", V(1, 0, 0, NoPre), {}),
    Crate("a", V(1, 1, 0, NoPre), {})>>

DepSyntaxRows ==
  { [DepRow(1, 2, "a", Caret(1)) EXCEPT !.feature = A],
    DepRow(2, 3, "b", Caret(1)) }

DepSyntaxQueries == { Ask(0, {Every("a")}) }

-----------------------------------------------------------------------------
SampleRegistries ==
  { Registry(DirectCatalog, DirectRows, DirectQueries, FALSE),
    Registry(TransitiveCatalog, TransitiveRows, TransitiveQueries, TRUE) }

DepSyntaxRegistries ==
  { Registry(DepSyntaxCatalog, DepSyntaxRows, DepSyntaxQueries, TRUE) }
=============================================================================
