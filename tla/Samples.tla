------------------------------ MODULE Samples -------------------------------
(***************************************************************************)
(* Shorthands for the sample databases of the bounded checks.              *)
(***************************************************************************)
EXTENDS Dataflow

V(major, minor, patch, pre) ==
  [major |-> major, minor |-> minor, patch |-> patch, pre |-> pre]

C(op, major, minor, patch, pre) ==
  [op |-> op, major |-> major, minor |-> minor, patch |-> patch, pre |-> pre]

Caret(n)  == <<C("Caret", n, Absent, Absent, NoPre)>>
Exact(n, m) == <<C("Exact", n, m, 0, NoPre)>>
Star      == << >>
AtLeast10 == <<C("GreaterEq", 1, 0, Absent, NoPre)>>
PreTwo    == <<C("Caret", 2, 0, 0, 1)>>     \* ^2.0.0-alpha

Crate(crate, num, features) ==
  [crate |-> crate, num |-> num, features |-> features]

Feature(id, enables) == [id |-> id, enables |-> enables, weak |-> {}]
Enable(crate, feature) == [crate |-> crate, feature |-> feature]

DepRow(id, from, crate, req) ==
  [id |-> id, from |-> from, crate |-> crate, req |-> req, feature |-> CRATE,
   default |-> TRUE, features |-> {}, kind |-> "Normal"]

Every(crate)   == [crate |-> crate, any |-> TRUE, req |-> Star]
Only(crate, r) == [crate |-> crate, any |-> FALSE, req |-> r]
Ask(id, predicates) == [id |-> id, predicates |-> predicates]
=============================================================================
