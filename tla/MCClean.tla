------------------------------ MODULE MCClean -------------------------------
(***************************************************************************)
(* Bounded check of Clean.  Every dump has two versions of "a" and one     *)
(* release of "b" with a row on "a" and a row on a crate that is not       *)
(* there, in any order of loading, at any times.                           *)
(***************************************************************************)
EXTENDS Clean, TLC

CONSTANTS MaxTime

Numbers == { [major |-> 0, minor |-> 0, patch |-> 1, pre |-> NoPre],
             [major |-> 0, minor |-> 1, patch |-> 0, pre |-> NoPre],
             [major |-> 0, minor |-> 2, patch |-> 0, pre |-> 1],
             [major |-> 1, minor |-> 0, patch |-> 0, pre |-> NoPre],
             [major |-> 1, minor |-> 2, patch |-> 0, pre |-> NoPre],
             [major |-> 2, minor |-> 0, patch |-> 0, pre |-> 1],
             [major |-> Limit - 1, minor |-> 0, patch |-> 0, pre |-> NoPre] }

Comp(op, major, minor, patch) ==
  [op |-> op, major |-> major, minor |-> minor, patch |-> patch, pre |-> NoPre]

Reqs == { << >>,
          <<Comp("Caret", 1, Absent, Absent)>>,
          <<Comp("Wildcard", 0, Absent, Absent)>>,
          <<Comp("GreaterEq", 0, 1, 0)>>,
          <<Comp("Greater", 1, Absent, Absent)>>,
          <<Comp("GreaterEq", 0, 0, 1), Comp("Less", 2, Absent, Absent)>>,
          <<Comp("GreaterEq", 0, 2, Absent), Comp("LessEq", 2, 0, Absent)>>,
          <<Comp("Exact", 0, 1, 0)>>,
          <<Comp("Less", 1, 0, 0)>> }

Positions == Permutations(1 .. 3)

SampleDumps ==
  { [releases |->
       [i \in 1 .. 3 |->
          LET k == p[i]
          IN [id |-> k, crate |-> IF k = 3 THEN "b" ELSE "a",
              num |-> IF k = 3 THEN Plain(1, 0, 0) ELSE n[k],
              time |-> t[k]]],
     rows |-> {[id |-> 1, from |-> 3, crate |-> "a", req |-> r],
               [id |-> 2, from |-> 3, crate |-> "z", req |-> << >>]}] :
      p \in Positions,
      n \in { m \in [1 .. 2 -> Numbers] : VersionLess(m[1], m[2]) },
      t \in [1 .. 3 -> 1 .. MaxTime],
      r \in Reqs }
=============================================================================
