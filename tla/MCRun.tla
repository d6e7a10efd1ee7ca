------------------------------- MODULE MCRun --------------------------------
(***************************************************************************)
(* Bounded check of Run on sample databases, with the real dataflow as     *)
(* what is counted.                                                        *)
(***************************************************************************)
EXTENDS Run, Samples, TLC

CONSTANTS w1, w2, w3

At(t, id, crate, num) ==
  [id |-> id, crate |-> crate, num |-> num, time |-> t, features |-> {}]

A1 == V(1, 0, 0, NoPre)
A2 == V(2, 0, 0, NoPre)

Asked == { Ask(0, {Every("a")}), Ask(1, {Only("a", Caret(1))}),
           Ask(2, {Only("a", Exact(2, 0))}) }

Db(releases, rows) ==
  [releases |-> releases, dependencies |-> rows, queries |-> Asked]

Needs == { DepRow(1, 2, "a", AtLeast10), DepRow(2, 3, "a", Caret(1)) }

(***************************************************************************)
(* Both tallies rise, one falls when b moves to the next a; everything at  *)
(* one moment; a tally that returns to zero; a tally at the minimum time;  *)
(* nothing at all.                                                         *)
(***************************************************************************)
SampleDbs ==
  { Db(<<At(1, 1, "a", A1), At(1, 2, "b", A1), At(2, 3, "c", A1),
         At(3, 4, "a", A2)>>, Needs),
    Db(<<At(2, 1, "a", A1), At(2, 3, "c", A1), At(2, 2, "b", A1)>>, Needs),
    Db(<<At(1, 1, "a", A1), At(1, 3, "c", A1), At(2, 4, "c", A2)>>, Needs),
    Db(<<At(0, 1, "a", A1), At(0, 2, "b", A1), At(3, 3, "b", A2)>>, Needs),
    Db(<< >>, {}) }

DirectTally(R, D, Q, q) == Tally(R, D, Q, FALSE, q)

SplitOwner == 0 :> w1 @@ 1 :> w2 @@ 2 :> w1
=============================================================================
