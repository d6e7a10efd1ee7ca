------------------------------ MODULE MCAlloc -------------------------------
(***************************************************************************)
(* Bounded check of Alloc.  Threads and addresses are interchangeable.     *)
(***************************************************************************)
EXTENDS Alloc, TLC

Symmetry == Permutations(Threads) \cup Permutations(Blocks)
=============================================================================
