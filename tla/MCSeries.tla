------------------------------ MODULE MCSeries ------------------------------
(***************************************************************************)
(* Bounded check of Series: every sorted list of three releases of three   *)
(* crates, several at one moment, and every column of up to three rows     *)
(* whose values the releases allow; for the fractions, two rows over       *)
(* crowds of crates.                                                       *)
(***************************************************************************)
EXTENDS Series

CONSTANTS Moments   \* when things are published

Sorted ==
  { s \in [1 .. 3 -> [crate : 1 .. 3, time : Moments]] :
      \A i, j \in 1 .. 3 : i < j => s[i].time <= s[j].time }

Columns ==
  UNION { { s \in [1 .. n -> [time : Moments, value : 0 .. 2]] :
              \A i, j \in 1 .. n : i < j => s[i].time < s[j].time } : n \in 1 .. 3 }

Published(s, t) == { r.crate : r \in { x \in ToSet(s) : x.time <= t } }

\* Some of many crates: quotients that a float holds exactly, that it rounds
\* up or down, and whose decimals begin or end with zeros.
Crowd(n, value) ==
  [releases |-> [i \in 1 .. n |-> [crate |-> i, time |-> IF i < n THEN 2 ELSE 3]],
   rows |-> << [time |-> 2, value |-> value], [time |-> 3, value |-> value + 1] >>]

Crowds == { Crowd(n, value) : n \in {125, 160, 250}, value \in {1, 2, 31, 36} } \cup
          UNION { { Crowd(n, value) : value \in 1 .. n - 2 } : n \in 3 .. 33 }

SampleInputs == Crowds \cup
  { in \in [releases : Sorted, rows : Columns] :
      \A i \in DOMAIN in.rows :
        in.rows[i].value <= Cardinality(Published(in.releases, in.rows[i].time)) }
=============================================================================
