----------------------------- MODULE StepGraph ------------------------------
(***************************************************************************)
(* What cargo_tally::run promises, without workers, sessions or sorting:   *)
(* given a database, one step produces the graph, a row for every moment   *)
(* at which some query's tally changes, holding all the tallies of that    *)
(* moment.                                                                 *)
(***************************************************************************)
EXTENDS Integers, Sequences

CONSTANTS Dbs, QueryIds, MaxTime,
          Value(_, _, _)        \* Value(d, q, t): q's tally in d at time t

VARIABLES db, rows, drawn
vars == <<db, rows, drawn>>

Values(d, t) == [q \in QueryIds |-> IF t < 0 THEN 0 ELSE Value(d, q, t)]

Changes(d) == { t \in 0 .. MaxTime : Values(d, t) # Values(d, t - 1) }

IsGraphOf(d, rs) ==
  /\ { rs[i].time : i \in DOMAIN rs } = Changes(d)
  /\ \A i \in DOMAIN rs : rs[i].values = Values(d, rs[i].time)
  /\ \A i, j \in DOMAIN rs : i < j => rs[i].time < rs[j].time

Init == db \in Dbs /\ rows = << >> /\ drawn = FALSE

Draw == /\ ~drawn
        /\ drawn' = TRUE
        /\ IsGraphOf(db, rows')
        /\ UNCHANGED db

Spec == Init /\ [][Draw]_vars /\ <>drawn
=============================================================================
