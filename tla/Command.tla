------------------------------ MODULE Command -------------------------------
(***************************************************************************)
(* The command as a whole (args.rs, main.rs): load the dump, filter, sort  *)
(* and clean what was loaded, parse the queries, run the dataflow, print   *)
(* the rows of the matrix, draw them.  Loading and cleaning are those of   *)
(* modules Load and Clean, on shared state; run is the one step that       *)
(* StepGraph takes; totals are those of Series.                            *)
(*                                                                         *)
(*   option  [db, jobs, exclude, relative, transitive, queries, tty]       *)
(*           db says whether there is a file, exclude is the set of names  *)
(*           that match, tty whether stdout is a terminal.  A query is a   *)
(*           set of predicates as in Dataflow, on names of crates          *)
(***************************************************************************)
EXTENDS Dataflow, SequencesExt

CONSTANTS Dumps, Folded, MendedCrates, MendedReleases, KnownBroken, \* see Load
          Limit,       \* see Clean
          QueryIds,    \* see Run
          MaxTime,     \* bound on created_at
          Options,     \* the command lines
          Cpus,        \* num_cpus::get()
          Edge         \* rows printed at either end: 10

VARIABLES options,
          dump, unread, names, features, releases, dependencies, renames,
          resolve, pc, next,       \* see Load
          req, stage, turn, highest,  \* see Clean; stage is the next call of main
          times,       \* Total.times
          queries,     \* as parsed
          matrix,      \* results
          printed,     \* how many rows the loop has passed
          screen       \* what stdout shows
load  == <<dump, unread, names, features, dependencies, renames, resolve, pc, next>>
clean == <<req, turn, highest>>
show  == <<printed, screen>>
vars  == <<options, load, releases, clean, stage, times, queries, matrix, show>>

\* Jobs or a total that is not there.
None == -1

\* Names that --exclude matches, as the crates filter finds under them.
Excluded == { c \in DOMAIN names : names[c] \in options.exclude }

Loading  == INSTANCE Load
Cleaning == INSTANCE Clean WITH
              Excludes <- {}, rows <- ToSet(dependencies), exclude <- Excluded,
              next <- turn
Totals   == INSTANCE Series WITH
              Inputs <- {}, PerSecond <- 1, Mantissa <- 24, Kept <- 4,
              rows <- matrix, now <- 0,
              prev <- 0, points <- << >>

ValueOf(d, q, t) ==
  Tally({ r \in d.releases : r.time <= t }, d.dependencies, d.queries, d.transitive, q)

Graph == INSTANCE StepGraph WITH
           Dbs <- {}, Value <- ValueOf, db <- << >>, rows <- matrix,
           drawn <- stage = "print"

-----------------------------------------------------------------------------
Init ==
  /\ options \in Options
  /\ Loading!Init
  /\ req = << >> /\ highest = << >> /\ turn = 1
  /\ stage = "open"
  /\ times = << >>
  /\ queries = {}
  /\ matrix = << >>
  /\ printed = 0
  /\ screen = << >>

\* No file, no run: process::exit(1).
Open ==
  /\ stage = "open"
  /\ stage' = IF options.db THEN "load" ELSE "exited"
  /\ UNCHANGED <<options, load, releases, clean, times, queries, matrix, show>>

LoadStep ==
  /\ stage = "load"
  /\ Loading!Next
  /\ UNCHANGED <<options, clean, stage, times, queries, matrix, show>>

Loaded ==
  /\ stage = "load"
  /\ pc \in {"done", "failed"}
  /\ IF pc = "done"
       THEN stage' = "filter" /\ req' = [d \in ToSet(dependencies) |-> d.req]
       ELSE stage' = "failed" /\ UNCHANGED req
  /\ UNCHANGED <<options, load, releases, turn, highest, times, queries, matrix, show>>

Prepare ==
  /\ UNCHANGED <<options, load, times, queries, matrix, show>>
  /\ \/ Cleaning!Filter
     \/ Cleaning!SortByTime
     \/ Cleaning!CleanRelease
     \/ Cleaning!CleanEnds

IndexTotal ==
  /\ stage = "total"
  /\ stage' = "parse"
  /\ times' = IF options.relative THEN Totals!Index ELSE times
  /\ UNCHANGED <<options, load, releases, clean, queries, matrix, show>>

-----------------------------------------------------------------------------
\* The crate of this name, whichever way it is written.
Named(name) == Loading!CrateId(names, name)

Predicates(q) == { [p EXCEPT !.crate = Named(p.crate)] : p \in q }

\* Mutant: query ids from one on.
QueriesFromOne ==
  { [id |-> i, predicates |-> Predicates(options.queries[i])] :
      i \in DOMAIN options.queries }

Queries ==
  { [id |-> i - 1, predicates |-> Predicates(options.queries[i])] :
      i \in DOMAIN options.queries }

\* The first name that is not there ends the command.
Parse ==
  /\ stage = "parse"
  /\ IF \E q \in ToSet(options.queries) : \E p \in q : Named(p.crate) = Loading!None
       THEN stage' = "failed" /\ UNCHANGED queries
       ELSE stage' = "run" /\ queries' = Queries
  /\ UNCHANGED <<options, load, releases, clean, times, matrix, show>>

-----------------------------------------------------------------------------
Jobs == IF options.jobs # None THEN options.jobs ELSE IF Cpus < 32 THEN Cpus ELSE 32

\* Mutant: the requirements as they were loaded.
UncleanDatabase ==
  [releases |-> ToSet(releases), dependencies |-> ToSet(dependencies),
   queries |-> queries, transitive |-> options.transitive]

Database ==
  [releases |-> ToSet(releases),
   dependencies |-> { [d EXCEPT !.req = req[d]] : d \in ToSet(dependencies) },
   queries |-> queries, transitive |-> options.transitive]

GraphOf(d) ==
  LET moments == SetToSortSeq(Graph!Changes(d), <)
  IN [i \in DOMAIN moments |-> [time |-> moments[i], values |-> Graph!Values(d, moments[i])]]

\* Without a worker nobody takes the input, and nothing is collected.
Run ==
  /\ stage = "run"
  /\ stage' = "print"
  /\ matrix' = IF Jobs = 0 THEN << >> ELSE GraphOf(Database)
  /\ UNCHANGED <<options, load, releases, clean, times, queries, show>>

-----------------------------------------------------------------------------
TotalAt(t) == IF options.relative THEN Totals!Eval(t) ELSE None

Line(row) == [time |-> row.time, values |-> row.values, total |-> TotalAt(row.time)]
Ellipsis  == [time |-> None, values |-> << >>, total |-> None]

\* Mutant: also where no row is left out.
EllipsisEvenIfWhole(i) == options.tty /\ Edge + i = Len(matrix)

\* i rows come before.
EllipsisBefore(i) == options.tty /\ Edge + i = Len(matrix) /\ Len(matrix) > 2 * Edge

Prints(i) == ~options.tty \/ i < Edge \/ Edge + i >= Len(matrix)

PrintRow ==
  /\ stage = "print"
  /\ printed < Len(matrix)
  /\ screen' = screen \o (IF EllipsisBefore(printed) THEN <<Ellipsis>> ELSE << >>)
                      \o (IF Prints(printed) THEN <<Line(matrix[printed + 1])>> ELSE << >>)
  /\ printed' = printed + 1
  /\ UNCHANGED <<options, load, releases, clean, stage, times, queries, matrix>>

\* A graph is drawn for a terminal only, and only of something.
Draw ==
  /\ stage = "print"
  /\ printed = Len(matrix)
  /\ stage' = IF ~options.tty THEN "ended"
              ELSE IF matrix = << >> THEN "zero results" ELSE "drawn"
  /\ UNCHANGED <<options, load, releases, clean, times, queries, matrix, show>>

Next == \/ Open \/ LoadStep \/ Loaded \/ Prepare \/ IndexTotal \/ Parse \/ Run
        \/ PrintRow \/ Draw

Spec == Init /\ [][Next]_vars

-----------------------------------------------------------------------------
(***************************************************************************)
(* The type invariant.                                                     *)
(***************************************************************************)
Ends == {"exited", "failed", "ended", "zero results", "drawn"}

TypeOK ==
  /\ options \in Options
  /\ stage \in {"open", "load", "filter", "sort", "clean", "total", "parse", "run",
                "print"} \cup Ends
  /\ { q.id : q \in queries } \subseteq QueryIds
  /\ \A i \in DOMAIN matrix : matrix[i].values \in [QueryIds -> Nat]
  /\ printed \in 0 .. Len(matrix)

(***************************************************************************)
(* What one part takes for granted of another.  run is given what module   *)
(* Run assumes: releases that ascend in time, whose ids tell them apart,   *)
(* and one query for each column.  Whoever divides by a total divides by   *)
(* one: at every row some crate has been published, and no query counts    *)
(* more crates than there are.                                             *)
(***************************************************************************)
RunCanStart ==
  /\ \A i, j \in DOMAIN releases : i < j => /\ releases[i].time <= releases[j].time
                                            /\ releases[i].id # releases[j].id
  /\ \A d, e \in ToSet(dependencies) : d.id = e.id => d = e
  /\ \A i \in DOMAIN options.queries : \E q \in queries : q.id = i - 1
  /\ Cardinality(queries) = Len(options.queries)

Divides(line) ==
  line.total = Cardinality({ r.crate : r \in { x \in ToSet(releases) : x.time <= line.time } })
    /\ line.total > 0 /\ \A q \in QueryIds : line.values[q] <= line.total

HandsOver ==
  /\ stage = "run" => RunCanStart
  /\ options.relative => \A line \in ToSet(screen) \ {Ellipsis} : Divides(line)


(***************************************************************************)
(* What is printed are the rows, all of them, or as many of the first as   *)
(* of the last with a mark in between, and the mark stands exactly where   *)
(* rows are missing.  Nothing is left out of what goes to a file.          *)
(***************************************************************************)
Printed == [i \in DOMAIN matrix |-> Line(matrix[i])]

PrintsBothEnds ==
  stage \in {"ended", "drawn", "zero results"} =>
    \/ screen = Printed
    \/ /\ options.tty
       /\ \E n \in 1 .. Len(matrix) \div 2 :
            /\ screen = SubSeq(Printed, 1, n) \o <<Ellipsis>>
                          \o SubSeq(Printed, Len(matrix) - n + 1, Len(matrix))
            /\ 2 * n < Len(matrix)
=============================================================================
