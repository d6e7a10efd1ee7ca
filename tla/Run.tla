-------------------------------- MODULE Run ---------------------------------
(***************************************************************************)
(* cargo_tally::run (src/src/lib.rs): worker threads that build the same   *)
(* dataflow, one of which takes the input and feeds it, the output each    *)
(* worker appends to one shared vector, and the main thread that joins     *)
(* them, sorts the vector and folds it into the matrix.                    *)
(*                                                                         *)
(* What the dataflow counts is the parameter Count; what this module has   *)
(* of timely and differential dataflow is their contract: a session only   *)
(* inserts at or after the time it has advanced to, and a result for time  *)
(* t leaves the dataflow, once, when no session of any worker can still    *)
(* insert at t.                                                            *)
(***************************************************************************)
EXTENDS Integers, Sequences, FiniteSets

CONSTANTS Workers,            \* the threads, --jobs of them
          QueryIds,
          MaxTime,            \* bound on created_at
          Dbs,                \* [releases (a sequence), dependencies, queries]
          Owner,              \* query -> the worker its count is exchanged to
          Count(_, _, _, _)   \* Count(R, D, Q, q), the dataflow

Times  == 0 .. MaxTime        \* 0 is DateTime::minimum()
Closed == MaxTime + 1         \* where a closed session stands

Releases(d) == { d.releases[i] : i \in DOMAIN d.releases }

\* The tally of q at t, from all of database d.
Value(d, q, t) ==
  Count({ r \in Releases(d) : r.time <= t }, d.dependencies, d.queries, q)

ASSUME RunAssumption ==
  /\ Workers # {}
  /\ IsFiniteSet(Workers)
  /\ MaxTime \in Nat
  /\ Owner \in [QueryIds -> Workers]
  /\ \A d \in Dbs :
       /\ d.releases \in Seq(Releases(d))
       /\ \A i \in DOMAIN d.releases : d.releases[i].time \in Times
       /\ \A i, j \in DOMAIN d.releases :      \* main.rs sorts the releases
            i <= j => d.releases[i].time <= d.releases[j].time
       /\ \A q \in QueryIds, t \in Times : Value(d, q, t) \in Nat

VARIABLES
  db,        \* the input
  taken,     \* whether a worker has taken it
  pc,        \* where each worker is
  holds,     \* whether the worker holds the input
  next,      \* index of the next release the worker inserts
  session,   \* the time each input session of the worker stands at
  arrived,   \* what has been inserted, by whichever worker
  upto,      \* per query, the first time not yet put out
  shown,     \* per query, the sum of what was put out
  out,       \* ResultCollection: the shared vector
  main,      \* where the main thread is
  index, time, values, matrix     \* the main thread's fold
dataflow == <<upto, shown, out>>
fold == <<index, time, values, matrix>>
vars == <<db, taken, pc, holds, next, session, arrived, dataflow, main, fold>>

Stages == {"take", "queries", "dependencies", "releases", "stepping", "done",
           "panicked"}

Init ==
  /\ db \in Dbs
  /\ taken = FALSE
  /\ pc = [w \in Workers |-> "take"]
  /\ holds = [w \in Workers |-> FALSE]
  /\ next = [w \in Workers |-> 1]
  /\ session = [w \in Workers |->
                  [queries |-> 0, dependencies |-> 0, releases |-> 0]]
  /\ arrived = [queries |-> {}, dependencies |-> {}, releases |-> {}]
  /\ upto = [q \in QueryIds |-> 0]
  /\ shown = [q \in QueryIds |-> 0]
  /\ out = << >>
  /\ main = "join"
  /\ index = 1
  /\ time = 0
  /\ values = [q \in QueryIds |-> 0]
  /\ matrix = << >>

Goto(w, from, to) == pc[w] = from /\ pc' = [pc EXCEPT ![w] = to]

-----------------------------------------------------------------------------
(***************************************************************************)
(* A worker.                                                               *)
(***************************************************************************)

\* AtomicTake: the first worker gets the input, the others an empty one.
Take(w) ==
  /\ Goto(w, "take", "queries")
  /\ holds' = [holds EXCEPT ![w] = ~taken]
  /\ taken' = TRUE
  /\ UNCHANGED <<db, next, session, arrived, dataflow, main, fold>>

\* Mutant: only the worker with the input closes its session.
FeedQueriesOfHolder(w) ==
  /\ Goto(w, "queries", "dependencies")
  /\ arrived' = [arrived EXCEPT !.queries = @ \cup
                   (IF holds[w] THEN db.queries ELSE {})]
  /\ session' = [session EXCEPT ![w].queries = IF holds[w] THEN Closed ELSE @]
  /\ UNCHANGED <<db, taken, holds, next, dataflow, main, fold>>

FeedQueries(w) ==
  /\ Goto(w, "queries", "dependencies")
  /\ arrived' = [arrived EXCEPT !.queries = @ \cup
                   (IF holds[w] THEN db.queries ELSE {})]
  /\ session' = [session EXCEPT ![w].queries = Closed]
  /\ UNCHANGED <<db, taken, holds, next, dataflow, main, fold>>

FeedDependencies(w) ==
  /\ Goto(w, "dependencies", "releases")
  /\ arrived' = [arrived EXCEPT !.dependencies = @ \cup
                   (IF holds[w] THEN db.dependencies ELSE {})]
  /\ session' = [session EXCEPT ![w].dependencies = Closed]
  /\ UNCHANGED <<db, taken, holds, next, dataflow, main, fold>>

MoreReleases(w) == holds[w] /\ next[w] <= Len(db.releases)

\* InputSession::advance_to panics when asked to move back.
FeedRelease(w) ==
  /\ pc[w] = "releases" /\ MoreReleases(w)
  /\ LET rel == db.releases[next[w]]
     IN IF session[w].releases <= rel.time
        THEN /\ session' = [session EXCEPT ![w].releases = rel.time]
             /\ arrived' = [arrived EXCEPT !.releases = @ \cup {rel}]
             /\ next' = [next EXCEPT ![w] = @ + 1]
             /\ UNCHANGED pc
        ELSE /\ pc' = [pc EXCEPT ![w] = "panicked"]
             /\ UNCHANGED <<session, arrived, next>>
  /\ UNCHANGED <<db, taken, holds, dataflow, main, fold>>

\* Mutant: the session is closed with releases left to insert.
CloseReleasesEarly(w) ==
  /\ Goto(w, "releases", "stepping")
  /\ session' = [session EXCEPT ![w].releases = Closed]
  /\ UNCHANGED <<db, taken, holds, next, arrived, dataflow, main, fold>>

CloseReleases(w) ==
  /\ ~MoreReleases(w)
  /\ Goto(w, "releases", "stepping")
  /\ session' = [session EXCEPT ![w].releases = Closed]
  /\ UNCHANGED <<db, taken, holds, next, arrived, dataflow, main, fold>>

(***************************************************************************)
(* No session of any worker can still insert at t.                         *)
(***************************************************************************)
Passed(t) ==
  \A w \in Workers : /\ t < session[w].queries
                     /\ t < session[w].dependencies
                     /\ t < session[w].releases

\* The tally of q at t, from what has arrived.
CountAt(q, t) ==
  Count({ r \in arrived.releases : r.time <= t },
        arrived.dependencies, arrived.queries, q)

\* Mutant: what is remembered is the last change, not the tally.
EmitRemembersChange(q) ==
  /\ pc[Owner[q]] = "stepping"
  /\ upto[q] <= MaxTime
  /\ Passed(upto[q])
  /\ LET n == CountAt(q, upto[q])
     IN /\ shown' = [shown EXCEPT ![q] = n - @]
        /\ out' = IF n = shown[q] THEN out
                  ELSE Append(out, [query |-> q, time |-> upto[q],
                                    diff |-> n - shown[q]])
  /\ upto' = [upto EXCEPT ![q] = @ + 1]
  /\ UNCHANGED <<db, taken, pc, holds, next, session, arrived, main, fold>>

(***************************************************************************)
(* collect_into: the worker that owns query q appends the change of its    *)
(* tally at the next time, if there is one.  The queries of one worker and *)
(* the workers interleave in any way; for one query times ascend.          *)
(***************************************************************************)
Emit(q) ==
  /\ pc[Owner[q]] = "stepping"
  /\ upto[q] <= MaxTime
  /\ Passed(upto[q])
  /\ LET n == CountAt(q, upto[q])
     IN /\ shown' = [shown EXCEPT ![q] = n]
        /\ out' = IF n = shown[q] THEN out
                  ELSE Append(out, [query |-> q, time |-> upto[q],
                                    diff |-> n - shown[q]])
  /\ upto' = [upto EXCEPT ![q] = @ + 1]
  /\ UNCHANGED <<db, taken, pc, holds, next, session, arrived, main, fold>>

\* step_or_park returns false once the dataflow has nothing left to do.
StepsEnd(w) ==
  /\ Passed(MaxTime)
  /\ \A q \in QueryIds : Owner[q] = w => upto[q] = Closed
  /\ Goto(w, "stepping", "done")
  /\ UNCHANGED <<db, taken, holds, next, session, arrived, dataflow, main,
                 fold>>

-----------------------------------------------------------------------------
(***************************************************************************)
(* The main thread.                                                        *)
(***************************************************************************)
JoinWorkers ==
  /\ main = "join"
  /\ \A w \in Workers : pc[w] = "done"
  /\ main' = "sort"
  /\ UNCHANGED <<db, taken, pc, holds, next, session, arrived, dataflow, fold>>

(***************************************************************************)
(* ResultCollection::sort: a stable sort by time, as the permutation p of  *)
(* positions that it applies.                                              *)
(***************************************************************************)
Permuted(S) == { p \in [S -> S] : \A j \in S : \E i \in S : p[i] = j }

\* Mutants: the comparison the wrong way round; no sorting.
SortedDescending(p) ==
  \A i, j \in DOMAIN out : i < j => out[p[i]].time >= out[p[j]].time

AsCollected(p) == \A i \in DOMAIN out : p[i] = i

SortedBy(p) ==
  \A i, j \in DOMAIN out : i < j =>
     \/ out[p[i]].time < out[p[j]].time
     \/ out[p[i]].time = out[p[j]].time /\ p[i] < p[j]

Sort ==
  /\ main = "sort"
  /\ \E p \in Permuted(DOMAIN out) :
       SortedBy(p) /\ out' = [i \in DOMAIN out |-> out[p[i]]]
  /\ main' = "fold"
  /\ UNCHANGED <<db, taken, pc, holds, next, session, arrived, upto, shown,
                 fold>>

Row(t, v) == [time |-> t, values |-> v]

\* One turn of the loop over the collection; checked_sub panics.
Fold ==
  /\ main = "fold" /\ index <= Len(out)
  /\ LET e == out[index]
     IN /\ matrix' = IF e.time > time /\ index > 1
                     THEN Append(matrix, Row(time, values)) ELSE matrix
        /\ time' = IF e.time > time THEN e.time ELSE time
        /\ IF values[e.query] + e.diff >= 0
           THEN /\ values' = [values EXCEPT ![e.query] = @ + e.diff]
                /\ UNCHANGED main
           ELSE main' = "panicked" /\ UNCHANGED values
  /\ index' = index + 1
  /\ UNCHANGED <<db, taken, pc, holds, next, session, arrived, dataflow>>

\* Mutant: the last row is always pushed.
FinishAlways ==
  /\ main = "fold" /\ index > Len(out)
  /\ matrix' = Append(matrix, Row(time, values))
  /\ main' = "done"
  /\ UNCHANGED <<db, taken, pc, holds, next, session, arrived, dataflow, index,
                 time, values>>

\* The last row, unless it would repeat the one before it or be all zero.
Finish ==
  /\ main = "fold" /\ index > Len(out)
  /\ LET differs == IF matrix = << >> THEN \E q \in QueryIds : values[q] # 0
                    ELSE values # matrix[Len(matrix)].values
     IN matrix' = IF differs THEN Append(matrix, Row(time, values)) ELSE matrix
  /\ main' = "done"
  /\ UNCHANGED <<db, taken, pc, holds, next, session, arrived, dataflow, index,
                 time, values>>

-----------------------------------------------------------------------------
Worker(w) == \/ Take(w) \/ FeedQueries(w) \/ FeedDependencies(w)
             \/ FeedRelease(w) \/ CloseReleases(w) \/ StepsEnd(w)

Main == JoinWorkers \/ Sort \/ Fold \/ Finish

Next == \/ \E w \in Workers : Worker(w)
        \/ \E q \in QueryIds : Emit(q)
        \/ Main

(***************************************************************************)
(* Threads are scheduled fairly, and a stepping worker works off whatever  *)
(* its dataflow can do.                                                    *)
(***************************************************************************)
Fairness == /\ \A w \in Workers : WF_vars(Worker(w))
            /\ \A q \in QueryIds : WF_vars(Emit(q))
            /\ WF_vars(Main)

Spec == Init /\ [][Next]_vars

FairSpec == Spec /\ Fairness

-----------------------------------------------------------------------------
(***************************************************************************)
(* A type invariant.                                                       *)
(***************************************************************************)
Entry == [query : QueryIds, time : Times, diff : Int]

TypeOK ==
  /\ db \in Dbs
  /\ taken \in BOOLEAN
  /\ pc \in [Workers -> Stages]
  /\ holds \in [Workers -> BOOLEAN]
  /\ next \in [Workers -> Nat \ {0}]
  /\ session \in [Workers -> [queries : 0 .. Closed, dependencies : 0 .. Closed,
                              releases : 0 .. Closed]]
  /\ arrived \in [queries : SUBSET db.queries,
                  dependencies : SUBSET db.dependencies,
                  releases : SUBSET Releases(db)]
  /\ upto \in [QueryIds -> 0 .. Closed]
  /\ shown \in [QueryIds -> Nat]
  /\ out \in Seq(Entry)
  /\ main \in {"join", "sort", "fold", "done", "panicked"}
  /\ index \in Nat \ {0}
  /\ time \in Times
  /\ values \in [QueryIds -> Nat]
  /\ matrix \in Seq([time : Times, values : [QueryIds -> Nat]])

(***************************************************************************)
(* A result that left the dataflow is never wrong in hindsight: what a     *)
(* worker puts out for time t, while the worker that took the input may    *)
(* still be inserting releases, is the change of the tally of the whole    *)
(* database at t.  Rests on the order of advance_to, update and close in   *)
(* run, and on every worker closing all three of its sessions.             *)
(***************************************************************************)
Before(d, q, t) == IF t = 0 THEN 0 ELSE Value(d, q, t - 1)

OutputIsFinal ==
  \A i \in DOMAIN out :
     out[i].diff = Value(db, out[i].query, out[i].time)
                     - Before(db, out[i].query, out[i].time)

(***************************************************************************)
(* Neither advance_to finds releases out of order nor the fold's           *)
(* checked_sub a tally below zero ("value went negative"), whatever order  *)
(* the workers append in.                                                  *)
(***************************************************************************)
NoPanic == main # "panicked" /\ \A w \in Workers : pc[w] # "panicked"

(***************************************************************************)
(* Every row of the matrix, from the moment it is pushed, holds the tally  *)
(* of every query at the time of the row.                                  *)
(***************************************************************************)
RowsAreTally ==
  \A i \in DOMAIN matrix :
     matrix[i].values = [q \in QueryIds |-> Value(db, q, matrix[i].time)]

(***************************************************************************)
(* However the workers interleave, run is one atomic computation of the    *)
(* step graph: each change of a tally in one row, ascending, none missing, *)
(* none repeated.                                                          *)
(***************************************************************************)
Graph == INSTANCE StepGraph WITH
           rows <- IF main = "done" THEN matrix ELSE << >>,
           drawn <- main = "done"

DrawsStepGraph == Graph!Spec

(***************************************************************************)
(* run returns: every worker's dataflow completes, also those of workers   *)
(* that found the input taken, and the main thread joins them all.         *)
(***************************************************************************)
Returns == <>(main = "done")
=============================================================================
