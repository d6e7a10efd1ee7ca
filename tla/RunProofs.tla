----------------------------- MODULE RunProofs ------------------------------
(***************************************************************************)
(* The safety of Run, for any number of workers, queries and releases and  *)
(* any dataflow to count with.  The inductive invariant has four layers,   *)
(* each proved from the ones below it: what the workers have fed, what     *)
(* they have put out, how far the main thread's fold has come, and which   *)
(* rows it has made of it.                                                 *)
(***************************************************************************)
EXTENDS Run, TLAPS

-----------------------------------------------------------------------------
(***************************************************************************)
(* First layer: feeding.                                                   *)
(***************************************************************************)
FeedType ==
  /\ db \in Dbs
  /\ taken \in BOOLEAN
  /\ pc \in [Workers -> Stages]
  /\ holds \in [Workers -> BOOLEAN]
  /\ next \in [Workers -> Nat \ {0}]
  /\ session \in [Workers -> [queries : 0 .. Closed, dependencies : 0 .. Closed,
                              releases : 0 .. Closed]]
  /\ arrived \in [queries : SUBSET db.queries,
                  dependencies : SUBSET db.dependencies,
                  releases : SUBSET Releases(db)]

\* Until a worker has closed a session, the session stands where the last
\* release it inserted left it, and the holder's input has arrived as far
\* as its sessions say.
Fed(w) ==
  /\ pc[w] # "panicked"
  /\ pc[w] = "take" => ~holds[w]
  /\ pc[w] \in {"take", "queries"} => session[w].queries = 0
  /\ pc[w] \in {"take", "queries", "dependencies"} =>
       session[w].dependencies = 0 /\ session[w].releases = 0 /\ next[w] = 1
  /\ holds[w] /\ pc[w] # "queries" => arrived.queries = db.queries
  /\ holds[w] /\ pc[w] \notin {"queries", "dependencies"} =>
       arrived.dependencies = db.dependencies
  /\ holds[w] =>
       /\ next[w] <= Len(db.releases) + 1
       /\ \A i \in 1 .. next[w] - 1 : db.releases[i] \in arrived.releases
  /\ holds[w] /\ pc[w] = "releases" =>
       session[w].releases =
         IF next[w] = 1 THEN 0 ELSE db.releases[next[w] - 1].time
  /\ holds[w] /\ pc[w] \in {"stepping", "done"} =>
       next[w] = Len(db.releases) + 1

FeedInv ==
  /\ FeedType
  /\ \A w \in Workers : Fed(w)
  /\ ~taken => \A w \in Workers : pc[w] = "take"
  /\ taken => \E w \in Workers : holds[w]

(***************************************************************************)
(* The databases are sorted sequences.                                     *)
(***************************************************************************)
LEMMA Sorted ==
  ASSUME NEW d \in Dbs
  PROVE  /\ d.releases \in Seq(Releases(d))
         /\ Len(d.releases) \in Nat
         /\ DOMAIN d.releases = 1 .. Len(d.releases)
         /\ \A i \in 1 .. Len(d.releases) :
               /\ d.releases[i] \in Releases(d)
               /\ d.releases[i].time \in Times
         /\ \A i, j \in 1 .. Len(d.releases) :
               i <= j => d.releases[i].time <= d.releases[j].time
<1>1. d.releases \in Seq(Releases(d))
  BY RunAssumption
<1>2. DOMAIN d.releases = 1 .. Len(d.releases) /\ Len(d.releases) \in Nat
  BY <1>1
<1> QED BY <1>1, <1>2, RunAssumption DEF Releases

LEMMA Bounds == MaxTime \in Nat /\ Closed \in Nat /\ Closed = MaxTime + 1
BY RunAssumption DEF Closed

LEMMA FeedInit == Init => FeedInv
<1> SUFFICES ASSUME Init PROVE FeedInv
  OBVIOUS
<1>1. FeedType
  <2>1. session \in [Workers -> [queries : 0 .. Closed,
                                dependencies : 0 .. Closed,
                                releases : 0 .. Closed]]
    <3>1. 0 \in 0 .. Closed
      BY Bounds
    <3> QED BY <3>1 DEF Init
  <2>2. arrived \in [queries : SUBSET db.queries,
                    dependencies : SUBSET db.dependencies,
                    releases : SUBSET Releases(db)]
    BY DEF Init
  <2>3. pc \in [Workers -> Stages] /\ holds \in [Workers -> BOOLEAN]
    BY DEF Init, Stages
  <2>4. next \in [Workers -> Nat \ {0}]
    BY DEF Init
  <2> QED BY <2>1, <2>2, <2>3, <2>4 DEF Init, FeedType
<1>2. ASSUME NEW w \in Workers PROVE Fed(w)
  BY RunAssumption DEF Init, Fed
<1> QED BY <1>1, <1>2 DEF FeedInv, Init

LEMMA TakeFeeds ==
  ASSUME FeedInv, NEW w \in Workers, Take(w)
  PROVE  FeedInv'
<1> USE DEF FeedInv, Take, Goto
<1>1. FeedType'
  BY DEF FeedType, Stages
<1>2. ASSUME NEW v \in Workers PROVE Fed(v)'
  <2>1. CASE v = w
    <3>1. pc'[w] = "queries" /\ holds'[w] = ~taken /\ next[w] = 1
      BY DEF FeedType, Fed
    <3>2. Fed(w)
      OBVIOUS
    <3>3. Len(db.releases) \in Nat
      BY Sorted DEF FeedType
    <3> QED BY <2>1, <3>1, <3>2, <3>3 DEF Fed
  <2>2. CASE v # w
    <3>1. pc'[v] = pc[v] /\ holds'[v] = holds[v] /\ Fed(v)
      BY <2>2 DEF FeedType
    <3> QED BY <3>1 DEF Fed
  <2> QED BY <2>1, <2>2
<1>3. \E v \in Workers : holds'[v]
  <2>1. CASE taken
    <3>1. PICK v \in Workers : holds[v]
      BY <2>1
    <3>2. v # w
      BY <3>1 DEF Fed
    <3> QED BY <3>1, <3>2 DEF FeedType
  <2>2. CASE ~taken
    BY <2>2 DEF FeedType
  <2> QED BY <2>1, <2>2
<1> QED BY <1>1, <1>2, <1>3

LEMMA FeedQueriesFeeds ==
  ASSUME FeedInv, NEW w \in Workers, FeedQueries(w)
  PROVE  FeedInv'
<1> USE DEF FeedInv, FeedQueries, Goto
<1>1. FeedType'
  <2>1. Closed \in 0 .. Closed
    BY Bounds
  <2> QED BY <2>1 DEF FeedType, Stages
<1>2. ASSUME NEW v \in Workers PROVE Fed(v)'
  <2>1. Fed(v) /\ Fed(w)
    OBVIOUS
  <2>2. /\ arrived'.releases = arrived.releases
        /\ arrived'.dependencies = arrived.dependencies
        /\ arrived.queries = db.queries => arrived'.queries = db.queries
        /\ holds[w] => arrived'.queries = db.queries
    BY DEF FeedType
  <2>3. CASE v = w
    <3>1. /\ pc[w] = "queries" /\ pc'[w] = "dependencies"
          /\ session'[w].dependencies = session[w].dependencies
          /\ session'[w].releases = session[w].releases
      BY DEF FeedType
    <3> QED BY <2>1, <2>2, <2>3, <3>1 DEF Fed
  <2>4. CASE v # w
    <3>1. pc'[v] = pc[v] /\ session'[v] = session[v]
      BY <2>4 DEF FeedType
    <3> QED BY <2>1, <2>2, <3>1 DEF Fed
  <2> QED BY <2>3, <2>4
<1>3. taken
  OBVIOUS
<1> QED BY <1>1, <1>2, <1>3

LEMMA FeedDependenciesFeeds ==
  ASSUME FeedInv, NEW w \in Workers, FeedDependencies(w)
  PROVE  FeedInv'
<1> USE DEF FeedInv, FeedDependencies, Goto
<1>1. FeedType'
  <2>1. Closed \in 0 .. Closed
    BY Bounds
  <2> QED BY <2>1 DEF FeedType, Stages
<1>2. ASSUME NEW v \in Workers PROVE Fed(v)'
  <2>1. Fed(v) /\ Fed(w)
    OBVIOUS
  <2>2. /\ arrived'.releases = arrived.releases
        /\ arrived'.queries = arrived.queries
        /\ arrived.dependencies = db.dependencies =>
             arrived'.dependencies = db.dependencies
        /\ holds[w] => arrived'.dependencies = db.dependencies
    BY DEF FeedType
  <2>3. CASE v = w
    <3>1. /\ pc[w] = "dependencies" /\ pc'[w] = "releases"
          /\ session'[w].releases = session[w].releases
      BY DEF FeedType
    <3> QED BY <2>1, <2>2, <2>3, <3>1 DEF Fed
  <2>4. CASE v # w
    <3>1. pc'[v] = pc[v] /\ session'[v] = session[v]
      BY <2>4 DEF FeedType
    <3> QED BY <2>1, <2>2, <3>1 DEF Fed
  <2> QED BY <2>3, <2>4
<1>3. taken
  OBVIOUS
<1> QED BY <1>1, <1>2, <1>3

(***************************************************************************)
(* advance_to never panics: the holder's session stands at the release it  *)
(* inserted last, and releases are sorted.                                 *)
(***************************************************************************)
LEMMA FeedReleaseFeeds ==
  ASSUME FeedInv, NEW w \in Workers, FeedRelease(w)
  PROVE  FeedInv'
<1> USE DEF FeedInv, FeedRelease, MoreReleases
<1> DEFINE rel == db.releases[next[w]]
<1>1. /\ next[w] \in 1 .. Len(db.releases)
      /\ rel \in Releases(db) /\ rel.time \in Times
      /\ Len(db.releases) \in Nat
  BY Sorted DEF FeedType
<1>2. session[w].releases <= rel.time
  <2>1. CASE next[w] = 1
    BY <1>1, <2>1, Bounds DEF Fed, Times
  <2>2. CASE next[w] # 1
    <3>1. next[w] - 1 \in 1 .. Len(db.releases) /\ next[w] - 1 <= next[w]
      BY <1>1, <2>2 DEF FeedType
    <3>2. db.releases[next[w] - 1].time <= rel.time
      BY <1>1, <3>1, Sorted DEF FeedType
    <3> QED BY <2>2, <3>2 DEF Fed
  <2> QED BY <2>1, <2>2
<1>3. /\ session' = [session EXCEPT ![w].releases = rel.time]
      /\ arrived' = [arrived EXCEPT !.releases = @ \cup {rel}]
      /\ next' = [next EXCEPT ![w] = @ + 1]
      /\ UNCHANGED <<db, taken, pc, holds>>
  BY <1>2
<1>4. FeedType'
  <2>1. rel.time \in 0 .. Closed
    BY <1>1, Bounds DEF Times
  <2>2. session' \in [Workers -> [queries : 0 .. Closed,
                                 dependencies : 0 .. Closed,
                                 releases : 0 .. Closed]]
    BY <1>3, <2>1 DEF FeedType
  <2>3. arrived' \in [queries : SUBSET db.queries,
                     dependencies : SUBSET db.dependencies,
                     releases : SUBSET Releases(db)]
    BY <1>1, <1>3 DEF FeedType
  <2>4. next' \in [Workers -> Nat \ {0}]
    BY <1>3 DEF FeedType
  <2> QED BY <1>3, <2>2, <2>3, <2>4 DEF FeedType
<1>5. ASSUME NEW v \in Workers PROVE Fed(v)'
  <2>1. Fed(v)
    OBVIOUS
  <2>2. /\ arrived.releases \subseteq arrived'.releases
        /\ rel \in arrived'.releases
        /\ arrived'.queries = arrived.queries
        /\ arrived'.dependencies = arrived.dependencies
    BY <1>3 DEF FeedType
  <2>3. CASE v = w
    <3>1. /\ next'[w] = next[w] + 1 /\ next[w] \in Nat \ {0}
          /\ session'[w].releases = rel.time
          /\ pc[w] = "releases"
      BY <1>3 DEF FeedType
    <3>2. next'[w] - 1 = next[w] /\ next'[w] # 1
      BY <3>1
    <3>3. \A i \in 1 .. next'[w] - 1 : db.releases[i] \in arrived'.releases
      BY <2>1, <2>2, <2>3, <3>1, <3>2 DEF Fed
    <3>4. /\ Fed(w) /\ pc'[w] = "releases" /\ holds' = holds /\ db' = db
          /\ next'[w] <= Len(db.releases) + 1
      BY <1>1, <1>3, <2>1, <2>3, <3>1
    <3>5. Fed(w)'
      BY <2>2, <3>1, <3>2, <3>3, <3>4 DEF Fed
    <3> QED BY <2>3, <3>5
  <2>4. CASE v # w
    <3>1. next'[v] = next[v] /\ session'[v] = session[v]
      BY <1>3, <2>4 DEF FeedType
    <3> QED BY <1>3, <2>1, <2>2, <3>1 DEF Fed
  <2> QED BY <2>3, <2>4
<1> QED BY <1>3, <1>4, <1>5

LEMMA CloseReleasesFeeds ==
  ASSUME FeedInv, NEW w \in Workers, CloseReleases(w)
  PROVE  FeedInv'
<1> USE DEF FeedInv, CloseReleases, Goto
<1>1. FeedType'
  <2>1. Closed \in 0 .. Closed
    BY Bounds
  <2> QED BY <2>1 DEF FeedType, Stages
<1>2. ASSUME NEW v \in Workers PROVE Fed(v)'
  <2>1. Fed(v)
    OBVIOUS
  <2>2. CASE v = w
    <3>1. pc[w] = "releases" /\ pc'[w] = "stepping"
      BY DEF FeedType
    <3>2. holds[w] => next[w] = Len(db.releases) + 1
      BY <2>1, <2>2, Sorted DEF Fed, FeedType, MoreReleases
    <3> QED BY <2>1, <2>2, <3>1, <3>2 DEF Fed
  <2>3. CASE v # w
    <3>1. pc'[v] = pc[v] /\ session'[v] = session[v]
      BY <2>3 DEF FeedType
    <3> QED BY <2>1, <3>1 DEF Fed
  <2> QED BY <2>2, <2>3
<1> QED BY <1>1, <1>2

LEMMA StepsEndFeeds ==
  ASSUME FeedInv, NEW w \in Workers, StepsEnd(w)
  PROVE  FeedInv'
<1> USE DEF FeedInv, StepsEnd, Goto
<1>1. FeedType'
  BY DEF FeedType, Stages
<1>2. ASSUME NEW v \in Workers PROVE Fed(v)'
  <2>1. Fed(v)
    OBVIOUS
  <2>2. CASE v = w
    BY <2>1, <2>2 DEF Fed, FeedType
  <2>3. CASE v # w
    BY <2>1, <2>3 DEF Fed, FeedType
  <2> QED BY <2>2, <2>3
<1> QED BY <1>1, <1>2

feedVars == <<db, taken, pc, holds, next, session, arrived>>

LEMMA FeedStutters ==
  ASSUME FeedInv, UNCHANGED feedVars
  PROVE  FeedInv'
BY DEF FeedInv, FeedType, Fed, feedVars

LEMMA FeedStep == FeedInv /\ [Next]_vars => FeedInv'
<1> SUFFICES ASSUME FeedInv, [Next]_vars PROVE FeedInv'
  OBVIOUS
<1>1. ASSUME NEW w \in Workers, Worker(w) PROVE FeedInv'
  BY <1>1, TakeFeeds, FeedQueriesFeeds, FeedDependenciesFeeds,
     FeedReleaseFeeds, CloseReleasesFeeds, StepsEndFeeds DEF Worker
<1>2. ASSUME NEW q \in QueryIds, Emit(q) PROVE FeedInv'
  BY <1>2, FeedStutters DEF Emit, feedVars
<1>3. CASE Main
  BY <1>3, FeedStutters DEF Main, JoinWorkers, Sort, Fold, Finish, feedVars
<1>4. CASE UNCHANGED vars
  BY <1>4, FeedStutters DEF vars, feedVars
<1> QED BY <1>1, <1>2, <1>3, <1>4 DEF Next

LEMMA FeedInvariant == Spec => []FeedInv
BY FeedInit, FeedStep, PTL DEF Spec

-----------------------------------------------------------------------------
(***************************************************************************)
(* Second layer: output.                                                   *)
(***************************************************************************)
OutType ==
  /\ upto \in [QueryIds -> 0 .. Closed]
  /\ shown \in [QueryIds -> Nat]
  /\ out \in Seq(Entry)

\* The tally of q at t is what it was at the last entry of q up to t.
LastChange(q, t) ==
  \/ /\ Value(db, q, t) = 0
     /\ \A i \in DOMAIN out : out[i].query = q => t < out[i].time
  \/ \E i \in DOMAIN out :
       /\ out[i].query = q
       /\ out[i].time <= t
       /\ Value(db, q, t) = Value(db, q, out[i].time)
       /\ \A j \in DOMAIN out : out[j].query = q /\ out[j].time <= t =>
             out[j].time <= out[i].time

OncePerMoment ==
  \A i, j \in DOMAIN out :
     out[i].query = out[j].query /\ out[i].time = out[j].time => i = j

OutInv ==
  /\ OutType
  /\ \A q \in QueryIds : shown[q] = Before(db, q, upto[q])
  /\ OutputIsFinal
  /\ \A i \in DOMAIN out : out[i].time < upto[out[i].query]
  /\ OncePerMoment
  /\ \A q \in QueryIds, t \in Times : t < upto[q] => LastChange(q, t)
  /\ \A w \in Workers : pc[w] = "done" =>
       \A q \in QueryIds : Owner[q] = w => upto[q] = Closed

LEMMA ValueIsNat ==
  ASSUME NEW d \in Dbs, NEW q \in QueryIds, NEW t \in Times
  PROVE  Value(d, q, t) \in Nat
BY RunAssumption

(***************************************************************************)
(* Once every session has passed t, what has arrived up to t is all there  *)
(* is: some worker holds the input, its query and dependency sessions are  *)
(* closed, and its release session stands past t.                          *)
(***************************************************************************)
LEMMA ArrivedIsAll ==
  ASSUME FeedInv, NEW q \in QueryIds, NEW t \in Times, Passed(t)
  PROVE  CountAt(q, t) = Value(db, q, t)
<1>1. t \in Nat
  BY Bounds DEF Times
<1>2. \A w \in Workers : pc[w] \notin {"take", "queries", "dependencies"}
  BY <1>1 DEF FeedInv, Fed, Passed
<1>3. PICK w \in Workers : holds[w]
  BY <1>2, RunAssumption DEF FeedInv
<1>4. /\ arrived.queries = db.queries
      /\ arrived.dependencies = db.dependencies
  BY <1>2, <1>3 DEF FeedInv, Fed
<1>5. ASSUME NEW i \in 1 .. Len(db.releases), db.releases[i].time <= t
      PROVE  db.releases[i] \in arrived.releases
  <2>1. pc[w] \in {"releases", "stepping", "done"}
    BY <1>2, <1>3 DEF FeedInv, FeedType, Fed, Stages
  <2>2. next[w] \in Nat \ {0} /\ Len(db.releases) \in Nat
    BY Sorted DEF FeedInv, FeedType
  <2>3. i <= next[w] - 1
    <3>1. CASE pc[w] = "releases"
      <4>1. t < session[w].releases
        BY DEF Passed
      <4>2. next[w] # 1 /\ session[w].releases = db.releases[next[w] - 1].time
        BY <1>1, <1>3, <3>1, <4>1 DEF FeedInv, Fed
      <4>3. next[w] - 1 \in 1 .. Len(db.releases)
        BY <1>3, <2>2, <4>2 DEF FeedInv, Fed
      <4>4. /\ db.releases[next[w] - 1].time \in Nat
            /\ db.releases[i].time \in Nat
        <5>1. db \in Dbs /\ Times \subseteq Nat
          BY Bounds DEF FeedInv, FeedType, Times
        <5> QED BY <4>3, <5>1, Sorted
      <4>5. ~(next[w] - 1 <= i)
        BY <1>1, <1>5, <4>1, <4>2, <4>3, <4>4, Sorted DEF FeedInv, FeedType
      <4> QED BY <2>2, <4>5
    <3>2. CASE pc[w] \in {"stepping", "done"}
      BY <1>3, <2>2, <3>2 DEF FeedInv, Fed
    <3> QED BY <2>1, <3>1, <3>2
  <2> QED BY <1>3, <2>2, <2>3 DEF FeedInv, Fed
<1>6. { r \in arrived.releases : r.time <= t } =
        { r \in Releases(db) : r.time <= t }
  <2>1. arrived.releases \subseteq Releases(db)
    BY DEF FeedInv, FeedType
  <2>2. ASSUME NEW r \in Releases(db), r.time <= t
        PROVE  r \in arrived.releases
    BY <1>5, <2>2, Sorted DEF Releases, FeedInv, FeedType
  <2> QED BY <2>1, <2>2
<1> QED BY <1>4, <1>6 DEF CountAt, Value

LEMMA OutInit == Init => OutInv
<1> SUFFICES ASSUME Init PROVE OutInv
  OBVIOUS
<1>1. OutType /\ out = << >> /\ DOMAIN out = {}
  BY Bounds DEF Init, OutType
<1>2. \A q \in QueryIds : shown[q] = Before(db, q, upto[q])
  BY DEF Init, Before
<1>3. \A q \in QueryIds, t \in Times : ~(t < upto[q])
  BY Bounds DEF Init, Times
<1>4. \A w \in Workers : pc[w] # "done"
  BY DEF Init
<1> QED BY <1>1, <1>2, <1>3, <1>4 DEF OutInv, OutputIsFinal, OncePerMoment

(***************************************************************************)
(* An entry for a later time, or of another query, leaves LastChange.      *)
(***************************************************************************)
LEMMA AppendKeepsLastChange ==
  ASSUME NEW q \in QueryIds, NEW t \in Times, LastChange(q, t),
         out \in Seq(Entry), NEW e \in Entry, out' = Append(out, e),
         e.query = q => t < e.time, db' = db
  PROVE  LastChange(q, t)'
<1>1. /\ DOMAIN out = 1 .. Len(out) /\ Len(out) \in Nat
      /\ DOMAIN out' = 1 .. Len(out) + 1
      /\ \A i \in DOMAIN out : out'[i] = out[i]
      /\ out'[Len(out) + 1] = e
  OBVIOUS
<1>2. \A i \in DOMAIN out' : i = Len(out) + 1 \/ i \in DOMAIN out
  BY <1>1
<1>3. e.time \in Nat /\ t \in Nat
  BY Bounds DEF Entry, Times
<1>4. \A i \in DOMAIN out' : out'[i].query = q /\ out'[i].time <= t =>
        i \in DOMAIN out
  BY <1>1, <1>2, <1>3
<1>5. CASE /\ Value(db, q, t) = 0
           /\ \A i \in DOMAIN out : out[i].query = q => t < out[i].time
  BY <1>1, <1>2, <1>5 DEF LastChange
<1>6. CASE \E i \in DOMAIN out :
             /\ out[i].query = q
             /\ out[i].time <= t
             /\ Value(db, q, t) = Value(db, q, out[i].time)
             /\ \A j \in DOMAIN out : out[j].query = q /\ out[j].time <= t =>
                   out[j].time <= out[i].time
  <2>1. PICK i \in DOMAIN out :
             /\ out[i].query = q
             /\ out[i].time <= t
             /\ Value(db, q, t) = Value(db, q, out[i].time)
             /\ \A j \in DOMAIN out : out[j].query = q /\ out[j].time <= t =>
                   out[j].time <= out[i].time
    BY <1>6
  <2>2. i \in DOMAIN out' /\ out'[i] = out[i]
    BY <1>1
  <2>3. \A j \in DOMAIN out' : out'[j].query = q /\ out'[j].time <= t =>
                   out'[j].time <= out'[i].time
    BY <1>1, <1>4, <2>1, <2>2
  <2> QED BY <2>1, <2>2, <2>3 DEF LastChange
<1> QED BY <1>5, <1>6 DEF LastChange

(***************************************************************************)
(* Emit: the entry, or its absence, accounts for one more moment.          *)
(***************************************************************************)
LEMMA EmitPutsOut ==
  ASSUME FeedInv, OutInv, NEW q \in QueryIds, Emit(q)
  PROVE  OutInv'
<1> DEFINE t == upto[q]
           n == CountAt(q, t)
           e == [query |-> q, time |-> t, diff |-> n - shown[q]]
<1>1. t \in Times /\ t \in Nat /\ t + 1 \in 0 .. Closed
  BY Bounds DEF Emit, OutInv, OutType, Times
<1>2. n = Value(db, q, t) /\ n \in Nat
  BY <1>1, ArrivedIsAll, ValueIsNat DEF Emit, FeedInv, FeedType
<1>3. shown[q] = Before(db, q, t) /\ shown[q] \in Nat
  BY DEF OutInv, OutType
<1>4. /\ shown' = [shown EXCEPT ![q] = n]
      /\ upto' = [upto EXCEPT ![q] = t + 1]
      /\ out' = IF n = shown[q] THEN out ELSE Append(out, e)
      /\ UNCHANGED <<db, pc>>
  BY DEF Emit
<1>5. /\ upto \in [QueryIds -> 0 .. Closed] /\ shown \in [QueryIds -> Nat]
      /\ out \in Seq(Entry) /\ e \in Entry
  BY <1>1, <1>2, <1>3 DEF OutInv, OutType, Entry
<1>6. OutType'
  BY <1>1, <1>2, <1>4, <1>5 DEF OutType
<1>7. \A r \in QueryIds : shown'[r] = Before(db, r, upto'[r])
  <2>1. Before(db, q, t + 1) = Value(db, q, t)
    BY <1>1 DEF Before
  <2> QED BY <1>2, <1>4, <1>5, <2>1 DEF OutInv
<1>8. \A w \in Workers : pc'[w] = "done" =>
        \A r \in QueryIds : Owner[r] = w => upto'[r] = Closed
  <2>1. pc[Owner[q]] = "stepping"
    BY DEF Emit
  <2> QED BY <1>4, <1>5, <2>1 DEF OutInv
<1>9. \A r \in QueryIds : upto'[r] = IF r = q THEN t + 1 ELSE upto[r]
  BY <1>4, <1>5
<1>10. /\ DOMAIN out = 1 .. Len(out) /\ Len(out) \in Nat
       /\ \A i \in DOMAIN out : /\ out[i].query \in QueryIds
                                /\ out[i].time \in Nat
                                /\ out[i].time < upto[out[i].query]
  <2>1. \A i \in DOMAIN out : out[i] \in Entry
    BY <1>5
  <2>2. Times \subseteq Nat
    BY Bounds DEF Times
  <2>3. \A i \in DOMAIN out : out[i].query \in QueryIds /\ out[i].time \in Nat
    BY <2>1, <2>2 DEF Entry
  <2>4. \A i \in DOMAIN out : out[i].time < upto[out[i].query]
    BY DEF OutInv
  <2>5. DOMAIN out = 1 .. Len(out) /\ Len(out) \in Nat
    BY <1>5
  <2> QED BY <2>3, <2>4, <2>5
<1>11. CASE n = shown[q]
  <2>1. out' = out
    BY <1>4, <1>11
  <2>2. \A i \in DOMAIN out' : out'[i].time < upto'[out'[i].query]
    BY <1>1, <1>9, <1>10, <2>1
  <2>3. ASSUME NEW r \in QueryIds, NEW s \in Times, s < upto'[r]
        PROVE  LastChange(r, s)'
    <3>1. CASE s < upto[r]
      BY <1>4, <2>1, <3>1 DEF OutInv, LastChange
    <3>2. CASE ~(s < upto[r])
      <4>1. r = q /\ s = t
        BY <1>1, <1>9, <2>3, <3>2, Bounds DEF Times
      <4>2. LastChange(q, t)
        <5>1. CASE t = 0
          <6>1. Value(db, q, t) = 0
            BY <1>2, <1>3, <1>11, <5>1 DEF Before
          <6>2. \A i \in DOMAIN out : out[i].query # q
            BY <1>10, <5>1
          <6> QED BY <6>1, <6>2 DEF LastChange
        <5>2. CASE t # 0
          <6>1. t - 1 \in Times /\ t - 1 < t
            BY <1>1, <5>2, Bounds DEF Times
          <6>2. LastChange(q, t - 1)
            BY <6>1 DEF OutInv
          <6>3. Value(db, q, t) = Value(db, q, t - 1)
            BY <1>2, <1>3, <1>11, <5>2 DEF Before
          <6>4. \A i \in DOMAIN out : out[i].query = q =>
                  (out[i].time <= t - 1 /\ out[i].time <= t
                    /\ ~(t - 1 < out[i].time))
            BY <1>1, <1>10
          <6> QED BY <6>2, <6>3, <6>4 DEF LastChange
        <5> QED BY <5>1, <5>2
      <4> QED BY <1>4, <2>1, <4>1, <4>2 DEF LastChange
    <3> QED BY <3>1, <3>2
  <2>4. OutputIsFinal' /\ OncePerMoment'
    BY <1>4, <2>1 DEF OutInv, OutputIsFinal, OncePerMoment, Before, Value
  <2> QED BY <1>6, <1>7, <1>8, <2>2, <2>3, <2>4, <1>4 DEF OutInv
<1>12. CASE n # shown[q]
  <2>1. out' = Append(out, e)
    BY <1>4, <1>12
  <2>2. /\ DOMAIN out' = 1 .. Len(out) + 1
        /\ \A i \in DOMAIN out : out'[i] = out[i]
        /\ out'[Len(out) + 1] = e
        /\ Len(out) + 1 \in DOMAIN out'
        /\ \A i \in DOMAIN out' : i = Len(out) + 1 \/ i \in DOMAIN out
    BY <1>5, <1>10, <2>1
  <2>3. \A i \in DOMAIN out' : out'[i].time < upto'[out'[i].query]
    BY <1>1, <1>9, <1>10, <2>2
  <2>4. \A i \in DOMAIN out : ~(out[i].query = q /\ out[i].time = t)
    BY <1>1, <1>10
  <2>5. OncePerMoment'
    BY <2>2, <2>4 DEF OutInv, OncePerMoment
  <2>6. OutputIsFinal'
    <3>1. e.diff = Value(db, e.query, e.time) - Before(db, e.query, e.time)
      BY <1>2, <1>3
    <3>2. \A i \in DOMAIN out :
            out[i].diff = Value(db, out[i].query, out[i].time)
                            - Before(db, out[i].query, out[i].time)
      BY DEF OutInv, OutputIsFinal
    <3>3. \A i \in DOMAIN out' :
            out'[i].diff = Value(db, out'[i].query, out'[i].time)
                            - Before(db, out'[i].query, out'[i].time)
      BY <2>2, <3>1, <3>2
    <3> QED BY <1>4, <3>3 DEF OutputIsFinal
  <2>7. ASSUME NEW r \in QueryIds, NEW s \in Times, s < upto'[r]
        PROVE  LastChange(r, s)'
    <3>1. CASE s < upto[r]
      <4>1. LastChange(r, s)
        BY <3>1 DEF OutInv
      <4>2. e.query = r => s < e.time
        BY <3>1
      <4> QED BY <1>4, <1>5, <2>1, <4>1, <4>2, AppendKeepsLastChange
    <3>2. CASE ~(s < upto[r])
      <4>1. r = q /\ s = t
        BY <1>1, <1>9, <2>7, <3>2, Bounds DEF Times
      <4>2. \A j \in DOMAIN out' : out'[j].query = q => out'[j].time <= t
        BY <1>1, <1>10, <2>2
      <4> QED BY <1>1, <1>4, <2>2, <4>1, <4>2 DEF LastChange
    <3> QED BY <3>1, <3>2
  <2> QED BY <1>6, <1>7, <1>8, <2>3, <2>5, <2>6, <2>7, <1>4 DEF OutInv
<1> QED BY <1>11, <1>12

(***************************************************************************)
(* A stable sort permutes the entries and keeps every one of them, and     *)
(* what they say of the tallies does not depend on their order.            *)
(***************************************************************************)
LEMMA SortPermutes ==
  ASSUME OutType, Sort
  PROVE  /\ out' \in Seq(Entry)
         /\ DOMAIN out' = DOMAIN out
         /\ \A i, j \in DOMAIN out' : i < j => out'[i].time <= out'[j].time
         /\ \E p \in [DOMAIN out -> DOMAIN out] :
              /\ \A i \in DOMAIN out : out'[i] = out[p[i]]
              /\ \A j \in DOMAIN out : \E i \in DOMAIN out : p[i] = j
              /\ \A i, j \in DOMAIN out : p[i] = p[j] => i = j
<1>1. PICK p \in Permuted(DOMAIN out) :
        SortedBy(p) /\ out' = [i \in DOMAIN out |-> out[p[i]]]
  BY DEF Sort
<1>2. /\ p \in [DOMAIN out -> DOMAIN out]
      /\ \A j \in DOMAIN out : \E i \in DOMAIN out : p[i] = j
  BY <1>1 DEF Permuted
<1>3. DOMAIN out = 1 .. Len(out) /\ Len(out) \in Nat
  BY DEF OutType
<1>4. \A i \in DOMAIN out : out[p[i]] \in Entry /\ out[p[i]].time \in Nat
  <2>1. \A i \in DOMAIN out : out[i] \in Entry
    BY <1>3 DEF OutType
  <2>2. \A i \in DOMAIN out : out[i].time \in Nat
    BY <2>1, Bounds DEF Entry, Times
  <2> QED BY <1>2, <2>1, <2>2
<1>5. \A i, j \in DOMAIN out : i < j =>
        /\ out[p[i]].time <= out[p[j]].time
        /\ p[i] # p[j]
  <2> SUFFICES ASSUME NEW i \in DOMAIN out, NEW j \in DOMAIN out, i < j
               PROVE  out[p[i]].time <= out[p[j]].time /\ p[i] # p[j]
    OBVIOUS
  <2>1. \/ out[p[i]].time < out[p[j]].time
        \/ out[p[i]].time = out[p[j]].time /\ p[i] < p[j]
    BY <1>1 DEF SortedBy
  <2>2. /\ out[p[i]].time \in Nat /\ out[p[j]].time \in Nat
        /\ p[i] \in Nat /\ p[j] \in Nat
    <3>1. p[i] \in 1 .. Len(out) /\ p[j] \in 1 .. Len(out)
      BY <1>2, <1>3
    <3> QED BY <1>3, <1>4, <3>1
  <2> QED BY <2>1, <2>2
<1>6. \A i, j \in DOMAIN out : p[i] = p[j] => i = j
  BY <1>3, <1>5
<1>7. out' \in Seq(Entry) /\ DOMAIN out' = DOMAIN out
  BY <1>1, <1>3, <1>4
<1> QED BY <1>1, <1>2, <1>5, <1>6, <1>7

LEMMA SortKeepsOut ==
  ASSUME OutInv, Sort
  PROVE  OutInv'
<1>1. UNCHANGED <<db, pc, upto, shown>>
  BY DEF Sort
<1>2. OutType'
  BY <1>1, SortPermutes DEF OutInv, OutType
<1>3. PICK p \in [DOMAIN out -> DOMAIN out] :
              /\ \A i \in DOMAIN out : out'[i] = out[p[i]]
              /\ \A j \in DOMAIN out : \E i \in DOMAIN out : p[i] = j
              /\ \A i, j \in DOMAIN out : p[i] = p[j] => i = j
  BY SortPermutes DEF OutInv
<1>4. DOMAIN out' = DOMAIN out
  BY SortPermutes DEF OutInv
<1>5. OutputIsFinal'
  <2>1. \A i \in DOMAIN out' :
          out'[i].diff = Value(db, out'[i].query, out'[i].time)
                          - Before(db, out'[i].query, out'[i].time)
    BY <1>3, <1>4 DEF OutInv, OutputIsFinal
  <2> QED BY <1>1, <2>1 DEF OutputIsFinal
<1>6. OncePerMoment'
  BY <1>3, <1>4 DEF OutInv, OncePerMoment
<1>7. \A i \in DOMAIN out' : out'[i].time < upto'[out'[i].query]
  BY <1>1, <1>3, <1>4 DEF OutInv
<1>8. ASSUME NEW q \in QueryIds, NEW t \in Times, t < upto'[q]
      PROVE  LastChange(q, t)'
  <2>1. LastChange(q, t)
    BY <1>1, <1>8 DEF OutInv
  <2>2. CASE /\ Value(db, q, t) = 0
             /\ \A i \in DOMAIN out : out[i].query = q => t < out[i].time
    BY <1>1, <1>3, <1>4, <2>2 DEF LastChange
  <2>3. CASE \E i \in DOMAIN out :
               /\ out[i].query = q
               /\ out[i].time <= t
               /\ Value(db, q, t) = Value(db, q, out[i].time)
               /\ \A j \in DOMAIN out : out[j].query = q /\ out[j].time <= t =>
                     out[j].time <= out[i].time
    <3>1. PICK i \in DOMAIN out :
               /\ out[i].query = q
               /\ out[i].time <= t
               /\ Value(db, q, t) = Value(db, q, out[i].time)
               /\ \A j \in DOMAIN out : out[j].query = q /\ out[j].time <= t =>
                     out[j].time <= out[i].time
      BY <2>3
    <3>2. PICK k \in DOMAIN out : p[k] = i
      BY <1>3
    <3>3. k \in DOMAIN out' /\ out'[k] = out[i]
      BY <1>3, <1>4, <3>2
    <3>4. \A j \in DOMAIN out' : out'[j].query = q /\ out'[j].time <= t =>
                     out'[j].time <= out'[k].time
      BY <1>3, <1>4, <3>1, <3>3
    <3> QED BY <1>1, <3>1, <3>3, <3>4 DEF LastChange
  <2> QED BY <2>1, <2>2, <2>3 DEF LastChange
<1>9. \A q \in QueryIds : shown'[q] = Before(db', q, upto'[q])
  BY <1>1 DEF OutInv
<1>10. \A w \in Workers : pc'[w] = "done" =>
         \A q \in QueryIds : Owner[q] = w => upto'[q] = Closed
  BY <1>1 DEF OutInv
<1> QED BY <1>2, <1>5, <1>6, <1>7, <1>8, <1>9, <1>10 DEF OutInv

(***************************************************************************)
(* Every other step leaves the output; a worker is done only once its      *)
(* queries are through.                                                    *)
(***************************************************************************)
LEMMA OutStutters ==
  ASSUME OutInv, UNCHANGED <<db, upto, shown, out>>,
         \A w \in Workers : pc'[w] = "done" =>
            \A q \in QueryIds : Owner[q] = w => upto[q] = Closed
  PROVE  OutInv'
BY DEF OutInv, OutType, OutputIsFinal, OncePerMoment, LastChange, Before

LEMMA WorkerKeepsOut ==
  ASSUME FeedInv, OutInv, NEW w \in Workers, Worker(w)
  PROVE  OutInv'
<1>1. UNCHANGED <<db, upto, shown, out>>
  BY DEF Worker, Take, FeedQueries, FeedDependencies, FeedRelease,
         CloseReleases, StepsEnd, dataflow
<1>2. \A v \in Workers : v # w => pc'[v] = pc[v]
  BY DEF Worker, Take, FeedQueries, FeedDependencies, FeedRelease,
         CloseReleases, StepsEnd, Goto, FeedInv, FeedType
<1>3. pc'[w] = "done" => \A q \in QueryIds : Owner[q] = w => upto[q] = Closed
  BY DEF Worker, Take, FeedQueries, FeedDependencies, FeedRelease,
         CloseReleases, StepsEnd, Goto, FeedInv, FeedType
<1> QED BY <1>1, <1>2, <1>3, OutStutters DEF OutInv

LEMMA OutStep == FeedInv /\ OutInv /\ [Next]_vars => OutInv'
<1> SUFFICES ASSUME FeedInv, OutInv, [Next]_vars PROVE OutInv'
  OBVIOUS
<1>1. ASSUME NEW w \in Workers, Worker(w) PROVE OutInv'
  BY <1>1, WorkerKeepsOut
<1>2. ASSUME NEW q \in QueryIds, Emit(q) PROVE OutInv'
  BY <1>2, EmitPutsOut
<1>3. CASE Sort
  BY <1>3, SortKeepsOut
<1>4. CASE JoinWorkers \/ Fold \/ Finish
  BY <1>4, OutStutters DEF JoinWorkers, Fold, Finish, dataflow, OutInv
<1>5. CASE UNCHANGED vars
  BY <1>5, OutStutters DEF vars, dataflow, OutInv
<1> QED BY <1>1, <1>2, <1>3, <1>4, <1>5 DEF Next, Main

LEMMA OutInvariant == Spec => []OutInv
BY OutInit, OutStep, FeedInvariant, PTL DEF Spec

(***************************************************************************)
(* Nothing a worker of run puts out is wrong in hindsight.                 *)
(***************************************************************************)
THEOREM ResultsAreFinal == Spec => []OutputIsFinal
<1>1. OutInv => OutputIsFinal
  BY DEF OutInv
<1> QED BY <1>1, OutInvariant, PTL

-----------------------------------------------------------------------------
(***************************************************************************)
(* Third layer: folding.                                                   *)
(***************************************************************************)

\* The value of q is its tally at the last of its entries folded so far.
Folded(q) ==
  \/ /\ values[q] = 0
     /\ \A j \in 1 .. index - 1 : out[j].query # q
  \/ \E j \in 1 .. index - 1 :
       /\ out[j].query = q
       /\ values[q] = Value(db, q, out[j].time)
       /\ \A k \in 1 .. index - 1 : out[k].query = q =>
             out[k].time <= out[j].time

Waiting ==
  /\ index = 1
  /\ time = 0
  /\ values = [q \in QueryIds |-> 0]
  /\ matrix = << >>

Ascending == \A i, j \in DOMAIN out : i < j => out[i].time <= out[j].time

FoldType ==
  /\ main \in {"join", "sort", "fold", "done"}
  /\ index \in 1 .. Len(out) + 1
  /\ values \in [QueryIds -> Nat]
  /\ matrix \in Seq([time : Times, values : [QueryIds -> Nat]])

FoldInv ==
  /\ FoldType
  /\ main # "join" => \A w \in Workers : pc[w] = "done"
  /\ main \in {"join", "sort"} => Waiting
  /\ main \in {"fold", "done"} => Ascending
  /\ time = IF index = 1 THEN 0 ELSE out[index - 1].time
  /\ \A q \in QueryIds : Folded(q)
  /\ RowsAreTally

LEMMA OutFields ==
  ASSUME OutType
  PROVE  /\ DOMAIN out = 1 .. Len(out) /\ Len(out) \in Nat
         /\ \A i \in 1 .. Len(out) : /\ out[i] \in Entry
                                     /\ out[i].query \in QueryIds
                                     /\ out[i].time \in Times
                                     /\ out[i].time \in Nat
                                     /\ out[i].diff \in Int
<1>1. DOMAIN out = 1 .. Len(out) /\ Len(out) \in Nat
  BY DEF OutType
<1>2. \A i \in 1 .. Len(out) : out[i] \in Entry
  BY DEF OutType
<1>3. Times \subseteq Nat
  BY Bounds DEF Times
<1> QED BY <1>1, <1>2, <1>3 DEF Entry

(***************************************************************************)
(* Nothing moves once the main thread has joined the workers.              *)
(***************************************************************************)
LEMMA WaitingSuffices ==
  ASSUME OutType', main' \in {"join", "sort"}, Waiting, UNCHANGED fold,
         main' # "join" => \A w \in Workers : pc'[w] = "done"
  PROVE  FoldInv'
<1>1. /\ index' = 1 /\ time' = 0
      /\ values' = [q \in QueryIds |-> 0] /\ matrix' = << >>
  BY DEF Waiting, fold
<1>2. Len(out') \in Nat
  BY DEF OutType
<1>3. FoldType'
  BY <1>1, <1>2 DEF FoldType
<1>4. Waiting' /\ RowsAreTally'
  BY <1>1 DEF Waiting, RowsAreTally
<1>5. \A q \in QueryIds : Folded(q)'
  BY <1>1 DEF Folded
<1> QED BY <1>1, <1>3, <1>4, <1>5 DEF FoldInv

LEMMA FoldInit == Init => FoldInv
<1> SUFFICES ASSUME Init PROVE FoldInv
  OBVIOUS
<1>1. FoldType /\ Waiting /\ RowsAreTally
  BY DEF Init, FoldType, Waiting, RowsAreTally
<1>2. \A q \in QueryIds : Folded(q)
  BY DEF Init, Folded
<1> QED BY <1>1, <1>2 DEF Init, FoldInv

(***************************************************************************)
(* Once the workers are done, every query has been put out to the end.     *)
(***************************************************************************)
LEMMA AllOut ==
  ASSUME OutInv, FoldInv, main # "join", NEW q \in QueryIds, NEW t \in Times
  PROVE  LastChange(q, t)
<1>1. upto[q] = Closed
  BY RunAssumption DEF FoldInv, OutInv
<1> QED BY <1>1, Bounds DEF OutInv, Times

(***************************************************************************)
(* If what has been folded of q is what there is of q up to t, then the    *)
(* value of q is its tally at t.                                           *)
(***************************************************************************)
LEMMA FoldedUpTo ==
  ASSUME OutInv, FoldInv, main # "join", NEW q \in QueryIds, NEW t \in Times,
         \A j \in DOMAIN out : out[j].query = q =>
            (out[j].time <= t <=> j < index)
  PROVE  values[q] = Value(db, q, t)
<1>1. /\ DOMAIN out = 1 .. Len(out) /\ Len(out) \in Nat
      /\ \A i \in DOMAIN out : out[i].time \in Nat
  BY OutFields DEF OutInv
<1>2. index \in 1 .. Len(out) + 1 /\ index \in Nat
  BY <1>1 DEF FoldInv, FoldType
<1>3. \A j \in 1 .. index - 1 : j \in DOMAIN out /\ j < index
  BY <1>1, <1>2
<1>4. \A j \in DOMAIN out : out[j].query = q /\ out[j].time <= t =>
        j \in 1 .. index - 1
  BY <1>1, <1>2
<1>5. LastChange(q, t)
  BY AllOut
<1>6. Folded(q)
  BY DEF FoldInv
<1>7. t \in Nat
  BY Bounds DEF Times
<1>8. CASE /\ Value(db, q, t) = 0
           /\ \A i \in DOMAIN out : out[i].query = q => t < out[i].time
  <2>1. \A j \in 1 .. index - 1 : out[j].query # q
    BY <1>1, <1>3, <1>7, <1>8
  <2> QED BY <1>6, <1>8, <2>1 DEF Folded
<1>9. CASE \E i \in DOMAIN out :
             /\ out[i].query = q
             /\ out[i].time <= t
             /\ Value(db, q, t) = Value(db, q, out[i].time)
             /\ \A j \in DOMAIN out : out[j].query = q /\ out[j].time <= t =>
                   out[j].time <= out[i].time
  <2>1. PICK i \in DOMAIN out :
             /\ out[i].query = q
             /\ out[i].time <= t
             /\ Value(db, q, t) = Value(db, q, out[i].time)
             /\ \A j \in DOMAIN out : out[j].query = q /\ out[j].time <= t =>
                   out[j].time <= out[i].time
    BY <1>9
  <2>2. i \in 1 .. index - 1
    BY <1>4, <2>1
  <2>3. PICK j \in 1 .. index - 1 :
             /\ out[j].query = q
             /\ values[q] = Value(db, q, out[j].time)
             /\ \A k \in 1 .. index - 1 : out[k].query = q =>
                   out[k].time <= out[j].time
    BY <1>6, <2>1, <2>2 DEF Folded
  <2>4. out[i].time <= out[j].time /\ out[j].time <= out[i].time
    BY <1>3, <2>1, <2>2, <2>3
  <2>5. out[i].time = out[j].time
    BY <1>1, <1>3, <2>1, <2>3, <2>4
  <2> QED BY <2>1, <2>3, <2>5
<1> QED BY <1>5, <1>8, <1>9 DEF LastChange

(***************************************************************************)
(* A row pushed while the values are the tallies of the moment.            *)
(***************************************************************************)
LEMMA PushRow ==
  ASSUME FoldType, RowsAreTally, time \in Times,
         \A q \in QueryIds : values[q] = Value(db, q, time)
  PROVE  LET m == Append(matrix, Row(time, values))
         IN /\ m \in Seq([time : Times, values : [QueryIds -> Nat]])
            /\ \A i \in DOMAIN m :
                 m[i].values = [q \in QueryIds |-> Value(db, q, m[i].time)]
<1> DEFINE m == Append(matrix, Row(time, values))
<1>1. Row(time, values) \in [time : Times, values : [QueryIds -> Nat]]
  BY DEF Row, FoldType
<1>2. values = [q \in QueryIds |-> Value(db, q, time)]
  BY DEF FoldType
<1>3. m \in Seq([time : Times, values : [QueryIds -> Nat]])
  BY <1>1 DEF FoldType
<1>4. /\ DOMAIN matrix = 1 .. Len(matrix) /\ Len(matrix) \in Nat
      /\ DOMAIN m = 1 .. Len(matrix) + 1
      /\ \A i \in DOMAIN matrix : m[i] = matrix[i]
      /\ m[Len(matrix) + 1] = Row(time, values)
  BY <1>1 DEF FoldType
<1>5. \A i \in DOMAIN m : i \in DOMAIN matrix \/ i = Len(matrix) + 1
  BY <1>4
<1>6. \A i \in DOMAIN m :
        m[i].values = [q \in QueryIds |-> Value(db, q, m[i].time)]
  <2>1. \A i \in DOMAIN matrix :
          m[i].values = [q \in QueryIds |-> Value(db, q, m[i].time)]
    BY <1>4 DEF RowsAreTally
  <2>2. LET r == m[Len(matrix) + 1]
        IN r.values = [q \in QueryIds |-> Value(db, q, r.time)]
    BY <1>2, <1>4 DEF Row
  <2> QED BY <1>5, <2>1, <2>2
<1> QED BY <1>3, <1>6

(***************************************************************************)
(* Fold: the next entry takes its query from its tally before the moment   *)
(* of the entry to its tally at that moment, so never below zero.          *)
(***************************************************************************)
LEMMA FoldKeepsFold ==
  ASSUME FeedInv, OutInv, FoldInv, Fold
  PROVE  FoldInv'
<1> DEFINE e == out[index]
           q == e.query
           t == e.time
<1>1. /\ DOMAIN out = 1 .. Len(out) /\ Len(out) \in Nat
      /\ \A i \in DOMAIN out : /\ out[i].time \in Nat
                               /\ out[i].time \in Times
                               /\ out[i].query \in QueryIds
                               /\ out[i].diff \in Int
  BY OutFields DEF OutInv
<1>2. /\ main = "fold" /\ index \in DOMAIN out /\ index \in Nat
      /\ index \in 1 .. Len(out)
  BY <1>1 DEF Fold, FoldInv, FoldType
<1>3. q \in QueryIds /\ t \in Times /\ t \in Nat /\ e.diff \in Int
  BY <1>1, <1>2
<1>4. Ascending /\ \A w \in Workers : pc[w] = "done"
  BY <1>2 DEF FoldInv
<1>5. \A j \in DOMAIN out : /\ j < index => out[j].time <= t
                            /\ index <= j => t <= out[j].time
  BY <1>1, <1>2, <1>4 DEF Ascending
<1>6. \A j \in DOMAIN out : out[j].query = q /\ j # index => out[j].time # t
  BY <1>2 DEF OutInv, OncePerMoment
<1>7. \A j \in DOMAIN out : out[j].query = q => (j < index <=> out[j].time < t)
  BY <1>1, <1>2, <1>3, <1>5, <1>6
<1>8. values[q] = Before(db, q, t)
  <2>1. CASE t = 0
    <3>1. \A j \in 1 .. index - 1 : j \in DOMAIN out /\ j < index
      BY <1>1, <1>2
    <3>2. \A j \in 1 .. index - 1 : out[j].query # q
      BY <1>1, <1>7, <2>1, <3>1
    <3> QED BY <1>3, <2>1, <3>2 DEF FoldInv, Folded, Before
  <2>2. CASE t # 0
    <3>1. t - 1 \in Times
      BY <1>3, <2>2, Bounds DEF Times
    <3>2. \A j \in DOMAIN out : out[j].query = q =>
            (out[j].time <= t - 1 <=> j < index)
      BY <1>1, <1>3, <1>7
    <3>3. values[q] = Value(db, q, t - 1)
      BY <1>2, <1>3, <3>1, <3>2, FoldedUpTo
    <3> QED BY <2>2, <3>3 DEF Before
  <2> QED BY <2>1, <2>2
<1>9. /\ values[q] + e.diff = Value(db, q, t)
      /\ Value(db, q, t) \in Nat /\ values[q] \in Nat
      /\ values[q] + e.diff >= 0
  <2>1. e.diff = Value(db, q, t) - Before(db, q, t)
    BY <1>2 DEF OutInv, OutputIsFinal
  <2>2. Value(db, q, t) \in Nat /\ values[q] \in Nat
    BY <1>3, ValueIsNat DEF FeedInv, FeedType, FoldInv, FoldType
  <2> QED BY <1>3, <1>8, <2>1, <2>2
<1>10. /\ values' = [values EXCEPT ![q] = Value(db, q, t)]
       /\ main' = main /\ index' = index + 1
       /\ UNCHANGED <<db, pc, out, upto>>
       /\ time' = IF t > time THEN t ELSE time
       /\ matrix' = IF t > time /\ index > 1
                    THEN Append(matrix, Row(time, values)) ELSE matrix
  BY <1>9 DEF Fold, dataflow
<1>11. /\ time \in Times /\ time \in Nat /\ time <= t
       /\ index # 1 => time = out[index - 1].time /\ index - 1 \in DOMAIN out
  <2>1. CASE index = 1
    <3>1. time = 0
      BY <2>1 DEF FoldInv
    <3> QED BY <1>3, <2>1, <3>1, Bounds DEF Times
  <2>2. CASE index # 1
    <3>1. time = out[index - 1].time
      BY <2>2 DEF FoldInv
    <3>2. index - 1 \in DOMAIN out /\ index - 1 < index
      BY <1>1, <1>2, <2>2
    <3> QED BY <1>1, <1>5, <3>1, <3>2
  <2> QED BY <2>1, <2>2
<1>12. time' = t
  BY <1>3, <1>10, <1>11
<1>13. FoldType' /\ RowsAreTally'
  <2>1. main' \in {"join", "sort", "fold", "done"} /\ index' \in 1 .. Len(out') + 1
    BY <1>1, <1>2, <1>10
  <2>2. values' \in [QueryIds -> Nat]
    BY <1>9, <1>10 DEF FoldInv, FoldType
  <2>3. CASE t > time /\ index > 1
    <3>1. ASSUME NEW r \in QueryIds PROVE values[r] = Value(db, r, time)
      <4>1. ASSUME NEW j \in DOMAIN out, j < index PROVE out[j].time <= time
        <5>1. j = index - 1 \/ j < index - 1
          BY <1>1, <1>2, <4>1
        <5> QED BY <1>2, <1>4, <1>11, <2>3, <5>1 DEF Ascending
      <4>2. ASSUME NEW j \in DOMAIN out, ~(j < index)
            PROVE  ~(out[j].time <= time)
        BY <1>1, <1>2, <1>3, <1>5, <1>11, <2>3, <4>2
      <4> QED BY <1>2, <1>11, <4>1, <4>2, FoldedUpTo
    <3>2. matrix' = Append(matrix, Row(time, values))
      BY <1>10, <2>3
    <3>3. /\ matrix' \in Seq([time : Times, values : [QueryIds -> Nat]])
          /\ \A i \in DOMAIN matrix' :
               matrix'[i].values =
                 [r \in QueryIds |-> Value(db, r, matrix'[i].time)]
      BY <1>11, <3>1, <3>2, PushRow DEF FoldInv
    <3> QED BY <1>10, <2>1, <2>2, <3>3 DEF FoldType, RowsAreTally
  <2>4. CASE ~(t > time /\ index > 1)
    <3>1. matrix' = matrix /\ db' = db
      BY <1>10, <2>4
    <3> QED BY <2>1, <2>2, <3>1 DEF FoldInv, FoldType, RowsAreTally
  <2> QED BY <2>3, <2>4
<1>14. ASSUME NEW r \in QueryIds PROVE Folded(r)'
  <2>1. /\ index' - 1 = index /\ index \in 1 .. index' - 1
        /\ \A j \in 1 .. index - 1 : j \in 1 .. index' - 1
        /\ \A j \in 1 .. index' - 1 : j = index \/ j \in 1 .. index - 1
    BY <1>2, <1>10
  <2>2. CASE r = q
    <3>1. values'[r] = Value(db, r, t)
      BY <1>3, <1>10, <2>2 DEF FoldInv, FoldType
    <3>2. \A k \in 1 .. index' - 1 : out[k].time <= t
      BY <1>1, <1>2, <1>3, <1>5, <2>1
    <3> QED BY <1>10, <2>1, <2>2, <3>1, <3>2 DEF Folded
  <2>3. CASE r # q
    <3>1. values'[r] = values[r] /\ out[index].query # r
      BY <1>10, <2>3 DEF FoldInv, FoldType
    <3>2. Folded(r)
      BY DEF FoldInv
    <3>3. CASE /\ values[r] = 0
               /\ \A j \in 1 .. index - 1 : out[j].query # r
      BY <1>10, <2>1, <3>1, <3>3 DEF Folded
    <3>4. CASE \E j \in 1 .. index - 1 :
                 /\ out[j].query = r
                 /\ values[r] = Value(db, r, out[j].time)
                 /\ \A k \in 1 .. index - 1 : out[k].query = r =>
                       out[k].time <= out[j].time
      BY <1>10, <2>1, <3>1, <3>4 DEF Folded
    <3> QED BY <3>2, <3>3, <3>4 DEF Folded
  <2> QED BY <2>2, <2>3
<1>15. time' = IF index' = 1 THEN 0 ELSE out'[index' - 1].time
  BY <1>2, <1>10, <1>12
<1>16. /\ main' # "join" => \A w \in Workers : pc'[w] = "done"
       /\ main' \notin {"join", "sort"}
       /\ Ascending'
  BY <1>2, <1>4, <1>10 DEF Ascending
<1> QED BY <1>13, <1>14, <1>15, <1>16 DEF FoldInv

(***************************************************************************)
(* Finish: all there is has been folded, so the values are the tallies of  *)
(* the last moment.                                                        *)
(***************************************************************************)
LEMMA FinishKeepsFold ==
  ASSUME OutInv, FoldInv, Finish
  PROVE  FoldInv'
<1>1. /\ DOMAIN out = 1 .. Len(out) /\ Len(out) \in Nat
      /\ \A i \in DOMAIN out : out[i].time \in Nat /\ out[i].time \in Times
  BY OutFields DEF OutInv
<1>2. main = "fold" /\ index = Len(out) + 1
  BY <1>1 DEF Finish, FoldInv, FoldType
<1>3. /\ main' = "done"
      /\ UNCHANGED <<db, pc, out, upto, index, time, values>>
      /\ matrix' = matrix \/ matrix' = Append(matrix, Row(time, values))
  BY DEF Finish, dataflow
<1>4. Ascending /\ \A w \in Workers : pc[w] = "done"
  BY <1>2 DEF FoldInv
<1>5. time \in Times /\ \A j \in DOMAIN out : out[j].time <= time
  <2>1. CASE Len(out) = 0
    <3>1. time = 0
      BY <1>2, <2>1 DEF FoldInv
    <3> QED BY <1>1, <2>1, <3>1, Bounds DEF Times
  <2>2. CASE Len(out) # 0
    <3>1. time = out[Len(out)].time /\ Len(out) \in DOMAIN out
      BY <1>1, <1>2, <2>2 DEF FoldInv
    <3>2. \A j \in DOMAIN out : j < Len(out) \/ j = Len(out)
      BY <1>1
    <3> QED BY <1>1, <1>4, <3>1, <3>2 DEF Ascending
  <2> QED BY <2>1, <2>2
<1>6. \A q \in QueryIds : values[q] = Value(db, q, time)
  <2>1. \A j \in DOMAIN out : j < index
    BY <1>1, <1>2
  <2> QED BY <1>2, <1>5, <2>1, FoldedUpTo
<1>7. FoldType' /\ RowsAreTally'
  <2>1. CASE matrix' = matrix
    BY <1>3, <2>1 DEF FoldInv, FoldType, RowsAreTally
  <2>2. CASE matrix' = Append(matrix, Row(time, values))
    <3>1. /\ matrix' \in Seq([time : Times, values : [QueryIds -> Nat]])
          /\ \A i \in DOMAIN matrix' :
               matrix'[i].values =
                 [q \in QueryIds |-> Value(db, q, matrix'[i].time)]
      BY <1>5, <1>6, <2>2, PushRow DEF FoldInv
    <3> QED BY <1>3, <3>1 DEF FoldInv, FoldType, RowsAreTally
  <2> QED BY <1>3, <2>1, <2>2
<1>8. \A q \in QueryIds : Folded(q)'
  BY <1>3 DEF FoldInv, Folded
<1>9. time' = IF index' = 1 THEN 0 ELSE out'[index' - 1].time
  BY <1>3 DEF FoldInv
<1>10. Ascending' /\ \A w \in Workers : pc'[w] = "done"
  BY <1>3, <1>4 DEF Ascending
<1> QED BY <1>3, <1>7, <1>8, <1>9, <1>10 DEF FoldInv

LEMMA SortKeepsFold ==
  ASSUME OutInv, FoldInv, Sort
  PROVE  FoldInv'
<1>1. /\ main' = "fold" /\ UNCHANGED <<db, pc, index, time, values, matrix>>
      /\ main = "sort"
  BY DEF Sort, fold
<1>2. /\ index' = 1 /\ time' = 0
      /\ values' = [q \in QueryIds |-> 0] /\ matrix' = << >>
  BY <1>1 DEF FoldInv, Waiting
<1>3. out' \in Seq(Entry) /\ Ascending'
  BY SortPermutes DEF OutInv, Ascending
<1>4. FoldType'
  BY <1>1, <1>2, <1>3 DEF FoldType
<1>5. RowsAreTally' /\ \A q \in QueryIds : Folded(q)'
  BY <1>2 DEF RowsAreTally, Folded
<1>6. \A w \in Workers : pc'[w] = "done"
  BY <1>1 DEF FoldInv
<1> QED BY <1>1, <1>2, <1>3, <1>4, <1>5, <1>6 DEF FoldInv

(***************************************************************************)
(* Everything else happens before the fold begins.                         *)
(***************************************************************************)
LEMMA WorkersKeepFold ==
  ASSUME OutInv', FoldInv,
         NEW w \in Workers, pc[w] # "done",
         UNCHANGED <<main, fold>>
  PROVE  FoldInv'
<1>1. main = "join" /\ Waiting
  BY DEF FoldInv
<1> QED BY <1>1, WaitingSuffices DEF OutInv

LEMMA FoldStutters ==
  ASSUME FoldInv, UNCHANGED vars
  PROVE  FoldInv'
BY DEF FoldInv, FoldType, Waiting, Ascending, Folded, RowsAreTally, vars,
       dataflow, fold

LEMMA FoldStep == FeedInv /\ OutInv /\ FoldInv /\ [Next]_vars => FoldInv'
<1> SUFFICES ASSUME FeedInv, OutInv, FoldInv, [Next]_vars PROVE FoldInv'
  OBVIOUS
<1>1. OutInv'
  BY OutStep
<1>2. ASSUME NEW w \in Workers, Worker(w) PROVE FoldInv'
  <2>1. pc[w] # "done" /\ UNCHANGED <<main, fold>>
    BY <1>2 DEF Worker, Take, FeedQueries, FeedDependencies, FeedRelease,
                CloseReleases, StepsEnd, Goto
  <2> QED BY <1>1, <2>1, WorkersKeepFold
<1>3. ASSUME NEW q \in QueryIds, Emit(q) PROVE FoldInv'
  <2>1. /\ Owner[q] \in Workers /\ pc[Owner[q]] # "done"
        /\ UNCHANGED <<main, fold>>
    BY <1>3, RunAssumption DEF Emit
  <2> QED BY <1>1, <2>1, WorkersKeepFold
<1>4. CASE JoinWorkers
  <2>1. /\ Waiting /\ main' = "sort" /\ UNCHANGED fold
        /\ \A w \in Workers : pc'[w] = "done"
    BY <1>4 DEF JoinWorkers, FoldInv
  <2> QED BY <1>1, <2>1, WaitingSuffices DEF OutInv
<1>5. CASE Sort
  BY <1>5, SortKeepsFold
<1>6. CASE Fold
  BY <1>6, FoldKeepsFold
<1>7. CASE Finish
  BY <1>7, FinishKeepsFold
<1>8. CASE UNCHANGED vars
  BY <1>8, FoldStutters
<1> QED BY <1>2, <1>3, <1>4, <1>5, <1>6, <1>7, <1>8 DEF Next, Main

LEMMA FoldInvariant == Spec => []FoldInv
BY FoldInit, FoldStep, FeedInvariant, OutInvariant, PTL DEF Spec

-----------------------------------------------------------------------------
(***************************************************************************)
(* Every variable of Run keeps its type.                                   *)
(***************************************************************************)
THEOREM TypeCorrect == Spec => []TypeOK
<1>1. FeedInv /\ OutInv /\ FoldInv => TypeOK
  <2> SUFFICES ASSUME FeedInv, OutInv, FoldInv PROVE TypeOK
    OBVIOUS
  <2>1. DOMAIN out = 1 .. Len(out) /\ Len(out) \in Nat
    BY OutFields DEF OutInv
  <2>2. index \in Nat \ {0}
    BY <2>1 DEF FoldInv, FoldType
  <2>3. time \in Times
    <3>1. CASE index = 1
      <4>1. time = 0
        BY <3>1 DEF FoldInv
      <4> QED BY <4>1, Bounds DEF Times
    <3>2. CASE index # 1
      <4>1. index - 1 \in 1 .. Len(out) /\ time = out[index - 1].time
        BY <2>1, <3>2 DEF FoldInv, FoldType
      <4> QED BY <4>1, OutFields DEF OutInv
    <3> QED BY <3>1, <3>2
  <2>4. main \in {"join", "sort", "fold", "done", "panicked"}
    BY DEF FoldInv, FoldType
  <2> QED BY <2>2, <2>3, <2>4
          DEF TypeOK, FeedInv, FeedType, OutInv, OutType, FoldInv, FoldType
<1> QED BY <1>1, FeedInvariant, OutInvariant, FoldInvariant, PTL

(***************************************************************************)
(* No worker is asked to advance a session back in time, and the fold      *)
(* never finds a tally below zero.                                         *)
(***************************************************************************)
THEOREM RunNeverPanics == Spec => []NoPanic
<1>1. FeedInv /\ FoldInv => NoPanic
  BY DEF FeedInv, Fed, FoldInv, FoldType, NoPanic
<1> QED BY <1>1, FeedInvariant, FoldInvariant, PTL

(***************************************************************************)
(* Every row of the matrix holds the tallies of its moment.                *)
(***************************************************************************)
THEOREM RowsAreExact == Spec => []RowsAreTally
<1>1. FoldInv => RowsAreTally
  BY DEF FoldInv
<1> QED BY <1>1, FoldInvariant, PTL

-----------------------------------------------------------------------------
(***************************************************************************)
(* Fourth layer: the rows.  No entry is empty, and each moment at which    *)
(* something has been folded, but the one at hand, has its row.            *)
(***************************************************************************)
MomentsBefore(i) == { out[j].time : j \in 1 .. i - 1 }

RowsSoFar ==
  /\ { matrix[i].time : i \in DOMAIN matrix } = MomentsBefore(index) \ {time}
  /\ \A i, j \in DOMAIN matrix : i < j => matrix[i].time < matrix[j].time

GraphInv ==
  /\ \A i \in DOMAIN out : out[i].diff # 0
  /\ main # "done" => RowsSoFar
  /\ main = "done" => Graph!IsGraphOf(db, matrix)

(***************************************************************************)
(* Between two entries of a query its tally stays what it is, and before   *)
(* the first it is zero.                                                   *)
(***************************************************************************)
LEMMA StaysBetween ==
  ASSUME OutInv, NEW q \in QueryIds, NEW s \in Times, NEW t \in Times,
         s <= t, t < upto[q],
         \A i \in DOMAIN out : out[i].query = q /\ out[i].time <= t =>
            out[i].time <= s
  PROVE  Value(db, q, s) = Value(db, q, t)
<1>1. /\ DOMAIN out = 1 .. Len(out)
      /\ \A i \in DOMAIN out : out[i].time \in Nat
      /\ s \in Nat /\ t \in Nat /\ upto[q] \in Nat
  BY OutFields, Bounds DEF OutInv, OutType, Times
<1>2. LastChange(q, s) /\ LastChange(q, t)
  BY <1>1 DEF OutInv
<1>3. \A i \in DOMAIN out : out[i].time <= s => out[i].time <= t
  BY <1>1
<1>4. CASE \A i \in DOMAIN out : out[i].query = q => t < out[i].time
  <2>1. \A i \in DOMAIN out : out[i].query = q => s < out[i].time
    BY <1>1, <1>4
  <2>2. \A i \in DOMAIN out : out[i].query = q => ~(out[i].time <= s) /\ ~(out[i].time <= t)
    BY <1>1, <1>4, <2>1
  <2> QED BY <1>2, <2>2 DEF LastChange
<1>5. CASE ~\A i \in DOMAIN out : out[i].query = q => t < out[i].time
  <2>1. PICK k \in DOMAIN out : out[k].query = q /\ out[k].time <= t
    BY <1>1, <1>5
  <2>2. out[k].time <= s
    BY <2>1
  <2>3. PICK i \in DOMAIN out :
          /\ out[i].query = q
          /\ out[i].time <= t
          /\ Value(db, q, t) = Value(db, q, out[i].time)
          /\ \A j \in DOMAIN out : out[j].query = q /\ out[j].time <= t =>
                out[j].time <= out[i].time
    BY <1>1, <1>2, <2>1 DEF LastChange
  <2>4. PICK j \in DOMAIN out :
          /\ out[j].query = q
          /\ out[j].time <= s
          /\ Value(db, q, s) = Value(db, q, out[j].time)
          /\ \A l \in DOMAIN out : out[l].query = q /\ out[l].time <= s =>
                out[l].time <= out[j].time
    BY <1>1, <1>2, <2>1, <2>2 DEF LastChange
  <2>5. out[i].time <= s /\ out[j].time <= t
    BY <1>3, <2>3, <2>4
  <2>6. out[i].time <= out[j].time /\ out[j].time <= out[i].time
    BY <2>3, <2>4, <2>5
  <2>7. out[i].time = out[j].time
    BY <1>1, <2>6
  <2> QED BY <2>3, <2>4, <2>7
<1> QED BY <1>4, <1>5

LEMMA ZeroBefore ==
  ASSUME OutInv, NEW q \in QueryIds, NEW t \in Times, t < upto[q],
         \A i \in DOMAIN out : out[i].query = q => ~(out[i].time <= t)
  PROVE  Value(db, q, t) = 0
<1>1. LastChange(q, t)
  BY DEF OutInv
<1> QED BY <1>1 DEF LastChange

(***************************************************************************)
(* Once everything is out, the moments of the entries are the moments of   *)
(* the graph.                                                              *)
(***************************************************************************)
LEMMA EntriesAreChanges ==
  ASSUME OutInv, \A i \in DOMAIN out : out[i].diff # 0,
         \A q \in QueryIds : upto[q] = Closed, db \in Dbs
  PROVE  Graph!Changes(db) = { out[i].time : i \in DOMAIN out }
<1>1. /\ \A i \in DOMAIN out : /\ out[i].time \in Nat
                               /\ out[i].time \in Times
                               /\ out[i].query \in QueryIds
      /\ Times = 0 .. MaxTime /\ MaxTime \in Nat /\ Closed = MaxTime + 1
  BY OutFields, Bounds DEF OutInv, Times
<1>2. ASSUME NEW i \in DOMAIN out
      PROVE  out[i].time \in Graph!Changes(db)
  <2> DEFINE q == out[i].query
             t == out[i].time
  <2>1. q \in QueryIds /\ t \in 0 .. MaxTime /\ t \in Nat
    BY <1>1
  <2>2. Value(db, q, t) \in Nat /\ Before(db, q, t) \in Nat
    <3>1. t # 0 => t - 1 \in Times
      BY <1>1, <2>1
    <3> QED BY <1>1, <2>1, <3>1, ValueIsNat DEF Before
  <2>3. Value(db, q, t) # Before(db, q, t)
    BY <2>2 DEF OutInv, OutputIsFinal
  <2>4. /\ Graph!Values(db, t)[q] = Value(db, q, t)
        /\ Graph!Values(db, t - 1)[q] = Before(db, q, t)
    BY <2>1 DEF Graph!Values, Before
  <2>5. Graph!Values(db, t) # Graph!Values(db, t - 1)
    BY <2>3, <2>4
  <2> QED BY <2>1, <2>5 DEF Graph!Changes
<1>3. ASSUME NEW t \in Graph!Changes(db)
      PROVE  \E i \in DOMAIN out : out[i].time = t
  <2>1. t \in 0 .. MaxTime /\ Graph!Values(db, t) # Graph!Values(db, t - 1)
    BY DEF Graph!Changes
  <2>2. PICK q \in QueryIds : Value(db, q, t) # Before(db, q, t)
    <3> SUFFICES ASSUME \A q \in QueryIds : Value(db, q, t) = Before(db, q, t)
                 PROVE  FALSE
      OBVIOUS
    <3> QED BY <2>1 DEF Graph!Values, Before
  <2>3. t \in Times /\ t \in Nat /\ t < upto[q]
    BY <1>1, <2>1
  <2> SUFFICES ASSUME \A i \in DOMAIN out : out[i].time # t PROVE FALSE
    OBVIOUS
  <2>4. CASE t = 0
    <3>1. \A i \in DOMAIN out : ~(out[i].time <= t)
      BY <1>1, <2>4
    <3> QED BY <2>2, <2>3, <2>4, <3>1, ZeroBefore DEF Before
  <2>5. CASE t # 0
    <3>1. t - 1 \in Times /\ t - 1 <= t
      BY <1>1, <2>1, <2>5
    <3>2. \A i \in DOMAIN out : out[i].time <= t => out[i].time <= t - 1
      BY <1>1, <2>3
    <3>3. Value(db, q, t - 1) = Value(db, q, t)
      BY <2>3, <3>1, <3>2, StaysBetween
    <3> QED BY <2>2, <2>5, <3>3 DEF Before
  <2> QED BY <2>4, <2>5
<1> QED BY <1>2, <1>3

(***************************************************************************)
(* What has been folded lies before the moment at hand or is it.           *)
(***************************************************************************)
LEMMA MomentsAscend ==
  ASSUME OutInv, FoldInv, main # "join", main # "sort"
  PROVE  /\ \A t \in MomentsBefore(index) : t \in Nat /\ t <= time
         /\ index # 1 => time \in MomentsBefore(index)
         /\ index = 1 => MomentsBefore(index) = {}
         /\ time \in Nat /\ time \in Times
         /\ DOMAIN matrix = 1 .. Len(matrix) /\ Len(matrix) \in Nat
<1>1. /\ DOMAIN out = 1 .. Len(out) /\ Len(out) \in Nat
      /\ \A i \in DOMAIN out : out[i].time \in Nat /\ out[i].time \in Times
  BY OutFields DEF OutInv
<1>2. /\ index \in 1 .. Len(out) + 1 /\ Ascending
      /\ time = IF index = 1 THEN 0 ELSE out[index - 1].time
      /\ matrix \in Seq([time : Times, values : [QueryIds -> Nat]])
  BY DEF FoldInv, FoldType
<1>3. CASE index = 1
  <2>1. MomentsBefore(index) = {}
    BY <1>3 DEF MomentsBefore
  <2> QED BY <1>2, <1>3, <2>1, Bounds DEF Times
<1>4. CASE index # 1
  <2>1. index - 1 \in 1 .. index - 1 /\ index - 1 \in DOMAIN out
    BY <1>1, <1>2, <1>4
  <2>2. \A j \in 1 .. index - 1 : j \in DOMAIN out /\ (j = index - 1 \/ j < index - 1)
    BY <1>1, <1>2, <1>4
  <2>3. \A j \in 1 .. index - 1 : out[j].time <= out[index - 1].time
    BY <1>1, <1>2, <2>1, <2>2 DEF Ascending
  <2> QED BY <1>1, <1>2, <1>4, <2>1, <2>2, <2>3 DEF MomentsBefore
<1> QED BY <1>3, <1>4, <1>2

(***************************************************************************)
(* A row for the moment at hand comes after all others.                    *)
(***************************************************************************)
LEMMA PushedLast ==
  ASSUME OutInv, FoldInv, main # "join", main # "sort", RowsSoFar, index # 1
  PROVE  LET m == Append(matrix, Row(time, values))
         IN /\ { m[i].time : i \in DOMAIN m } = MomentsBefore(index)
            /\ \A i, j \in DOMAIN m : i < j => m[i].time < m[j].time
<1> DEFINE m == Append(matrix, Row(time, values))
<1>1. /\ \A t \in MomentsBefore(index) : t \in Nat /\ t <= time
      /\ time \in MomentsBefore(index) /\ time \in Nat
      /\ DOMAIN matrix = 1 .. Len(matrix) /\ Len(matrix) \in Nat
  BY MomentsAscend
<1>2. /\ DOMAIN m = 1 .. Len(matrix) + 1
      /\ \A i \in DOMAIN matrix : m[i] = matrix[i]
      /\ m[Len(matrix) + 1].time = time
  <2>1. matrix \in Seq([time : Times, values : [QueryIds -> Nat]])
    BY DEF FoldInv, FoldType
  <2>2. Row(time, values) \in [time : Times, values : [QueryIds -> Nat]]
    BY MomentsAscend DEF FoldInv, FoldType, Row
  <2>3. Row(time, values).time = time
    BY DEF Row
  <2> QED BY <1>1, <2>1, <2>2, <2>3
<1> HIDE DEF m
<1>3. \A i \in DOMAIN m : i \in DOMAIN matrix \/ i = Len(matrix) + 1
  BY <1>1, <1>2
<1>4. \A i \in DOMAIN matrix : /\ matrix[i].time \in MomentsBefore(index)
                               /\ matrix[i].time # time
  BY DEF RowsSoFar
<1>5. { m[i].time : i \in DOMAIN m } = MomentsBefore(index)
  <2>1. \A i \in DOMAIN m : m[i].time \in MomentsBefore(index)
    BY <1>1, <1>2, <1>3, <1>4
  <2>2. ASSUME NEW t \in MomentsBefore(index) PROVE \E i \in DOMAIN m : m[i].time = t
    <3>1. CASE t = time
      BY <1>1, <1>2, <3>1
    <3>2. CASE t # time
      <4>1. PICK i \in DOMAIN matrix : matrix[i].time = t
        BY <3>2 DEF RowsSoFar
      <4> QED BY <1>1, <1>2, <4>1
    <3> QED BY <3>1, <3>2
  <2> QED BY <2>1, <2>2
<1>6. \A i, j \in DOMAIN m : i < j => m[i].time < m[j].time
  <2> SUFFICES ASSUME NEW i \in DOMAIN m, NEW j \in DOMAIN m, i < j
               PROVE  m[i].time < m[j].time
    OBVIOUS
  <2>1. i \in DOMAIN matrix
    BY <1>1, <1>2
  <2>2. CASE j \in DOMAIN matrix
    BY <1>2, <2>1, <2>2 DEF RowsSoFar
  <2>3. CASE j = Len(matrix) + 1
    <3>1. matrix[i].time \in Nat /\ matrix[i].time <= time /\ matrix[i].time # time
      BY <1>1, <1>4, <2>1
    <3> QED BY <1>1, <1>2, <2>1, <2>3, <3>1
  <2> QED BY <1>3, <2>2, <2>3
<1> QED BY <1>5, <1>6 DEF m

LEMMA FoldKeepsRows ==
  ASSUME FeedInv, OutInv, FoldInv, FoldInv', GraphInv, Fold
  PROVE  GraphInv'
<1> DEFINE t == out[index].time
<1>1. /\ main = "fold" /\ main' = "fold" /\ index' = index + 1 /\ UNCHANGED <<db, out>>
      /\ matrix' = IF t > time /\ index > 1
                   THEN Append(matrix, Row(time, values)) ELSE matrix
  BY DEF Fold, FoldInv, FoldType, dataflow
<1>2. index \in Nat \ {0} /\ index <= Len(out)
  BY OutFields DEF OutInv, FoldInv, FoldType, Fold
<1>3. time' = t
  BY <1>1, <1>2 DEF FoldInv
<1>4. t \in Nat /\ time \in Nat /\ time <= t
  <2>1. /\ DOMAIN out = 1 .. Len(out) /\ Len(out) \in Nat
        /\ \A i \in DOMAIN out : out[i].time \in Nat
    BY OutFields DEF OutInv
  <2>2. CASE index = 1
    BY <1>2, <2>1, <2>2 DEF FoldInv
  <2>3. CASE index # 1
    <3>1. index - 1 \in DOMAIN out /\ index \in DOMAIN out /\ index - 1 < index
      BY <1>2, <2>1, <2>3
    <3> QED BY <1>1, <2>1, <2>3, <3>1 DEF FoldInv, Ascending
  <2> QED BY <2>2, <2>3
<1>5. MomentsBefore(index)' = MomentsBefore(index) \cup {t}
  <2>1. \A j : j \in 1 .. index' - 1 <=> j \in 1 .. index - 1 \/ j = index
    BY <1>1, <1>2
  <2> QED BY <1>1, <2>1 DEF MomentsBefore
<1>6. RowsSoFar /\ \A i \in DOMAIN out : out[i].diff # 0
  BY <1>1 DEF GraphInv
<1>7. /\ \A s \in MomentsBefore(index) : s \in Nat /\ s <= time
      /\ index # 1 => time \in MomentsBefore(index)
      /\ index = 1 => MomentsBefore(index) = {}
  BY <1>1, MomentsAscend
<1>8. RowsSoFar'
  <2>1. CASE t > time /\ index > 1
    <3>1. matrix' = Append(matrix, Row(time, values))
      BY <1>1, <2>1
    <3>2. /\ { matrix'[i].time : i \in DOMAIN matrix' } = MomentsBefore(index)
          /\ \A i, j \in DOMAIN matrix' : i < j => matrix'[i].time < matrix'[j].time
      BY <1>1, <1>2, <1>6, <2>1, <3>1, PushedLast
    <3>3. t \notin MomentsBefore(index)
      BY <1>4, <1>7, <2>1
    <3> QED BY <1>3, <1>5, <3>2, <3>3 DEF RowsSoFar
  <2>2. CASE ~(t > time /\ index > 1)
    <3>1. matrix' = matrix
      BY <1>1, <2>2
    <3>2. index = 1 \/ t = time
      BY <1>2, <1>4, <2>2
    <3>3. MomentsBefore(index)' \ {t} = MomentsBefore(index) \ {time}
      BY <1>5, <1>7, <3>2
    <3> QED BY <1>3, <1>6, <3>1, <3>3 DEF RowsSoFar
  <2> QED BY <2>1, <2>2
<1> QED BY <1>1, <1>6, <1>8 DEF GraphInv

(***************************************************************************)
(* Finish: if anything has been folded the values differ from those of the *)
(* last row, so the moment at hand gets its row.                           *)
(***************************************************************************)
LEMMA LastMomentDiffers ==
  ASSUME FeedInv, OutInv, FoldInv, GraphInv, Finish, index # 1
  PROVE  matrix' = Append(matrix, Row(time, values))
<1> DEFINE T == time
<1>1. /\ DOMAIN out = 1 .. Len(out) /\ Len(out) \in Nat
      /\ \A i \in DOMAIN out : /\ out[i].time \in Nat /\ out[i].time \in Times
                               /\ out[i].query \in QueryIds
  BY OutFields DEF OutInv
<1>2. /\ main = "fold" /\ index = Len(out) + 1 /\ RowsSoFar
      /\ \A i \in DOMAIN out : out[i].diff # 0
  BY <1>1 DEF Finish, FoldInv, FoldType, GraphInv
<1>3. \A q \in QueryIds : upto[q] = Closed
  BY <1>2, RunAssumption DEF FoldInv, OutInv
<1>4. /\ \A s \in MomentsBefore(index) : s \in Nat /\ s <= T
      /\ T \in MomentsBefore(index) /\ T \in Nat /\ T \in Times
      /\ DOMAIN matrix = 1 .. Len(matrix) /\ Len(matrix) \in Nat
  BY <1>2, MomentsAscend
<1>5. MomentsBefore(index) = { out[i].time : i \in DOMAIN out }
  BY <1>1, <1>2 DEF MomentsBefore
<1>6. PICK i \in DOMAIN out : out[i].time = T
  BY <1>4, <1>5
<1> DEFINE q == out[i].query
<1>7. q \in QueryIds /\ T < upto[q] /\ \A s \in Times : s < upto[q]
  BY <1>1, <1>3, <1>4, Bounds DEF Times
<1>8. Value(db, q, T) # Before(db, q, T)
  <2>1. T # 0 => T - 1 \in Times
    BY <1>4, Bounds DEF Times
  <2>2. Value(db, q, T) \in Nat /\ Before(db, q, T) \in Nat
    BY <1>4, <1>7, <2>1, ValueIsNat DEF Before, FeedInv, FeedType
  <2> QED BY <1>2, <1>6, <2>2 DEF OutInv, OutputIsFinal
<1>9. values[q] = Value(db, q, T)
  <2>1. \A j \in DOMAIN out : out[j].time <= T /\ j < index
    BY <1>1, <1>2, <1>4, <1>5
  <2> QED BY <1>2, <1>4, <1>7, <2>1, FoldedUpTo
<1>10. CASE matrix = << >>
  <2>1. \A s \in MomentsBefore(index) : s = T
    <3>1. DOMAIN matrix = {}
      BY <1>10
    <3> QED BY <1>2, <3>1 DEF RowsSoFar
  <2>2. Before(db, q, T) = 0
    <3>1. CASE T = 0
      BY <3>1 DEF Before
    <3>2. CASE T # 0
      <4>1. T - 1 \in Times
        BY <1>4, <3>2, Bounds DEF Times
      <4>2. \A j \in DOMAIN out : out[j].time = T
        BY <1>5, <2>1
      <4>3. \A j \in DOMAIN out : ~(out[j].time <= T - 1)
        BY <1>4, <4>2
      <4> QED BY <1>7, <3>2, <4>1, <4>3, ZeroBefore DEF Before
    <3> QED BY <3>1, <3>2
  <2> QED BY <1>7, <1>8, <1>9, <1>10, <2>2 DEF Finish
<1>11. CASE matrix # << >>
  <2> DEFINE last == matrix[Len(matrix)]
             S == last.time
  <2>1. Len(matrix) \in DOMAIN matrix
    <3>1. matrix \in Seq([time : Times, values : [QueryIds -> Nat]])
      BY DEF FoldInv, FoldType
    <3> QED BY <1>4, <1>11, <3>1
  <2>2. S \in MomentsBefore(index) /\ S # T
    BY <1>2, <2>1 DEF RowsSoFar
  <2>3. S \in Times /\ S \in Nat /\ S < T
    BY <1>1, <1>4, <1>5, <2>2
  <2>4. \A s \in MomentsBefore(index) : s < T => s <= S
    <3> SUFFICES ASSUME NEW s \in MomentsBefore(index), s < T PROVE s <= S
      OBVIOUS
    <3>1. s # T
      BY <1>4
    <3>2. PICK k \in DOMAIN matrix : matrix[k].time = s
      BY <1>2, <3>1 DEF RowsSoFar
    <3>3. k = Len(matrix) \/ k < Len(matrix)
      BY <1>4
    <3> QED BY <1>2, <1>4, <2>1, <2>3, <3>2, <3>3 DEF RowsSoFar
  <2>5. Before(db, q, T) = Value(db, q, S)
    <3>1. T # 0 /\ T - 1 \in Times /\ S <= T - 1
      BY <1>4, <2>3, Bounds DEF Times
    <3>2. \A j \in DOMAIN out : out[j].time <= T - 1 => out[j].time <= S
      BY <1>1, <1>4, <1>5, <2>4
    <3>3. T - 1 < upto[q]
      BY <1>7, <3>1
    <3>4. Value(db, q, S) = Value(db, q, T - 1)
      BY <1>7, <2>3, <3>1, <3>2, <3>3, StaysBetween
    <3> QED BY <3>1, <3>4 DEF Before
  <2>6. last.values[q] = Value(db, q, S)
    BY <1>7, <2>1 DEF FoldInv, RowsAreTally
  <2>7. values # last.values
    BY <1>8, <1>9, <2>5, <2>6
  <2> QED BY <1>11, <2>7 DEF Finish
<1> QED BY <1>10, <1>11

LEMMA FinishDraws ==
  ASSUME FeedInv, OutInv, FoldInv, FoldInv', GraphInv, Finish
  PROVE  Graph!IsGraphOf(db, matrix')
<1>1. /\ DOMAIN out = 1 .. Len(out) /\ Len(out) \in Nat
  BY OutFields DEF OutInv
<1>2. /\ main = "fold" /\ index = Len(out) + 1 /\ RowsSoFar
      /\ \A i \in DOMAIN out : out[i].diff # 0
      /\ db' = db
  BY <1>1 DEF Finish, FoldInv, FoldType, GraphInv
<1>3. \A q \in QueryIds : upto[q] = Closed
  BY <1>2, RunAssumption DEF FoldInv, OutInv
<1>4. Graph!Changes(db) = MomentsBefore(index)
  <2>1. MomentsBefore(index) = { out[i].time : i \in DOMAIN out }
    BY <1>1, <1>2 DEF MomentsBefore
  <2> QED BY <1>2, <1>3, <2>1, EntriesAreChanges DEF FeedInv, FeedType
<1>5. /\ { matrix'[i].time : i \in DOMAIN matrix' } = MomentsBefore(index)
      /\ \A i, j \in DOMAIN matrix' : i < j => matrix'[i].time < matrix'[j].time
  <2>1. CASE index # 1
    BY <1>2, <2>1, LastMomentDiffers, PushedLast
  <2>2. CASE index = 1
    <3>1. MomentsBefore(index) = {}
      BY <2>2 DEF MomentsBefore
    <3>2. DOMAIN matrix = {} /\ matrix = << >>
      <4>1. DOMAIN matrix = {}
        BY <1>2, <3>1 DEF RowsSoFar
      <4>2. matrix \in Seq([time : Times, values : [QueryIds -> Nat]])
        BY DEF FoldInv, FoldType
      <4> QED BY <4>1, <4>2
    <3>3. \A q \in QueryIds : values[q] = 0
      BY <2>2 DEF FoldInv, Folded
    <3>4. matrix' = matrix
      BY <3>2, <3>3 DEF Finish
    <3> QED BY <3>1, <3>2, <3>4
  <2> QED BY <2>1, <2>2
<1>6. \A i \in DOMAIN matrix' : matrix'[i].values = Graph!Values(db, matrix'[i].time)
  <2> SUFFICES ASSUME NEW i \in DOMAIN matrix'
               PROVE  matrix'[i].values = Graph!Values(db, matrix'[i].time)
    OBVIOUS
  <2>1. matrix'[i].time \in Nat
    <3>1. matrix'[i].time \in MomentsBefore(index)
      BY <1>5
    <3> QED BY <1>2, <3>1, MomentsAscend
  <2>2. matrix'[i].values = [q \in QueryIds |-> Value(db, q, matrix'[i].time)]
    BY <1>2 DEF FoldInv, RowsAreTally
  <2> QED BY <2>1, <2>2 DEF Graph!Values
<1> QED BY <1>4, <1>5, <1>6 DEF Graph!IsGraphOf

(***************************************************************************)
(* Everything else leaves the matrix as it is, and adds entries that       *)
(* change something.                                                       *)
(***************************************************************************)
LEMMA EmitKeepsGraph ==
  ASSUME FeedInv, OutInv, FoldInv, GraphInv, NEW q \in QueryIds, Emit(q)
  PROVE  GraphInv'
<1> DEFINE n == CountAt(q, upto[q])
           e == [query |-> q, time |-> upto[q], diff |-> n - shown[q]]
<1>1. /\ pc[Owner[q]] = "stepping" /\ Owner[q] \in Workers
      /\ UNCHANGED <<db, main, index, time, matrix>>
      /\ out' = IF n = shown[q] THEN out ELSE Append(out, e)
  BY RunAssumption DEF Emit, fold
<1>2. main = "join" /\ index = 1 /\ matrix = << >>
  BY <1>1 DEF FoldInv, Waiting
<1>3. RowsSoFar'
  BY <1>1, <1>2 DEF RowsSoFar, MomentsBefore
<1>4. \A i \in DOMAIN out' : out'[i].diff # 0
  <2>1. upto[q] \in Times
    BY Bounds DEF Emit, OutInv, OutType, Times
  <2>2. n \in Nat /\ shown[q] \in Nat
    <3>1. n = Value(db, q, upto[q])
      BY <2>1, ArrivedIsAll DEF Emit
    <3>2. Value(db, q, upto[q]) \in Nat
      BY <2>1, ValueIsNat DEF FeedInv, FeedType
    <3> QED BY <3>1, <3>2 DEF OutInv, OutType
  <2>3. n # shown[q] => e \in Entry /\ e.diff # 0
    BY <2>1, <2>2 DEF Entry
  <2>4. out \in Seq(Entry) /\ \A i \in DOMAIN out : out[i].diff # 0
    BY DEF OutInv, OutType, GraphInv
  <2> HIDE DEF e, n
  <2> QED BY <1>1, <2>3, <2>4
<1> QED BY <1>1, <1>2, <1>3, <1>4 DEF GraphInv

LEMMA SortKeepsGraph ==
  ASSUME OutInv, FoldInv, GraphInv, Sort
  PROVE  GraphInv'
<1>1. main = "sort" /\ main' = "fold" /\ UNCHANGED <<db, index, time, matrix>>
  BY DEF Sort, fold
<1>2. index = 1 /\ matrix = << >>
  BY <1>1 DEF FoldInv, Waiting
<1>3. RowsSoFar'
  BY <1>1, <1>2 DEF RowsSoFar, MomentsBefore
<1>4. \A i \in DOMAIN out' : out'[i].diff # 0
  BY SortPermutes DEF OutInv, GraphInv
<1> QED BY <1>1, <1>3, <1>4 DEF GraphInv

LEMMA GraphStutters ==
  ASSUME GraphInv, UNCHANGED <<db, out, index, time, matrix>>,
         main' = "done" <=> main = "done"
  PROVE  GraphInv'
BY DEF GraphInv, RowsSoFar, MomentsBefore, Graph!IsGraphOf, Graph!Changes, Graph!Values

LEMMA GraphInit == Init => GraphInv
<1> SUFFICES ASSUME Init PROVE GraphInv
  OBVIOUS
<1>1. out = << >> /\ matrix = << >> /\ index = 1 /\ main = "join"
  BY DEF Init
<1>2. RowsSoFar
  BY <1>1 DEF RowsSoFar, MomentsBefore
<1> QED BY <1>1, <1>2 DEF GraphInv

LEMMA GraphStep ==
  ASSUME FeedInv, OutInv, FoldInv, FoldInv', GraphInv, [Next]_vars
  PROVE  GraphInv'
<1>1. ASSUME NEW w \in Workers, Worker(w) PROVE GraphInv'
  <2>1. UNCHANGED <<db, out, main, index, time, matrix>>
    BY <1>1 DEF Worker, Take, FeedQueries, FeedDependencies, FeedRelease,
                CloseReleases, StepsEnd, dataflow, fold
  <2> QED BY <2>1, GraphStutters
<1>2. ASSUME NEW q \in QueryIds, Emit(q) PROVE GraphInv'
  BY <1>2, EmitKeepsGraph
<1>3. CASE JoinWorkers
  <2>1. /\ UNCHANGED <<db, out, index, time, matrix>>
        /\ main = "join" /\ main' = "sort"
    BY <1>3 DEF JoinWorkers, dataflow, fold
  <2> QED BY <2>1, GraphStutters
<1>4. CASE Sort
  BY <1>4, SortKeepsGraph
<1>5. CASE Fold
  BY <1>5, FoldKeepsRows
<1>6. CASE Finish
  <2>1. Graph!IsGraphOf(db, matrix')
    BY <1>6, FinishDraws
  <2>2. main' = "done" /\ UNCHANGED <<db, out>>
    BY <1>6 DEF Finish, dataflow
  <2>3. Graph!IsGraphOf(db, matrix)'
    BY <2>1, <2>2 DEF Graph!IsGraphOf, Graph!Changes, Graph!Values
  <2> QED BY <2>2, <2>3 DEF GraphInv
<1>7. CASE UNCHANGED vars
  BY <1>7, GraphStutters DEF vars, dataflow, fold
<1> QED BY <1>1, <1>2, <1>3, <1>4, <1>5, <1>6, <1>7 DEF Next, Main

LEMMA GraphInvariant == Spec => []GraphInv
BY GraphInit, GraphStep, FeedInvariant, OutInvariant, FoldInvariant, PTL DEF Spec

(***************************************************************************)
(* Whatever the workers do, and in whatever order, run is the one step of  *)
(* StepGraph: nothing is drawn until the main thread is done, and then the *)
(* matrix is the graph of the database, a row for each moment at which a   *)
(* tally changes and for no other.  This is DrawsStepGraph but for the     *)
(* promise that the step is taken.                                         *)
(***************************************************************************)
THEOREM RunDrawsTheGraph == Spec => Graph!Init /\ [][Graph!Draw]_Graph!vars
<1>1. Init => Graph!Init
  BY DEF Init, Graph!Init
<1>2. ASSUME FeedInv, OutInv, FoldInv, FoldInv', GraphInv, GraphInv', [Next]_vars
      PROVE  [Graph!Draw]_Graph!vars
  <2>1. CASE main # "done" /\ main' # "done"
    <3>1. db' = db
      BY <1>2 DEF Next, Worker, Main, Take, FeedQueries, FeedDependencies, FeedRelease,
                  CloseReleases, StepsEnd, Emit, JoinWorkers, Sort, Fold, Finish, vars
    <3> QED BY <2>1, <3>1 DEF Graph!vars
  <2>2. CASE main # "done" /\ main' = "done"
    <3>1. Finish
      BY <1>2, <2>2 DEF Next, Worker, Main, Take, FeedQueries, FeedDependencies, FeedRelease,
                  CloseReleases, StepsEnd, Emit, JoinWorkers, Sort, Fold, vars
    <3>2. Graph!IsGraphOf(db, matrix') /\ db' = db
      BY <1>2, <3>1, FinishDraws DEF Finish
    <3> QED BY <2>2, <3>2 DEF Graph!Draw
  <2>3. CASE main = "done"
    <3>1. ASSUME NEW w \in Workers PROVE ~Worker(w)
      <4>1. pc[w] = "done"
        BY <1>2, <2>3 DEF FoldInv
      <4> QED BY <4>1 DEF Worker, Take, FeedQueries, FeedDependencies, FeedRelease,
                          CloseReleases, StepsEnd, Goto
    <3>2. ASSUME NEW q \in QueryIds PROVE ~Emit(q)
      BY <1>2, <2>3, RunAssumption DEF FoldInv, Emit
    <3>3. UNCHANGED <<db, main, matrix>>
      BY <1>2, <2>3, <3>1, <3>2 DEF Next, Main, JoinWorkers, Sort, Fold, Finish, vars, fold
    <3> QED BY <3>3 DEF Graph!vars
  <2> QED BY <2>1, <2>2, <2>3
<1> QED BY <1>1, <1>2, FeedInvariant, OutInvariant, FoldInvariant, GraphInvariant, PTL
        DEF Spec
=============================================================================
