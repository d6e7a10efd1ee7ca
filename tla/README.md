# cargo-tally in TLA+

A verification development for `cargo-tally`, the Cargo subcommand that draws
how many crates depended on a crate over time. The modules here are translated
from the Rust sources under `src/src/`; TLC checks them on small instances and
TLAPS proves the results that hold for every value of the constants.

Paths such as `lib.rs:152` are relative to `src/src/`.

## The system

`main.rs` is a pipeline: **load** a crates.io database dump, **filter** excluded
crates, **sort** the releases by time, **clean** the requirements, index the
**total** (only with `--relative`), parse the **queries**, **run** the dataflow,
print and **render** the result. Up to `run` everything is sequential; `run`
starts `--jobs` threads and joins them.

| component | state | operations | interacts with |
|---|---|---|---|
| Version matching (`version.rs`) | none | seven `matches_*` functions, the order of requirements | called inside joins of the dataflow and by clean; the order is that of join keys |
| Dataflow (`lib.rs:221-519`, `max.rs`, `present.rs`, `feature.rs`) | collections that change over time | joins, `max_by_key`, a fixed point, `distinct` | fed by `run`'s sessions; results go to the collection |
| `run` (`lib.rs:124-199`, `collect.rs`, `matrix.rs`) | `AtomicTake` with the input, three input sessions per worker, a mutex-protected vector, the fold's `time`, `values`, `matrix` | take, feed and close the sessions, step, append, join, sort, fold | workers exchange records through timely; the vector is shared with the main thread |
| filter, sort, clean (`filter.rs`, `main.rs:97-100`, `clean.rs`) | the dump, `crate_max_version` | drop releases, sort, replace requirements | in this order, before `run` |
| Loading and mending (`load.rs`, `mend.rs`, `cratemap.rs`, `feature.rs`) | tables, names and ids of crates and features, `dep_renames` | a callback per row, passes after the last row, fresh ids | returns the dump and the crate map |
| Queries (`args.rs`, `query.rs`, `user.rs`, `cratename.rs`) | users, teams and owners of the crate map | validate, parse, format | look names up in the crate map; query ids are the matrix's columns |
| Total and rendering (`total.rs`, `render.rs`) | first publication of each crate | index, evaluate, series of each query, fractions | reads the matrix |
| Command (`main.rs`, `args.rs`) | the options, what each call returned, stdout | parse the options, call the parts in order, print rows, decide on a graph | hands the dump, the queries, the matrix and the total from one part to the next |
| Allocator (`alloc.rs`) | four atomic counters | alloc, dealloc, realloc | called by every thread |

What makes it hard, and what would be wrong:

* **Concurrency.** The worker that took the input is still inserting releases
  while others put out results; workers append to one vector in any order; a
  worker that found the input taken must still close its sessions. A result
  must be final when it leaves, `run` must return, and its matrix must not
  depend on the interleaving.
* **Time.** A tally is a function of the history. All dependency rows are in the
  dataflow from the minimum time on, releases come and go as "most recent", and
  what a requirement resolves to moves with every publication. The past must not
  change, resolution must not regress, and a tally must count crates.
* **Order of the pipeline.** `run` panics on unsorted releases and clean judges
  by whatever precedes a release, so both rest on one `sort_by_key` in `main.rs`,
  which leaves releases of one moment in the order of the dump's table.
* **Names before ids.** The tables of a dump come in any order. Names become ids
  as they are read, but what a feature name stands for is known only at the end,
  and restored releases take ids that nothing loaded may have.
* **Counters.** Every thread updates the allocator's counters, one relaxed
  operation at a time.
* **Edges.** Prereleases, zero versions, absent numbers in requirements, `u64`
  increments, rows before their crate exists, features nobody declared, several
  crates published at one instant, the 257th query.

Nothing is persisted, no network is used and no call is retried, so crashes,
message loss and timeouts do not occur in this system.

`PROJECT.json` lists every hazard at its line with the properties that would
catch it.

## Modules

| module | models | notes |
|---|---|---|
| `Semver` | `version.rs:54-84`, `128-297` | one operator per `matches_*` function, the order of requirements; at its end the reference definition, ranges of the version order |
| `MCSemver` | | a behaviour asks one question: a requirement and a version, or two requirements |
| `Dataflow` | `lib.rs:221-519` | one operator per collection of the dataflow, as a function of the releases, rows and queries present at a time |
| `History` | the collections over time | actions `Publish`, `Yank` and `Tick` are the registry's; what is checked is how the collections of `Dataflow` follow |
| `Samples`, `MCHistory` | | catalogs of releases, rows and queries |
| `StepGraph` | the promise of `run` | abstract specification: one step draws the graph |
| `Run` | `lib.rs:124-199`, `collect.rs` | actions `Take` … `StepsEnd` of a worker, `Emit` of the dataflow, `JoinWorkers`, `Sort`, `Fold`, `Finish` of the main thread |
| `MCRun` | | three workers, five databases, the real `Tally` as what is counted |
| `Clean` | `filter.rs`, `main.rs:97-100`, `clean.rs` | `Filter`, `SortByTime`, `CleanRelease` per turn of the loop, `CleanEnds` |
| `MCClean` | | every small dump |
| `Load` | `load.rs`, `mend.rs`, `cratemap.rs`, `feature.rs:34-73` | a `Read…` action per callback, `MendCrate`, `ResolveRelease`, `ResolveDependencies`, `MendRelease` per turn of their loops |
| `Mended` | `mend.rs:12-23`, `71-788`, `macros.rs` | the list of crates and releases that are filled back in, with the macros it is written in |
| `MCLoad` | | dumps with renamed, deleted, broken and yanked things, mended with the whole list |
| `Queries` | `args.rs:197-225`, `query.rs`, `user.rs`, `cratename.rs`, `cratemap.rs`, `load.rs:33-53`, `204-206`, `mend.rs:12-34` | `Validate`, callbacks, `MendCrate` per name, `Parse` and `Format` per query |
| `MCQueries` | | command lines of up to three queries |
| `Series` | `total.rs`, `render.rs:37-125` | `IndexTotal`, `DrawRow` per row, `DrawNow` |
| `MCSeries` | | every small column and list of releases |
| `Alloc` | `alloc.rs:30-121` | an action per atomic operation and per call of the system allocator |
| `MCAlloc` | | two threads |
| `Command` | `main.rs:65-154`, `args.rs:63-121`, `matrix.rs:100-130` | the whole command: `Load`, `Clean` and `Series` as instances on shared state, `run` as the one step of `StepGraph` |
| `MCCommand` | | the dump as it reads, by name, and the dumps and command lines |
| `SemverProofs`, `CleanProofs`, `LoadProofs`, `HistoryProofs`, `RunProofs`, `QueriesProofs`, `SeriesProofs`, `AllocProofs` | | the theorems |

`Dataflow` extends `Semver`, `History` extends `Dataflow` and `Clean` extends
`Semver`; `MCRun` gives `Run` the `Tally` of `Dataflow` for what is counted.
`Command` composes `Load`, `Clean`, `Dataflow`, `StepGraph` and `Series`; `Run`
implements the `StepGraph` it uses (run `run`). `Queries` meets the rest at the
crate map, the allocator nowhere.

Each module also holds a few *mutants*: plausible wrong versions of a definition
(a dropped tie-break, a missing join, a comparison the wrong way round), marked
as such. They are not used by the specification; substituting one for the
definition it varies must make TLC report the property named beside it in
`PROJECT.json`, which shows that the property depends on that code.

### How the state corresponds to the code

*Versions* are records of three numbers and a tag; the tag is its rank in the
order of prerelease tags and `NoPre` stands for `Prerelease::EMPTY`. Build
metadata plays no part in matching and is left out. A comparator is a record with
`Absent` for `None`.

*Collections.* A collection whose differences are `Present` or `Max` behaves as
a set. A collection of `isize` differences is a multiset; where multiplicities
could matter the records carry the row and the target they come from, and
`Distinct` forgets it, as `distinct()` does. `max_by_key` is the maximum of a
set. The iteration of the transitive part is a recursive function with `Rounds`
rounds of `Spread`, the `u16` of `iterative::<u16>`.

*Sessions.* Differential dataflow is modelled by its contract: an insertion is
seen from its time on; a result for time t leaves, once, when no session of any
worker can still insert at t (`Passed`). In `Run`, `arrived` is what has been
inserted, `upto[q]` the next time at which the owner of query q puts out a
change, `out` the vector behind the mutex, and `pc` the place of a worker in the
closure at `lib.rs:133-171`. A session's time, its closing and the order of
`advance_to`, `update` and `close` are those of the code. Which worker a query
belongs to is the constant `Owner`: `consolidate()` exchanges by hash.

*The fold.* `index`, `time`, `values` and `matrix` are the local variables at
`lib.rs:174-198`; `main` is the place of the main thread. A failed `checked_sub`
and an `advance_to` into the past lead to "panicked".

*Loading.* A feature id is the place of its name in `features`, so ids depend on
the order of reading as they do in the code; what is checked is by name. The
field `krate` of an enabled feature holds a feature id until `ResolveRelease`
puts a crate id there, as `CrateFeature::crate_id` does. `names` stands for both
maps of `CrateMap`, which are inverse to each other. The order in which a
version's features are entered is that of its row; the two lists of enabled
features are one set with a flag. An assertion or unwrap that fails leads to
"panicked", `bail!` to "failed".

*Queries.* Text is what its parts are after splitting at `+`, `:` and `/`; which
names, logins and requirements are valid is a constant, and lower case and
separators are functions. White space between a name and its colon is the flag
`padded`. `IdLimit` is 256 in the code. The crate map that queries are parsed against
is the one `load` returns: rows are inserted under the two assertions of
`CrateMap::insert` (`Insert`), and after the last row `MendCrate` puts back the names
that `mend.rs` lists and the dump lacks, as in `Load`. What a query may name is hence
what the dump has or that list.

*Series.* Time counts moments, `PerSecond` of them in a second. `Search` is the
loop of `slice::binary_search` in the standard library the build requires (1.95):
it ends at the last of several equal elements, while its documentation promises
any; `Ranges` are the values its `base` and `size` take. `FirstTimes` is the loop
of `Total::index`. `releases` and `rows` are constrained to what the other modules establish:
sorted releases (`Clean`), ascending rows whose values count crates (`Run`,
`History`).

*Fractions.* A fraction is its decimals as an integer and how many there are. What
is written goes through three roundings, each modelled by what it does: the division
in `f32` (`Quotient`: the nearest `mant / 2^exp` with `Mantissa` bits; the numbers
themselves are exact, as `SeriesAssumption` has no more crates than a float holds),
its text (`Shortest`: the fewest decimals that are read as that float, the nearest of
them), and the cut of `write_truncated` (`Truncated`). So what is written may exceed
the fraction: of 128579 out of 180007 crates, 0.71429999..., it is 0.7143.

*The command.* `stage` is the call `try_main` makes next; `releases` and the rows
are one variable to `Load` and to `Clean`, as `db_dump` is one value in `main.rs`.
`Jobs`, `Excluded` and `Queries` are what the options become. Parsing of queries
is reduced to looking up crates by name, as `Queries` has the rest; `screen` is
what stdout shows, the mark `...` an entry of its own.

*Yanking.* A yanked version leaves `created` (`load.rs:55-57` skips it) and its
rows stay in `Dependencies`. The registry of a behaviour, its releases, rows,
queries and `--transitive`, is chosen in `Init`.

*Allocator.* `pc` is the place of a thread within a call, `op` the locals of the
call. `highest` and `refused` are history variables. `Limits` holds the limits of
different builds; a number that cannot be reached stands for `None`. The system
allocator never fails: Rust aborts when it does.

*Cleaning.* `highest` is `crate_max_version`, `req` the requirement each row has
now, `next` the turn of the loop. `retain` and `sort_by_key` are stated by which
places are left and in which order. Adding one to a version number wraps at
`Limit`, as a release build does.

## Runs

| run | question | answer |
|---|---|---|
| `semver` | do the matching functions mean what the operators mean, and does the order of requirements tell them apart? | yes, but for tagged versions against bounds without a patch number, where "range" is a matter of taste |
| `history` | does a tally count crates, direct and transitive, between the chains that are always built and those that can be built, keep its past, and lose a crate only for a reason? | yes; only a yank changes the past |
| `run` | does every interleaving draw the step graph, without panics, and return? | yes |
| `clean` | does cleaning judge by the past, close what is open, and keep what it narrows? | yes |
| `load` | does a loaded dump say by name what its rows say, in whatever order they come, and do restored releases fit in? | yes |
| `queries` | does a query ask for what it says, and can it be labelled if it could be parsed? | yes |
| `series` | is the drawn series the matrix as a step function, over the number of all crates, and is what is written of a fraction close to it? | yes |
| `command` | is what a command line draws and prints the dump as it reads, whatever the order of its tables? | yes, up to the order of releases of one moment, which clean can tell apart |
| `alloc` | do the counters lose a byte or a peak, and how far can the limit be overrun? | no; by what other threads reallocate at the moment |
| `transitive_depsyntax` | is every indirect dependent counted? | no, not behind `dep:` |
| `load_mend` | do restored releases depend on what the list says? | no, also on what a yanked release depended on |
| `exclude` | does `--exclude` only ignore dependencies coming from the excluded crates? | no |

### Bounds

* `semver.cfg`: numbers up to 2 and two tags give every relation (below, equal,
  above, zero, nonzero) in each position, for all comparators and all versions.
  The order is asked of requirements of up to two comparators. The proofs remove
  the bounds.
* `history.cfg`: two registries of eight releases of which any five are published,
  in any order, and one is yanked, over two moments, so that any two can be
  simultaneous. The catalogs hold a
  major and a minor update, prereleases of library and dependent, two rows of one
  release on one crate, a dropped row; in the transitive one an optional
  dependency enabled through two features, an old release kept alive by an exact
  requirement, dev-dependencies alone and named by a feature, and a cycle.
  `Rounds = 14` exceeds the longest path in that graph, which has fewer than 14
  edges, as 65536 does in a real one.
* `run.cfg`: one worker owns two queries, one owns one, one owns none; any of
  them can be the one that takes the input. The databases cover a tally that
  falls, one that returns to zero, everything at one moment, the minimum time
  and no input at all.
* `clean.cfg`: two versions of one crate out of seven, a dependent, any order of
  loading, any two moments, nine requirements; `Limit = 8` puts one version at
  the edge of the number range.

* `load.cfg`: five dumps written for one difficulty each (a dependency renamed to
  the name of another crate, a deleted crate under either separator, the known
  broken release and a yanked one, one name for two rows, a dangling feature) and
  160 that relate the names of one feature and one dependency in every way; all
  releases that `mend.rs` restores. Every order of tables and rows.
* `queries.cfg`: two query ids and up to three queries out of eight; a user and a
  team with the same number, a login used twice, a team outside GitHub; two of the
  names in `mend.rs`, one of which some dumps have, spelled otherwise.
* `series.cfg`: three releases of up to three crates and up to three rows, at
  moments on and off a whole second; now before, at and after the last row. For
  the fractions also pairs of rows over crowds of crates, every quotient of numbers
  up to 33 and some up to 250: with leading zeros, ending in zeros, not ending,
  held by a float or rounded up or down. `Mantissa = 8` and `Kept = 2` in place of 24
  and 4, as TLC's integers have 32 bits; the theorem is for any of both.
* `command.cfg`: eleven dumps (releases of one moment, an open-ended requirement, a
  renamed optional dependency, a restored and a yanked release, a broken one) in
  every order of tables and rows, and 27 command lines (every `--exclude`,
  `--relative`, `--transitive`, terminal or file; no file, no workers, an unknown
  crate). `Edge = 1` in place of 10 makes a matrix of three rows long enough to be
  cut; there are up to four.
* `alloc.cfg`: two threads, three addresses, two sizes, five counted calls; no
  limit, and one that can be passed by two reallocations together.

`CHECK_DEADLOCK FALSE` is there because every one of these systems ends: the
catalog or the clock is exhausted, the input is read, the main thread is done.

### Fairness

Only `run` needs it. `FairSpec` assumes weak fairness of each worker's program,
of each query's output and of the main thread: the operating system schedules
threads, and `step_or_park` returns to the dataflow as long as it has work.
Nothing is assumed of the order among them. `Returns` and the liveness part of
`DrawsStepGraph` rest on it; all other properties hold without it.

## Proofs

`SemverProofs`. `ComparatorIsRange` shows for one comparator
and numbers of any size that the matching function is the range of its operator;
`MatchesIsConvex` that what a requirement admits, with any number of comparators, has no hole among
released versions, which is what resolution by maximum and the narrowing in
`clean.rs` take for granted. `MatchingIsRange` and `NoRequirementHasHole` carry
this to the specification that TLC checks. The assumption is that bounds are
natural numbers; the specification's invariant is that questions come from the
enumerated sets (`QuestionsInvariant`). `RequirementsCompare` shows that the order
of requirements is total for any number of comparators: two that differ do so at
a first place, the least element of a set of numbers (`LeastOf`, from the
well-foundedness of the order of the naturals), and there `ComparatorOrder`
decides. `OrderSeparates` says of any requirements, not only those of the run, that the
order is a strict total one: irreflexive, of two that differ exactly one is less
(`RequirementsDiffer`), and transitive (`RequirementsTransitive`).

`CleanProofs` says what clean makes of one requirement, for any requirement and
version numbers up to `Limit`. `CleaningCloses`: it does not admit the next
incompatible version, even where the numbers wrap around. `CleaningNarrows`: it
admits the highest version if it did before, and no released version that it did
not admit before; between the highest version and the one made up the range has
no hole (`RequirementHasNoGaps`, from the matching functions themselves). From there it goes to `Clean` itself, for every dump.
`CleanAssumption` says that there are at least two numbers, that those of loaded
versions fit, and that ids tell releases apart. The inductive invariant: the
releases come from the dump, each once, whatever filtering and sorting make of
their places (`Rearranged`); while clean runs they ascend in time; the entry of
`highest` for a crate is the highest number visited (`HighestInv`); and a
requirement is as declared until its release is visited and judged by what had
been visited *then* ever after (`ReqInv`). The last part is what the properties
lack: they speak of a release's own past, and clean goes on. `JudgedThen`,
`NoneStaysOpenEnded` and `NarrowingKeeps` follow, and `CleanTyped`.

`HistoryProofs` proves, from `HistoryAssumption` (ids are numbers, releases have
version numbers, rows belong to releases), all six properties of `History` for
registries of any size. The invariant is that what is published comes from the catalog, is finite
and lies in the past. `TalliesCountCrates`: whatever a fixed point reaches, only
most recent releases are counted (`ContributorsAreRecent`), a crate has one of
them (`OneIsMostRecent`), so contributions and crates are in bijection.
`NeverRegresses`: adding a release leaves a highest one that is not lower
(`HighestRises`). `LossesAreExplained`: what is most recent stays so unless its
own crate publishes (`RecentStays`), what a query asks about stays (`AskedStays`),
and a row goes on resolving to the same release unless the new one is higher
(`HighestStays`), so a contribution that is lost was lost to the new release.
`PastStaysFinal`: later releases and rows add nothing to an earlier moment,
neither directly nor through the fixed point. Its rounds are a recursive function
(`RoundStep`, `After`), and the argument is an induction over them: an edge that
starts at a release that is not there yet is a dead end (`DeadEndsDoNotMatter`).
`CountedDepend` is an induction over the rounds too: an edge stays within a
release or goes along a row (`EdgesFollowRows`), so what is reached lies in the
least set that the rows require (`ClosureIsClosed`). `ChainsCount` is the converse
(`ClosureIsLeast`, `FirmRowsSpread`) and needs that the search has come to its end
within its rounds (`Settled`). That is a condition of the theorem because the code
counts rounds with a `u16` and a chain may be longer; `ChainsCountWithin` replaces
it by there being as many rounds as nodes with an edge, for each query, since a
round that adds something adds one (`EnoughRoundsSettle`).

`RunProofs` proves the safety of `Run` from `RunAssumption`: there is a worker,
the workers are finitely many, every database is sorted by time (what `main.rs`
establishes) and every tally is a natural number. `Count` is arbitrary, so the
result does not depend on what the dataflow computes. The inductive invariant has
four layers:

1. `FeedInv`: every session stands where the program order of its worker says,
   and the input of the worker that took it has arrived as far as its sessions
   say. It gives `ArrivedIsAll`: once every session has passed t, the count at t
   from what arrived is the count from the whole database. The lemma is where
   it matters that all workers close their sessions, that the holder is one of
   them, and that the releases are sorted.
2. `OutInv`: the entries of a query account for all of its changes up to `upto`
   (`LastChange`), with one entry per moment, each final. Sorting keeps it, as
   none of it depends on the order of the vector.
3. `FoldInv`: after sorting, what has been folded of a query is a prefix in time
   of its entries, so its value is its tally at the last of them (`Folded`). An
   entry therefore takes the value from the tally before its moment to the tally
   at it, which is never below zero, and when a row is pushed every value is the
   tally at the time of the row.
4. `GraphInv`: the rows pushed are those of the moments folded, in order, and in
   the end the moments with an entry are exactly those at which a tally changes
   (`EntriesAreChanges`), as an entry is never of zero.

None of the safety properties is inductive alone: that the fold never goes below
zero says nothing of the entries still to come, and that entries are final says
nothing of entries that are missing.

Theorems: `TypeCorrect`, `ResultsAreFinal`, `RunNeverPanics`, `RowsAreExact`, and
`RunDrawsTheGraph`, the refinement of `StepGraph` but for its liveness: `Run`
starts where `StepGraph` starts, `Finish` is its one step, and every other step of
any thread is a stutter.

`LoadProofs` proves all five properties that the run `load` checks, for dumps of any
size whose tables and rows come in any order. `LoadAssumption` says what a dump may be
taken to be: finite tables whose rows have ids and refer to rows that are there
(`WellFormed`), neither two crates nor two versions of a crate under one name, and
nothing published that is to be mended (`Consistent`); and that the list of `mend.rs`
names each release once and only crates that it restores (`ListedOnce`). TLC evaluates
it for the dumps it reads and for the whole list of `mend.rs`. The inductive invariant
`LoadInv` says of every moment what it owes to the rows read so far:

1. `TablesInv`, `NamesInv`, `FeaturesInv`: what is read is of the dump; a crate has the
   id of its row or was mended, and no two are called the same; a feature name keeps its
   id for good. The last is why ids that were handed out early still mean the same:
   tables only grow at their end (`Grows`), and what is encoded with one is encoded so
   with any later one (`EncodedStays`, `EncodedRowStays`).
2. `RenamesInv`: what `dep_renames_resolve` finds for a version and a name is the crate of
   *some* row of that version with that name. Two rows may have the same, and then the
   later one wins; the properties leave open which.
3. `ReleasesInv`, `DependenciesInv`: the releases are those of the versions read that are
   not yanked, encoded until their turn in the second pass and resolved from then on;
   so with dependencies and the pass that names optional ones.
4. `MendedInv`, `IdsAreUnique`: what is appended is what the list says and has ids that
   nothing else has (`LeastUnusedGives`: among n ids one of n + 1 numbers is free).

`LoadNeverPanics` is part of it: a crate is always inserted under a free id, the crates of
mended releases are there, and their numbers are not. `CrateMeans` is the step from ids to
names: the crate that a name before a slash is resolved to is the one it means, whether
its row or the row that renames it came earlier or later. From it follow
`LoadFailsOnlyIfBroken` and, with `ReleaseIsOfRow`, `DependencyIsOfRow` and
`RestockedIsListed`, `LoadLoadedAsWritten`. Names are interned one after the other by a
recursive function; that nothing is lost or doubled on the way is an induction over a
list (`InternAllGives`, `FlattenGives`, `AddAllGives`).

`QueriesProofs` proves, from `QueriesAssumption` (the tables have their four names, the
crates of a dump are finitely many and differ in id and folded name, logins are not
empty, lower case is a projection, command lines are sequences), four properties of
`Queries` for any tables, read in any order, any folding of case and separators, and
command lines of any length: parsing fails exactly if a query names what neither the
dump has nor `mend_crates` restores (`FailuresAreMeant`), neither the assertions of the
crate map nor formatting the labels ever panic (`PanicsAreRare`), a query asks for what
its parts mean (`AnswersWhatIsAsked`), and types (`QueriesTyped`). The inductive
invariant says that the keys of the maps are the folded logins of the rows read so far
(`TablesInv`), that crates, restored ones too, are told apart by id and by folded name
and that the names looked at are there (`CratesInv`; `FreshIdGives` is that a free id
exists and is found), that what has been parsed parses and was validated (`ParseInv`),
that who is found under a login holds it in a row read (`HoldersInv`) and what is found
under an owner is what the rows read say it owns (`OwnersInv`), and that each parsed
query is answered (`AnswersInv`); the labels then find what parsing found, as no step in
between touches a map.

`SeriesProofs` proves, from `SeriesAssumption` (releases are sorted, rows ascend
and their values count crates: what `Clean` and `Run` establish), all four
properties of `Series`, for all rows and releases. `TotalsAreWhole`: what the binary
search ends at in a vector with repeated elements is the last place up to the
moment asked about (`NarrowFinds`, by induction on the size of a range), and as
many times of `Total::index` are up to a moment as crates have a release by then
(`FirstTimesCounts`, by induction on the releases). `LineIsTheMatrix` compares the
rows visited with the points drawn at *every* moment (`StepInv`); the property
itself speaks of the finished line only. `LineAscends` needs that the last point
is not later than the row visited last and that all rows were zero while nothing
is drawn (`PrevInv`). `WritingIsClose` is about the fraction each point carries
(`Fractions`), for any `Mantissa` and `Kept`: the quotient is a float below one, off by
at most half a unit of its last bit (`QuotientIs`); its text exists, at the latest with
all decimals of the float, and is off by as much again (`ShortestIs`, `TextIsClose`);
`Kept` digits stay from the first that is not zero on, so what is cut off is less than
a unit of the last of them (`FirstNonzeroIs`, `TruncatedIs`), and trimming zeros changes
nothing (`TrimmedIs`). `TogetherClose` adds the three errors up. It has no hypothesis
beside `SeriesAssumption`; for the code, `Mantissa` is 24 and `Kept` 4.

`AllocProofs` proves all four invariants of `Alloc` for any number of threads,
addresses and sizes, from `AllocAssumption` (these are finite sets, sizes are
positive). `CallsInv` says which locals a call has at each place and that no block
belongs to two threads. `AllocCounts` is about a sum over the threads, and
`SumChanges` says what one step does to it, by induction over finite sets.
`AllocTyped` needs another sum, as `current` is a counter without a sign:
`CountInv` splits it into what settled blocks, refusals and pending calls
contribute, none of them negative. For `AllocPeakCovers` the invariant says that a
thread which has added to `current` and not yet raised `peak` will (`Covering`);
for `AllocOverrunIsBounded`, that while `peak` is within the limit so is what is
counted, but for calls about to be refused (`LimitInv`), and that at any time it
is at most one growth for each other thread above, once the calls under way have
added and taken what they are due (`DueInv`).

What a recursive function computes is proved with `AllNumbers` or `CountUp`, induction
over a *set* of numbers, from the well-foundedness of the naturals; the function exists
because an initial part of it can be extended by a step (`NarrowExists`,
`UptoExists`, `RoundStep`). The same device unfolds sums and flattened sequences.

Only model-checked:

* `Returns` and the liveness of `DrawsStepGraph`, which are out of the prover's
  reach;
* the properties of `Command`: what it takes from its parts is proved of each part
  (`LoadIdsAreUnique`, `CleanTyped`, `JudgedThen`, `RowsAreExact`, `TotalsAreWhole`),
  but the step from one part's result to the next part's assumption is what the run
  `command` checks, and so are the rows it prints.

## What the checks found

Three disagreements between what the repository says and what the code does, each
shown by a run that is expected to be violated; the lines are quoted in
`PROJECT.json` under `findings`.

1. A feature that enables an optional dependency as `dep:a` is taken for a feature
   of the crate itself, and the crates behind it are missing from the transitive
   tally (`transitive_depsyntax`).
2. `mend_releases` looks for unused version ids among the releases that were
   loaded. Yanked versions are not loaded but their dependency rows are, so a
   restored release that gets the id of a yanked one gets its dependencies too
   (`load_mend`).
3. `--exclude` removes the releases of the excluded crates, not the dependencies
   that come from them, so dependencies of other crates on them no longer resolve
   (`exclude`).

Some behaviour that may surprise is part of the properties' wording and not a
finding: a transitive tally counts the crate asked about itself
(`CountedAreDependents`); a requirement is not narrowed but replaced if the
highest version is a prerelease or lies below it (`KeepsWhatItNarrows`); two rows
of a release under one explicit name, and two accounts that used one login, are
told apart by the order of the dump alone (`LoadedAsWritten`, `AsksWhatItSays`);
a query with white space before the colon is accepted by the command line and
refused once the dump is loaded (`FailsOnlyIfUnknown`); once an allocation was
refused, all later ones are, as it stays in the peak (`Accounting`).

## Plan

1. Proofs: `PrintsBothEnds` and `HandsOver` (`Command`), the latter from the invariants
   of `LoadProofs` and `CleanProofs` for the instances that `Command` makes.
2. `Queries` in place of the lookup by name in `Command`, so that owners and labels
   are part of the composition.

## Not modelled

The arena (it never frees and is filled by one thread before the workers start),
argument parsing by clap, progress bars, timings and the memory warning, the HTML
page and the file it is written to, logging, the text of versions and times, the
serialisation stubs of `communication.rs`, which are never called within one
process, the build script, and the timely and differential libraries themselves,
which stand in the model by their contract.
