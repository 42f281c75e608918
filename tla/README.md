# A TLA+ model of resp-bench

resp-bench measures client libraries of Redis-compatible servers.  Eight engines
(Java, Ruby, C#, PHP, Node, Rust, Go, Python) read the same workload and driver
files, drive a server, and append one metrics record per phase to an NDJSON file; an
orchestrator (`scripts/run_benchmark_matrix.py`) sweeps a matrix of configurations by
starting one engine process per cell.  A benchmark that miscounts, ends early, or is
scored good when it was not, produces plausible numbers and no error: that is what
the properties here are about.

## Inventory

| component | state it keeps | operations | what is hard |
|---|---|---|---|
| matrix orchestrator (`scripts/run_benchmark_matrix.py`) | run directory, `_manifest.json`, `latest` link, the list of cells | prepare, preflight, publish, per cell: flush, launch, wait, judge; final manifest, exit code | Ctrl-C or a kill between any two steps, engines in sessions of their own that outlive it, `--resume`, `--overwrite`, one server shared by all cells |
| matrix expansion (same file) | none | dimensions, bindings, series, labels, generated configs, server settings | completeness of the combinations, names that must not collide, credentials that must be found twice |
| system monitor (`scripts/system_monitor.py`) | sampling thread, stop event, baseline of the last reading | start, sample, stop | a thread beside engine and orchestrator; readings, flushes and writes that fail or block; one file for many cells |
| graph generators (`scripts/generate_*.py`) | none | read a results directory, group, discard outliers, average, draw | who is averaged with whom: series, client counts, runs discarded in one chart and kept in another |
| engine: phase lifecycle (one per language) | clients, collector, status, error flag | connect, warm up, run, close, write row | failure of each step, interruption, rows and exit status that must agree |
| engine: workload loop | claimed budget, stop flag or deadline, in-flight requests | claim, limit, send, record, stop | racing claims, early failure of one worker, draining, shares that must add up |
| engine: rate limiter | next allowed time | acquire | lost races, stale clock readings, clock steps |
| engine: key generator, `JavaRandom`, command selector | generator state, shared counter | next key, next command | 48-bit arithmetic, streams per connection |
| engine: metrics collector, histogram, NDJSON writer | totals, histograms, window | start, record, stop, merge, write | the window, merging of partial results |
| engine: drivers, recording driver | connections, simulated errors | execute, ping, close | behaviour of client libraries |
| engine: configuration, CLI | none | load, validate, exit status | invalid knobs, exit status of a failed phase |
| config editor, `infra/`, Makefile, CI | none | forms, provisioning, targets | none of the kinds treated here |

Interactions. The orchestrator starts engines through `make`, learns of their end by
`wait()`, and sees their work only through exit codes and the size of the metrics file.
The names of the files it gives its series are all the graph generators know of the
matrix; a monitor thread writes beside each metrics file, and the charts find the
samples of a run by the window its row names. An engine's main thread or task creates
clients, hands them to workers (virtual threads, goroutines, tasks, processes) together
with a shared budget, limiter and collector, waits for them all, and writes the row.
Workers interact through the budget counter, the stop flag and the limiter, and with
drivers through futures.

`PROJECT.json` lists the hazards at their lines, with the properties that would catch
each.

## Modules

| module | models |
|---|---|
| `RequestBudget` | abstract: a phase has a budget, issues and records requests, and ends with one verdict; COMPLETED only when the budget was issued in full and every result recorded; a run is a sequence of phases |
| `JavaWorkload` | `BenchmarkEngine.executeWorkload` and `runSyncLoop`: workers, shared counter, stop flag, main thread |
| `JavaWorkloadProofs` | theorems about it |
| `JavaPipeline` | `runPipelinedLoop`, `claimAndSubmit`: in-flight futures, the fail-fast iterator |
| `JavaPipelineProofs` | theorems about it |
| `LimiterParameters`, `LimiterContract` | what the limiters have in common; abstract: permission k is not given before time k * Interval |
| `CasLimiter` | the lock-free limiter of Java (Ruby, C#) |
| `LockLimiter` | the limiter of Go, with its wall clock; of Python, Node and PHP without clock steps |
| `ReserveLimiter` | the limiter of Rust |
| `RateLimiters` | composes the three: one of the algorithms at a time, against the one contract |
| `RateLimiterProofs` | theorems about it |
| `PythonEngine` | the phases of the Python engine: connections, warmup, tasks, the gather that cancels and drains, rows, exit status |
| `PythonEngineProofs` | theorems about it |
| `KeyStream` | its key generator, the port of `java.util.Random`, its command selector: operators |
| `PythonWorkers` | inside its measured window: the event loop, the tasks' turns, keys, the sockets of one server or of the nodes of a cluster |
| `PythonWorkersProofs` | theorems about it and about the generator of `KeyStream` |
| `SharedBudget` | what the phases of the Go and Rust engines have in common: the workers' loop on the shared counter, verdict, row, signal |
| `GoEngine`, `RustEngine` | what differs: setup, warmup, the claim, panics, connections a rate leaves idle |
| `SharedBudgetEngines` | composes the two: one engine at a time, against the same promises |
| `SharedBudgetProofs` | theorems about it |
| `MatrixRunner` | invocations of the orchestrator, run directories, engines, interrupts, crashes and exceptions nobody catches |
| `MatrixRunnerProofs` | theorems about it |
| `MatrixPlan` | the matrix file: its checks, expansion to series, generated configurations, server settings and preflight: operators |
| `ChartData` | both graph generators, from the files of a results directory to the points of the charts: operators |
| `Results` | composes the two: a sweep from the matrix file to the charts |
| `SystemMonitor` | the sampling thread with the orchestrator and the engine around it; reads its samples as `ChartData` does |
| `SystemMonitorProofs` | theorems about it |
| `SweepData` | composes `SystemMonitor` and `Results`: one kind of data at a time, in one results directory |
| `MC*` | small values for the constants, nothing else |

Correspondence. Variables have the source's names where TLA+ allows it. One action is
what a thread does between two accesses to shared state (Java, Go, Rust), or what a task
does between two suspensions (Python), or what the orchestrator does between two points
at which another process or a signal can interfere. `map` in `PROJECT.json` names the
lines of each definition. History variables are marked as such in the declarations, and
so is the field `by` of a row in `Results`; no guard of an action that models code reads
one, except that the bound `MaxSent` (`MaxRequests` in `PythonWorkers`) on requests of a
phase without a budget reads what was sent. Plausible bugs, variants of actions and
operators that are not part of a next-state relation, stand in a section of their own or
beside what they vary; they show, one per property, what the property excludes.

Data.  Requests have no contents but in `PythonWorkers`, where a request is a command
and the index of a key; the 48-bit generator is a parameter of `KeyStream`, and the run
uses one of five bits whose whole period it enumerates.  Time is a small integer
(limiters, monitor), one tick (deadlines), or a flag.  A metrics record is the name of
the engine that wrote it (`MatrixRunner`), or the fields the generators read (`Results`).
A sample of the monitor is the interval of time it accounts for.  Paths are tags: what
`Results` keeps of a driver file is its stem, its driver and its credentials.

## Runs

| run | instance | distinct states | asks |
|---|---|---|---|
| `JavaWorkload` | 3 workers; budgets 2, 3, 4 or a duration of one tick with up to 3 requests | 53 304 | budget, overrun, verdict, termination, refinement of `RequestBudget` |
| `JavaPipeline` | 2 workers, depth 2; budgets 1, 3 or a duration with up to 5 requests | 14 537 | results, draining, termination, refinement |
| `JavaPipelineRefill` | budget 5 | violation | does a refill survive? |
| `RateLimiters` | 3 callers, interval 2, time to 4, clock steps to 2 | 1 182 496, under symmetry | waits, spacing, the contract |
| `MatrixRunner` | 2 run ids, 2 invocations in any mode, 2 cells of which one or both need a server, faults anywhere | 981 600 | manifests, exit codes, separation of runs, clean keyspace, termination |
| `MatrixRunnerInterrupt` | 1 invocation, interrupted | violation | do outcomes match what was attempted? |
| `SweepData` | samples: 2 cells, time to 7, interval 1, steps up to one tick late, one fault; rows: 13 matrices, started in the repository root or elsewhere, with and without a client tool; 3 more with rows of up to 8 kinds in each cell | 992 554 (938 915 and 53 639) | samples tile time, charts average the window; series, completeness, credentials, outliers, agreement of the generators |
| `PythonEngine` | 2 phases, 2 connections, depth 2; budgets 1, 2 or a duration with up to 2 requests; warmups of 0 or 1 PING | 466 612 | escape of work, rows, exit status, termination, refinement |
| `PythonEngineLeak` | 1 phase | violation | is everything closed? |
| `PythonWorkers` | 11 phases, 3 kinds of driver, 1 or 2 nodes, up to 2 connections and depth 2, up to 5 requests | 131 713 | turns of the event loop, keys, populate phases, sockets |
| `SharedBudgetEngines` | Go and Rust, 2 phases, 2 connections; budgets 1, 3 or a duration with up to 2 requests; rates 1 and 3; faults and a signal anywhere | 217 436 | escape of work, rows, exit status, termination, refinement |
| `SharedBudgetSignal` | the same | violation | does an interrupted run ever exit with 0? |

Why the bounds are enough.  Three workers are the least number with which two race
while a third fails or overshoots; budgets below, at and above the number of workers
are all there.  Two pipelined workers of depth 2 already reach a refill while the other
fills.  Three callers of a limiter let one lose a race twice.  Two invocations are
enough for a second one to meet what a first one left; two cells for a failure followed
by a success, and for one that needs an empty server after one that filled it.  Two
phases show what the first leaves to the second, two tasks on each of two connections
show siblings on the same and on another connection.  The workers of the Go and Rust
engines meet only in the counter, so one per connection is enough there; the budgets 1
and 3 are below and above their number, the rates 1 and 3 leave a connection out and
leave a remainder.

The matrices of `Results` hold each thing the expansion treats apart: free dimensions,
bindings, one dimension with both, one that applies to some drivers only, another axis,
two files of one stem, a driver that needs no server, and the plans that are refused or
raise.  Two values per dimension suffice for a combination to be confused with another,
four iterations for an outlier to be discarded by either test, five for a majority that
deviates from the median.
Two cells are the least with which a monitor meets the samples of another, and the
windows are longer and shorter than the sampling interval; with more than one fault the
properties, which speak of cells without or with a named fault, say less.  The phases of
`PythonWorkers` have more and fewer requests than keys, bounds of keys that are and are
not a power of two, so that the generator rejects draws, and more requests than `Yield`; one
mixes two commands of weight 1.  Two nodes are the least with which a client has a pool
that nothing has primed.

`MaxSent`, `MaxRequests`, `MaxTime`, `MaxInvocations` bound what the code does not bound;
the first two only stop *sending* in phases without a budget, so that they still end by
their deadline.

Deadlock is checked except where the system stops: `RateLimiters` (time is bounded:
callers may wait for slots beyond it), `MatrixRunner` (no further invocation after the
last), `SweepData` (a sweep that ended and was charted; cells
and time of the monitor are bounded) and `PythonWorkers` (the loop ends with the phase).

Fairness.  Every assumption is weak fairness.  Workers and the main thread are
scheduled; the driver answers or throws (its client libraries have timeouts); time
passes.  Nothing has to fail and nobody has to interrupt.  In `MatrixRunner` the calls
of the CLI have timeouts in the code; `wait()` has none, so that an engine exits is an
assumption about the engines (the two engine models prove or check it of themselves),
and it is stated as a separate conjunct.  `SweepData` and `PythonWorkers`
are checked for safety only and state none.

## What the runs show

Holding:

- Java: whatever the interleaving of getAndIncrement and decrementAndGet, a completed
  phase has sent and recorded exactly its budget, and after a failure or the deadline
  every worker sends at most the one request it had committed to.
- All limiters: permission k is not given before its time, whatever reading of clock or
  cursor is stale; Go's is early or late by no more than its wall clock was stepped, and
  Rust keeps its slots an interval apart.
- Python: no task outlives the gather that started it; exit 0 means a COMPLETED row for
  every phase.  A phase has its row whatever fails in it; two exceptions are written into
  `RowPerPhase`: a row whose directory or file cannot be written, which ends the run with
  a traceback and exit status 1, and Ctrl-C while connections are being closed.
- Go and Rust: the shared counter, driven below zero by the workers that come too late,
  hands out the budget exactly (Go compares the new value, Rust the old one); a panic
  neither hangs the phase nor leaves a row without a window; in Rust it loses results,
  and such a row never says COMPLETED.  A row that cannot be written is only logged.  A
  run whose phases all completed exits with 0; the converse holds unless a signal arrived.
- Orchestrator: exit status 0 is given only with a complete manifest of the invocation
  without a failed cell.  With 1 the manifest shows why, a cell missing or failed, or a
  traceback says that it could not be kept.  There are many places for one, and the model
  has them all: a matrix that is not valid or does not expand, a run directory that cannot
  be made or emptied (`--overwrite` removes the metrics files first and the manifest last,
  so that an old manifest may name results that are gone), the link, the first manifest, a
  configuration of a cell, a monitor thread that cannot be started, and the last manifest,
  whose exception hides whatever ended the sweep.  After a monitor that cannot be started
  the engine goes on by itself and its cell stays "ok" in the manifest.  An uninterrupted
  invocation never merges into another's directory unless told so; exceptions named in the
  properties are engines that outlived their orchestrator (`start_new_session`, lines
  1065-1069), whose records a resumed or overwritten run in the same directory takes for
  its own.
- A sweep from end to end: every configuration the matrix asks for is run as often as it
  has iterations, flushed with the credentials of its driver, and averaged only with
  runs of its own series.  Driver files of one stem share a label, hence a file and a line
  of the chart; with an axis other than `connections` the points of a file fold into one:
  `SeriesPure` names both.  Three more
  properties carry their exception in an exact form.  `FlushedAsDriver`: started outside
  the repository root the flush has no credentials at all, and never another driver's.
  `OutliersStayOut`: whatever runs lack, a run that is discarded is in no other chart and
  one that is kept is in all it has a measure for, unless a run up to the last one
  discarded lacks a measure, which shifts the positions.  `GeneratorsAgree`: the bars
  average exactly those runs of the interactive point that completed, so that failed
  phases with a duration are the whole difference.  A dimension that
  consists of bindings only counts with its first value, an empty one ends the expansion
  with an IndexError, and a binding to a bound dimension depends on the order of the file.
- The monitor: its samples account for all time from its baseline to the last reading,
  and each tick once, unless a flush failed (the record stays in the buffer, the
  baseline where it was).  A failed baseline makes the first sample count from the boot
  of the host; a write that blocks outlives the join, and yet its late sample is not
  charted for another cell; a file that cannot be opened ends the thread silently.  A
  window shorter than the interval may have no CPU value.
- Inside a Python phase: the `sleep(0)` after a number of requests keeps one task from
  starving the others even when no request ever waits; keys do not depend on the order
  of tasks; a populate phase, one whose weights let `select()` draw nothing but SET, leaves
  no key out but those whose SET failed (of a mixed phase no such thing is true: another
  command takes the key); with one server the number of sockets in the row is right as
  long as no request fails.

Not holding, and shown by a run (those that expect a violation, and `findings`):

- `RefillSurvives`: with `pipeline_depth` > 1 the first refill of a Java worker modifies
  the list it iterates over and the phase ends with ERROR.
- `ManifestMatches`: Ctrl-C records the cell it cut as ok.
- `NothingLeftOpen`: connections opened before one that fails are lost.
- `ZeroIfEveryPhaseCompleted`: a signal that arrives after the verdict of a phase, while its
  connections are closed or its row is written, ends a Go or Rust run with exit status 0
  although the phases that are left have no row; go/README.md:62-63 and the tests of both
  engines say that an interrupted run exits with 1.

Not holding either, and written as an exception into a property that holds, which was
checked to fail without it:

- `RowPerPhase`: Ctrl-C while connections are closed loses the row, although the comment
  at benchmark.py:222-225 says the except clause exists to guarantee it.
- `ExitTruth`: the help text and docs/BENCHMARK_MATRIX.md:214 say that with exit status 1
  the sweep ran to its end; a traceback gives the same status in the middle of it.
- `SocketsAsReported`: redis_py_client.py:78-79 says that the row has the number of
  connections a client holds; in cluster mode it keeps a pool per node, each capped at
  that number.  The pools that no PING reached open their sockets in the measured window.
- `FlushedAsDriver`: docs/BENCHMARK_MATRIX.md:204-205 says that the credentials of the
  driver are passed to the flush, and run_benchmark_matrix.py:193-198 that the runner may
  be invoked from anywhere; elsewhere they are not found.
- `OutliersStayOut`: generate_interactive_graphs.py:644-645 says that the charts of CPU and
  throughput are based on identical run sets; where a run lacks a measure the outlier is
  averaged and a good run is not.
- `GeneratorsAgree`: scripts/tests/test_graph_failed_phase_filtering.py:1 says that a failed
  phase is not averaged into the reported throughput; an ERROR row with a duration (Go,
  Rust and Python write one when every request failed or a worker died after others had
  recorded) counts in the interactive charts.

Read in the code and shown by no run: unused slots are kept by every limiter but Rust's,
so a caller that paused may send in a burst, which the comments of the Java and Ruby
limiters deny.  `bench_proc.wait()` has no timeout: an engine that hangs stops the sweep
for ever, and `Ends` says nothing of that, since it assumes that engines end.
The loader accepts any positive `keys_count`; the Python generator, which has no `int` to
overflow, rejects every draw for one between 2^31 and 2^32 and loops without suspending
(`DrawsEnd`), so that the phase hangs and its deadline cannot end it.

## Proofs

`JavaWorkloadProofs` proves, for every finite set of workers, every set of budgets,
every deadline and every bound (`WorkersAssumption`, `TargetsAssumption`,
`DeadlineAssumption`, `MaxSentAssumption`), type correctness, `BudgetRespected`,
`CompletedIsExact`, `OverrunBounded`, `VerdictHonest`, `WindowIsFinal`, and that the
module implements `RequestBudget`.

The argument.  None of these is inductive.  `CompletedIsExact` needs to know what the
shared counter stands for at every moment.  `ClaimInv` takes the workers that have yet
to give an overshoot back off the counter: what remains, the granted claims, never
exceeds the budget, and is the whole budget as soon as a claim was refused or, while no
worker has failed, as soon as one has left.  `SentInv` says that every granted claim is
a request waiting at the limiter or sent, and `RecordInv` that every request sent is
awaited or recorded; both are equations while `running` is set and inequalities after a
worker threw, which drops its request.  `ModeInv` says which places each kind of phase
reaches, `FlagInv` ties the stop flag to the failed workers, `MainInv` the status to the
end of the workers, and `OverrunInv` says that a worker with an overrun is past its
claim while the stop condition persists, so that it cannot enter the loop again.  When
all workers are done and none failed, nobody is at the limiter, awaits or gives back, so
requests recorded, requests sent and the counter all equal the budget.  The numbers are
cardinalities of the sets of workers at a place; the lemmas `AtMove` and `NumMove` say
how they change when one worker moves.

`JavaPipelineProofs` proves, for every finite set of workers, every depth and every set
of budgets (`WorkersAssumption`, `DepthAssumption`, `TargetsAssumption`), that a request
sent is recorded once or still in a worker's list (`NoResultTwice`, which counts the set
`Futures` of all list entries) and that the loop implements `RequestBudget`.  In the
invariant `CursorInv` and `FillInv` keep the cursor in its list, so that the future
removed is the one whose answer was recorded; `ClaimInv` equates the counter with the
claims granted and those about to be given back while nobody has failed; `RefusedInv`
says that a worker whose list ran empty met the end of the budget, and `LeftInv` that
whoever is done left an empty list, unless somebody failed.  With every list empty,
COMPLETED then says that the budget was sent and every result recorded.

`RateLimiterProofs` proves, of the three algorithms together and for every set of callers,
interval and step of the wall clock (`IntervalAssumption`, `MaxStepAssumption`),
`WaitBounded`, `SlotsSpaced` and that each implements `LimiterContract`.  `CasInv` and
`LockInv` say that the shared value of the lock-free and of the locked limiter is the number of
permissions times the interval.  `CasInv` adds that a caller at its compareAndSet has read
a clock not ahead of the present and not behind the cursor it read, so that a successful
compareAndSet takes a slot that is due (`SlotsAreExact`, `NeverBeforeSlot`).  `LockInv` adds
that the next slot is an interval away at most by the clock that was furthest ahead, which
bounds the sleeps.  Callers of Rust's
limiter reserve a slot, sleep, and return in any order: by `SlotsInv` and `ReturnedInv`
the slots of those that have returned are distinct, an interval apart, due, and as many as
the permissions given, so that k of them cannot all be due before (k - 1) * Interval.

`SharedBudgetProofs` proves, for Go and Rust phases of any budget, workers and list of
phases (`SharedBudgetAssumption`), `NoWorkEscapes`, `RowFaithful`, `ExitHonest` and that
each phase implements `RequestBudget`.  The two engines take the same kinds of steps on
the shared state, so the proof first classifies the steps of either engine and then
treats each kind once.  The invariant is a chain of counts: claims granted are requests at
the limiter or sent (`GrantInv`), requests sent are awaited or recorded unless a worker
panicked (`RecordInv`), results recorded are in the collector of the phase or in that
of a worker which has yet to deliver it, unless a Rust thread panicked (`DeliverInv`); at
a COMPLETED verdict nobody is left in between, and `EndInv` carries the equation to the
row.  `ExitInv` ties the exit status so far to the rows so far, as many as there have been
phases, and says that only a signal ends a run before its last phase.

`PythonEngineProofs` proves, for all the sizes of `SizesAssumption`, `NoWorkEscapes`,
`ExitHonest`, `RowPerPhase` and that each phase implements `RequestBudget`.  `WorkInv`
says which connections are open while tasks run: this is what a gather that
cancels and drains has to establish before connections are closed.  `FreshInv` says what
a phase finds when it starts, `GrantInv` and `RecordInv` count as above, `VerdictInv` and
`RowsInv` tie the status and the rows to the phases run: as many rows as phases have been
left, the last one maybe without, and then `lost` names the reason.

`MatrixRunnerProofs` proves, for any cells, modes, number of invocations and run
directories (`CellsAssumption`, `ModesAssumption`), `NoSilentMerge`, `ManifestHonest`,
`ExitTruth` and `CleanKeyspace`.  All four are about files that outlive an invocation, so
the invariant records who wrote what: `AuthorInv` that what a file holds was written by
an invocation that chose its directory, `FreshInv` that an invocation which does not
resume finds in its directory only what is its own or an orphaned engine's, `OffsetInv`
that what lies beyond the offset of a cell is its own or an orphan's, `OutcomeInv` and
`RefusedInv` that outcomes are as honest as the manifest to be written and that an
invocation refused by the preflight left no engine, and `WrittenInv` that no manifest is
final before its invocation has ended, so that after a traceback a final one is an earlier
invocation's.

`SystemMonitorProofs` proves, for every delay, interval and number of cells
(`MonitorAssumption`, `NoneAssumption`), `TilesTime` and `CpuOfWindow`, and
`WindowSampled` under the hypothesis that a join outlasts a delay (`Delay < JoinTimeout`;
the code joins with a timeout of five seconds).  The baseline of a monitor moves only with
a sample that reached the file, and everything a thread holds back after a failed flush
begins at it (`BaselineInv`, `TileInv`): that is the tiling.  A sample is stamped while
its cell runs, so it can fall in no window but that cell's (`CellInv`, `OwnerInv`,
`OrderInv`).  Without a fault the next reading is due at most a delay and an interval
after the last and is taken at most a delay late (`DueInv`, `TimingInv`, `GapInv`), so the
latest reading is never older than `MaxGap` (`LatestInv`, `PromptInv`), and a write in
progress at the end of a cell is over before the join gives up (`SampledInv`).

`PythonWorkersProofs` proves, for every set of phases of a workload file, every kind of
driver, every `Yield` and every size of the generator (`ConfigsAssumption`, `NoneAssumption`,
`WorkersAssumption`, `GeneratorAssumption`), the four invariants of `PythonWorkers`.
`TurnInv` is the argument of `NoMonopoly`: what was recorded since a task became ready and
what the running task may still record leave `Yield` for each task that is before it in the
queue; `QueueInv` keeps the queue free of repetitions, so that it is shorter than the tasks
that are not in it are many.  `SocketsAsReported` is inductive with it.  `BudgetInv` counts
the slots of the budget as requests claimed or sent, and `PopulateInv` says that every index
counted is the key of a request answered or of one a task has on its hands: at the end
nobody has one.  `StreamInv` keeps each generator where its connection's stream is after the
keys drawn, and `CountInv` counts sequential keys by residues; together they are
`KeysOfPhase`.  Its hypothesis that the bound is at most `2^Drawn` (2^31) is one of the
property: beyond it the definition says nothing, because a call does not return.

That is a theorem of its own.  `DrawsEnd` says that the loop of `next_int` ends for every
bound up to 2^31 and for none between 2^31 and 2^32.  The first half rests on the generator
having a full period (`FullPeriod`, from a multiplier that is 1 modulo 4 and an odd addend:
2^k steps at once add an odd multiple of 2^k, `JumpFacts`), so that an output which is kept
comes up from every state.

These are statements about recursive functions, `Pow2` and `StatesFrom`.  The library's
induction takes an operator as its parameter, which the provers cannot instantiate; the
module derives induction for sets (`Induction`) from the library's fact that < is
well-founded on the natural numbers, and from it that a function may be defined by its
first value and a step (`Recursion`).

The inductive invariant of every proof module was also checked by TLC on the instance of
its run.

Only model-checked: `Terminates` and `Ends`, which hold under fairness, for which there is
no backend, as there is none for ENABLED; and the invariants of `Results`, which speak of
what `MatrixPlan` and `ChartData` compute with folds, sorting and selection over sequences
(`SelectSeq`, on which nearly all of it rests, has no definition the provers can see).

## Not modelled, and why

The drivers (what a client library does behind its future is the nondeterminism of the
answers; the sockets of the redis-py client are in `PythonWorkers`), HTML, colours and
images of the graphs, the config editor, provisioning and CI (no state of their own that
outlives a call).  The lifecycle of a Java phase is straight-line code without handlers:
a failed connection, unknown command or warmup PING leaves the clients open and writes no
row, and a phase that ended with ERROR does not reach the exit status of `Main`.  Whether
the engines of the other languages (Ruby, PHP, Node, C#) follow the same lifecycle is not
assumed: they are separate programs, listed below, and so are the configuration, key
generators and collectors of the engines other than Python's.  Rounding of sleeps in the
C#, Node and PHP limiters only makes a caller try again and is left out.  Memory readings
of the monitor are left out but for whether the process group lives.  `--dry-run` only
prints.

What the models leave open or take from outside.  A row that fails to be written is no
row, although a disk that fills up may keep a part of its line, which every reader skips
together with the row appended to it; a
manifest that fails to be written is the old one or one without outcomes, although the
second is a truncated file.  Of the exceptions inside a collector only one is modelled, in
the recording of an exception of the driver (`Raise`); one in the recording of an answer
would count the request twice.  In a cluster, that redis-py sends PING to one node, that
GLIDE connects to all of them, and that keys are spread over the nodes are assumptions
about the client libraries (`Connected`, `NodeOf`).

## Plan

What is left, in order of what a wrong result would cost:

1. The Ruby and PHP engines: forked workers and their pipes (a share of the budget each,
   rounded up; a child that dies without a result), reports and the merge of partial
   collectors; the Node and C# engines; the lifecycle around `JavaWorkload`.
2. Proofs about `Results`, once its selections are written without `SelectSeq`; first
   `FlushedAsDriver`: the cells of an expanded matrix have drivers with settings.

The later modules share runs where they ask the same question of several engines, as
`RateLimiters` and `SharedBudgetEngines` do.
