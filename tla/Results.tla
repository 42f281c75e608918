------------------------------ MODULE Results ------------------------------
(***************************************************************************)
(* From a matrix file to the charts: the sweep of run_benchmark_matrix.py  *)
(* (its plan is MatrixPlan) fills a results directory cell by cell, and    *)
(* the graph generators (ChartData) may read that directory at any time,   *)
(* the sweep ended or not.                                                 *)
(*                                                                         *)
(* MatrixRunner models how a sweep fails, is interrupted and is resumed;   *)
(* here the sweep meets no such fault and the question is which runs end   *)
(* up in which point of which chart.  What an engine measures is one of    *)
(* the Shapes of the experiment: the STEADY row of a cell and its CPU      *)
(* samples, or no row at all.                                              *)
(***************************************************************************)
EXTENDS MatrixPlan

CONSTANTS
  Experiments,    \* set of [matrix, shapes, here, tools, answersAt]: a matrix
                  \* file, what its cells may measure, whether the runner is started
                  \* in the repository root, the command line tools on the PATH, and
                  \* the attempt at which the server answers each credential
  Attempts,       \* PINGs per credential
  Commands,       \* the commands of the workload
  MaxValues       \* bound of the properties: values of a dimension

Charts == INSTANCE ChartData

VARIABLES
  experiment,     \* the experiment of this behaviour
  exit,           \* exit status, None while the sweep runs
  plan,           \* the cells still to run; None before the sweep starts
  settings,       \* driver path -> credentials to flush with
  dir,            \* the results directory
  clock,          \* seconds
  ran,            \* history: what every cell was given and how it was flushed
  data            \* what generate_interactive_graphs.py loaded, None before

vars == <<experiment, exit, plan, settings, dir, clock, ran, data>>

matrix    == experiment.matrix
here      == experiment.here
answersAt == experiment.answersAt
cli       == resolve_cli_path(None, None, experiment.tools)

Empty == [files |-> <<>>, subdirs |-> <<>>, manifest |-> None]

Init ==
  /\ experiment \in Experiments
  /\ exit = None /\ plan = None /\ settings = <<>> /\ clock = 0 /\ ran = <<>>
  /\ dir = Empty /\ data = None

-----------------------------------------------------------------------------

\* The matrix file is refused, or expanding it raises: a traceback.
Reject ==
  /\ plan = None /\ exit = None
  /\ ~parse_matrix_config(matrix) \/ ExpansionRaises(matrix)
  /\ exit' = 1
  /\ UNCHANGED <<experiment, plan, settings, dir, clock, ran, data>>

Expands == parse_matrix_config(matrix) /\ ~ExpansionRaises(matrix)

\* No cell, or a server that is needed and no tool to ask it, or a credential it
\* does not answer.
FailPreflight ==
  /\ plan = None /\ exit = None /\ Expands
  /\ \/ CellsOf(matrix) = <<>>
     \/ preflight_server(driver_server_settings(matrix, here), cli,
                         answersAt, Attempts) = None
  /\ exit' = 2
  /\ UNCHANGED <<experiment, plan, settings, dir, clock, ran, data>>

\* Preflight passes; the manifest names the series.
Begin ==
  /\ plan = None /\ exit = None /\ Expands
  /\ CellsOf(matrix) # <<>>
  /\ settings' = driver_server_settings(matrix, here)
  /\ preflight_server(settings', cli, answersAt, Attempts) # None
  /\ plan' = CellsOf(matrix)
  /\ dir' = [dir EXCEPT !.manifest = Variants(matrix)]
  /\ UNCHANGED <<experiment, exit, clock, ran, data>>

\* The rows an engine appends for a cell: a WARMUP row, then the STEADY row of
\* the shape.  `by' is no field of the file: it says which run the row is of.
Rows(cell, shape) ==
  LET given == Handed(matrix, cell.combo, cell.x)
      row(phase, requests, duration, status, latency) ==
        [phase |-> phase, status |-> status, connections |-> given.connections,
         requests |-> requests, duration |-> duration, latency |-> latency,
         start |-> clock, finish |-> clock + 1,
         meta |-> [driver |-> Files[given.driver].driver_id, version |-> "1",
                   secondary |-> None, secondaryVersion |-> None, commit |-> "c"],
         by |-> [driver |-> given.driver, params |-> cell.combo.params,
                 bindings |-> cell.combo.bindings, x |-> cell.x,
                 iteration |-> cell.iteration]]
  IN  <<row("WARMUP", 1, 1000, "COMPLETED", <<>>),
        row("STEADY", shape.requests, shape.duration, shape.status, shape.latency)>>

\* The files of a label after a cell: rows and samples are appended.
Appended(files, label, rows, samples) ==
  LET old == IF label \in DOMAIN files THEN files[label] ELSE [rows |-> <<>>, samples |-> <<>>]
  IN  [l \in DOMAIN files \cup {label} |->
         IF l = label THEN [rows |-> old.rows \o rows, samples |-> old.samples \o samples]
         ELSE files[l]]

Cell == Head(plan)
Flushing == settings[Cell.combo.driver_config]
FlushWorks == Flushing # None => probe_server(answersAt[Flushing], Attempts)

\* A cell: flush, engine, samples within its second (if any).  A flush that is
\* refused costs the cell and not the sweep.
RunCell ==
  /\ plan # None /\ exit = None /\ plan # <<>>
  /\ resolve_bindings(matrix, Cell.combo, Cell.x) # None
  /\ \E shape \in IF FlushWorks THEN experiment.shapes ELSE {None} :
       dir' = [dir EXCEPT !.files =
                 Appended(@, Cell.combo.label,
                          IF shape = None THEN <<>> ELSE Rows(Cell, shape),
                          IF shape = None \/ shape.cpu = None THEN <<>>
                          ELSE <<<<clock, shape.cpu>>>>)]
  /\ ran' = Append(ran, [given |-> Handed(matrix, Cell.combo, Cell.x), x |-> Cell.x,
                         flushed |-> Flushing, worked |-> FlushWorks])
  /\ plan' = Tail(plan)
  /\ clock' = clock + 2
  /\ data' = None
  /\ UNCHANGED <<experiment, exit, settings>>

\* A binding to a dimension without a value ends the sweep.
Abort ==
  /\ plan # None /\ exit = None /\ plan # <<>>
  /\ resolve_bindings(matrix, Cell.combo, Cell.x) = None
  /\ exit' = 1
  /\ UNCHANGED <<experiment, plan, settings, dir, clock, ran, data>>

Finish ==
  /\ plan = <<>> /\ exit = None
  /\ exit' = IF \A k \in DOMAIN ran : ran[k].worked THEN 0 ELSE 1
  /\ UNCHANGED <<experiment, plan, settings, dir, clock, ran, data>>

\* The same rows kept the legacy way: a directory per client count.
AsLegacy(d) ==
  LET rows(l) == d.files[l].rows
      counts == UNION {{rows(l)[k].connections : k \in DOMAIN rows(l)} : l \in DOMAIN d.files}
      order  == SetToSortSeq(counts, <)
  IN  [files |-> <<>>, manifest |-> None,
       subdirs |-> [i \in DOMAIN order |->
         [clients |-> order[i],
          files |-> [l \in DOMAIN d.files |->
                       [rows |-> SelectSeq(rows(l), LAMBDA r : r.connections = order[i]),
                        samples |-> d.files[l].samples]]]]]

\* generate_interactive_graphs.py reads the directory, while the sweep goes on or
\* later, as it is or brought into the legacy layout.
Load ==
  /\ plan # None /\ data = None
  /\ \E d \in {dir, AsLegacy(dir)} :
       data' = Charts!Loaded(d, Commands, None, <<"spring-data-valkey-glide", <<>>, <<>>>>)
  /\ UNCHANGED <<experiment, exit, plan, settings, dir, clock, ran>>

Next == Reject \/ FailPreflight \/ Begin \/ RunCell \/ Abort \/ Finish \/ Load

Spec == Init /\ [][Next]_vars

-----------------------------------------------------------------------------
(* Properties.                                                             *)

Drivers == {ValuesOf(matrix, "driver_config")[k].val
              : k \in DOMAIN ValuesOf(matrix, "driver_config")}

Traced(traces) == UNION {t.points : t \in traces}

\* The throughput points of a page, and those of its other measures.
RpsPoints(page) == Traced(page.scalability)
OtherPoints(page) ==
  Traced(page.cpu) \cup UNION {Traced(page.latency[key]) : key \in DOMAIN page.latency}

Shown == data # None /\ Charts!Drawable(data)

\* Every point of the throughput, latency and CPU charts averages runs of one
\* driver file with one choice of parameters at one value of the axis, however
\* many series, axis values and iterations share a file.  Two cases of the code
\* are exceptions: driver files with the same stem share a label
\* (configs/drivers has several jedis.json), and only the client count tells
\* points of a file apart, so another axis folds into one point.  A point of a
\* delta chart compares runs at one value of the axis.
SeriesPure ==
  LET stemShared(d) == \E e \in Drivers : e # d /\ Files[e].stem = Files[d].stem
      page == Charts!generate_html(data)
  IN  (Shown /\ matrix.x_axis = "connections") =>
        /\ \A p \in RpsPoints(page) \cup OtherPoints(page) \cup Traced(page.efficiency) :
             \A j, k \in DOMAIN p.runs :
               LET a == p.runs[j].by
                   b == p.runs[k].by
               IN  \/ [a EXCEPT !.iteration = b.iteration] = b
                   \/ a.driver # b.driver /\ stemShared(a.driver)
        /\ \A p \in Traced(page.delta) \cup Traced(page.efficiencyDelta) :
             \A j, k \in DOMAIN p.runs : p.runs[j].by.x = p.runs[k].by.x

\* The configurations a matrix asks of a driver at a value of the axis, as a
\* function of the choice of one value in every dimension that applies; a
\* reference to a dimension stands for the value chosen there.  A dimension of
\* bindings only counts with its first value: the code never uses the others.
Wanted(driver, x) ==
  LET dims    == Applicable(matrix, driver)
      picks   == {f \in [DOMAIN dims -> 1..MaxValues] :
                    \A j \in DOMAIN dims : f[j] \in (IF is_binding_only(dims[j]) THEN {1}
                                                     ELSE DOMAIN dims[j].values)}
      value(f, name, absent) ==
        LET js == {j \in DOMAIN dims : dims[j].name = name}
            of(j) == dims[j].values[f[j]]
            v  == of(CHOOSE j \in js : TRUE)
        IN  IF js = {} THEN absent
            ELSE IF ~IsRef(v) THEN v.val
            ELSE IF v.ref = matrix.x_axis THEN x
            ELSE of(CHOOSE j \in DOMAIN dims : dims[j].name = v.ref).val
  IN  [f \in picks |->
         [connections |-> IF matrix.x_axis = "connections" THEN x
                          ELSE value(f, "connections", 1),
          pool        |-> IF matrix.x_axis = "pool_size" THEN x
                          ELSE value(f, "pool_size", None),
          env         |-> value(f, "env", None)]]

\* A sweep that ran to its end gave the engines every configuration the matrix
\* asks for, as many times as it has iterations, and nothing else.
EveryValueRun ==
  exit = 0 =>
    \A driver \in Drivers, k \in DOMAIN ValuesOf(matrix, matrix.x_axis) :
      LET x      == ValuesOf(matrix, matrix.x_axis)[k].val
          wanted == Wanted(driver, x)
          mine   == SelectSeq(ran, LAMBDA r : r.given.driver = driver /\ r.x = x)
          config == [j \in DOMAIN mine |->
                       LET g == mine[j].given
                       IN  [connections |-> g.connections, env |-> g.env,
                            pool |-> IF "pool_size" \in DOMAIN g.overrides
                                     THEN g.overrides["pool_size"] ELSE None]]
      IN  \A c \in Range(config) \cup Range(wanted) :
            Cardinality({j \in DOMAIN config : config[j] = c})
              = matrix.iterations * Cardinality({f \in DOMAIN wanted : wanted[f] = c})

\* A sweep that passed its preflight flushes the server before every cell of a
\* driver that needs one, and the server accepts it: with the credentials of
\* that driver's file, or, if the runner was started outside the repository
\* root, where the driver files are found for the run and not for the flush,
\* without any; never with those of another driver.
FlushedAsDriver ==
  \A k \in DOMAIN ran :
    LET f == Files[ran[k].given.driver]
    IN  f.driver_id \notin Serverless =>
          /\ ran[k].flushed = IF here THEN f.credentials ELSE {}
          /\ ran[k].worked

\* A run the throughput chart discards is in no latency or CPU chart of its
\* point, and one it keeps is in each of them if it has all three measures, in
\* both layouts and whatever other runs lack.  The exception: the indices
\* removed are positions in the throughput list, so they hit other runs when a
\* run up to the last one discarded lacks a measure.
OutliersStayOut ==
  LET page == Charts!generate_html(data)
      of(u, p) == p.label = u.label /\ p.clients = u.clients
      full(u, k) ==
        /\ u.rows[k].duration > 0
        /\ \A c \in Commands : c \in DOMAIN u.rows[k].latency
        /\ Charts!InWindow(u.samples, u.rows[k]) # <<>>
  IN  Shown =>
        \A u \in Charts!FlatUnits(dir), p \in RpsPoints(page), q \in OtherPoints(page) :
          (of(u, p) /\ of(u, q)) =>
            LET discarded == {k \in DOMAIN u.rows : /\ u.rows[k].duration > 0
                                                    /\ u.rows[k] \notin Range(p.runs)}
            IN  (\A d \in discarded, k \in DOMAIN u.rows : k <= d => full(u, k)) =>
                  \A k \in DOMAIN u.rows :
                    /\ k \in discarded => u.rows[k] \notin Range(q.runs)
                    /\ k \notin discarded /\ full(u, k) => u.rows[k] \in Range(q.runs)

\* Discarding outliers keeps at least half of the runs of every point, so no
\* series with a measured run vanishes from the throughput chart.
KeepsMajority ==
  \A u \in Charts!FlatUnits(dir) :
    LET measured == Charts!extract_total_rps(u.rows)
        points   == Charts!load_all_data_flat(dir)
    IN  measured # <<>> =>
          \E p \in points : /\ p.label = u.label /\ p.clients = u.clients
                            /\ 2 * Len(p.runs) >= Len(measured)

\* Of a driver with one series and one client count the bar is the average of
\* those runs of the interactive point that completed, when no run is an outlier
\* and every completed run has a duration: the two generators differ by the
\* failed phases that have a duration, and by nothing else.
GeneratorsAgree ==
  LET files == [k \in DOMAIN SetToSeq(DOMAIN dir.files) |->
                  dir.files[SetToSeq(DOMAIN dir.files)[k]]]
      bars  == Charts!generate_graphs(files, "STEADY", None, <<>>, "c", None, Commands)
      units == Charts!FlatUnits(dir)
      completed(runs) == SelectSeq(runs, LAMBDA r : r.status = "COMPLETED")
  IN  Cardinality(units) = 1 =>
        \A u \in units, p \in Charts!load_all_data_flat(dir) :
          (/\ Charts!rps_outliers(u) = {}
           /\ \A k \in DOMAIN u.rows : u.rows[k].status = "COMPLETED" => u.rows[k].duration > 0)
            => LET done == Charts!extract_total_rps(completed(p.runs))
               IN  IF done = <<>> THEN bars.exit = 1
                   ELSE /\ bars.exit = 0
                        /\ \A l \in DOMAIN bars.charts.rps :
                             bars.charts.rps[l] = [value |-> Charts!Mean(Charts!Values(done)),
                                                   n |-> Len(done)]
=============================================================================
