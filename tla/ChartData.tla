----------------------------- MODULE ChartData -----------------------------
(***************************************************************************)
(* What the two graph generators compute from a results directory:         *)
(* src/scripts/generate_interactive_graphs.py (scalability, delta,         *)
(* latency, CPU and efficiency charts, with outlier runs removed) and      *)
(* src/scripts/generate_graphs.py (bar charts).                            *)
(*                                                                         *)
(* Data.  A row of a result file is a record                               *)
(*   phase, status, connections, requests, duration (ms),                  *)
(*   latency : command -> percentile -> microseconds,                      *)
(*   start, finish : seconds, or None,                                     *)
(*   meta : [driver, version, secondary, secondaryVersion, commit].        *)
(* A file is [rows, samples], samples being the <<second, cpu>> pairs of   *)
(* its .system.ndjson file (empty when there is none); lines that are not  *)
(* JSON are skipped by every reader and are left out.  A directory is      *)
(* [files : label -> file, subdirs : sequence of [clients, files] in name  *)
(* order, manifest : None or a sequence of [label, driver_name]].          *)
(*                                                                         *)
(* A chart is a set of points [label, clients, value, runs]: `runs' are    *)
(* the rows whose values were averaged, kept to say which runs a point     *)
(* shows.  Values are integers, averages and ratios are rounded down;      *)
(* colours, dash patterns, families in the legend and HTML are layout.     *)
(***************************************************************************)
EXTENDS Integers, Sequences, FiniteSets, SequencesExt, FiniteSetsExt

CONSTANT None        \* an absent field

LATENCY_PERCENTILES == {"p50", "p95", "p99", "p999"}

Total(s) == FoldLeft(LAMBDA sum, v : sum + v, 0, s)
Mean(s) == Total(s) \div Len(s)
Values(s) == [k \in DOMAIN s |-> s[k].value]
Magnitude(n) == IF n < 0 THEN -n ELSE n

-----------------------------------------------------------------------------
(* Outlier detection.  The tests are rational inequalities, multiplied out *)
(* so that integers decide them; indices are those of the sequence.        *)

\* Twice the median.
Median2(s) ==
  LET t == SortSeq(s, <)
      n == Len(s)
  IN  IF n % 2 = 1 THEN 2 * t[(n + 1) \div 2] ELSE t[n \div 2] + t[n \div 2 + 1]

\* Modified z-score above 3.5, with the mean deviation when the median one is 0.
detect_modified_zscore(v) ==
  LET n     == Len(v)
      dev2  == [k \in 1..n |-> Magnitude(2 * v[k] - Median2(v))]
      scale == IF Median2(dev2) # 0 THEN <<Median2(dev2), 2>> ELSE <<Total(dev2), n>>
  IN  {k \in 1..n : /\ n >= 3
                    /\ scale[1] > 0
                    /\ 6745 * dev2[k] * scale[2] > 35000 * scale[1]}

\* Outside the quartiles by 1.5 interquartile ranges.
detect_iqr(v) ==
  LET n   == Len(v)
      t   == SortSeq(v, <)
      q1  == t[n \div 4 + 1]
      q3  == t[(3 * n) \div 4 + 1]
  IN  {k \in 1..n : /\ n >= 4
                    /\ \/ 2 * v[k] < 2 * q1 - 3 * (q3 - q1)
                       \/ 2 * v[k] > 2 * q3 + 3 * (q3 - q1)}

\* More than 15 % from the median (throughput is never negative).
detect_pct_deviation(v) ==
  LET m2 == Median2(v)
  IN  {k \in DOMAIN v : /\ Len(v) >= 2
                        /\ m2 > 0
                        /\ 100 * Magnitude(2 * v[k] - m2) > 15 * m2}

\* Thousand times the square of Grubbs' critical value at 5 %, 3 to 12 runs.
grubbs_critical_value ==
  [n \in 3..12 |-> <<1332, 2211, 3018, 3717, 4315, 4829, 5277, 5671, 6022, 6337>>[n - 2]]

\* Only the run that is farthest from the mean, the last of them on a tie.
detect_grubbs(v) ==
  LET n   == Len(v)
      S   == Total(v)
      Q   == Total([k \in 1..n |-> v[k] * v[k]])
      off == [k \in 1..n |-> Magnitude(n * v[k] - S)]
      top == CHOOSE k \in 1..n :
               \A j \in 1..n : off[j] < off[k] \/ (off[j] = off[k] /\ j <= k)
  IN  IF /\ n >= 3
         /\ n * Q > S * S
         /\ off[top] * off[top] * (n - 1) * 1000
              > grubbs_critical_value[n] * n * (n * Q - S * S)
      THEN {top} ELSE {}

CONSENSUS_MIN_METHODS == 2

\* Plausible bug: one method is enough to discard a run.
AnyMethod(v) ==
  IF Len(v) < 3 THEN {}
  ELSE detect_modified_zscore(v) \cup detect_iqr(v) \cup
       detect_pct_deviation(v) \cup detect_grubbs(v)

\* The runs that at least two of the four methods flag.
find_consensus_outliers(v) ==
  LET flags == <<detect_modified_zscore(v), detect_iqr(v),
                 detect_pct_deviation(v), detect_grubbs(v)>>
  IN  {k \in DOMAIN v : /\ Len(v) >= 3
                        /\ Cardinality({m \in 1..4 : k \in flags[m]})
                             >= CONSENSUS_MIN_METHODS}

-----------------------------------------------------------------------------
(* Loading.  A unit is what one point of a chart is made of: the STEADY    *)
(* rows of one label at one client count, in file order, and the CPU       *)
(* samples of their file.                                                  *)

load_steady_records(file) == SelectSeq(file.rows, LAMBDA r : r.phase = "STEADY")

\* Legacy layout: a directory N-clients per client count, a file per driver.
LegacyUnits(dir) ==
  UNION {{[label |-> l, clients |-> dir.subdirs[i].clients,
           rows |-> load_steady_records(dir.subdirs[i].files[l]),
           samples |-> dir.subdirs[i].files[l].samples]
            : l \in DOMAIN dir.subdirs[i].files}
         : i \in {j \in DOMAIN dir.subdirs : dir.subdirs[j].clients # None}}

\* Flat layout: a file per series, its rows grouped by phase.connections.
FlatUnits(dir) ==
  UNION {LET rows == load_steady_records(dir.files[l]) IN
           {[label |-> l, clients |-> c,
             rows |-> SelectSeq(rows, LAMBDA r : r.connections = c),
             samples |-> dir.files[l].samples]
              : c \in {rows[k].connections : k \in DOMAIN rows} \ {None}}
         : l \in DOMAIN dir.files}

\* The rows that have a measure, with it.
Measured(rows, Has(_), Value(_)) ==
  LET with == SelectSeq(rows, Has)
  IN  [k \in DOMAIN with |-> [value |-> Value(with[k]), row |-> with[k]]]

extract_total_rps(rows) ==
  Measured(rows, LAMBDA r : r.duration > 0,
                 LAMBDA r : (r.requests * 1000) \div r.duration)

extract_latency_percentiles(rows, cmd, pct) ==
  Measured(rows, LAMBDA r : cmd \in DOMAIN r.latency /\ pct \in DOMAIN r.latency[cmd],
                 LAMBDA r : r.latency[cmd][pct])

\* The CPU samples whose second lies in the row's window, both ends included.
Inside(second, r) == r.start <= second /\ second <= r.finish
InWindow(samples, r) == SelectSeq(samples, LAMBDA s : Inside(s[1], r))

\* One value per row that has both timestamps and a sample between them.
compute_avg_cpu(rows, samples) ==
  Measured(rows, LAMBDA r : /\ r.start # None /\ r.finish # None
                            /\ InWindow(samples, r) # <<>>,
                 LAMBDA r : LET w == InWindow(samples, r)
                            IN  Mean([k \in DOMAIN w |-> w[k][2]]))

\* The run indices to leave out of every chart of the unit: rps_outlier_map.
rps_outliers(u) == find_consensus_outliers(Values(extract_total_rps(u.rows)))

\* Plausible bug: outliers of the charted values themselves.
OwnOutliers(u, measured) == find_consensus_outliers(Values(measured))

\* The indices left out of a list: those of the throughput list, whatever the
\* list is.
LeftOut(u, measured) == rps_outliers(u)

\* The measures whose index is not left out.
Kept(measured, out) ==
  LET keep == SelectSeq([k \in DOMAIN measured |-> k], LAMBDA k : k \notin out)
  IN  [k \in DOMAIN keep |-> measured[keep[k]]]

\* The point of a unit, none when nothing was measured or kept.
Points(u, measured) ==
  LET kept == Kept(measured, LeftOut(u, measured))
  IN  IF kept = <<>> THEN {}
      ELSE {[label |-> u.label, clients |-> u.clients, value |-> Mean(Values(kept)),
             runs |-> [k \in DOMAIN kept |-> kept[k].row]]}

rps_points(units) == UNION {Points(u, extract_total_rps(u.rows)) : u \in units}
latency_points(units, cmd, pct) ==
  UNION {Points(u, extract_latency_percentiles(u.rows, cmd, pct)) : u \in units}
cpu_points(units) ==
  UNION {Points(u, compute_avg_cpu(u.rows, u.samples)) : u \in units}

load_all_data(dir)                   == rps_points(LegacyUnits(dir))
load_all_data_flat(dir)              == rps_points(FlatUnits(dir))
load_latency_data(dir, cmd, pct)     == latency_points(LegacyUnits(dir), cmd, pct)
load_latency_data_flat(dir, cmd, pct) == latency_points(FlatUnits(dir), cmd, pct)
load_cpu_data(dir)                   == cpu_points(LegacyUnits(dir))
load_cpu_data_flat(dir)              == cpu_points(FlatUnits(dir))

\* The driver of a file as its first STEADY row tells it, if that row does.
VersionOf(file) ==
  LET rows == load_steady_records(file)
  IN  IF rows = <<>> THEN {} ELSE {m \in {rows[1].meta} : m.version # None}

extract_driver_versions_flat(dir) ==
  [l \in {k \in DOMAIN dir.files : VersionOf(dir.files[k]) # {}} |->
     CHOOSE m \in VersionOf(dir.files[l]) : TRUE]

\* The first directory, in name order, whose file of the label has a version.
extract_driver_versions(dir) ==
  LET has(l) == {i \in DOMAIN dir.subdirs :
                   /\ dir.subdirs[i].clients # None
                   /\ l \in DOMAIN dir.subdirs[i].files
                   /\ VersionOf(dir.subdirs[i].files[l]) # {}}
      labels == UNION {DOMAIN dir.subdirs[i].files : i \in DOMAIN dir.subdirs}
  IN  [l \in {k \in labels : has(k) # {}} |->
         CHOOSE m \in VersionOf(dir.subdirs[Min(has(l))].files[l]) : TRUE]

\* The name of a series in the legend.
get_driver_label(l, versions) ==
  IF l \in DOMAIN versions
  THEN <<l, versions[l].version,
         IF None \in {versions[l].secondary, versions[l].secondaryVersion} THEN None
         ELSE <<versions[l].secondary, versions[l].secondaryVersion>>>>
  ELSE <<l>>

-----------------------------------------------------------------------------
(* Charts.                                                                 *)

\* One trace per label that has points.
build_family_grouped_traces(points, versions) ==
  {[name |-> get_driver_label(l, versions), label |-> l,
    points |-> {p \in points : p.label = l}] : l \in {p.label : p \in points}}

\* The advantage, in percent, of the reference over each other label wherever
\* both have a point.
DeltaPoints(points, reference) ==
  {LET p == pair[1]
       q == pair[2]
   IN  [label |-> p.label, clients |-> p.clients,
        value |-> ((q.value - p.value) * 100) \div p.value, runs |-> p.runs \o q.runs]
     : pair \in {pq \in points \X points :
                   /\ pq[1].label # reference /\ pq[2].label = reference
                   /\ pq[1].clients = pq[2].clients
                   /\ pq[1].value > 0}}

build_delta_traces(points, reference, versions) ==
  build_family_grouped_traces(DeltaPoints(points, reference), versions)

build_cpu_traces(points) == build_family_grouped_traces(points, <<>>)

\* Throughput per percent of CPU wherever both have a point.
build_efficiency_data(rps, cpu) ==
  {LET p == pair[1]
       q == pair[2]
   IN  [label |-> p.label, clients |-> p.clients,
        value |-> p.value \div q.value, runs |-> p.runs \o q.runs]
     : pair \in {pq \in rps \X cpu : /\ pq[1].label = pq[2].label
                                     /\ pq[1].clients = pq[2].clients
                                     /\ pq[2].value > 0}}

build_efficiency_delta_traces(eff, reference) ==
  build_cpu_traces(DeltaPoints(eff, reference))

\* "flat" only when there is no N-clients directory.
detect_layout(dir) ==
  IF \E i \in DOMAIN dir.subdirs : dir.subdirs[i].clients # None THEN "legacy"
  ELSE IF DOMAIN dir.files # {} THEN "flat" ELSE "legacy"

\* The driver a label belongs to, from the manifest where it says so.
infer_driver_name(l, manifest) ==
  LET said == IF manifest = None THEN {}
              ELSE {manifest[i].driver_name : i \in {j \in DOMAIN manifest : manifest[j].label = l}}
  IN  IF said \ {None} = {} THEN l ELSE CHOOSE d \in said \ {None} : TRUE

\* --reference, else the first series of a manifest with a single driver, else
\* the built-in reference.
reference_driver(dir, argument, builtin) ==
  IF argument # None THEN argument
  ELSE IF /\ detect_layout(dir) = "flat"
          /\ dir.manifest # None
          /\ Cardinality({dir.manifest[i].driver_name : i \in DOMAIN dir.manifest}) = 1
       THEN dir.manifest[1].label
       ELSE builtin

\* What main() reads before it draws: the datasets of the layout found, the
\* driver versions and the reference.
Loaded(dir, cmds, argument, builtin) ==
  LET flat == detect_layout(dir) = "flat"
  IN  [rps       |-> IF flat THEN load_all_data_flat(dir) ELSE load_all_data(dir),
       cpu       |-> IF flat THEN load_cpu_data_flat(dir) ELSE load_cpu_data(dir),
       latency   |-> [key \in cmds \X LATENCY_PERCENTILES |->
                        IF flat THEN load_latency_data_flat(dir, key[1], key[2])
                        ELSE load_latency_data(dir, key[1], key[2])],
       versions  |-> IF flat THEN extract_driver_versions_flat(dir)
                     ELSE extract_driver_versions(dir),
       reference |-> reference_driver(dir, argument, builtin)]

\* Without a throughput point there is no page: exit status 1.
Drawable(data) == data.rps # {}

\* The charts of the page; one without traces is not drawn.
generate_html(data) ==
  LET eff == build_efficiency_data(data.rps, data.cpu)
  IN  [scalability     |-> build_family_grouped_traces(data.rps, data.versions),
       delta           |-> build_delta_traces(data.rps, data.reference, data.versions),
       latency         |-> [key \in DOMAIN data.latency |->
                              build_family_grouped_traces(data.latency[key], data.versions)],
       cpu             |-> build_cpu_traces(data.cpu),
       efficiency      |-> build_cpu_traces(eff),
       efficiencyDelta |-> build_efficiency_delta_traces(eff, data.reference)]

-----------------------------------------------------------------------------
(* generate_graphs.py: averages per driver and version over rows of one    *)
(* commit, any client count.                                               *)

\* Plausible bug: rows of any outcome.
LoadAnyStatus(files, phase, language, languageOf) ==
  SelectSeq(FlattenSeq([k \in DOMAIN files |-> files[k].rows]),
            LAMBDA r : r.phase = phase)

\* The completed rows of the phase, of drivers of the language if one is given.
load_results(files, phase, language, languageOf) ==
  SelectSeq(FlattenSeq([k \in DOMAIN files |-> files[k].rows]),
            LAMBDA r : /\ r.phase = phase
                       /\ r.status = "COMPLETED"
                       /\ language # None => languageOf[r.meta.driver] = language)

\* A component of the key that is None matches anything.
matches_aggregation_key(r, key) ==
  /\ key.commit # None => r.meta.commit = key.commit
  /\ key.version # None => r.meta.version = key.version
  /\ key.secondaryVersion # None => r.meta.secondaryVersion = key.secondaryVersion

\* The bars of a measure: its average and number of runs per label.
Bars(runs, Value(_)) ==
  LET labelOf(r) == <<r.meta.driver, r.meta.secondary, r.meta.version>>
  IN  [l \in {labelOf(runs[k]) : k \in DOMAIN runs} |->
         LET of == SelectSeq(runs, LAMBDA r : labelOf(r) = l)
         IN  [value |-> Mean([k \in DOMAIN of |-> Value(of[k])]), n |-> Len(of)]]

\* Throughput and latency; a run without duration counts 0, and so does a
\* percentile the run's command lacks.
aggregate_results(results, key, cmds) ==
  LET runs == SelectSeq(results, LAMBDA r : matches_aggregation_key(r, key))
      with(c) == SelectSeq(runs, LAMBDA r : c \in DOMAIN r.latency)
  IN  [rps |-> Bars(runs, LAMBDA r : IF r.duration > 0
                                     THEN (r.requests * 1000) \div r.duration ELSE 0),
       latency |-> [c \in cmds, p \in LATENCY_PERCENTILES |->
                      Bars(with(c), LAMBDA r : IF p \in DOMAIN r.latency[c]
                                               THEN r.latency[c][p] ELSE 0)]]

\* Exit status 1 without files, rows, a commit to compare or a row of it; the
\* commit is the argument, else the one checked out.
generate_graphs(files, phase, language, languageOf, argument, head, cmds) ==
  LET results == load_results(files, phase, language, languageOf)
      commit  == IF argument # None THEN argument ELSE head
      charts  == aggregate_results(results, [commit |-> commit, version |-> None,
                                             secondaryVersion |-> None], cmds)
  IN  IF results = <<>> \/ commit = None \/ DOMAIN charts.rps = {}
      THEN [exit |-> 1]
      ELSE [exit |-> 0, charts |-> charts]
=============================================================================
