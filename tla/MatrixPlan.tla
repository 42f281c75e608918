----------------------------- MODULE MatrixPlan ----------------------------
(***************************************************************************)
(* What a matrix file means to src/scripts/run_benchmark_matrix.py: the    *)
(* checks on it, the series it expands to, the configuration each cell     *)
(* hands to the engine, and the preflight on the server.  Operators only;  *)
(* the sweep that uses them is in Results.                                 *)
(*                                                                         *)
(* A matrix is [x_axis, iterations, workload_template, dimensions], its    *)
(* dimensions a sequence (the order of the file) of                        *)
(*   [name, values, applies_to],                                           *)
(* a value being [val |-> v], or [ref |-> d] for the string "$d", and      *)
(* applies_to None or the set of driver paths that its globs match.  A     *)
(* driver file is [stem, driver_id, credentials]: `credentials' stands for  *)
(* its auth and tls objects.                                               *)
(***************************************************************************)
EXTENDS Integers, Sequences, FiniteSets, SequencesExt, FiniteSetsExt

CONSTANTS
  None,           \* an absent value
  Files,          \* path -> driver file, for every path that exists in the repository
  Templates,      \* the workload templates that exist in the repository
  Serverless,     \* driver ids that generate their own latency
  EngineOf        \* driver id -> make target; "java" for an id without one

NoCredentials == {}

-----------------------------------------------------------------------------
(* Paths.  Every path of a matrix file is relative to the repository root; *)
(* `here' says whether the runner was started there.                       *)

\* As written, else from the repository root: it opens from anywhere.
resolve_config_path(path) == path \in DOMAIN Files \cup Templates

\* Opens the path as written only, and reads {} when that fails.
read_driver_config(path, here) ==
  IF here THEN Files[path]
  ELSE [stem |-> Files[path].stem, driver_id |-> "", credentials |-> NoCredentials]

config_needs_server(cfg) == cfg.driver_id \notin Serverless

\* An id without a make target runs as a Java driver.
detect_engine_for_driver(path) ==
  IF Files[path].driver_id \in DOMAIN EngineOf THEN EngineOf[Files[path].driver_id]
  ELSE "java"

-----------------------------------------------------------------------------
(* The matrix file.                                                        *)

IsRef(v) == "ref" \in DOMAIN v
Dimension(m, name) == SelectSeq(m.dimensions, LAMBDA d : d.name = name)
HasDimension(m, name) == Dimension(m, name) # <<>>
ValuesOf(m, name) == Dimension(m, name)[1].values

is_binding_only(d) == \A k \in DOMAIN d.values : IsRef(d.values[k])
matches_driver(d, path) == d.applies_to = None \/ path \in d.applies_to

\* A ValueError leaves main() as a traceback: exit status 1, nothing is run.
parse_matrix_config(m) ==
  /\ HasDimension(m, m.x_axis)
  /\ HasDimension(m, "driver_config")
  /\ m.workload_template \in Templates
  /\ \A k \in DOMAIN ValuesOf(m, "driver_config") :
        LET v == ValuesOf(m, "driver_config")[k]
        IN  ~IsRef(v) /\ resolve_config_path(v.val)

\* The series dimensions that apply to a driver, in file order.
Applicable(m, path) ==
  SelectSeq(m.dimensions, LAMBDA d : /\ d.name \notin {m.x_axis, "driver_config"}
                                     /\ matches_driver(d, path))

FreeDims(m, path)    == SelectSeq(Applicable(m, path), LAMBDA d : ~is_binding_only(d))
BindingDims(m, path) == SelectSeq(Applicable(m, path), is_binding_only)

\* An empty list of values is "binding only" and its first value is an
\* IndexError: exit status 1, nothing is run.
ExpansionRaises(m) ==
  \E k \in DOMAIN ValuesOf(m, "driver_config") :
    \E j \in DOMAIN BindingDims(m, ValuesOf(m, "driver_config")[k].val) :
      BindingDims(m, ValuesOf(m, "driver_config")[k].val)[j].values = <<>>

\* Plausible bug: values paired by position instead of multiplied.
Zipped(dims) ==
  IF dims = <<>> THEN << <<>> >>
  ELSE [k \in DOMAIN dims[1].values |->
          [j \in DOMAIN dims |-> dims[j].values[((k - 1) % Len(dims[j].values)) + 1]]]

\* The Cartesian product of the dimensions' values, concrete ones first; each
\* element is the sequence of the values chosen.
Product(dims) ==
  FoldLeft(LAMBDA chosen, d :
             LET vals == SelectSeq(d.values, LAMBDA v : ~IsRef(v))
                         \o SelectSeq(d.values, IsRef)
             IN  FlattenSeq([k \in DOMAIN chosen |->
                               [j \in DOMAIN vals |-> Append(chosen[k], vals[j])]]),
           << <<>> >>, dims)

\* name -> value over the positions that satisfy the test.
Chosen(names, values, Test(_)) ==
  LET at == {k \in DOMAIN values : Test(values[k])}
  IN  [n \in {names[k] : k \in at} |-> values[CHOOSE k \in at : names[k] = n]]

\* Plausible bug: a label that leaves the bindings out.
LabelWithoutBindings(path, params, bindings) == <<Files[path].stem, params, <<>>>>

\* driver@param=value,...,dimension=reference,...  The label is the stem alone
\* when the driver has no free dimension, whatever its bindings.
Label(path, params, bindings) == <<Files[path].stem, params, bindings>>

\* The series of one driver.
DriverCombos(m, path) ==
  LET free  == FreeDims(m, path)
      bound == BindingDims(m, path)
      names == [k \in DOMAIN free |-> free[k].name]
      pure  == [k \in DOMAIN bound |-> <<bound[k].name, bound[k].values[1].ref>>]
      all   == Product(free)
      combo(values) ==
        LET params == Chosen(names, values, LAMBDA v : ~IsRef(v))
            refs   == Chosen(names, values, IsRef)
            order  == SelectSeq(names, LAMBDA n : n \in DOMAIN refs)
            binds  == [k \in DOMAIN order |-> <<order[k], refs[order[k]].ref>>] \o pure
        IN  [label |-> IF free = <<>> THEN Label(path, <<>>, <<>>)
                       ELSE Label(path, params, binds),
             driver_config |-> path, params |-> params, bindings |-> binds]
  IN  [k \in DOMAIN all |-> combo(all[k])]

generate_series_combos(m) ==
  LET drivers == ValuesOf(m, "driver_config")
  IN  FlattenSeq([k \in DOMAIN drivers |-> DriverCombos(m, drivers[k].val)])

-----------------------------------------------------------------------------
(* A cell.                                                                 *)

\* The values in force, bindings resolved one after the other: a binding sees
\* the axis, the parameters and the bindings before it.  None when one of them
\* is unknown: a ValueError outside the cell's try block ends the sweep.
resolve_bindings(m, combo, x) ==
  LET start == [d \in {m.x_axis} \cup DOMAIN combo.params |->
                  IF d \in DOMAIN combo.params THEN combo.params[d].val ELSE x]
  IN  FoldLeft(LAMBDA env, b :
                 IF env = None \/ b[2] \notin DOMAIN env THEN None
                 ELSE [d \in DOMAIN env \cup {b[1]} |->
                         IF d = b[1] THEN env[b[2]] ELSE env[d]],
               start, combo.bindings)

DRIVER_CONFIG_DIMS == {"pool_size", "use_pooling", "share_native_connection"}

\* What the engine is given: every phase of the generated workload has these
\* connections, the generated driver file these overrides.
generate_workload(m, resolved, x) ==
  IF m.x_axis = "connections" THEN x
  ELSE IF "connections" \in DOMAIN resolved THEN resolved["connections"] ELSE 1

generate_driver_config(resolved) ==
  [d \in DRIVER_CONFIG_DIMS \cap DOMAIN resolved |-> resolved[d]]

Handed(m, combo, x) ==
  LET resolved == resolve_bindings(m, combo, x)
  IN  [driver      |-> combo.driver_config,
       engine      |-> detect_engine_for_driver(combo.driver_config),
       connections |-> generate_workload(m, resolved, x),
       overrides   |-> generate_driver_config(resolved),
       env         |-> IF "env" \in DOMAIN resolved THEN resolved["env"] ELSE None]

\* Every cell in the order of the sweep: iteration, axis value, series.
CellsOf(m) ==
  LET combos == generate_series_combos(m)
      xs     == ValuesOf(m, m.x_axis)
      n      == Len(combos)
      total  == m.iterations * Len(xs) * n
  IN  [k \in 1..total |->
         [iteration |-> (k - 1) \div (Len(xs) * n) + 1,
          x         |-> xs[(((k - 1) \div n) % Len(xs)) + 1].val,
          combo     |-> combos[((k - 1) % n) + 1]]]

-----------------------------------------------------------------------------
(* Preflight.                                                              *)

\* The command line tool: the override, the one built in the repository, or
\* one on the PATH.
resolve_cli_path(override, built, onPath) ==
  IF override # None THEN override
  ELSE IF built # None THEN built
  ELSE IF onPath # <<>> THEN onPath[1] ELSE None

\* The server's answer to the PINGs: one of the first `attempts' succeeds.
probe_server(answersAt, attempts) ==
  answersAt # None /\ answersAt <= (IF attempts < 1 THEN 1 ELSE attempts)

\* driver path -> credentials of the flush, or None for a serverless driver.
driver_server_settings(m, here) ==
  LET combos == generate_series_combos(m)
  IN  [p \in {combos[k].driver_config : k \in DOMAIN combos} |->
         LET cfg == read_driver_config(p, here)
         IN  IF config_needs_server(cfg) THEN cfg.credentials ELSE None]

\* Plausible bug: one credential is probed for all.
FirstCredentialsOnly(settings) ==
  LET need == {p \in DOMAIN settings : settings[p] # None}
  IN  IF need = {} THEN {} ELSE {settings[CHOOSE p \in need : TRUE]}

unique_server_credentials(settings) ==
  {settings[p] : p \in {q \in DOMAIN settings : settings[q] # None}}

\* "none" when no driver needs a server, None when the sweep must not start,
\* else the tool; answersAt is the attempt each credential is answered at.
preflight_server(settings, cli, answersAt, attempts) ==
  LET wanted == unique_server_credentials(settings)
  IN  IF wanted = {} THEN "none"
      ELSE IF cli # None /\ \A c \in wanted : probe_server(answersAt[c], attempts)
           THEN cli ELSE None

\* The manifest's series in order: of two with one label the entry stands
\* where the first one was and describes the last one.
Variants(m) ==
  LET combos == generate_series_combos(m)
      same(k) == {j \in DOMAIN combos : combos[j].label = combos[k].label}
      order  == SelectSeq([k \in DOMAIN combos |-> k], LAMBDA k : k = Min(same(k)))
  IN  [k \in DOMAIN order |->
         [label |-> combos[order[k]].label,
          driver_name |-> Files[combos[Max(same(order[k]))].driver_config].stem]]
=============================================================================
