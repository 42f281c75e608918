---------------------------- MODULE MatrixRunner ----------------------------
(***************************************************************************)
(* The matrix orchestrator (scripts/run_benchmark_matrix.py, run_matrix):  *)
(* successive invocations that write run directories under one output      *)
(* directory.  An invocation prepares its run directory, probes the        *)
(* server, publishes the run (the `latest` link and a first manifest),     *)
(* and then, cell after cell, flushes the server, starts an engine process *)
(* in a session of its own, waits for it and judges the cell by its exit   *)
(* code and by the metrics records it appended; a last manifest records    *)
(* the outcomes.                                                           *)
(*                                                                         *)
(* An engine is identified by the run directory it writes to, the          *)
(* invocation that started it and its cell; a metrics record by the engine *)
(* that wrote it.  Interrupts are Ctrl-C (KeyboardInterrupt), crashes the  *)
(* death of the orchestrator without its finally blocks; both leave a      *)
(* running engine behind.  An exception that nothing catches ends the      *)
(* invocation with a traceback and exit status 1: before its directory is  *)
(* prepared, while it is published, around a cell (then through both       *)
(* finally blocks), or when the last manifest cannot be written.  Results  *)
(* follows a sweep without such faults down to the charts drawn from its   *)
(* directory.                                                              *)
(***************************************************************************)
EXTENDS Naturals, Sequences, SequencesExt

CONSTANTS
  RunIds,          \* the run ids invocations use
  Modes,           \* which of "new", "resume", "overwrite" they use
  Cells,           \* cells of the matrix: iterations x values x series
  Needs,           \* the sets of cells whose driver may need a server
  MaxInvocations,  \* bound on the number of invocations
  Interrupts,      \* whether an invocation may be interrupted
  Crashes,         \* whether an invocation may be killed
  Aborts           \* whether an uncaught exception may end it

ASSUME CellsAssumption ==
  Cells \in Nat \ {0} /\ Needs \subseteq SUBSET (1..Cells)
ASSUME ModesAssumption == Modes \subseteq {"new", "resume", "overwrite"}
ASSUME FaultsAssumption ==
  Interrupts \in BOOLEAN /\ Crashes \in BOOLEAN /\ Aborts \in BOOLEAN
ASSUME BoundAssumption == MaxInvocations \in Nat

VARIABLES
  serverCells,     \* the cells whose driver needs a server, one of Needs
  step,            \* where the invocation is, "idle" when there is none
  inv,             \* the number of the invocation, from 1
  run,             \* its run id
  cell,            \* the cell it is at
  cells,           \* the status of the cells it has appended
  engine,          \* its engine process: "none", "running", "exit0", "exit1"
  offset,          \* the records in the run directory when the cell began
  exit,            \* how the last invocation ended: 0, 1, 2 or Killed
  records,         \* per run id: the metrics records in its directory
  manifest,        \* per run id: its _manifest.json
  latest,          \* the target of the link, "none", or "foreign" if the name
                   \* is taken by a real directory
  dirty,           \* the server holds keys
  strays,          \* engines whose orchestrator is gone
  orphaned,        \* history: the engines that ever were strays
  truth,           \* history: per appended cell, did its engine succeed
  resumed,         \* history: the invocations that asked for --resume
  cut,             \* history: the engines whose cell was left by an exception
                   \* that is not caught, Ctrl-C or a monitor that cannot start
  aborted          \* history: the last invocation was ended by a traceback

invocation == <<serverCells, inv, run>>
disk == <<records, manifest, latest>>
progress == <<cell, cells, offset, truth>>
history == <<orphaned, resumed, cut, aborted>>
vars ==
  <<step, invocation, progress, engine, exit, disk, dirty, strays, history>>

NoManifest == [final |-> FALSE, inv |-> 0, cells |-> <<>>, truth |-> <<>>]

\* The manifest of an invocation without outcomes: the first one, or one a
\* failed write has truncated.
Unfinished == [NoManifest EXCEPT !.inv = inv]

Me == <<run, inv, cell>>

\* The exit status of an invocation ended by a signal, whichever.
Killed == 128

\* existing_result_files: *.ndjson and _manifest.json.
Populated(r) == records[r] # {} \/ manifest[r] # NoManifest

Init ==
  /\ serverCells \in Needs
  /\ step = "idle" /\ inv = 0 /\ run \in RunIds
  /\ cell = 1 /\ cells = <<>> /\ offset = {} /\ truth = <<>>
  /\ engine = "none" /\ exit = 0
  /\ records = [r \in RunIds |-> {}]
  /\ manifest = [r \in RunIds |-> NoManifest]
  /\ latest \in {"none", "foreign"}
  /\ dirty \in BOOLEAN
  /\ strays = {} /\ resumed = {}
  /\ orphaned = {} /\ cut = {} /\ aborted = FALSE

\* The cell's record is appended to the list with this status.
Append_(status, good) ==
  /\ cells' = Append(cells, status)
  /\ truth' = Append(truth, good)
  /\ cell' = cell + 1
  /\ step' = "cell"
  /\ engine' = "none"

\* The manifest the outer finally block writes.
FinalManifest(cs, ts) ==
  manifest' = [manifest EXCEPT ![run] =
                [final |-> TRUE, inv |-> inv, cells |-> cs, truth |-> ts]]

\* write_text raises (OSError) when it opens the file, or after opening it has
\* truncated it.
ManifestWriteFails ==
  \/ UNCHANGED manifest
  \/ manifest' = [manifest EXCEPT ![run] = Unfinished]

\* The outer finally block ends the invocation with this exit status, unless
\* its manifest cannot be written: that exception replaces whatever was under
\* way, and its traceback exits with 1.
Conclude(cs, ts, status, raised) ==
  /\ cells' = cs /\ truth' = ts
  /\ step' = "idle"
  /\ \/ FinalManifest(cs, ts) /\ exit' = status /\ aborted' = raised
     \/ Aborts /\ ManifestWriteFails /\ exit' = 1 /\ aborted' = TRUE

-----------------------------------------------------------------------------
(* Plausible bugs: variants of the actions below that the properties reject. *)

\* A populated directory is used as it is, whatever the mode.
StartAnyway(r, mode) ==
  /\ step = "idle" /\ inv < MaxInvocations
  /\ inv' = inv + 1 /\ run' = r
  /\ cell' = 1 /\ cells' = <<>> /\ truth' = <<>> /\ offset' = {}
  /\ resumed' = IF mode = "resume" THEN resumed \cup {inv'} ELSE resumed
  /\ step' = "preflight"
  /\ UNCHANGED <<serverCells, engine, exit, disk, dirty, strays, orphaned,
                 cut, aborted>>

\* The server is flushed once, at the start of the sweep.
FlushFirstOnly ==
  /\ step = "flush"
  /\ dirty' = IF cell = 1 THEN FALSE ELSE dirty
  /\ step' = "launch"
  /\ UNCHANGED <<invocation, progress, engine, exit, disk, strays, history>>

\* The exit code alone decides.
JudgeExitCode ==
  /\ step = "engine" /\ engine \in {"exit0", "exit1"}
  /\ Append_(IF engine = "exit0" THEN "ok" ELSE "failed",
             engine = "exit0" /\ Me \in records[run])
  /\ UNCHANGED <<invocation, offset, exit, disk, dirty, strays, history>>

\* The records are awaited before the exit code is looked at.
JudgeAwaitsRecords ==
  /\ step = "engine" /\ engine \in {"exit0", "exit1"}
  /\ records[run] \ offset # {}
  /\ Append_(IF engine = "exit0" THEN "ok" ELSE "failed",
             engine = "exit0" /\ Me \in records[run])
  /\ UNCHANGED <<invocation, offset, exit, disk, dirty, strays, history>>

\* The exit status of the sweep is that of its last cell.
FinishLastCell ==
  /\ step = "cell" /\ cell > Cells
  /\ Conclude(cells, truth, IF Last(cells) = "failed" THEN 1 ELSE 0, FALSE)
  /\ UNCHANGED <<invocation, cell, offset, engine, records, latest, dirty,
                 strays, orphaned, resumed, cut>>

-----------------------------------------------------------------------------
(* Starting an invocation: prepare_results_dir and the preflight. *)

\* main() is called for a run id in a mode.
Begin(r, mode) ==
  /\ step = "idle" /\ inv < MaxInvocations
  /\ inv' = inv + 1 /\ run' = r
  /\ cell' = 1 /\ cells' = <<>> /\ truth' = <<>> /\ offset' = {}
  /\ resumed' = IF mode = "resume" THEN resumed \cup {inv'} ELSE resumed

\* run_matrix prepares the run directory: a populated one is refused, kept
\* (--resume) or emptied (--overwrite).
Start(r, mode) ==
  /\ Begin(r, mode)
  /\ aborted' = FALSE
  /\ IF Populated(r) /\ mode = "new"
       THEN step' = "idle" /\ exit' = 2
       ELSE step' = "preflight" /\ UNCHANGED exit
  /\ IF Populated(r) /\ mode = "overwrite"
       THEN /\ records' = [records EXCEPT ![r] = {}]
            /\ manifest' = [manifest EXCEPT ![r] = NoManifest]
       ELSE UNCHANGED <<records, manifest>>
  /\ UNCHANGED <<serverCells, engine, latest, dirty, strays, orphaned, cut>>

\* A matrix that is not valid or cannot be expanded, a directory that cannot
\* be made, a file that cannot be removed: --overwrite removes the metrics
\* files first, the manifest last, and leaves the rest where it fails.
StartRaises(r, mode) ==
  /\ Aborts
  /\ Begin(r, mode)
  /\ step' = "idle" /\ exit' = 1 /\ aborted' = TRUE
  /\ \E kept \in SUBSET (1..Cells) :
       /\ mode = "overwrite" \/ kept = 1..Cells
       /\ records' = [records EXCEPT ![r] = {e \in @ : e[3] \in kept}]
  /\ UNCHANGED <<serverCells, engine, manifest, latest, dirty, strays,
                 orphaned, cut>>

\* No CLI binary, or the server never answered PING.
PreflightFails ==
  /\ step = "preflight" /\ serverCells # {}
  /\ step' = "idle" /\ exit' = 2
  /\ UNCHANGED <<invocation, progress, engine, disk, dirty, strays, history>>

\* Real files of the name are never clobbered.
update_latest_link == latest' = IF latest = "foreign" THEN latest ELSE run

\* update_latest_link, then the first manifest, without outcomes.
Publish ==
  /\ step = "preflight"
  /\ update_latest_link
  /\ manifest' = [manifest EXCEPT ![run] = Unfinished]
  /\ step' = "cell"
  /\ UNCHANGED <<invocation, progress, engine, exit, records, dirty, strays,
                 history>>

\* A driver config cannot be read or the link not be replaced; or the first
\* manifest cannot be written, or no directory for the configs be made.
PublishRaises ==
  /\ Aborts /\ step = "preflight"
  /\ \/ UNCHANGED <<latest, manifest>>
     \/ update_latest_link /\ ManifestWriteFails
  /\ step' = "idle" /\ exit' = 1 /\ aborted' = TRUE
  /\ UNCHANGED <<invocation, progress, engine, records, dirty, strays,
                 orphaned, resumed, cut>>

-----------------------------------------------------------------------------
(* One cell. *)

\* The cell's configs are generated, its metrics file is measured.
BeginCell ==
  /\ step = "cell" /\ cell <= Cells
  /\ offset' = records[run]
  /\ step' = "flush"
  /\ UNCHANGED <<invocation, cell, cells, truth, engine, exit, disk, dirty,
                 strays, history>>

\* flush_server, for a driver that needs a server.
Flush ==
  /\ step = "flush"
  /\ dirty' = IF cell \in serverCells THEN FALSE ELSE dirty
  /\ step' = "launch"
  /\ UNCHANGED <<invocation, progress, engine, exit, disk, strays, history>>

\* The flush fails or times out, or make cannot be started: the cell failed,
\* the sweep goes on.
CellFails ==
  /\ step = "launch" \/ (step = "flush" /\ cell \in serverCells)
  /\ Append_("failed", FALSE)
  /\ UNCHANGED <<invocation, offset, exit, disk, dirty, strays, history>>

Launch ==
  /\ step = "launch"
  /\ engine' = "running"
  /\ dirty' = (dirty \/ cell \in serverCells)
  /\ step' = "engine"
  /\ UNCHANGED <<invocation, progress, exit, disk, strays, history>>

\* The engine appends the record of a phase.
EngineWrites ==
  /\ engine = "running"
  /\ records' = [records EXCEPT ![run] = @ \cup {Me}]
  /\ UNCHANGED <<step, invocation, progress, engine, exit, manifest, latest,
                 dirty, strays, history>>

EngineExits ==
  /\ engine = "running"
  /\ engine' \in {"exit0", "exit1"}
  /\ UNCHANGED <<step, invocation, progress, exit, disk, dirty, strays,
                 history>>

\* wait() returned: the exit code first, then the records since the offset.
Judge ==
  /\ step = "engine" /\ engine \in {"exit0", "exit1"}
  /\ LET ok == engine = "exit0" /\ records[run] \ offset # {}
     IN  Append_(IF ok THEN "ok" ELSE "failed",
                 engine = "exit0" /\ Me \in records[run])
  /\ UNCHANGED <<invocation, offset, exit, disk, dirty, strays, history>>

-----------------------------------------------------------------------------
(* The end of an invocation. *)

Finish ==
  /\ step = "cell" /\ cell > Cells
  /\ Conclude(cells, truth, IF Contains(cells, "failed") THEN 1 ELSE 0, FALSE)
  /\ UNCHANGED <<invocation, cell, offset, engine, records, latest, dirty,
                 strays, orphaned, resumed, cut>>

\* The engine outlives its orchestrator.
Orphan ==
  /\ strays' = IF engine = "running" THEN strays \cup {Me} ELSE strays
  /\ orphaned' = orphaned \cup strays'
  /\ engine' = "none"

\* KeyboardInterrupt: not one of the caught exceptions, so inside the guarded
\* region the inner finally appends the cell with the status it was created
\* with, and the outer finally writes the manifest.
Interrupt ==
  /\ Interrupts /\ step # "idle"
  /\ LET guarded == step \in {"flush", "launch", "engine"}
         good == engine = "exit0" /\ Me \in records[run]
         cs == IF guarded THEN Append(cells, "ok") ELSE cells
         ts == IF guarded THEN Append(truth, good) ELSE truth
     IN  /\ cut' = IF guarded THEN cut \cup {Me} ELSE cut
         /\ IF step = "preflight"
              THEN /\ step' = "idle" /\ exit' = Killed
                   /\ UNCHANGED <<cells, truth, manifest, aborted>>
              ELSE Conclude(cs, ts, Killed, FALSE)
  /\ Orphan
  /\ UNCHANGED <<invocation, cell, offset, records, latest, dirty, resumed>>

\* SIGKILL, power: no finally block runs.
Crash ==
  /\ Crashes /\ step # "idle"
  /\ Orphan
  /\ exit' = Killed /\ step' = "idle"
  /\ UNCHANGED <<invocation, progress, disk, dirty, resumed, cut, aborted>>

\* A traceback: the outer finally writes the manifest, main never gets to
\* score it, and Python exits with 1.
Abort(cs, ts) ==
  /\ Aborts
  /\ Conclude(cs, ts, 1, TRUE)
  /\ UNCHANGED <<invocation, cell, offset, records, latest, resumed>>

\* Before the guarded region: a binding has no value, the driver config cannot
\* be read, a generated config not be written.  The cell leaves no trace.
ConfigRaises ==
  /\ step = "cell" /\ cell <= Cells
  /\ Abort(cells, truth)
  /\ UNCHANGED <<engine, dirty, strays, orphaned, cut>>

\* The engine runs but the monitor's thread cannot be started (RuntimeError):
\* the inner finally appends the cell with the status it was created with, and
\* nobody waits for the engine.
MonitorRaises ==
  /\ step = "launch"
  /\ Abort(Append(cells, "ok"), Append(truth, FALSE))
  /\ dirty' = (dirty \/ cell \in serverCells)
  /\ cut' = cut \cup {Me}
  /\ strays' = strays \cup {Me} /\ orphaned' = orphaned \cup {Me}
  /\ UNCHANGED engine

\* An orphaned engine goes on: its session is not the terminal's.
StrayWrites(e) ==
  /\ records' = [records EXCEPT ![e[1]] = @ \cup {e}]
  /\ dirty' = (dirty \/ e[3] \in serverCells)
  /\ UNCHANGED <<step, invocation, progress, engine, exit, manifest, latest,
                 strays, history>>

StrayEnds(e) ==
  /\ strays' = strays \ {e}
  /\ UNCHANGED <<step, invocation, progress, engine, exit, disk, dirty,
                 history>>

Sweep ==
  \/ PreflightFails \/ Publish
  \/ BeginCell \/ Flush \/ CellFails \/ Launch \/ Judge
  \/ Finish

Next ==
  \/ \E r \in RunIds, mode \in Modes : Start(r, mode) \/ StartRaises(r, mode)
  \/ Sweep
  \/ EngineWrites
  \/ EngineExits
  \/ Interrupt
  \/ Crash
  \/ PublishRaises \/ ConfigRaises \/ MonitorRaises
  \/ \E e \in strays : StrayWrites(e) \/ StrayEnds(e)

\* The orchestrator runs, its CLI calls have timeouts, and every engine exits
\* (wait() has no timeout: the engine is trusted to end).
Fairness == WF_vars(Sweep) /\ WF_vars(EngineExits)

Spec == Init /\ [][Next]_vars
FairSpec == Spec /\ Fairness

-----------------------------------------------------------------------------
(* Properties. *)

\* A cell the manifest calls ok had an engine that exited 0 after writing a
\* record of its own.  Only a cell left by an exception that is not caught may
\* be called ok without, or one that took the record of an orphan in the same
\* directory for its own.
ManifestHonest ==
  \A r \in RunIds : LET m == manifest[r] IN
    \A i \in DOMAIN m.cells :
      m.cells[i] = "ok" => \/ m.truth[i]
                           \/ <<r, m.inv, i>> \in cut
                           \/ \E e \in orphaned : e[1] = r

\* "the recorded outcomes always match what was actually attempted", without
\* the exception.
ManifestMatches ==
  \A r \in RunIds : \A i \in DOMAIN manifest[r].cells :
    manifest[r].cells[i] = "ok" => manifest[r].truth[i]

\* What an exit status tells of the files on disk.  0: the manifest is this
\* invocation's last and complete, without a failed cell.  1: if the manifest
\* is this invocation's last, it is short of a cell, shows a failed one, or is
\* wrong about the cell the monitor left; if it is not, a traceback has kept
\* the outcomes from the disk.  2: nothing has run.
ExitTruth ==
  (step = "idle" /\ inv > 0) =>
    LET m == manifest[run]
        own == m.final /\ m.inv = inv
    IN  /\ exit = 0 =>
             own /\ Len(m.cells) = Cells /\ ~ Contains(m.cells, "failed")
        /\ exit = 1 =>
             IF own THEN \/ Len(m.cells) < Cells
                         \/ Contains(m.cells, "failed")
                         \/ aborted /\ ~ Last(m.truth)
                    ELSE aborted
        /\ exit = 2 => /\ cells = <<>>
                       /\ \A e \in records[run] : e[2] # inv

\* "two runs into the same --output-dir never merge": two invocations share a
\* run directory only if the later one was told to --resume, or if an engine
\* of the earlier one outlived its orchestrator.
NoSilentMerge ==
  \A r \in RunIds : \A e, f \in records[r] :
    e[2] < f[2] => f[2] \in resumed \/ e \in orphaned

\* An engine that needs the server starts on an empty keyspace, whatever the
\* cells before it did and however they ended, unless an engine outlived its
\* orchestrator.
CleanKeyspace ==
  (step = "launch" /\ cell \in serverCells) => ~ dirty \/ orphaned # {}

\* Once started, an invocation ends with an exit code.
Ends == (step # "idle") ~> (step = "idle")
=============================================================================
