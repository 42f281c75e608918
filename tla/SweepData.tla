----------------------------- MODULE SweepData -----------------------------
(***************************************************************************)
(* What a sweep leaves in a results directory, one kind of data at a time: *)
(*   "samples"  the CPU samples of its cells: SystemMonitor                *)
(*   "rows"     the rows of its engines and the charts drawn of them:      *)
(*              Results, where a cell has samples or has none              *)
(* Variables of the other kind stay as they are.                           *)
(***************************************************************************)
EXTENDS SystemMonitor

CONSTANTS
  Files, Templates, Serverless, EngineOf,               \* of MatrixPlan
  Experiments, Attempts, Commands, MaxValues            \* of Results

VARIABLES kind, experiment, exit, plan, settings, dir, clock, ran, data

rows == <<experiment, exit, plan, settings, dir, clock, ran, data>>

Sweep == INSTANCE Results

DataInit ==
  /\ kind \in {"samples", "rows"}
  /\ Init /\ Sweep!Init
  /\ kind = "samples" => experiment = CHOOSE e \in Experiments : TRUE

DataNext ==
  \/ kind = "samples" /\ Next /\ UNCHANGED <<kind, rows>>
  \/ kind = "rows" /\ Sweep!Next /\ UNCHANGED <<kind, vars>>

DataSpec == DataInit /\ [][DataNext]_<<kind, vars, rows>>

-----------------------------------------------------------------------------
(* Properties, those of SystemMonitor among them.                          *)

\* A point of a chart averages runs of one series.
SeriesPure == Sweep!SeriesPure

\* A sweep that ran to its end gave the engines what the matrix asks for.
EveryValueRun == Sweep!EveryValueRun

\* No driver is flushed with the credentials of another.
FlushedAsDriver == Sweep!FlushedAsDriver

\* A discarded run is in no chart of its point.
OutliersStayOut == Sweep!OutliersStayOut

\* Discarding outliers keeps half of the runs of a point.
KeepsMajority == Sweep!KeepsMajority

\* Bars and points differ by the failed phases that have a duration only.
GeneratorsAgree == Sweep!GeneratorsAgree
=============================================================================
