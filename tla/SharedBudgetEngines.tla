------------------------ MODULE SharedBudgetEngines ------------------------
(***************************************************************************)
(* The engines whose workers claim from a shared counter, one at a time,   *)
(* and what they promise.                                                  *)
(***************************************************************************)
EXTENDS SharedBudget, FiniteSetsExt

VARIABLE engine  \* "go" or "rust"

Go == INSTANCE GoEngine
Rust == INSTANCE RustEngine

EInit == engine \in {"go", "rust"} /\ Init

Next ==
  \/ engine = "go" /\ Go!Next /\ UNCHANGED engine
  \/ engine = "rust" /\ Rust!Next /\ UNCHANGED engine

evars == <<engine, vars>>

Spec == EInit /\ [][Next]_evars

\* The main thread and the workers are scheduled, the server answers, and time
\* passes.
Fairness ==
  /\ WF_evars(engine = "go" /\ Go!Main /\ UNCHANGED engine)
  /\ WF_evars(engine = "rust" /\ Rust!Main /\ UNCHANGED engine)
  /\ \A w \in Worker :
       /\ WF_evars(engine = "go" /\ Go!WorkerStep(w) /\ UNCHANGED engine)
       /\ WF_evars(engine = "rust" /\ Rust!WorkerStep(w) /\ UNCHANGED engine)
  /\ WF_evars(Deadline /\ UNCHANGED engine)

FairSpec == Spec /\ Fairness

-----------------------------------------------------------------------------
(* Properties. *)

\* The connections of a phase are closed under nobody: a worker or a warmup
\* thread that has not ended runs inside its phase, on an open connection.
NoWorkEscapes ==
  \A w \in Worker : worker[w] \notin {"idle", "done"} =>
    step \in {"warmup", "workload"} /\ w[1] \in clients

\* The row that is about to be written has a window, and counts every result
\* that was recorded, except that the Rust engine loses those of a worker that
\* panicked.  A row that says COMPLETED counts every request that was sent and,
\* if there is one, a success.
RowFaithful ==
  step = "write" =>
    /\ window
    /\ engine = "go" \/ ~ panicked => merged.requests = recorded
    /\ status = "COMPLETED" =>
         merged.requests = sent /\ (sent > 0 => merged.errors < sent)

\* The exit status is 0 when every phase of the workload ended as COMPLETED, and
\* only if no executed phase ended otherwise, an early one neither, and none was
\* left out without a signal.
ExitHonest ==
  step = "ended" =>
    LET completed == \A i \in DOMAIN rows : rows[i].status = "COMPLETED"
    IN  /\ completed /\ Len(rows) = Phases => exit = 0
        /\ exit = 0 => completed /\ (interrupted \/ Len(rows) = Phases)

\* "`0` if every phase completed, `1` if any phase failed (a worker errored) or was
\* interrupted": a run that a signal cut short does not exit with 0.
ZeroIfEveryPhaseCompleted == step = "ended" /\ exit = 0 => Len(rows) = Phases

\* The run ends, whatever failed, panicked or was interrupted: nobody waits for
\* a worker that is gone.
Terminates == <>(step = "ended")

\* Each phase implements the abstract budget: what is claimed by racing workers
\* is issued at most once, and COMPLETED means all of it was issued and recorded.
Budget == INSTANCE RequestBudget
            WITH issued <- sent, verdict <- status

BudgetSpec == Budget!Spec
=============================================================================
