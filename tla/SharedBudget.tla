---------------------------- MODULE SharedBudget ----------------------------
(***************************************************************************)
(* What the Go and Rust engines share: `depth` workers per connection      *)
(* claim the requests of a phase one at a time from one atomic counter,    *)
(* record results in a collector of their own, and the main thread waits   *)
(* for all of them before it forms the verdict, closes the connections and *)
(* writes the row.  GoEngine and RustEngine add what differs: how a phase  *)
(* is set up, and what becomes of a worker that panics.                    *)
(*                                                                         *)
(* SIGINT and SIGTERM only set a flag, which is read at fixed places.      *)
(***************************************************************************)
EXTENDS Integers, Sequences, FiniteSets

CONSTANTS
  Phases,        \* number of phases of the workload
  Conns,         \* phase.connections
  Depth,         \* phase.pipeline_depth
  Targets,       \* completion.requests of the phases; 0: duration-based
  Warmups,       \* phase.warmup_requests of the phases
  Rates,         \* phase.rps_limit of the phases; 0: no limit
  MaxSent        \* bound on the requests of a duration-based phase

ASSUME SharedBudgetAssumption ==
  /\ Phases \in Nat \ {0} /\ Conns \in Nat \ {0} /\ Depth \in Nat \ {0}
  /\ Targets \subseteq Nat /\ Warmups \subseteq Nat /\ Rates \subseteq Nat
  /\ MaxSent \in Nat

VARIABLES
  phase,         \* the phase being executed, from 1
  step,          \* where the main thread is
  target,        \* the budget of the phase
  warmup,        \* its warmup PINGs per connection
  rps,           \* its rate limit
  clients,       \* the connections that are open
  pings,         \* per connection: the warmup PINGs answered
  worker,        \* the worker threads, or the warmup threads <<c, 1>>
  timeUp,        \* the deadline of a duration-based phase has passed
  interrupted,   \* a signal has arrived
  remaining,     \* the shared counter
  sent,          \* history: requests handed to the driver in this phase
  recorded,      \* history: results recorded by the workers in this phase
  local,         \* the workers' collectors: requests and errors
  merged,        \* the collector of the phase
  window,        \* it has a start and a stop time
  panicked,      \* a worker of the phase has panicked
  failed,        \* a warmup PING has failed
  status,        \* the status of the phase, "none" until it is decided
  exit,          \* the exit status so far
  rows           \* per phase: its status, and whether its row was written

Connection == 1..Conns
Worker == Connection \X (1..Depth)

setup == <<phase, target, warmup, rps>>
warming == <<pings, failed>>
budget == <<remaining, sent>>
metrics == <<recorded, local, merged, window>>
report == <<exit, rows>>
vars == <<step, setup, clients, warming, worker, timeUp, interrupted, budget,
          metrics, panicked, status, report>>

RequestBased == target > 0

NoResults == [requests |-> 0, errors |-> 0]
Plus(a, b) == [requests |-> a.requests + b.requests,
               errors |-> a.errors + b.errors]

GoTo(w, pc) == worker' = [worker EXCEPT ![w] = pc]
AllIdle == \A w \in Worker : worker[w] \in {"idle", "done"}

\* Results, but not one success.
AllFailed == merged.requests > 0 /\ merged.requests = merged.errors

\* A worker of the running workload is at `pc`.
At(w, pc) == step = "workload" /\ worker[w] = pc

Init ==
  /\ phase = 1 /\ step = "connect"
  /\ target \in Targets /\ warmup \in Warmups /\ rps \in Rates
  /\ clients = {}
  /\ pings = [c \in Connection |-> 0] /\ failed = FALSE
  /\ worker = [w \in Worker |-> "idle"]
  /\ timeUp = FALSE /\ interrupted = FALSE
  /\ remaining = 0 /\ sent = 0
  /\ recorded = 0 /\ local = [w \in Worker |-> NoResults]
  /\ merged = NoResults /\ window = FALSE
  /\ panicked = FALSE
  /\ status = "none" /\ exit = 0 /\ rows = <<>>

\* The configuration and the locals of the next phase, with fresh collectors.
NextPhase ==
  /\ phase' = phase + 1 /\ step' = "connect"
  /\ target' \in Targets /\ warmup' \in Warmups /\ rps' \in Rates
  /\ pings' = [c \in Connection |-> 0] /\ failed' = FALSE
  /\ worker' = [w \in Worker |-> "idle"]
  /\ timeUp' = FALSE
  /\ remaining' = 0 /\ sent' = 0
  /\ recorded' = 0 /\ local' = [w \in Worker |-> NoResults]
  /\ merged' = NoResults /\ window' = FALSE
  /\ panicked' = FALSE
  /\ status' = "none"

-----------------------------------------------------------------------------
(* A plausible bug: a variant of WriteRow that the properties reject. *)

\* The exit status is that of the last phase.
WriteRowLast(written) ==
  /\ step = "write"
  /\ rows' = Append(rows, [status |-> status, written |-> written])
  /\ exit' = IF status = "COMPLETED" THEN 0 ELSE 1
  /\ IF interrupted \/ phase = Phases
       THEN /\ step' = "ended"
            /\ UNCHANGED <<setup, warming, worker, timeUp, budget, metrics,
                           panicked, status>>
       ELSE NextPhase
  /\ UNCHANGED <<clients, interrupted>>

-----------------------------------------------------------------------------
(* A worker's loop: the flag, the claim, the limiter and the command, the   *)
(* result.                                                                  *)

LookAtFlag(w) ==
  /\ At(w, "loop")
  /\ GoTo(w, IF interrupted THEN "leave" ELSE "claim")
  /\ UNCHANGED <<step, setup, clients, warming, timeUp, interrupted, budget,
                 metrics, panicked, status, report>>

\* The limiter has let the worker pass: the command goes to the driver.
Send(w) ==
  /\ At(w, "limit")
  /\ sent' = sent + 1
  /\ GoTo(w, "await")
  /\ UNCHANGED <<step, setup, clients, warming, timeUp, interrupted, remaining,
                 metrics, panicked, status, report>>

\* A failed command is a result like any other (the backoff is only a delay).
Record(w, success) ==
  /\ At(w, "await")
  /\ recorded' = recorded + 1
  /\ local' = [local EXCEPT ![w] =
                 Plus(@, [requests |-> 1, errors |-> IF success THEN 0 ELSE 1])]
  /\ GoTo(w, "loop")
  /\ UNCHANGED <<step, setup, clients, warming, timeUp, interrupted, budget,
                 merged, window, panicked, status, report>>

Deadline ==
  /\ step = "workload" /\ ~ RequestBased /\ ~ timeUp
  /\ timeUp' = TRUE
  /\ UNCHANGED <<step, setup, clients, warming, worker, interrupted, budget,
                 metrics, panicked, status, report>>

-----------------------------------------------------------------------------
(* The end of a phase. *)

\* Every worker has been waited for.
Verdict ==
  /\ step = "workload" /\ AllIdle
  /\ status' = IF interrupted THEN "INTERRUPTED"
               ELSE IF panicked \/ AllFailed THEN "ERROR" ELSE "COMPLETED"
  /\ step' = "close"
  /\ UNCHANGED <<setup, clients, warming, worker, timeUp, interrupted, budget,
                 metrics, panicked, report>>

CloseClients ==
  /\ step = "close"
  /\ clients' = {} /\ step' = "write"
  /\ UNCHANGED <<setup, warming, worker, timeUp, interrupted, budget, metrics,
                 panicked, status, report>>

\* The row is written, or cannot be, which is logged and nothing else.  A
\* signal skips the phases that are left.
WriteRow(written) ==
  /\ step = "write"
  /\ rows' = Append(rows, [status |-> status, written |-> written])
  /\ exit' = IF status = "COMPLETED" THEN exit ELSE 1
  /\ IF interrupted \/ phase = Phases
       THEN /\ step' = "ended"
            /\ UNCHANGED <<setup, warming, worker, timeUp, budget, metrics,
                           panicked, status>>
       ELSE NextPhase
  /\ UNCHANGED <<clients, interrupted>>

\* The signal handler.
Signal ==
  /\ ~ interrupted /\ step # "ended"
  /\ interrupted' = TRUE
  /\ UNCHANGED <<step, setup, clients, warming, worker, timeUp, budget, metrics,
                 panicked, status, report>>

Over == step = "ended" /\ UNCHANGED vars
=============================================================================
