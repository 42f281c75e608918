---------------------------- MODULE PythonEngine ----------------------------
(***************************************************************************)
(* The phases of the Python engine (engine/benchmark.py): for each phase   *)
(* the main task opens the connections one after the other, warms them up, *)
(* runs `depth` worker tasks per connection, closes the connections and    *)
(* writes a row.  All tasks share one event loop: a step of a task is what *)
(* it does between two suspensions, and _gather_all_or_cancel cancels and  *)
(* drains the siblings of a task that raised.                              *)
(*                                                                         *)
(* Ctrl-C cancels the main task (asyncio.run): the CancelledError surfaces *)
(* where the main task is suspended, at most once.                         *)
(***************************************************************************)
EXTENDS Naturals, Sequences, FiniteSets, FiniteSetsExt

CONSTANTS
  Phases,        \* number of phases of the workload
  Conns,         \* phase.connections
  Depth,         \* phase.effective_pipeline_depth()
  Targets,       \* completion.requests of the phases; 0: duration-based
  Warmups,       \* phase.warmup_requests of the phases
  MaxSent,       \* bound on the requests of a duration-based phase
  ConnectFails,  \* whether opening a connection may fail
  CancelAt       \* the steps at which Ctrl-C may arrive

ASSUME SizesAssumption ==
  /\ Phases \in Nat \ {0} /\ Conns \in Nat \ {0} /\ Depth \in Nat \ {0}
  /\ Targets \subseteq Nat /\ Warmups \subseteq Nat /\ MaxSent \in Nat
ASSUME FaultsAssumption ==
  /\ ConnectFails \in BOOLEAN
  /\ CancelAt \subseteq {"create", "warmup", "workload", "close"}

VARIABLES
  phase,         \* the phase being executed, from 1
  step,          \* where the main task is
  conn,          \* the connections of the phase: "none", "open", "closed"
  clients,       \* the connections _execute_phase knows of
  task,          \* the worker tasks, or the warmup tasks <<c, 1>>
  pings,         \* per connection: the warmup PINGs answered
  cancelling,    \* _gather_all_or_cancel is draining
  interrupted,   \* Ctrl-C has arrived
  target,        \* the budget of the phase, one of Targets
  warmup,        \* its warmup PINGs per connection, one of Warmups
  timeUp,        \* time.monotonic() >= end_time
  claimed,       \* request_budget
  sent,          \* history: requests handed to the driver in this phase
  recorded,      \* collector.total_requests
  errors,        \* collector.total_errors
  status,        \* the local `status`, "none" until it is decided
  failure,       \* the local `failure` is not None
  hadError,      \* self._had_error
  rows,          \* the statuses of the rows written
  lost,          \* history: why the last phase has no row, "write" or "close"
  exit           \* exit status of the CLI, once the main task has ended

Connection == 1..Conns
Task == Connection \X (1..Depth)

setup == <<phase, conn, clients>>
timing == <<target, warmup, timeUp>>
flags == <<cancelling, interrupted>>
budget == <<claimed, sent>>
collector == <<recorded, errors>>
work == <<budget, collector>>
outcome == <<status, failure>>
report == <<hadError, rows, lost, exit>>
results == <<outcome, report>>
vars == <<step, setup, task, pings, flags, timing, work, results>>

RequestBased == target > 0

Ended == {"idle", "done", "raised", "cancelled"}
AllEnded == \A t \in Task : task[t] \in Ended
SomeRaised == \E t \in Task : task[t] = "raised"

GoTo(t, s) == task' = [task EXCEPT ![t] = s]

NoTasks == [t \in Task |-> "idle"]

\* The configuration of a phase, the locals of _execute_phase and of
\* _run_workload, and a fresh collector.
Fresh ==
  /\ conn' = [c \in Connection |-> "none"]
  /\ clients' = {}
  /\ task' = NoTasks
  /\ pings' = [c \in Connection |-> 0]
  /\ cancelling' = FALSE
  /\ target' \in Targets /\ warmup' \in Warmups /\ timeUp' = FALSE
  /\ claimed' = 0 /\ sent' = 0
  /\ recorded' = 0 /\ errors' = 0
  /\ status' = "none" /\ failure' = FALSE

Init ==
  /\ phase = 1 /\ step = "create"
  /\ conn = [c \in Connection |-> "none"]
  /\ clients = {}
  /\ task = NoTasks
  /\ pings = [c \in Connection |-> 0]
  /\ cancelling = FALSE /\ interrupted = FALSE
  /\ target \in Targets /\ warmup \in Warmups /\ timeUp = FALSE
  /\ claimed = 0 /\ sent = 0
  /\ recorded = 0 /\ errors = 0
  /\ status = "none" /\ failure = FALSE
  /\ hadError = FALSE /\ rows = <<>> /\ lost = "no" /\ exit = 0

\* Leaves the guarded region for its finally block.
EndPhase(st, fail) ==
  /\ status' = st
  /\ failure' = fail
  /\ step' = "close"

\* A worker task that runs is at `s`.
Working(t, s) == step = "workload" /\ ~ cancelling /\ task[t] = s

-----------------------------------------------------------------------------
(* Plausible bugs: variants of the actions below that the properties reject. *)

\* A failed connection ends the run at once, outside the guarded region.
ConnectFailureEscapes ==
  /\ step = "create" /\ ConnectFails
  /\ step' = "ended" /\ exit' = 1
  /\ UNCHANGED <<setup, task, pings, flags, timing, work, outcome, hadError,
                 rows, lost>>

\* `>` for `>=`.
ClaimPastTarget(t) ==
  /\ Working(t, "loop")
  /\ IF RequestBased
       THEN /\ claimed' = claimed + 1
            /\ GoTo(t, IF claimed > target THEN "done" ELSE "limit")
       ELSE /\ timeUp \/ sent < MaxSent
            /\ UNCHANGED claimed
            /\ GoTo(t, IF timeUp THEN "done" ELSE "limit")
  /\ UNCHANGED <<step, setup, pings, flags, timing, sent, collector, results>>

\* gather() without the drain of the siblings it leaves behind.
DrainedEarly ==
  /\ step \in {"warmup", "workload"} /\ cancelling
  /\ IF interrupted THEN EndPhase("INTERRUPTED", TRUE)
                    ELSE EndPhase("ERROR", step = "warmup")
  /\ UNCHANGED <<setup, task, pings, flags, timing, work, report>>

\* The drain waits for every task to be cancelled, the one that raised too.
DrainedCancelled ==
  /\ step \in {"warmup", "workload"} /\ cancelling
  /\ \A t \in Task : task[t] \in {"idle", "cancelled"}
  /\ IF interrupted THEN EndPhase("INTERRUPTED", TRUE)
                    ELSE EndPhase("ERROR", step = "warmup")
  /\ UNCHANGED <<setup, task, pings, flags, timing, work, report>>

\* The error flag is set anew by every phase.
WriteRowForgets ==
  /\ step = "close" /\ \A c \in clients : conn[c] = "closed"
  /\ hadError' = (status # "COMPLETED")
  /\ rows' = Append(rows, status)
  /\ IF failure \/ phase = Phases
       THEN /\ step' = "ended"
            /\ exit' = IF hadError' THEN 1 ELSE 0
            /\ UNCHANGED <<setup, task, pings, cancelling, timing, work,
                           outcome>>
       ELSE /\ step' = "create" /\ phase' = phase + 1
            /\ Fresh
            /\ UNCHANGED exit
  /\ UNCHANGED <<interrupted, lost>>

-----------------------------------------------------------------------------
(* Opening the connections and the warmup. *)

\* _create_clients awaits one connection at a time; the list it builds is
\* returned to _execute_phase only when it is complete.
Connect(c) ==
  /\ step = "create"
  /\ conn[c] = "none" /\ \A d \in 1..(c - 1) : conn[d] = "open"
  /\ conn' = [conn EXCEPT ![c] = "open"]
  /\ IF c < Conns
       THEN UNCHANGED <<step, clients>>
       ELSE clients' = Connection /\ step' = "commands"
  /\ UNCHANGED <<phase, task, pings, flags, timing, work, results>>

\* A connection cannot be opened: the exception unwinds _create_clients.
ConnectFailure ==
  /\ step = "create" /\ ConnectFails
  /\ EndPhase("ERROR", TRUE)
  /\ UNCHANGED <<setup, task, pings, flags, timing, work, report>>

\* A command name that CommandFactory does not know.
UnknownCommand ==
  /\ step = "commands"
  /\ EndPhase("ERROR", TRUE)
  /\ UNCHANGED <<setup, task, pings, flags, timing, work, report>>

\* The warmup tasks are created, one per connection.
StartWarmup ==
  /\ step = "commands" /\ warmup > 0
  /\ step' = "warmup"
  /\ task' = [t \in Task |-> IF t[2] = 1 THEN "await" ELSE "idle"]
  /\ UNCHANGED <<setup, pings, flags, timing, work, results>>

\* A PING is answered: the task sends the next one, ends, or raises.
Ping(t, ok) ==
  /\ step = "warmup" /\ ~ cancelling
  /\ task[t] = "await"
  /\ pings' = IF ok THEN [pings EXCEPT ![t[1]] = @ + 1] ELSE pings
  /\ GoTo(t, CASE ~ ok -> "raised"
               [] ok /\ pings'[t[1]] = warmup -> "done"
               [] OTHER -> "await")
  /\ UNCHANGED <<step, setup, flags, timing, work, results>>

\* The collector is started and the worker tasks are created.
StartWorkload ==
  /\ \/ step = "commands" /\ warmup = 0
     \/ /\ step = "warmup" /\ ~ cancelling
        /\ \A t \in Task : task[t] \in {"idle", "done"}
  /\ step' = "workload"
  /\ task' = [t \in Task |-> "loop"]
  /\ UNCHANGED <<setup, pings, flags, timing, work, results>>

-----------------------------------------------------------------------------
(* The workers. *)

\* The head of the loop: claim a slot of the budget (no await between the read
\* and the increment), or look at the deadline.
Claim(t) ==
  /\ Working(t, "loop")
  /\ IF RequestBased
       THEN /\ claimed' = claimed + 1
            /\ GoTo(t, IF claimed >= target THEN "done" ELSE "limit")
       ELSE /\ timeUp \/ sent < MaxSent
            /\ UNCHANGED claimed
            /\ GoTo(t, IF timeUp THEN "done" ELSE "limit")
  /\ UNCHANGED <<step, setup, pings, flags, timing, sent, collector, results>>

\* The rate limiter has let the task pass: the command goes to the driver.
Send(t) ==
  /\ Working(t, "limit")
  /\ sent' = sent + 1
  /\ GoTo(t, "await")
  /\ UNCHANGED <<step, setup, pings, flags, timing, claimed, collector,
                 results>>

\* The result, or the exception of the driver, is recorded.
Record(t, success) ==
  /\ Working(t, "await")
  /\ recorded' = recorded + 1
  /\ errors' = IF success THEN errors ELSE errors + 1
  /\ GoTo(t, "loop")
  /\ UNCHANGED <<step, setup, pings, flags, timing, budget, results>>

\* The driver raises, and so does the collector while it records that: it has
\* counted the request before.
Raise(t) ==
  /\ Working(t, "await")
  /\ recorded' = recorded + 1 /\ errors' = errors + 1
  /\ GoTo(t, "raised")
  /\ UNCHANGED <<step, setup, pings, flags, timing, budget, results>>

Deadline ==
  /\ ~ RequestBased /\ step = "workload" /\ ~ timeUp
  /\ timeUp' = TRUE
  /\ UNCHANGED <<step, setup, task, pings, flags, target, warmup, work,
                 results>>

\* A cancelled task unwinds from where it is suspended.
Unwind(t) ==
  /\ cancelling /\ task[t] \notin Ended
  /\ GoTo(t, "cancelled")
  /\ UNCHANGED <<step, setup, pings, flags, timing, work, results>>

-----------------------------------------------------------------------------
(* The end of the gather, of the phase, and of the run. *)

\* gather() raises the first exception: cancel the rest.
CancelRest ==
  /\ step \in {"warmup", "workload"} /\ ~ cancelling /\ SomeRaised
  /\ cancelling' = TRUE
  /\ UNCHANGED <<step, setup, task, pings, interrupted, timing, work, results>>

\* The drained gather raises again: _run_workload turns an Exception into a
\* status, everything else unwinds _execute_phase.
Drained ==
  /\ step \in {"warmup", "workload"} /\ cancelling /\ AllEnded
  /\ IF interrupted THEN EndPhase("INTERRUPTED", TRUE)
                    ELSE EndPhase("ERROR", step = "warmup")
  /\ UNCHANGED <<setup, task, pings, flags, timing, work, report>>

\* Every worker ended by itself; a phase without one success is an ERROR.
WorkloadEnds ==
  /\ step = "workload" /\ ~ cancelling
  /\ \A t \in Task : task[t] = "done"
  /\ EndPhase(IF recorded > 0 /\ errors = recorded THEN "ERROR"
                                                   ELSE "COMPLETED", FALSE)
  /\ UNCHANGED <<setup, task, pings, flags, timing, work, report>>

\* _close_clients: one after the other, whether or not close() raises.
Close(c) ==
  /\ step = "close"
  /\ c \in clients /\ conn[c] = "open"
  /\ \A d \in clients : d < c => conn[d] = "closed"
  /\ conn' = [conn EXCEPT ![c] = "closed"]
  /\ UNCHANGED <<step, phase, clients, task, pings, flags, timing, work,
                 results>>

\* The row is written; the failure is raised again, or the next phase starts.
WriteRow ==
  /\ step = "close" /\ \A c \in clients : conn[c] = "closed"
  /\ hadError' = (hadError \/ status # "COMPLETED")
  /\ rows' = Append(rows, status)
  /\ IF failure \/ phase = Phases
       THEN /\ step' = "ended"
            /\ exit' = IF hadError' THEN 1 ELSE 0
            /\ UNCHANGED <<setup, task, pings, cancelling, timing, work,
                           outcome>>
       ELSE /\ step' = "create" /\ phase' = phase + 1
            /\ Fresh
            /\ UNCHANGED exit
  /\ UNCHANGED <<interrupted, lost>>

\* The directory cannot be made, the file not be opened or written: the
\* OSError takes the place of a failure of the phase and ends the run.
WriteRowFails ==
  /\ step = "close" /\ \A c \in clients : conn[c] = "closed"
  /\ hadError' = (hadError \/ status # "COMPLETED")
  /\ lost' = "write"
  /\ step' = "ended" /\ exit' = 1
  /\ UNCHANGED <<setup, task, pings, flags, timing, work, outcome, rows>>

\* Ctrl-C: while connections are opened the CancelledError unwinds
\* _create_clients; during a gather the children are cancelled with it; while
\* connections are closed it leaves the finally block, past the row.
Interrupt ==
  /\ ~ interrupted /\ step \in CancelAt
  /\ interrupted' = TRUE
  /\ \/ /\ step = "create"
        /\ EndPhase("INTERRUPTED", TRUE)
        /\ UNCHANGED <<cancelling, lost, exit>>
     \/ /\ step \in {"warmup", "workload"}
        /\ cancelling' = TRUE
        /\ UNCHANGED <<step, outcome, lost, exit>>
     \/ /\ step = "close" /\ \E c \in clients : conn[c] = "open"
        /\ step' = "ended" /\ exit' = 1 /\ lost' = "close"
        /\ UNCHANGED <<cancelling, outcome>>
  /\ UNCHANGED <<setup, task, pings, timing, work, hadError, rows>>

Over == step = "ended" /\ UNCHANGED vars

Main ==
  \/ \E c \in Connection : Connect(c) \/ Close(c)
  \/ StartWarmup \/ StartWorkload
  \/ CancelRest \/ Drained \/ WorkloadEnds
  \/ WriteRow

Worker(t) ==
  \/ \E ok \in BOOLEAN : Ping(t, ok) \/ Record(t, ok)
  \/ Claim(t) \/ Send(t) \/ Unwind(t)

Next ==
  \/ Main
  \/ \E t \in Task : Worker(t) \/ Raise(t)
  \/ Deadline
  \/ ConnectFailure \/ UnknownCommand \/ WriteRowFails \/ Interrupt
  \/ Over

\* The event loop runs every task that is ready, the driver answers or raises,
\* and time passes.
Fairness ==
  /\ WF_vars(Main)
  /\ \A t \in Task : WF_vars(Worker(t))
  /\ WF_vars(Deadline)

Spec == Init /\ [][Next]_vars
FairSpec == Spec /\ Fairness

-----------------------------------------------------------------------------
(* Properties. *)

\* "no work escapes the phase that started it": a task that has not ended runs
\* inside the gather of its phase, on a connection that is open.
NoWorkEscapes ==
  \A t \in Task : task[t] \notin Ended =>
    step \in {"warmup", "workload"} /\ conn[t[1]] = "open"

\* The exit status is 0 exactly when every phase of the workload has a row that
\* says COMPLETED; an early ERROR is not forgotten by a later good phase.
ExitHonest ==
  step = "ended" =>
    (exit = 0 <=> Len(rows) = Phases
                  /\ \A i \in DOMAIN rows : rows[i] = "COMPLETED")

\* The run ends: a task that raises, or hangs on to a cancelled connection,
\* does not keep the gather waiting.
Ends == <>(step = "ended")

\* Whatever failed in a phase it has a row, unless that could not be written or
\* Ctrl-C arrived while the connections were closed; and wherever Ctrl-C
\* arrived, among failures or while siblings are drained, the row says so.
RowPerPhase ==
  step = "ended" =>
    \/ lost # "no"
    \/ /\ Len(rows) = phase
       /\ interrupted <=> rows[phase] = "INTERRUPTED"

\* "must still close what was opened and emit a row": when the run is over
\* nothing is left open.
NothingLeftOpen == step = "ended" => \A c \in Connection : conn[c] # "open"

\* The phases implement the abstract budget, one after the other.
Budget == INSTANCE RequestBudget
            WITH issued <- sent, recorded <- recorded, verdict <- status
BudgetSpec == Budget!Spec
=============================================================================
