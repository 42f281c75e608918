---------------------------- MODULE JavaWorkload ----------------------------
(***************************************************************************)
(* The measured part of a phase in the Java engine                         *)
(* (BenchmarkEngine.executeWorkload with pipeline_depth <= 1): one virtual *)
(* thread per client runs runSyncLoop, all of them share the request       *)
(* counter `requestCount` and the flag `running`, and the main thread      *)
(* waits for them and gives the phase its status.                          *)
(*                                                                         *)
(* A worker claims a request by getAndIncrement; a claim at or past the    *)
(* target is given back by decrementAndGet in a second step, so the        *)
(* counter overshoots the target for a while.                              *)
(***************************************************************************)
EXTENDS Naturals, FiniteSets

CONSTANTS
  Workers,       \* one worker (virtual thread) per client
  Targets,       \* completion.requests; 0: the phase is duration-based
  Deadline,      \* endTimeMs of a duration-based phase, in clock ticks
  MaxSent        \* bound on the requests of a duration-based phase

ASSUME WorkersAssumption == IsFiniteSet(Workers) /\ Workers # {}
ASSUME TargetsAssumption == Targets \subseteq Nat
ASSUME DeadlineAssumption == Deadline \in Nat \ {0}
ASSUME MaxSentAssumption == MaxSent \in Nat

VARIABLES
  target,        \* the budget of this phase, one of Targets
  running,       \* AtomicBoolean: cleared by the first worker that throws
  requestCount,  \* AtomicLong shared by the workers
  pc,            \* where each worker is
  clock,         \* System.currentTimeMillis(), in ticks since the start
  totalRequests, \* MetricsCollector.totalRequests
  totalErrors,   \* MetricsCollector.totalErrors
  main,          \* the main thread: "poll", "closing" (interrupted), "stopped"
  status,        \* the status executeWorkload returns, "none" before
  sent,          \* history: requests handed to the driver
  overrun        \* history: per worker, requests sent after the stop condition

env == <<target, clock>>
window == <<totalRequests, totalErrors>>
mainThread == <<main, status>>
history == <<sent, overrun>>
vars == <<running, requestCount, pc, env, window, mainThread, history>>

RequestBased == target > 0

Ended == {"done", "failed"}
WorkerState == {"loop", "claim", "giveback", "limit", "await"} \cup Ended

\* The workers that are at `s`.
At(s) == {w \in Workers : pc[w] = s}

GoTo(w, s) == pc' = [pc EXCEPT ![w] = s]

TimeUp == ~ RequestBased /\ clock >= Deadline

Init ==
  /\ target \in Targets
  /\ running = TRUE
  /\ requestCount = 0
  /\ pc = [w \in Workers |-> "loop"]
  /\ clock = 0
  /\ totalRequests = 0
  /\ totalErrors = 0
  /\ main = "poll"
  /\ status = "none"
  /\ sent = 0
  /\ overrun = [w \in Workers |-> 0]

-----------------------------------------------------------------------------
(* Plausible bugs: variants of the actions below that the properties reject. *)

\* The loop is entered without a look at the flag and the end time.
EnterBlindly(w) ==
  /\ pc[w] = "loop"
  /\ RequestBased \/ sent < MaxSent
  /\ GoTo(w, IF RequestBased THEN "claim" ELSE "limit")
  /\ UNCHANGED <<running, requestCount, env, window, mainThread, history>>

\* `>` for `>=`.
ClaimPastTarget(w) ==
  /\ pc[w] = "claim"
  /\ requestCount' = requestCount + 1
  /\ GoTo(w, IF requestCount > target THEN "giveback" ELSE "limit")
  /\ UNCHANGED <<running, env, window, mainThread, history>>

\* The claim is given back by the loop and again by its caller.
GiveBackTwice(w) ==
  /\ pc[w] = "giveback"
  /\ requestCount' = requestCount - 2
  /\ GoTo(w, "done")
  /\ UNCHANGED <<running, env, window, mainThread, history>>

\* `continue` for `break`.
GiveBackContinue(w) ==
  /\ pc[w] = "giveback"
  /\ requestCount' = requestCount - 1
  /\ GoTo(w, "loop")
  /\ UNCHANGED <<running, env, window, mainThread, history>>

\* Failed requests are counted as errors only.
RecordSuccesses(w, success) ==
  /\ pc[w] = "await"
  /\ GoTo(w, "loop")
  /\ totalRequests' = IF success THEN totalRequests + 1 ELSE totalRequests
  /\ totalErrors' = IF success THEN totalErrors ELSE totalErrors + 1
  /\ requestCount' = IF RequestBased THEN requestCount ELSE requestCount + 1
  /\ UNCHANGED <<running, env, mainThread, history>>

\* The main thread waits for any future instead of all.
FinishAny ==
  /\ main = "poll"
  /\ \E w \in Workers : pc[w] \in Ended
  /\ main' = "stopped"
  /\ status' = IF At("failed") # {} THEN "ERROR" ELSE "COMPLETED"
  /\ UNCHANGED <<running, requestCount, pc, env, window, history>>

-----------------------------------------------------------------------------
(* The worker: runSyncLoop. *)

\* The head of the loop: stop when another worker failed or the time is up.
Leave(w) ==
  /\ pc[w] = "loop"
  /\ ~ running \/ TimeUp
  /\ GoTo(w, "done")
  /\ UNCHANGED <<running, requestCount, env, window, mainThread, history>>

\* The head of the loop passed: a request-based phase claims, a
\* duration-based one goes straight to the rate limiter.
Enter(w) ==
  /\ pc[w] = "loop"
  /\ running /\ ~ TimeUp
  /\ RequestBased \/ sent < MaxSent
  /\ GoTo(w, IF RequestBased THEN "claim" ELSE "limit")
  /\ UNCHANGED <<running, requestCount, env, window, mainThread, history>>

\* requestCount.getAndIncrement() and the test of the value it returned.
Claim(w) ==
  /\ pc[w] = "claim"
  /\ requestCount' = requestCount + 1
  /\ GoTo(w, IF requestCount >= target THEN "giveback" ELSE "limit")
  /\ UNCHANGED <<running, env, window, mainThread, history>>

\* requestCount.decrementAndGet(), then break.
GiveBack(w) ==
  /\ pc[w] = "giveback"
  /\ requestCount' = requestCount - 1
  /\ GoTo(w, "done")
  /\ UNCHANGED <<running, env, window, mainThread, history>>

\* rateLimiter.acquire() has returned: the command goes to the driver.
Send(w) ==
  /\ pc[w] = "limit"
  /\ GoTo(w, "await")
  /\ sent' = sent + 1
  /\ overrun' = IF running /\ ~ TimeUp THEN overrun
                ELSE [overrun EXCEPT ![w] = @ + 1]
  /\ UNCHANGED <<running, requestCount, env, window, mainThread>>

\* join() returned: the result, a success or a failure, is recorded, and a
\* duration-based phase counts the request here.
Record(w, success) ==
  /\ pc[w] = "await"
  /\ GoTo(w, "loop")
  /\ totalRequests' = totalRequests + 1
  /\ totalErrors' = IF success THEN totalErrors ELSE totalErrors + 1
  /\ requestCount' = IF RequestBased THEN requestCount ELSE requestCount + 1
  /\ UNCHANGED <<running, env, mainThread, history>>

\* An exception other than CompletionException, from execute() or join():
\* the worker clears the flag and its future fails.
Throw(w) ==
  /\ pc[w] \in {"limit", "await"}
  /\ GoTo(w, "failed")
  /\ running' = FALSE
  /\ UNCHANGED <<requestCount, env, window, mainThread, history>>

-----------------------------------------------------------------------------
(* The main thread: executeWorkload. *)

AllDone == \A w \in Workers : pc[w] \in Ended

\* Every future is done: f.get() tells the failed ones, metrics.stop().
Finish ==
  /\ main = "poll"
  /\ AllDone
  /\ main' = "stopped"
  /\ status' = IF At("failed") # {} THEN "ERROR" ELSE "COMPLETED"
  /\ UNCHANGED <<running, requestCount, pc, env, window, history>>

\* Thread.sleep(100) was interrupted.
Interrupt ==
  /\ main = "poll"
  /\ main' = "closing"
  /\ UNCHANGED <<running, requestCount, pc, env, window, status, history>>

\* Leaving the try block closes the executor, which waits for the workers;
\* only then is the interruption reported.
FinishInterrupted ==
  /\ main = "closing"
  /\ AllDone
  /\ main' = "stopped"
  /\ status' = "INTERRUPTED"
  /\ UNCHANGED <<running, requestCount, pc, env, window, history>>

\* Time passes; it matters only to a duration-based phase, up to its deadline.
Tick ==
  /\ ~ RequestBased
  /\ clock < Deadline
  /\ clock' = clock + 1
  /\ UNCHANGED <<target, running, requestCount, pc, window, mainThread,
                 history>>

\* The phase is over.
Stopped ==
  /\ main = "stopped"
  /\ UNCHANGED vars

Worker(w) ==
  \/ Leave(w)
  \/ Enter(w)
  \/ Claim(w)
  \/ GiveBack(w)
  \/ Send(w)
  \/ \E success \in BOOLEAN : Record(w, success)

Next ==
  \/ \E w \in Workers : Worker(w) \/ Throw(w)
  \/ Finish
  \/ Interrupt
  \/ FinishInterrupted
  \/ Tick
  \/ Stopped

\* The scheduler runs every virtual thread and the main thread, the driver
\* answers every request (or throws), and time passes.  Nothing has to throw
\* and nobody has to interrupt.
Fairness ==
  /\ \A w \in Workers : WF_vars(Worker(w))
  /\ WF_vars(Finish \/ FinishInterrupted)
  /\ WF_vars(Tick)

Spec == Init /\ [][Next]_vars
FairSpec == Spec /\ Fairness

-----------------------------------------------------------------------------
(* Properties. *)

\* The values of the variables.
TypeOK ==
  /\ target \in Nat
  /\ running \in BOOLEAN
  /\ requestCount \in Nat
  /\ pc \in [Workers -> WorkerState]
  /\ clock \in Nat
  /\ totalRequests \in Nat
  /\ totalErrors \in Nat
  /\ main \in {"poll", "closing", "stopped"}
  /\ status \in {"none", "COMPLETED", "ERROR", "INTERRUPTED"}
  /\ sent \in Nat
  /\ overrun \in [Workers -> Nat]

\* A COMPLETED request-based phase sent exactly its budget and recorded every
\* result, and the counter the main thread logs has settled on the budget, the
\* overshoots of the racing claims all given back.
CompletedIsExact ==
  (status = "COMPLETED" /\ RequestBased) =>
    /\ totalRequests = target
    /\ sent = target
    /\ requestCount = target

\* Racing claims never hand the driver more requests than the budget, not even
\* for a moment, although the counter itself may exceed the target.
BudgetRespected == RequestBased => sent <= target

\* After the stop condition (a worker failed, or the deadline passed) every
\* worker sends at most the one request it had already committed to.
OverrunBounded == \A w \in Workers : overrun[w] <= 1

\* The main thread tells the truth: COMPLETED means no worker failed, ERROR
\* means one did, and no status is given while a worker still runs.
VerdictHonest ==
  /\ status = "COMPLETED" => At("failed") = {}
  /\ status = "ERROR" => At("failed") # {}
  /\ status # "none" => AllDone

\* Once the measurement window is closed no result is recorded into it: the
\* row written afterwards cannot change under the writer.
WindowIsFinal ==
  [][main = "stopped" => UNCHANGED <<window, requestCount>>]_vars

\* The phase ends: no worker waits for a budget or a flag that never comes.
Terminates == <>(status # "none")

\* The workload implements the abstract budget.
Budget == INSTANCE RequestBudget
            WITH issued <- sent, recorded <- totalRequests, verdict <- status

BudgetSpec == Budget!Spec
=============================================================================
