---------------------------- MODULE JavaPipeline ----------------------------
(***************************************************************************)
(* The measured part of a phase in the Java engine when pipeline_depth > 1 *)
(* (BenchmarkEngine.runPipelinedLoop and claimAndSubmit): every worker     *)
(* keeps up to Depth futures in the list `pending`, waits for any of them, *)
(* and walks the list with an iterator that records and removes the done   *)
(* ones and refills the freed slot, appending to the list it walks.        *)
(*                                                                         *)
(* ArrayList's iterator is fail-fast: next() throws after the list was     *)
(* changed behind its back.                                                *)
(***************************************************************************)
EXTENDS Naturals, Sequences, FiniteSets, SequencesExt

CONSTANTS
  Workers,       \* one worker (virtual thread) per client
  Depth,         \* pipeline_depth
  Targets,       \* completion.requests; 0: the phase is duration-based
  MaxSent        \* bound on the requests of a duration-based phase

ASSUME WorkersAssumption == IsFiniteSet(Workers) /\ Workers # {}
ASSUME DepthAssumption == Depth \in Nat \ {0, 1}
ASSUME TargetsAssumption == Targets \subseteq Nat
ASSUME MaxSentAssumption == MaxSent \in Nat

VARIABLES
  target,        \* the budget of this phase, one of Targets
  running,       \* AtomicBoolean shared by the workers
  expired,       \* the end time of a duration-based phase has passed
  requestCount,  \* AtomicLong shared by the workers
  pc,            \* where each worker is
  filling,       \* per worker: claimAndSubmit was called by the fill loop
  filled,        \* per worker: the loop index of the initial fill
  pending,       \* per worker: its futures, "flying" or "ready"
  cursor,        \* per worker: the position of the iterator
  modified,      \* per worker: the list grew under the iterator
  totalRequests, \* MetricsCollector.totalRequests
  status,        \* the status executeWorkload returns, "none" before
  sent,          \* history: requests handed to the driver
  driverThrew    \* history: some driver call threw

env == <<target, expired>>
fill == <<filling, filled>>
list == <<pending, cursor, modified>>
outcome == <<totalRequests, status>>
history == <<sent, driverThrew>>
vars == <<running, env, requestCount, pc, fill, list, outcome, history>>

RequestBased == target > 0

Ended == {"done", "failed"}

GoTo(w, s) == pc' = [pc EXCEPT ![w] = s]

Init ==
  /\ target \in Targets
  /\ running = TRUE
  /\ expired = FALSE
  /\ requestCount = 0
  /\ pc = [w \in Workers |-> "fill"]
  /\ filling = [w \in Workers |-> TRUE]
  /\ filled = [w \in Workers |-> 0]
  /\ pending = [w \in Workers |-> <<>>]
  /\ cursor = [w \in Workers |-> 1]
  /\ modified = [w \in Workers |-> FALSE]
  /\ totalRequests = 0
  /\ status = "none"
  /\ sent = 0
  /\ driverThrew = FALSE

-----------------------------------------------------------------------------
(* Plausible bugs: variants of the actions below that the properties reject. *)

\* `>` for `>=`.
ClaimPastTarget(w) ==
  /\ pc[w] = "claim"
  /\ requestCount' = requestCount + 1
  /\ GoTo(w, IF requestCount > target THEN "giveback" ELSE "limit")
  /\ UNCHANGED <<running, env, fill, list, outcome, history>>

\* The worker leaves only with an empty list, also when the flag is down.
LeaveWhenEmpty(w) ==
  /\ pc[w] = "wait"
  /\ pending[w] = <<>>
  /\ GoTo(w, "done")
  /\ UNCHANGED <<running, env, requestCount, fill, list, outcome, history>>

\* it.remove() is forgotten.
HarvestKeeps(w) ==
  /\ pc[w] = "pass" /\ cursor[w] # Len(pending[w]) + 1 /\ ~ modified[w]
  /\ pending[w][cursor[w]] = "ready"
  /\ totalRequests' = totalRequests + 1
  /\ requestCount' = IF RequestBased THEN requestCount ELSE requestCount + 1
  /\ GoTo(w, IF running THEN "ask" ELSE "pass")
  /\ UNCHANGED <<running, env, fill, list, status, history>>

-----------------------------------------------------------------------------
(* claimAndSubmit, called by the fill loop and by the refill. *)

\* Where a claimAndSubmit that returned false leads: the fill loop breaks, the
\* refill goes on with the iterator.
Refused(w) == IF filling[w] THEN "wait" ELSE "pass"

\* The entry: the end time first, then the kind of phase.
Ask(w) ==
  /\ pc[w] = "ask"
  /\ RequestBased \/ expired \/ sent < MaxSent
  /\ GoTo(w, IF expired THEN Refused(w)
             ELSE IF RequestBased THEN "claim" ELSE "limit")
  /\ UNCHANGED <<running, env, requestCount, fill, list, outcome, history>>

Claim(w) ==
  /\ pc[w] = "claim"
  /\ requestCount' = requestCount + 1
  /\ GoTo(w, IF requestCount >= target THEN "giveback" ELSE "limit")
  /\ UNCHANGED <<running, env, fill, list, outcome, history>>

GiveBack(w) ==
  /\ pc[w] = "giveback"
  /\ requestCount' = requestCount - 1
  /\ GoTo(w, Refused(w))
  /\ UNCHANGED <<running, env, fill, list, outcome, history>>

\* The limiter let the request through: execute it, append its future.
Submit(w) ==
  /\ pc[w] = "limit"
  /\ pending' = [pending EXCEPT ![w] = Append(@, "flying")]
  /\ sent' = sent + 1
  /\ IF filling[w]
       THEN /\ filled' = [filled EXCEPT ![w] = @ + 1]
            /\ GoTo(w, "fill")
            /\ UNCHANGED modified
       ELSE /\ modified' = [modified EXCEPT ![w] = TRUE]
            /\ GoTo(w, "pass")
            /\ UNCHANGED filled
  /\ UNCHANGED <<running, env, requestCount, filling, cursor, outcome,
                 driverThrew>>

\* execute() throws instead of returning a future.
DriverThrows(w) ==
  /\ pc[w] = "limit"
  /\ driverThrew' = TRUE
  /\ running' = FALSE
  /\ GoTo(w, "failed")
  /\ UNCHANGED <<env, requestCount, fill, list, outcome, sent>>

-----------------------------------------------------------------------------
(* runPipelinedLoop. *)

\* for (i = 0; i < pipelineDepth && running.get(); i++)
Fill(w) ==
  /\ pc[w] = "fill"
  /\ GoTo(w, IF filled[w] < Depth /\ running THEN "ask" ELSE "wait")
  /\ UNCHANGED <<running, env, requestCount, fill, list, outcome, history>>

\* while (!pending.isEmpty() && running.get()): leave the loop, dropping the
\* futures that are still in flight when the flag is down.
Leave(w) ==
  /\ pc[w] = "wait"
  /\ pending[w] = <<>> \/ ~ running
  /\ GoTo(w, "done")
  /\ UNCHANGED <<running, env, requestCount, fill, list, outcome, history>>

\* The loop is entered: join() parks the worker until a future is done.
Await(w) ==
  /\ pc[w] = "wait"
  /\ pending[w] # <<>> /\ running
  /\ GoTo(w, "join")
  /\ UNCHANGED <<running, env, requestCount, fill, list, outcome, history>>

\* anyOf(pending).join() returned; a new iterator starts.
Wake(w) ==
  /\ pc[w] = "join"
  /\ Contains(pending[w], "ready")
  /\ filling' = [filling EXCEPT ![w] = FALSE]
  /\ cursor' = [cursor EXCEPT ![w] = 1]
  /\ modified' = [modified EXCEPT ![w] = FALSE]
  /\ GoTo(w, "pass")
  /\ UNCHANGED <<running, env, requestCount, filled, pending, outcome,
                 history>>

HasNext(w) == cursor[w] # Len(pending[w]) + 1

\* The iterator is at a future that is not done.
Skip(w) ==
  /\ pc[w] = "pass" /\ HasNext(w) /\ ~ modified[w]
  /\ pending[w][cursor[w]] = "flying"
  /\ cursor' = [cursor EXCEPT ![w] = @ + 1]
  /\ UNCHANGED <<running, env, requestCount, pc, fill, pending, modified,
                 outcome, history>>

\* The iterator is at a done future: remove it, record its result and, unless
\* the phase is stopping, ask for a new request in its place.
Harvest(w) ==
  /\ pc[w] = "pass" /\ HasNext(w) /\ ~ modified[w]
  /\ pending[w][cursor[w]] = "ready"
  /\ pending' = [pending EXCEPT ![w] = RemoveAt(@, cursor[w])]
  /\ totalRequests' = totalRequests + 1
  /\ requestCount' = IF RequestBased THEN requestCount ELSE requestCount + 1
  /\ GoTo(w, IF running THEN "ask" ELSE "pass")
  /\ UNCHANGED <<running, env, fill, cursor, modified, status, history>>

\* next() finds that the list was modified: ConcurrentModificationException,
\* which the worker's catch block turns into the end of the phase.
NextThrows(w) ==
  /\ pc[w] = "pass" /\ HasNext(w) /\ modified[w]
  /\ running' = FALSE
  /\ GoTo(w, "failed")
  /\ UNCHANGED <<env, requestCount, fill, list, outcome, history>>

EndPass(w) ==
  /\ pc[w] = "pass" /\ ~ HasNext(w)
  /\ GoTo(w, "wait")
  /\ UNCHANGED <<running, env, requestCount, fill, list, outcome, history>>

\* The driver completes a future, also one nobody waits for any more.
Answer(w) ==
  \E i \in DOMAIN pending[w] :
    /\ pending[w][i] = "flying"
    /\ pending' = [pending EXCEPT ![w][i] = "ready"]
    /\ UNCHANGED <<running, env, requestCount, pc, fill, cursor, modified,
                 outcome, history>>

\* The main thread found every future done.
Finish ==
  /\ status = "none"
  /\ \A w \in Workers : pc[w] \in Ended
  /\ status' = IF \E w \in Workers : pc[w] = "failed"
                 THEN "ERROR" ELSE "COMPLETED"
  /\ UNCHANGED <<running, env, requestCount, pc, fill, list, totalRequests,
                 history>>

\* The end time of a duration-based phase passes.
Expire ==
  /\ ~ RequestBased
  /\ expired' = TRUE
  /\ UNCHANGED <<target, running, requestCount, pc, fill, list, outcome,
                 history>>

Stopped ==
  /\ status # "none"
  /\ UNCHANGED vars

Step(w) ==
  \/ Fill(w) \/ Ask(w) \/ Claim(w) \/ GiveBack(w) \/ Submit(w)
  \/ Await(w) \/ Wake(w) \/ Skip(w) \/ Harvest(w) \/ NextThrows(w) \/ EndPass(w)
  \/ Leave(w)

Next ==
  \/ \E w \in Workers : Step(w) \/ Answer(w) \/ DriverThrows(w)
  \/ Finish
  \/ Expire
  \/ Stopped

\* The scheduler runs every worker and the main thread; the driver completes
\* every future; time passes.
Fairness ==
  /\ \A w \in Workers : WF_vars(Step(w)) /\ WF_vars(Answer(w))
  /\ WF_vars(Finish)
  /\ WF_vars(Expire)

Spec == Init /\ [][Next]_vars
FairSpec == Spec /\ Fairness

-----------------------------------------------------------------------------
(* Properties. *)

\* The futures in the lists, by worker and position.
Futures == UNION {{w} \X DOMAIN pending[w] : w \in Workers}

\* No result is recorded twice and none is lost while its worker runs: every
\* request that was sent is either recorded or still in its worker's list.
NoResultTwice == totalRequests + Cardinality(Futures) = sent

\* The phase ends even though results are dropped and claims given back.
Terminates == <>(status # "none")

\* The workload implements the abstract budget.
Budget == INSTANCE RequestBudget
            WITH issued <- sent, recorded <- totalRequests, verdict <- status
BudgetSpec == Budget!Spec

\* What the comment of runPipelinedLoop promises: after a completion the
\* worker "immediately issues a new request to keep the pipeline full".  A
\* worker whose driver never threw is not killed by its own refill.
RefillSurvives == ~ driverThrew => \A w \in Workers : pc[w] # "failed"
=============================================================================
