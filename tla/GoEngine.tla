------------------------------ MODULE GoEngine ------------------------------
(***************************************************************************)
(* The phases of the Go engine (internal/engine/benchmark.go).  The flag   *)
(* is read by the workers and between phases only, so a signal that comes  *)
(* while connections are opened or warmed up is seen by the workload.      *)
(* Warmup goroutines run side by side.  A worker that panics recovers and  *)
(* delivers its collector all the same.                                    *)
(*                                                                         *)
(* A rate limit below the number of connections leaves connections out.    *)
(***************************************************************************)
EXTENDS SharedBudget

\* activeConnectionCount: how many connections do work.
Active == IF rps > 0 /\ rps < Conns THEN rps ELSE Conns

Workers == (1..Active) \X (1..Depth)

\* The phase ends before its workload; its row gets an empty window.
Abandon(next) ==
  /\ status' = "ERROR"
  /\ window' = TRUE
  /\ step' = next
  /\ UNCHANGED <<setup, warming, worker, timeUp, interrupted, budget, recorded,
                 local, merged, panicked, report>>

Warmed == warmup = 0 \/ (step = "warmup" /\ AllIdle /\ ~ failed)

-----------------------------------------------------------------------------
(* Plausible bugs: variants of the definitions below that the properties   *)
(* reject.                                                                 *)

\* The first warmup that fails ends the phase.
WarmupFailsEarly ==
  /\ step = "warmup" /\ failed
  /\ Abandon("close")
  /\ UNCHANGED clients

\* The merge is not deferred: a panic skips it.
PanicDropsWindow(w) ==
  /\ At(w, "await")
  /\ panicked' = TRUE
  /\ GoTo(w, "done")
  /\ UNCHANGED <<step, setup, clients, warming, timeUp, interrupted, budget,
                 metrics, status, report>>

\* wg.Done is not deferred: a panic skips it.
PanicHangs(w) ==
  /\ At(w, "await")
  /\ panicked' = TRUE
  /\ GoTo(w, "gone")
  /\ UNCHANGED <<step, setup, clients, warming, timeUp, interrupted, budget,
                 metrics, status, report>>

\* The counter is compared as it was before the decrement.
ClaimPastZero(w) ==
  /\ At(w, "claim")
  /\ IF RequestBased
       THEN /\ remaining' = remaining - 1
            /\ GoTo(w, IF remaining < 0 THEN "leave" ELSE "limit")
       ELSE /\ timeUp \/ sent < MaxSent
            /\ GoTo(w, IF timeUp THEN "leave" ELSE "limit")
            /\ UNCHANGED remaining
  /\ UNCHANGED <<step, setup, clients, warming, timeUp, interrupted, sent,
                 metrics, panicked, status, report>>

-----------------------------------------------------------------------------
(* Connections and warmup. *)

Connect ==
  /\ step = "connect"
  /\ clients' = clients \cup {Cardinality(clients) + 1}
  /\ step' = IF Cardinality(clients) + 1 = Active THEN "ready" ELSE "connect"
  /\ UNCHANGED <<setup, warming, worker, timeUp, interrupted, budget, metrics,
                 panicked, status, report>>

\* The connections that are open are closed.
ConnectFails ==
  /\ step = "connect"
  /\ clients' = {}
  /\ Abandon("write")

StartWarmup ==
  /\ step = "ready" /\ warmup > 0
  /\ step' = "warmup"
  /\ worker' = [w \in Worker |-> IF w \in Workers /\ w[2] = 1 THEN "ping"
                                                             ELSE "idle"]
  /\ UNCHANGED <<setup, clients, warming, timeUp, interrupted, budget, metrics,
                 panicked, status, report>>

\* A warmup goroutine returns at its first failure; the others go on.
Ping(w, ok) ==
  /\ step = "warmup" /\ worker[w] = "ping"
  /\ pings' = IF ok THEN [pings EXCEPT ![w[1]] = @ + 1] ELSE pings
  /\ failed' = (failed \/ ~ ok)
  /\ GoTo(w, IF ok /\ pings'[w[1]] < warmup THEN "ping" ELSE "done")
  /\ UNCHANGED <<step, setup, clients, timeUp, interrupted, budget, metrics,
                 panicked, status, report>>

WarmupFails ==
  /\ step = "warmup" /\ AllIdle /\ failed
  /\ Abandon("close")
  /\ UNCHANGED clients

-----------------------------------------------------------------------------
(* The workload. *)

\* A command name that is not known.
UnknownCommand ==
  /\ step \in {"ready", "warmup"} /\ Warmed
  /\ Abandon("close")
  /\ UNCHANGED clients

StartWorkload ==
  /\ step \in {"ready", "warmup"} /\ Warmed
  /\ step' = "workload"
  /\ remaining' = IF RequestBased THEN target ELSE -1
  /\ worker' = [w \in Worker |-> IF w \in Workers THEN "loop" ELSE "idle"]
  /\ UNCHANGED <<setup, clients, warming, timeUp, interrupted, sent, metrics,
                 panicked, status, report>>

\* remaining.Add(-1) < 0, or the clock.
Claim(w) ==
  /\ At(w, "claim")
  /\ IF RequestBased
       THEN /\ remaining' = remaining - 1
            /\ GoTo(w, IF remaining' < 0 THEN "leave" ELSE "limit")
       ELSE /\ timeUp \/ sent < MaxSent
            /\ GoTo(w, IF timeUp THEN "leave" ELSE "limit")
            /\ UNCHANGED remaining
  /\ UNCHANGED <<step, setup, clients, warming, timeUp, interrupted, sent,
                 metrics, panicked, status, report>>

\* The first deferred function recovers.
Panic(w) ==
  /\ At(w, "await")
  /\ panicked' = TRUE
  /\ GoTo(w, "leave")
  /\ UNCHANGED <<step, setup, clients, warming, timeUp, interrupted, budget,
                 metrics, status, report>>

\* The second one stops the worker's window and merges its collector.
Merge(w) ==
  /\ At(w, "leave")
  /\ merged' = Plus(merged, local[w])
  /\ window' = TRUE
  /\ GoTo(w, "done")
  /\ UNCHANGED <<step, setup, clients, warming, timeUp, interrupted, budget,
                 recorded, local, panicked, status, report>>

WorkerStep(w) ==
  \/ \E ok \in BOOLEAN : Ping(w, ok) \/ Record(w, ok)
  \/ LookAtFlag(w) \/ Claim(w) \/ Send(w) \/ Merge(w)

Main ==
  \/ Connect \/ StartWarmup \/ WarmupFails \/ StartWorkload
  \/ Verdict \/ CloseClients
  \/ \E written \in BOOLEAN : WriteRow(written)

Next ==
  \/ Main
  \/ \E w \in Worker : WorkerStep(w) \/ Panic(w)
  \/ ConnectFails \/ UnknownCommand
  \/ Deadline \/ Signal
  \/ Over
=============================================================================
