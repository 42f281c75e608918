----------------------------- MODULE RustEngine -----------------------------
(***************************************************************************)
(* The phases of the Rust engine (engine/benchmark.rs).  The main thread   *)
(* reads the flag before every connection it opens and every warmup PING   *)
(* it sends, one client after the other; a phase whose setup was cut short *)
(* runs with the connections it has.  A worker that panics takes its       *)
(* collector with it.                                                      *)
(***************************************************************************)
EXTENDS SharedBudget

Workers == clients \X (1..Depth)

\* The phase ends before its workload.
Abandon(s, next) ==
  /\ status' = s
  /\ step' = next
  /\ window' = TRUE
  /\ UNCHANGED <<setup, warming, worker, timeUp, interrupted, budget, recorded,
                 local, merged, panicked, report>>

Warmed == step = "warmup" /\ \A c \in clients : pings[c] = warmup

-----------------------------------------------------------------------------
(* Connections and warmup. *)

Connect ==
  /\ step = "connect" /\ ~ interrupted
  /\ clients' = clients \cup {Cardinality(clients) + 1}
  /\ step' = IF clients' = Connection THEN "ready" ELSE "connect"
  /\ UNCHANGED <<setup, warming, worker, timeUp, interrupted, budget, metrics,
                 panicked, status, report>>

\* `?` drops the list of clients, and with it the connections.
ConnectFails ==
  /\ step = "connect" /\ ~ interrupted
  /\ clients' = {}
  /\ Abandon("ERROR", "write")

\* The setup is cut short.
StopConnecting ==
  /\ step = "connect" /\ interrupted
  /\ IF clients = {}
       THEN Abandon("INTERRUPTED", "write")
       ELSE /\ step' = "ready"
            /\ UNCHANGED <<setup, warming, worker, timeUp, interrupted, budget,
                           metrics, panicked, status, report>>
  /\ UNCHANGED clients

\* create_all: the names of the commands.
KnownCommands ==
  /\ step = "ready"
  /\ step' = "warmup"
  /\ UNCHANGED <<setup, clients, warming, worker, timeUp, interrupted, budget,
                 metrics, panicked, status, report>>

UnknownCommand ==
  /\ step = "ready"
  /\ Abandon("ERROR", "close")
  /\ UNCHANGED clients

\* The client that is pinged next.
Pinged(c) ==
  /\ c \in clients /\ pings[c] < warmup
  /\ \A d \in clients : d < c => pings[d] = warmup

Ping(c, ok) ==
  /\ step = "warmup" /\ ~ interrupted /\ ~ failed
  /\ Pinged(c)
  /\ pings' = IF ok THEN [pings EXCEPT ![c] = @ + 1] ELSE pings
  /\ failed' = ~ ok
  /\ UNCHANGED <<step, setup, clients, worker, timeUp, interrupted, budget,
                 metrics, panicked, status, report>>

\* A PING failed, or the flag was seen before a PING.
WarmupEnds ==
  /\ step = "warmup" /\ ~ Warmed
  /\ failed \/ interrupted
  /\ Abandon(IF interrupted THEN "INTERRUPTED" ELSE "ERROR", "close")
  /\ UNCHANGED clients

-----------------------------------------------------------------------------
(* The workload. *)

\* The collector of the phase starts before the workers do.
StartWorkload ==
  /\ Warmed
  /\ step' = "workload"
  /\ remaining' = target
  /\ window' = TRUE
  /\ worker' = [w \in Worker |-> IF w \in Workers THEN "loop" ELSE "idle"]
  /\ UNCHANGED <<setup, clients, warming, timeUp, interrupted, sent, recorded,
                 local, merged, panicked, status, report>>

\* remaining.fetch_sub(1) <= 0, or the clock.
Claim(w) ==
  /\ At(w, "claim")
  /\ IF RequestBased
       THEN /\ remaining' = remaining - 1
            /\ GoTo(w, IF remaining <= 0 THEN "leave" ELSE "limit")
       ELSE /\ timeUp \/ sent < MaxSent
            /\ GoTo(w, IF timeUp THEN "leave" ELSE "limit")
            /\ UNCHANGED remaining
  /\ UNCHANGED <<step, setup, clients, warming, timeUp, interrupted, sent,
                 metrics, panicked, status, report>>

\* catch_unwind: the collector was inside the closure.
Panic(w) ==
  /\ At(w, "await")
  /\ panicked' = TRUE
  /\ GoTo(w, "done")
  /\ UNCHANGED <<step, setup, clients, warming, timeUp, interrupted, budget,
                 metrics, status, report>>

Merge(w) ==
  /\ At(w, "leave")
  /\ merged' = Plus(merged, local[w])
  /\ GoTo(w, "done")
  /\ UNCHANGED <<step, setup, clients, warming, timeUp, interrupted, budget,
                 recorded, local, window, panicked, status, report>>

\* One pass of worker_loop, or its end.
WorkerStep(w) ==
  \/ LookAtFlag(w) \/ Claim(w) \/ Send(w) \/ Merge(w)
  \/ \E success \in BOOLEAN : Record(w, success)

\* run and execute_phase.
Main ==
  \/ Connect \/ StopConnecting \/ KnownCommands
  \/ \E c \in Connection, ok \in BOOLEAN : Ping(c, ok)
  \/ WarmupEnds \/ StartWorkload
  \/ Verdict \/ CloseClients
  \/ \E written \in BOOLEAN : WriteRow(written)

Next ==
  \/ Main
  \/ \E w \in Worker : WorkerStep(w) \/ Panic(w)
  \/ ConnectFails \/ UnknownCommand
  \/ Deadline \/ Signal
  \/ Over
=============================================================================
