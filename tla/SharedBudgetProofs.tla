------------------------- MODULE SharedBudgetProofs -------------------------
(***************************************************************************)
(* Proofs about SharedBudgetEngines for every number of phases,            *)
(* connections and workers, every budget, warmup and rate: the safety      *)
(* properties the run checks on a small instance, and that each phase of   *)
(* the Go and of the Rust engine implements RequestBudget.                 *)
(*                                                                         *)
(* The argument counts.  What the shared counter has granted is waiting at *)
(* the limiter or sent; what was sent is awaited or recorded, unless a     *)
(* worker panicked; what was recorded is in the collector of the phase or  *)
(* in that of a worker that has yet to deliver it.  A phase that is        *)
(* COMPLETED has nobody left in between.                                   *)
(*                                                                         *)
(* The engines differ in how they set up a phase and in few details of the *)
(* workload, so the counting is done about kinds of steps, and a lemma     *)
(* says that every step of an engine is of one of these kinds.             *)
(***************************************************************************)
EXTENDS SharedBudgetEngines, FiniteSetTheorems, TLAPS

-----------------------------------------------------------------------------
(* The inductive invariant. *)

Setup == {"connect", "ready", "warmup"}
Ended == {"idle", "done"}
Counts == [requests : Nat, errors : Nat]
Final == {"COMPLETED", "ERROR", "INTERRUPTED"}

TypeInv ==
  /\ engine \in {"go", "rust"}
  /\ phase \in Nat /\ target \in Nat /\ warmup \in Nat /\ rps \in Nat
  /\ step \in Setup \cup {"workload", "close", "write", "ended"}
  /\ clients \subseteq Connection
  /\ pings \in [Connection -> Nat] /\ failed \in BOOLEAN
  /\ worker \in [Worker -> Ended \cup {"ping", "loop", "claim", "limit",
                                       "await", "leave"}]
  /\ timeUp \in BOOLEAN /\ interrupted \in BOOLEAN
  /\ remaining \in Int /\ sent \in Nat /\ recorded \in Nat
  /\ local \in [Worker -> Counts] /\ merged \in Counts
  /\ window \in BOOLEAN /\ panicked \in BOOLEAN
  /\ status \in Final \cup {"none"} /\ exit \in {0, 1}
  /\ rows \in Seq([status : Final, written : BOOLEAN])

\* The connections that do work.
Active == IF engine = "go" THEN Go!Active ELSE Conns

\* Connections are opened in order.  The workload finds every connection that
\* is to do work open; a Rust phase that is cut short finds one at least.
ClientsInv ==
  /\ \E n \in 0..Active : clients = 1..n
  /\ step = "connect" => ~ Active \in clients
  /\ step \in {"ready", "warmup", "workload"} =>
       clients # {} /\ (engine = "go" => Active \in clients)
  /\ step = "write" => clients = {}

\* Who works, and on what.
WorkInv ==
  /\ NoWorkEscapes
  /\ step = "warmup" =>
       IF engine = "go" THEN warmup > 0 ELSE \A w \in Worker : worker[w] \in Ended
  /\ step = "workload" => \A w \in Worker : /\ worker[w] # "ping"
                                            /\ worker[w] = "idle" <=> w[1] \notin clients

\* Nothing has happened before the workload.
FreshInv ==
  step \in Setup =>
    /\ sent = 0 /\ recorded = 0 /\ ~ panicked
    /\ merged = NoResults /\ local = [w \in Worker |-> NoResults]

\* The workers at a place.
Those(s) == {w \in Worker : worker[w] = s}
Num(s) == Cardinality(Those(s))

\* What the counter still has to grant: it sinks below zero.
Left == IF remaining > 0 THEN remaining ELSE 0

\* The counter grants the budget, no more; a worker leaves an undisturbed
\* workload only when nothing is left.
GrantInv ==
  (step = "workload" /\ RequestBased) =>
    /\ sent + Num("limit") + Left = target
    /\ (\E w \in Worker : worker[w] \in {"leave", "done"}) =>
         remaining <= 0 \/ interrupted \/ panicked

\* A request that was sent is awaited or recorded, unless a worker panicked.
RecordInv ==
  step = "workload" =>
    /\ recorded + Num("await") <= sent
    /\ ~ panicked => recorded + Num("await") = sent

\* The results of the workers that have not delivered them, as a set with one
\* element per result.
Undelivered ==
  UNION {{w} \X (1..local[w].requests) : w \in Worker \ Those("done")}

\* Nobody's results are dropped.
Whole == engine = "go" \/ ~ panicked

\* A recorded result is delivered or to be delivered.
DeliverInv ==
  /\ \A w \in Worker : local[w].errors <= local[w].requests
  /\ merged.errors <= merged.requests
  /\ step = "workload" =>
       /\ \A w \in Worker : worker[w] = "idle" => local[w] = NoResults
       /\ Whole => /\ IsFiniteSet(Undelivered)
                   /\ merged.requests + Cardinality(Undelivered) = recorded

\* The collector of the phase has its window as soon as one worker is done.
WindowInv ==
  step = "workload" =>
    IF engine = "go" THEN (\E w \in Worker : worker[w] = "done") => window
                     ELSE window

\* The verdict is there from the end of the workload on, and the row is true.
EndInv ==
  /\ status = "none" <=> step \in Setup \cup {"workload"}
  /\ step \in {"close", "write"} =>
       /\ window
       /\ Whole => merged.requests = recorded
       /\ status = "COMPLETED" =>
            merged.requests = sent /\ (sent > 0 => merged.errors < sent)

\* The exit status, at any time, and the phases that have been executed.
ExitInv ==
  /\ exit = 0 <=> \A i \in DOMAIN rows : rows[i].status = "COMPLETED"
  /\ Len(rows) = IF step = "ended" THEN phase ELSE phase - 1
  /\ step = "ended" => phase = Phases \/ interrupted

IInv ==
  /\ TypeInv /\ ClientsInv /\ WorkInv /\ FreshInv /\ GrantInv /\ RecordInv
  /\ DeliverInv /\ WindowInv /\ EndInv /\ ExitInv

-----------------------------------------------------------------------------
(* The kinds of steps.  The variables a kind does not mention may change.   *)

constant == <<engine, setup>>
counters == <<sent, recorded, local, merged, panicked>>

\* The steps before the workload, in which the engines differ: the main thread
\* is at work on the connections or the warmup, or gives up.
SetupStep ==
  \/ /\ engine = "go"
     /\ \/ Go!Connect \/ Go!ConnectFails
        \/ Go!StartWarmup \/ Go!WarmupFails \/ Go!UnknownCommand
        \/ \E w \in Worker, ok \in BOOLEAN : Go!Ping(w, ok)
  \/ /\ engine = "rust"
     /\ \/ Rust!Connect \/ Rust!ConnectFails \/ Rust!StopConnecting
        \/ Rust!KnownCommands \/ Rust!UnknownCommand \/ Rust!WarmupEnds
        \/ \E c \in Connection, ok \in BOOLEAN : Rust!Ping(c, ok)

\* What they have in common.
SettingUp ==
  /\ step \in Setup
  /\ UNCHANGED <<constant, counters, exit, rows>>
  /\ \/ step' \in Setup /\ UNCHANGED <<status, window>>
     \/ step' \in {"close", "write"} /\ status' \in {"ERROR", "INTERRUPTED"} /\ window'

\* The workers of the connections that are open start.
Starting ==
  /\ step \in {"ready", "warmup"} /\ step' = "workload"
  /\ remaining' \in Int /\ (RequestBased => remaining' = target)
  /\ window' \in BOOLEAN /\ (engine = "rust" => window')
  /\ worker' = [w \in Worker |-> IF w[1] \in clients THEN "loop" ELSE "idle"]
  /\ UNCHANGED <<constant, warming, timeUp, clients, counters, interrupted, status, exit, rows>>

\* A worker claims: what the Go engine reads of the counter it has decremented
\* and the Rust engine of the counter before is the same.
Claiming(w) ==
  /\ At(w, "claim")
  /\ \E pc \in {"limit", "leave"} :
       /\ GoTo(w, pc)
       /\ IF RequestBased
          THEN remaining' = remaining - 1 /\ (pc = "limit" <=> remaining > 0)
          ELSE UNCHANGED remaining
  /\ UNCHANGED <<constant, warming, timeUp, step, clients, counters, interrupted, window,
                 status, exit, rows>>

Panicking(w) ==
  /\ At(w, "await")
  /\ panicked' = TRUE
  /\ GoTo(w, IF engine = "go" THEN "leave" ELSE "done")
  /\ UNCHANGED <<constant, warming, timeUp, step, clients, interrupted, remaining, sent,
                 recorded, local, merged, window, status, exit, rows>>

Delivering(w) ==
  /\ At(w, "leave")
  /\ merged' = Plus(merged, local[w])
  /\ GoTo(w, "done")
  /\ window' = (engine = "go" \/ window)
  /\ UNCHANGED <<constant, warming, timeUp, step, clients, interrupted, remaining, sent,
                 recorded, local, panicked, status, exit, rows>>

\* Nothing that is counted changes: the deadline, a signal.
Disturbing ==
  /\ timeUp' \in BOOLEAN /\ interrupted' \in BOOLEAN /\ (interrupted => interrupted')
  /\ UNCHANGED <<constant, warming, step, clients, worker, counters, remaining, window,
                 status, exit, rows>>

OneOfWorkers(w) ==
  \/ LookAtFlag(w) \/ Claiming(w) \/ Send(w) \/ Panicking(w) \/ Delivering(w)
  \/ \E success \in BOOLEAN : Record(w, success)

Kinds ==
  \/ SetupStep /\ UNCHANGED engine
  \/ Starting \/ Disturbing
  \/ (Verdict \/ CloseClients \/ \E written \in BOOLEAN : WriteRow(written)) /\ UNCHANGED engine
  \/ \E w \in Worker : OneOfWorkers(w) /\ UNCHANGED engine

\* What the Go engine has from SharedBudget is the same for both engines.
LEMMA GoShares ==
  ASSUME NEW w, NEW b
  PROVE  /\ Go!Worker = Worker
         /\ Go!LookAtFlag(w) => LookAtFlag(w)
         /\ Go!Send(w) => Send(w)
         /\ Go!Record(w, b) => Record(w, b)
         /\ Go!Deadline => Deadline
         /\ Go!Verdict => Verdict
         /\ Go!CloseClients => CloseClients
         /\ Go!WriteRow(b) => WriteRow(b)
         /\ Go!Signal => Signal
         /\ Go!Over => UNCHANGED vars
<1> USE DEF Go!setup, Go!warming, Go!budget, Go!metrics, Go!report, Go!vars, Go!At, Go!GoTo,
            Go!Worker, Go!Connection, Go!RequestBased, Go!Plus, Go!NoResults, Go!AllIdle,
            Go!AllFailed, setup, warming, budget, metrics, report, vars, At, GoTo, Worker,
            Connection, RequestBased, Plus, NoResults, AllIdle, AllFailed
<1>1. Go!Worker = Worker
  OBVIOUS
<1>2. Go!LookAtFlag(w) => LookAtFlag(w)
  BY DEF Go!LookAtFlag, LookAtFlag
<1>3. Go!Send(w) => Send(w)
  BY DEF Go!Send, Send
<1>4. Go!Record(w, b) => Record(w, b)
  BY DEF Go!Record, Record
<1>5. Go!Deadline => Deadline
  BY DEF Go!Deadline, Deadline
<1>6. Go!Verdict => Verdict
  BY DEF Go!Verdict, Verdict
<1>7. Go!CloseClients => CloseClients
  BY DEF Go!CloseClients, CloseClients
<1>8. Go!WriteRow(b) => WriteRow(b)
  BY DEF Go!WriteRow, WriteRow, Go!NextPhase, NextPhase
<1>9. Go!Signal => Signal
  BY DEF Go!Signal, Signal
<1>10. Go!Over => UNCHANGED vars
  BY DEF Go!Over
<1>11. QED
  BY <1>1, <1>2, <1>3, <1>4, <1>5, <1>6, <1>7, <1>8, <1>9, <1>10

\* The same for the Rust engine.
LEMMA RustShares ==
  ASSUME NEW w, NEW b
  PROVE  /\ Rust!Worker = Worker
         /\ Rust!LookAtFlag(w) => LookAtFlag(w)
         /\ Rust!Send(w) => Send(w)
         /\ Rust!Record(w, b) => Record(w, b)
         /\ Rust!Deadline => Deadline
         /\ Rust!Verdict => Verdict
         /\ Rust!CloseClients => CloseClients
         /\ Rust!WriteRow(b) => WriteRow(b)
         /\ Rust!Signal => Signal
         /\ Rust!Over => UNCHANGED vars
<1> USE DEF Rust!setup, Rust!warming, Rust!budget, Rust!metrics, Rust!report, Rust!vars, Rust!At, Rust!GoTo,
            Rust!Worker, Rust!Connection, Rust!RequestBased, Rust!Plus, Rust!NoResults, Rust!AllIdle,
            Rust!AllFailed, setup, warming, budget, metrics, report, vars, At, GoTo, Worker,
            Connection, RequestBased, Plus, NoResults, AllIdle, AllFailed
<1>1. Rust!Worker = Worker
  OBVIOUS
<1>2. Rust!LookAtFlag(w) => LookAtFlag(w)
  BY DEF Rust!LookAtFlag, LookAtFlag
<1>3. Rust!Send(w) => Send(w)
  BY DEF Rust!Send, Send
<1>4. Rust!Record(w, b) => Record(w, b)
  BY DEF Rust!Record, Record
<1>5. Rust!Deadline => Deadline
  BY DEF Rust!Deadline, Deadline
<1>6. Rust!Verdict => Verdict
  BY DEF Rust!Verdict, Verdict
<1>7. Rust!CloseClients => CloseClients
  BY DEF Rust!CloseClients, CloseClients
<1>8. Rust!WriteRow(b) => WriteRow(b)
  BY DEF Rust!WriteRow, WriteRow, Rust!NextPhase, NextPhase
<1>9. Rust!Signal => Signal
  BY DEF Rust!Signal, Signal
<1>10. Rust!Over => UNCHANGED vars
  BY DEF Rust!Over
<1>11. QED
  BY <1>1, <1>2, <1>3, <1>4, <1>5, <1>6, <1>7, <1>8, <1>9, <1>10

\* The deadline and the signal disturb nothing that is counted.
LEMMA OutsideWorld ==
  ASSUME TypeInv, Deadline \/ Signal \/ UNCHANGED vars, UNCHANGED engine
  PROVE  Disturbing
<1> USE DEF vars, setup, metrics, budget, report, warming, constant, counters, TypeInv
<1>1. timeUp' \in BOOLEAN /\ interrupted' \in BOOLEAN
  BY DEF Deadline, Signal
<1>2. interrupted => interrupted'
  BY DEF Deadline, Signal
<1>3. UNCHANGED <<constant, warming, step, clients, worker, counters, remaining, window,
                  status, exit, rows>>
  BY DEF Deadline, Signal
<1>4. QED
  BY <1>1, <1>2, <1>3 DEF Disturbing

\* Every step of the Go engine is of one of the kinds.
LEMMA GoKinds ==
  ASSUME TypeInv, ClientsInv, engine = "go", Go!Next, UNCHANGED engine
  PROVE  Kinds
<1> USE DEF Go!setup, Go!warming, Go!budget, Go!metrics, Go!report, Go!At, Go!GoTo,
            Go!Worker, Go!Connection, Go!RequestBased, Go!Plus, Go!Abandon,
            setup, warming, At, GoTo, Connection, RequestBased, Plus, Setup,
            constant, counters
<1>1. CASE Go!Connect \/ Go!ConnectFails \/ Go!StartWarmup \/ Go!WarmupFails \/ Go!UnknownCommand
  BY <1>1 DEF Kinds, SetupStep
<1>2. ASSUME NEW w \in Worker, NEW ok \in BOOLEAN, Go!Ping(w, ok)
      PROVE  Kinds
  BY <1>2 DEF Kinds, SetupStep
<1>3. CASE Go!StartWorkload
  <2>1. \A w \in Worker : w \in Go!Workers <=> w[1] \in clients
    <3>1. step \in {"ready", "warmup"}
      BY <1>3 DEF Go!StartWorkload
    <3>2. PICK n \in 0..Active : clients = 1..n
      BY DEF ClientsInv
    <3>3. n = Go!Active
      BY <3>1, <3>2 DEF ClientsInv, Active
    <3>4. QED
      BY <3>2, <3>3 DEF Go!Workers, Worker
  <2>2. remaining' \in Int /\ (RequestBased => remaining' = target)
    BY <1>3 DEF Go!StartWorkload, TypeInv
  <2>3. window' \in BOOLEAN /\ engine # "rust"
    BY <1>3 DEF Go!StartWorkload, TypeInv
  <2>4. Starting
    BY <1>3, <2>1, <2>2, <2>3, GoShares DEF Go!StartWorkload, Starting
  <2>5. QED
    BY <2>4 DEF Kinds
<1>4. ASSUME NEW w \in Worker, Go!Claim(w)
      PROVE  Kinds
  <2>1. Claiming(w)
    BY <1>4 DEF Go!Claim, Claiming, TypeInv
  <2>2. QED
    BY <2>1 DEF Kinds, OneOfWorkers
<1>5. ASSUME NEW w \in Worker, Go!Panic(w)
      PROVE  Kinds
  <2>1. Panicking(w)
    BY <1>5 DEF Go!Panic, Panicking
  <2>2. QED
    BY <2>1 DEF Kinds, OneOfWorkers
<1>6. ASSUME NEW w \in Worker, Go!Merge(w)
      PROVE  Kinds
  <2>1. Delivering(w)
    BY <1>6 DEF Go!Merge, Delivering
  <2>2. QED
    BY <2>1 DEF Kinds, OneOfWorkers
<1>7. CASE Go!Deadline \/ Go!Signal \/ Go!Over
  <2>1. Disturbing
    BY <1>7, GoShares, OutsideWorld
  <2>2. QED
    BY <2>1 DEF Kinds
<1>8. ASSUME NEW w \in Worker, NEW ok \in BOOLEAN,
             Go!LookAtFlag(w) \/ Go!Send(w) \/ Go!Record(w, ok)
      PROVE  Kinds
  BY <1>8, GoShares DEF Kinds, OneOfWorkers
<1>9. ASSUME NEW written \in BOOLEAN, Go!Verdict \/ Go!CloseClients \/ Go!WriteRow(written)
      PROVE  Kinds
  BY <1>9, GoShares DEF Kinds
<1>10. QED
  BY <1>1, <1>2, <1>3, <1>4, <1>5, <1>6, <1>7, <1>8, <1>9, GoShares
     DEF Go!Next, Go!Main, Go!WorkerStep

\* Every step of the Rust engine is of one of the kinds.
LEMMA RustKinds ==
  ASSUME TypeInv, engine = "rust", Rust!Next, UNCHANGED engine
  PROVE  Kinds
<1> USE DEF Rust!setup, Rust!warming, Rust!budget, Rust!metrics, Rust!report, Rust!At,
            Rust!GoTo, Rust!Worker, Rust!Connection, Rust!RequestBased, Rust!Plus,
            Rust!Abandon, setup, warming, At, GoTo, Connection, RequestBased, Plus,
            Setup, constant, counters
<1>1. CASE \/ Rust!Connect \/ Rust!ConnectFails \/ Rust!StopConnecting
           \/ Rust!KnownCommands \/ Rust!UnknownCommand \/ Rust!WarmupEnds
  BY <1>1 DEF Kinds, SetupStep
<1>2. ASSUME NEW c \in Connection, NEW ok \in BOOLEAN, Rust!Ping(c, ok)
      PROVE  Kinds
  BY <1>2 DEF Kinds, SetupStep
<1>3. CASE Rust!StartWorkload
  <2>1. \A w \in Worker : w \in Rust!Workers <=> w[1] \in clients
    BY DEF Rust!Workers, Worker
  <2>2. remaining' \in Int /\ (RequestBased => remaining' = target)
    BY <1>3 DEF Rust!StartWorkload, TypeInv
  <2>3. window' \in BOOLEAN /\ window'
    BY <1>3 DEF Rust!StartWorkload
  <2>4. Starting
    BY <1>3, <2>1, <2>2, <2>3, RustShares DEF Rust!StartWorkload, Rust!Warmed, Starting
  <2>5. QED
    BY <2>4 DEF Kinds
<1>4. ASSUME NEW w \in Worker, Rust!Claim(w)
      PROVE  Kinds
  <2>1. Claiming(w)
    BY <1>4 DEF Rust!Claim, Claiming, TypeInv
  <2>2. QED
    BY <2>1 DEF Kinds, OneOfWorkers
<1>5. ASSUME NEW w \in Worker, Rust!Panic(w)
      PROVE  Kinds
  <2>1. Panicking(w)
    BY <1>5 DEF Rust!Panic, Panicking
  <2>2. QED
    BY <2>1 DEF Kinds, OneOfWorkers
<1>6. ASSUME NEW w \in Worker, Rust!Merge(w)
      PROVE  Kinds
  <2>1. Delivering(w)
    BY <1>6 DEF Rust!Merge, Delivering, TypeInv
  <2>2. QED
    BY <2>1 DEF Kinds, OneOfWorkers
<1>7. CASE Rust!Deadline \/ Rust!Signal \/ Rust!Over
  <2>1. Disturbing
    BY <1>7, RustShares, OutsideWorld
  <2>2. QED
    BY <2>1 DEF Kinds
<1>8. ASSUME NEW w \in Worker, NEW ok \in BOOLEAN,
             Rust!LookAtFlag(w) \/ Rust!Send(w) \/ Rust!Record(w, ok)
      PROVE  Kinds
  BY <1>8, RustShares DEF Kinds, OneOfWorkers
<1>9. ASSUME NEW written \in BOOLEAN,
             Rust!Verdict \/ Rust!CloseClients \/ Rust!WriteRow(written)
      PROVE  Kinds
  BY <1>9, RustShares DEF Kinds
<1>10. QED
  BY <1>1, <1>2, <1>3, <1>4, <1>5, <1>6, <1>7, <1>8, <1>9, RustShares
     DEF Rust!Next, Rust!Main, Rust!WorkerStep

\* Every step is of one of the kinds.
LEMMA EveryStep ==
  ASSUME TypeInv, ClientsInv, [Next]_evars
  PROVE  Kinds
<1>1. CASE UNCHANGED evars
  <2>1. Disturbing
    BY <1>1, OutsideWorld DEF evars
  <2>2. QED
    BY <2>1 DEF Kinds
<1>2. QED
  BY <1>1, GoKinds, RustKinds DEF Next

\* The setup touches nothing that is counted.
LEMMA SetupEffect ==
  ASSUME SetupStep, UNCHANGED engine
  PROVE  SettingUp
<1> USE DEF SettingUp, Setup, constant, counters, setup
<1>1. ASSUME engine = "go"
      PROVE  SettingUp
  BY <1>1 DEF SetupStep, Go!Connect, Go!ConnectFails, Go!StartWarmup, Go!WarmupFails,
       Go!UnknownCommand, Go!Ping, Go!Abandon, Go!setup, Go!metrics, Go!budget, Go!report,
       Go!warming
<1>2. ASSUME engine = "rust"
      PROVE  SettingUp
  BY <1>2 DEF SetupStep, Rust!Connect, Rust!ConnectFails, Rust!StopConnecting,
       Rust!KnownCommands, Rust!UnknownCommand, Rust!WarmupEnds, Rust!Ping, Rust!Abandon,
       Rust!setup, Rust!metrics, Rust!budget, Rust!report, Rust!warming
<1>3. QED
  BY <1>1, <1>2 DEF SetupStep

-----------------------------------------------------------------------------
(* The connections. *)

\* At least one connection does work.
LEMMA ActiveRange ==
  ASSUME TypeInv
  PROVE  Active \in 1..Conns
BY SharedBudgetAssumption DEF TypeInv, Active, Go!Active

\* A connection that is opened is the next one.
LEMMA Opens ==
  ASSUME TypeInv, ClientsInv, step = "connect",
         clients' = clients \cup {Cardinality(clients) + 1}
  PROVE  \E n \in 1..Active : clients' = 1..n /\ Cardinality(clients) + 1 = n
<1>1. PICK n \in 0..Active : clients = 1..n
  BY DEF ClientsInv
<1>2. n < Active
  BY <1>1, ActiveRange DEF ClientsInv
<1>3. Cardinality(clients) = n
  BY <1>1, <1>2, FS_Interval
<1>4. clients' = 1..(n + 1)
  BY <1>1, <1>3, ActiveRange
<1>5. QED
  BY <1>2, <1>3, <1>4, ActiveRange

\* Which connections are open in which step.
LEMMA ClientsStep ==
  ASSUME TypeInv, ClientsInv, [Next]_evars
  PROVE  ClientsInv'
<1>a. Active \in 1..Conns
  BY ActiveRange
<1>1. ASSUME UNCHANGED constant
      PROVE  Active' = Active
  BY <1>1 DEF Active, Go!Active, constant, setup
<1>2. ASSUME Go!Connect, engine = "go", UNCHANGED engine
      PROVE  ClientsInv'
  <2>1. PICK n \in 1..Active : clients' = 1..n /\ Cardinality(clients) + 1 = n
    BY <1>2, Opens DEF Go!Connect, Go!Cardinality, Cardinality
  <2>2. Active' = Active /\ Active = Go!Active
    BY <1>1, <1>2 DEF Go!Connect, Go!setup, constant, setup, Active
  <2>3. QED
    BY <1>2, <1>a, <2>1, <2>2 DEF Go!Connect, ClientsInv
<1>3. ASSUME Rust!Connect, engine = "rust", UNCHANGED engine
      PROVE  ClientsInv'
  <2>1. PICK n \in 1..Active : clients' = 1..n /\ Cardinality(clients) + 1 = n
    BY <1>3, Opens DEF Rust!Connect, Rust!Cardinality, Cardinality
  <2>2. Active' = Active /\ Active = Conns /\ engine' = "rust"
    BY <1>1, <1>3 DEF Rust!Connect, Rust!setup, constant, setup, Active
  <2>3. step' = IF clients' = 1..Conns THEN "ready" ELSE "connect"
    BY <1>3 DEF Rust!Connect, Rust!Connection
  <2>4. clients' # {} /\ (step' = "connect" => ~ Active \in clients')
    BY <1>a, <2>1, <2>2, <2>3
  <2>5. QED
    BY <1>a, <2>1, <2>2, <2>3, <2>4 DEF ClientsInv
<1>4. CASE \/ engine = "go" /\ Go!ConnectFails /\ UNCHANGED engine
           \/ engine = "rust" /\ Rust!ConnectFails /\ UNCHANGED engine
  <2>1. clients' = {} /\ step' = "write"
    BY <1>4 DEF Go!ConnectFails, Go!Abandon, Rust!ConnectFails, Rust!Abandon
  <2>2. Active' = Active
    BY <1>1, <1>4 DEF Go!ConnectFails, Go!Abandon, Rust!ConnectFails, Rust!Abandon,
                      Go!setup, Rust!setup, constant, setup
  <2>3. QED
    BY <1>a, <2>1, <2>2 DEF ClientsInv
<1>5. ASSUME Rust!StopConnecting, engine = "rust", UNCHANGED engine
      PROVE  ClientsInv'
  <2>1. Active' = Active /\ UNCHANGED clients
    BY <1>1, <1>5 DEF Rust!StopConnecting, Rust!Abandon, Rust!setup, constant, setup
  <2>2. step' = IF clients = {} THEN "write" ELSE "ready"
    BY <1>5 DEF Rust!StopConnecting, Rust!Abandon
  <2>3. QED
    BY <1>5, <2>1, <2>2 DEF ClientsInv
<1>6. ASSUME UNCHANGED <<constant, clients>>, step \in {"ready", "warmup"},
             step' \in {"ready", "warmup", "workload", "close"}
      PROVE  ClientsInv'
  BY <1>1, <1>6 DEF ClientsInv, constant
<1>7. CASE \/ engine = "go" /\ UNCHANGED engine
              /\ \/ Go!StartWarmup \/ Go!WarmupFails \/ Go!UnknownCommand
                 \/ \E w \in Worker, ok \in BOOLEAN : Go!Ping(w, ok)
           \/ engine = "rust" /\ UNCHANGED engine
              /\ \/ Rust!KnownCommands \/ Rust!UnknownCommand \/ Rust!WarmupEnds
                 \/ \E c \in Connection, ok \in BOOLEAN : Rust!Ping(c, ok)
  BY <1>6, <1>7 DEF Go!StartWarmup, Go!WarmupFails, Go!UnknownCommand, Go!Ping, Go!Abandon,
       Rust!KnownCommands, Rust!UnknownCommand, Rust!WarmupEnds, Rust!Ping, Rust!Abandon,
       Go!setup, Rust!setup, constant, setup
<1>8. CASE Starting
  BY <1>6, <1>8 DEF Starting
<1>9. CASE Disturbing \/ \E w \in Worker : OneOfWorkers(w) /\ UNCHANGED engine
  <2>1. UNCHANGED <<constant, step, clients>>
    BY <1>9 DEF Disturbing, OneOfWorkers, LookAtFlag, Claiming, Send, Panicking, Delivering,
                Record, constant, setup
  <2>2. QED
    BY <1>1, <2>1 DEF ClientsInv, constant
<1>10. CASE Verdict /\ UNCHANGED engine
  BY <1>1, <1>10 DEF Verdict, ClientsInv, constant, setup
<1>11. CASE CloseClients /\ UNCHANGED engine
  <2>1. clients' = {} /\ step' = "write" /\ Active' = Active
    BY <1>1, <1>11 DEF CloseClients, constant, setup
  <2>2. QED
    BY <1>a, <2>1 DEF ClientsInv
<1>12. ASSUME NEW written \in BOOLEAN, WriteRow(written), UNCHANGED engine
       PROVE  ClientsInv'
  <2>1. clients' = {} /\ step' \in {"connect", "ended"}
    BY <1>12 DEF WriteRow, NextPhase, ClientsInv
  <2>2. Active' \in Nat
    <3>1. rps' \in Nat
      BY <1>12, SharedBudgetAssumption DEF WriteRow, NextPhase, TypeInv, setup
    <3>2. QED
      BY <3>1, SharedBudgetAssumption DEF Active, Go!Active
  <2>3. QED
    BY <2>1, <2>2 DEF ClientsInv
<1>13. QED
  BY <1>2, <1>3, <1>4, <1>5, <1>7, <1>8, <1>9, <1>10, <1>11, <1>12, EveryStep
     DEF Kinds, SetupStep

-----------------------------------------------------------------------------
(* Type correctness. *)

\* The steps of the setup.
LEMMA TypeSetup ==
  ASSUME TypeInv, ClientsInv, ClientsInv', SetupStep, UNCHANGED engine
  PROVE  TypeInv'
<1>a. /\ UNCHANGED <<phase, target, warmup, rps, counters, exit, rows>>
      /\ step' \in Setup \cup {"close", "write"}
      /\ status' \in Final \cup {"none"} /\ window' \in BOOLEAN
  BY SetupEffect DEF SettingUp, TypeInv, Final, constant, setup
<1>b. clients' \subseteq Connection
  <2>1. Active' = Active
    BY <1>a DEF Active, Go!Active
  <2>2. PICK n \in 0..Active : clients' = 1..n
    BY <2>1 DEF ClientsInv
  <2>3. QED
    BY <2>2, ActiveRange, SharedBudgetAssumption DEF Connection
<1>c. UNCHANGED <<timeUp, interrupted, remaining>>
  BY DEF SetupStep, Go!Connect, Go!ConnectFails, Go!StartWarmup, Go!WarmupFails,
       Go!UnknownCommand, Go!Ping, Go!Abandon, Go!budget,
       Rust!Connect, Rust!ConnectFails, Rust!StopConnecting,
       Rust!KnownCommands, Rust!UnknownCommand, Rust!WarmupEnds, Rust!Ping, Rust!Abandon,
       Rust!budget
<1>d. pings' \in [Connection -> Nat] /\ failed' \in BOOLEAN
  <2>1. ASSUME NEW c \in Connection, NEW ok \in BOOLEAN,
               pings' = IF ok THEN [pings EXCEPT ![c] = @ + 1] ELSE pings
        PROVE  pings' \in [Connection -> Nat]
    BY <2>1 DEF TypeInv
  <2>2. ASSUME NEW w \in Worker, NEW ok \in BOOLEAN, Go!Ping(w, ok)
        PROVE  pings' \in [Connection -> Nat] /\ failed' \in BOOLEAN
    BY <2>1, <2>2 DEF Go!Ping, Worker, TypeInv
  <2>3. ASSUME NEW c \in Connection, NEW ok \in BOOLEAN, Rust!Ping(c, ok)
        PROVE  pings' \in [Connection -> Nat] /\ failed' \in BOOLEAN
    BY <2>1, <2>3 DEF Rust!Ping, TypeInv
  <2>4. CASE UNCHANGED <<pings, failed>>
    BY <2>4 DEF TypeInv
  <2>5. QED
    BY <2>2, <2>3, <2>4
       DEF SetupStep, Go!Connect, Go!ConnectFails, Go!StartWarmup, Go!WarmupFails,
           Go!UnknownCommand, Go!Abandon, Go!warming, Rust!Connect, Rust!ConnectFails,
           Rust!StopConnecting, Rust!KnownCommands, Rust!UnknownCommand, Rust!WarmupEnds,
           Rust!Abandon, Rust!warming
<1>e. worker' \in [Worker -> Ended \cup {"ping", "loop", "claim", "limit", "await", "leave"}]
  <2>1. ASSUME NEW w \in Worker, NEW ok \in BOOLEAN, Go!Ping(w, ok)
        PROVE  worker' \in [Worker -> Ended \cup {"ping", "loop", "claim", "limit", "await",
                                                  "leave"}]
    BY <2>1 DEF Go!Ping, Go!GoTo, TypeInv, Ended
  <2>2. CASE Go!StartWarmup
    BY <2>2, GoShares DEF Go!StartWarmup, Ended
  <2>3. CASE UNCHANGED worker
    BY <2>3 DEF TypeInv
  <2>4. QED
    BY <2>1, <2>2, <2>3
       DEF SetupStep, Go!Connect, Go!ConnectFails, Go!WarmupFails, Go!UnknownCommand,
           Go!Abandon, Rust!Connect, Rust!ConnectFails, Rust!StopConnecting,
           Rust!KnownCommands, Rust!UnknownCommand, Rust!WarmupEnds, Rust!Ping, Rust!Abandon
<1>f. QED
  BY <1>a, <1>b, <1>c, <1>d, <1>e DEF TypeInv, counters

\* Results are added up.
LEMMA PlusType ==
  ASSUME NEW a \in Counts, NEW b \in Counts
  PROVE  /\ Plus(a, b) \in Counts
         /\ Plus(a, b).requests = a.requests + b.requests
         /\ Plus(a, b).errors = a.errors + b.errors
BY DEF Plus, Counts

\* The variables keep their types.
LEMMA TypeStep ==
  ASSUME TypeInv, ClientsInv, EndInv, [Next]_evars
  PROVE  TypeInv'
<1>1. CASE SetupStep /\ UNCHANGED engine
  BY <1>1, TypeSetup, ClientsStep
<1>k. UNCHANGED engine
  BY DEF Next, evars
<1>2. ASSUME NEW w \in Worker, NEW ok \in BOOLEAN,
             LookAtFlag(w) \/ Send(w) \/ Record(w, ok)
      PROVE  TypeInv'
  <2>1. CASE LookAtFlag(w)
    BY <1>k, <2>1 DEF LookAtFlag, At, GoTo, TypeInv, Ended, setup, warming, budget, metrics,
                      report
  <2>2. CASE Send(w)
    BY <1>k, <2>2 DEF Send, At, GoTo, TypeInv, Ended, setup, warming, budget, metrics, report
  <2>3. CASE Record(w, ok)
    <3>1. local' \in [Worker -> Counts]
      <4>1. [requests |-> 1, errors |-> IF ok THEN 0 ELSE 1] \in Counts
        BY DEF Counts
      <4>2. QED
        BY <2>3, <4>1, PlusType DEF Record, TypeInv
    <3>2. QED
      BY <1>k, <2>3, <3>1 DEF Record, At, GoTo, TypeInv, Ended, setup, warming, budget,
                              metrics, report
  <2>4. QED
    BY <1>2, <2>1, <2>2, <2>3
<1>3. ASSUME NEW written \in BOOLEAN, Verdict \/ CloseClients \/ WriteRow(written)
      PROVE  TypeInv'
  <2>1. CASE Verdict
    BY <1>k, <2>1 DEF Verdict, TypeInv, Final, setup, warming, budget, metrics, report
  <2>2. CASE CloseClients
    BY <1>k, <2>2 DEF CloseClients, TypeInv, setup, warming, budget, metrics, report
  <2>3. CASE WriteRow(written)
    <3>1. status \in Final /\ exit' \in {0, 1}
      BY <2>3 DEF WriteRow, TypeInv, EndInv, Setup
    <3>2. rows' \in Seq([status : Final, written : BOOLEAN])
      BY <2>3, <3>1 DEF WriteRow, TypeInv
    <3>3. CASE interrupted \/ phase = Phases
      BY <1>k, <2>3, <3>1, <3>2, <3>3
         DEF WriteRow, TypeInv, setup, warming, budget, metrics
    <3>4. CASE ~ (interrupted \/ phase = Phases)
      <4>1. NextPhase /\ UNCHANGED <<clients, interrupted>>
        BY <2>3, <3>4 DEF WriteRow
      <4>2. NoResults \in Counts /\ Targets \subseteq Nat /\ Warmups \subseteq Nat /\ Rates \subseteq Nat
        BY SharedBudgetAssumption DEF NoResults, Counts
      <4>3. /\ target' \in Nat /\ warmup' \in Nat /\ rps' \in Nat /\ phase' \in Nat
            /\ local' \in [Worker -> Counts] /\ merged' \in Counts
        BY <4>1, <4>2 DEF NextPhase, TypeInv
      <4>4. /\ failed' \in BOOLEAN /\ timeUp' \in BOOLEAN /\ interrupted' \in BOOLEAN
            /\ window' \in BOOLEAN /\ panicked' \in BOOLEAN
        BY <4>1 DEF NextPhase, TypeInv
      <4>5. /\ pings' \in [Connection -> Nat]
            /\ worker' \in [Worker -> Ended \cup {"ping", "loop", "claim", "limit", "await",
                                                "leave"}]
        BY <4>1 DEF NextPhase, Ended
      <4>6. QED
        BY <1>k, <3>1, <3>2, <4>1, <4>3, <4>4, <4>5 DEF NextPhase, TypeInv, Setup
    <3>5. QED
      BY <3>3, <3>4
  <2>4. QED
    BY <1>3, <2>1, <2>2, <2>3
<1>4. ASSUME NEW w \in Worker, Claiming(w) \/ Panicking(w)
      PROVE  TypeInv'
  <2>1. CASE Claiming(w)
    <3>1. remaining' \in Int
      BY <2>1 DEF Claiming, TypeInv
    <3>2. QED
      BY <2>1, <3>1 DEF Claiming, GoTo, TypeInv, Ended, constant, counters, setup, warming
  <2>2. CASE Panicking(w)
    BY <2>2 DEF Panicking, GoTo, TypeInv, Ended, constant, counters, setup, warming
  <2>3. QED
    BY <1>4, <2>1, <2>2
<1>5. ASSUME NEW w \in Worker, Delivering(w)
      PROVE  TypeInv'
  <2>1. merged' \in Counts
    BY <1>5, PlusType DEF Delivering, TypeInv
  <2>2. QED
    BY <1>5, <2>1 DEF Delivering, GoTo, TypeInv, Ended, constant, setup, warming
<1>6. CASE Starting
  BY <1>6 DEF Starting, TypeInv, Ended, constant, counters, setup, warming
<1>7. CASE Disturbing
  BY <1>7 DEF Disturbing, TypeInv, constant, counters, setup, warming
<1>8. QED
  BY <1>1, <1>2, <1>3, <1>4, <1>5, <1>6, <1>7, EveryStep DEF Kinds, OneOfWorkers

-----------------------------------------------------------------------------
(* Who works. *)

\* The Go engine opens exactly the connections that do work.
LEMMA GoOpen ==
  ASSUME TypeInv, ClientsInv, engine = "go", step \in {"ready", "warmup", "workload"},
         NEW w \in Worker
  PROVE  w \in Go!Workers <=> w[1] \in clients
<1>1. PICK n \in 0..Active : clients = 1..n
  BY DEF ClientsInv
<1>2. n = Go!Active
  BY <1>1 DEF ClientsInv, Active
<1>3. QED
  BY <1>1, <1>2 DEF Go!Workers, Worker

\* Outside the workload, the Rust engine has no worker at all.
LEMMA WorkSetup ==
  ASSUME TypeInv, ClientsInv, WorkInv, SetupStep, UNCHANGED engine
  PROVE  WorkInv'
<1> USE DEF WorkInv, NoWorkEscapes, Setup, Ended
<1>1. step \in Setup /\ step' \in {"connect", "ready", "warmup", "close", "write"}
  BY SetupEffect DEF SettingUp
<1>2. ASSUME UNCHANGED worker, \A w \in Worker : worker[w] \in Ended,
             step' = "warmup" => engine' = "rust"
      PROVE  WorkInv'
  BY <1>1, <1>2
<1>3. CASE engine = "rust"
  <2>1. UNCHANGED worker
    BY <1>3 DEF SetupStep, Rust!Connect, Rust!ConnectFails, Rust!StopConnecting,
                Rust!KnownCommands, Rust!UnknownCommand, Rust!WarmupEnds, Rust!Ping,
                Rust!Abandon
  <2>2. \A w \in Worker : worker[w] \in Ended
    BY <1>1, <1>3
  <2>3. QED
    BY <1>2, <1>3, <2>1, <2>2
<1>4. CASE engine = "go" /\ (Go!Connect \/ Go!ConnectFails)
  BY <1>1, <1>2, <1>4 DEF Go!Connect, Go!ConnectFails, Go!Abandon
<1>5. CASE engine = "go" /\ (Go!WarmupFails \/ Go!UnknownCommand)
  <2>1. UNCHANGED worker /\ step' = "close"
    BY <1>5 DEF Go!WarmupFails, Go!UnknownCommand, Go!Abandon
  <2>2. \A w \in Worker : worker[w] \in Ended
    BY <1>5, GoShares
       DEF Go!WarmupFails, Go!UnknownCommand, Go!Warmed, Go!AllIdle, TypeInv
  <2>3. QED
    BY <1>2, <2>1, <2>2
<1>6. CASE engine = "go" /\ Go!StartWarmup
  <2>1. step = "ready" /\ step' = "warmup" /\ UNCHANGED <<clients, warmup>> /\ warmup > 0
    BY <1>6 DEF Go!StartWarmup, Go!setup
  <2>2. \A w \in Worker : worker'[w] # "idle" => w \in Go!Workers
    BY <1>6, GoShares DEF Go!StartWarmup
  <2>3. QED
    BY <1>6, <2>1, <2>2, GoOpen
<1>7. ASSUME engine = "go", NEW w \in Worker, NEW ok \in BOOLEAN, Go!Ping(w, ok)
      PROVE  WorkInv'
  <2>1. step = "warmup" /\ UNCHANGED <<step, clients, warmup>> /\ worker[w] = "ping"
    BY <1>7 DEF Go!Ping, Go!setup
  <2>2. \A v \in Worker : worker'[v] \notin Ended => worker[v] \notin Ended
    BY <1>7, <2>1 DEF Go!Ping, Go!GoTo, TypeInv
  <2>3. QED
    BY <1>7, <2>1, <2>2
<1>8. QED
  BY <1>3, <1>4, <1>5, <1>6, <1>7 DEF SetupStep, TypeInv

\* No step leaves somebody at work behind.
LEMMA WorkStep ==
  ASSUME TypeInv, ClientsInv, WorkInv, [Next]_evars
  PROVE  WorkInv'
<1> USE DEF WorkInv, NoWorkEscapes, Setup, Ended
<1>1. CASE SetupStep /\ UNCHANGED engine
  BY <1>1, WorkSetup
<1>2. CASE Starting
  BY <1>2 DEF Starting, constant
<1>3. CASE Disturbing
  BY <1>3 DEF Disturbing, constant, setup
<1>4. ASSUME NEW w \in Worker, OneOfWorkers(w), UNCHANGED engine
      PROVE  WorkInv'
  <2>1. /\ step = "workload" /\ UNCHANGED <<step, clients>>
        /\ worker[w] \notin Ended
        /\ \E pc \in {"loop", "claim", "limit", "await", "leave", "done"} : GoTo(w, pc)
    BY <1>4 DEF OneOfWorkers, LookAtFlag, Claiming, Send, Panicking, Delivering, Record, At
  <2>2. \A v \in Worker : v # w => worker'[v] = worker[v]
    BY <2>1 DEF GoTo, TypeInv
  <2>3. worker'[w] \in {"loop", "claim", "limit", "await", "leave", "done"}
    BY <2>1 DEF GoTo, TypeInv
  <2>4. QED
    BY <2>1, <2>2, <2>3
<1>5. CASE Verdict
  BY <1>5 DEF Verdict, AllIdle
<1>6. CASE CloseClients
  BY <1>6 DEF CloseClients
<1>7. ASSUME NEW written \in BOOLEAN, WriteRow(written)
      PROVE  WorkInv'
  <2>1. \A w \in Worker : worker'[w] \in Ended
    BY <1>7 DEF WriteRow, NextPhase
  <2>2. step' \in {"connect", "ended"}
    BY <1>7 DEF WriteRow, NextPhase
  <2>3. QED
    BY <2>1, <2>2
<1>8. QED
  BY <1>1, <1>2, <1>3, <1>4, <1>5, <1>6, <1>7, EveryStep DEF Kinds

-----------------------------------------------------------------------------
(* Counting the workers at a place. *)

\* There are finitely many workers, and so at every place.
LEMMA WorkersFinite == IsFiniteSet(Worker)
<1>1. IsFiniteSet(1..Conns) /\ IsFiniteSet(1..Depth)
  BY SharedBudgetAssumption, FS_Interval
<1>2. IsFiniteSet((1..Conns) \X (1..Depth))
  BY <1>1, FS_Product
<1>3. QED
  BY <1>2 DEF Worker, Connection

\* The number of workers at a place is a number.
LEMMA NumFacts ==
  ASSUME NEW s
  PROVE  /\ IsFiniteSet(Those(s))
         /\ Num(s) \in Nat
         /\ Num(s) = 0 <=> Those(s) = {}
<1>1. IsFiniteSet(Those(s))
  BY WorkersFinite, FS_Subset DEF Those
<1>2. QED
  BY <1>1, FS_EmptySet, FS_CardinalityType DEF Num

\* A worker that moves leaves one place and reaches another.
LEMMA NumMove ==
  ASSUME TypeInv, NEW w \in Worker, NEW t, GoTo(w, t), NEW s
  PROVE  /\ (s = worker[w] /\ s # t) => Num(s)' = Num(s) - 1
         /\ (s # worker[w] /\ s = t) => Num(s)' = Num(s) + 1
         /\ (s # worker[w] /\ s # t) => Num(s)' = Num(s)
<1>1. IsFiniteSet(Those(s))
  BY NumFacts
<1>2. CASE s = t
  <2>1. Those(s)' = Those(s) \cup {w} /\ (w \in Those(s) <=> s = worker[w])
    BY <1>2 DEF Those, GoTo, TypeInv
  <2>2. QED
    BY <1>1, <1>2, <2>1, FS_AddElement DEF Num
<1>3. CASE s # t
  <2>1. Those(s)' = Those(s) \ {w} /\ (w \in Those(s) <=> s = worker[w])
    BY <1>3 DEF Those, GoTo, TypeInv
  <2>2. QED
    BY <1>1, <1>3, <2>1, FS_RemoveElement DEF Num
<1>4. QED
  BY <1>2, <1>3

\* Where nobody is, the count is zero: now ...
LEMMA NumNobody ==
  ASSUME NEW s, \A w \in Worker : worker[w] # s
  PROVE  Num(s) = 0
BY NumFacts DEF Those

\* ... and after a step.
LEMMA NumNobodyNext ==
  ASSUME NEW s, \A w \in Worker : worker'[w] # s
  PROVE  Num(s)' = 0
<1>1. Those(s)' = {}
  BY DEF Those
<1>2. QED
  BY <1>1, FS_EmptySet DEF Num

-----------------------------------------------------------------------------
(* The counts. *)

\* A phase begins with nothing counted, and the setup counts nothing.
LEMMA FreshStep ==
  ASSUME TypeInv, ClientsInv, FreshInv, [Next]_evars
  PROVE  FreshInv'
<1> USE DEF FreshInv, Setup, counters
<1>1. CASE SetupStep /\ UNCHANGED engine
  BY <1>1, SetupEffect DEF SettingUp
<1>2. CASE Disturbing
  BY <1>2 DEF Disturbing
<1>3. CASE Starting
  BY <1>3 DEF Starting
<1>4. CASE Verdict \/ CloseClients
  BY <1>4 DEF Verdict, CloseClients
<1>5. ASSUME NEW w \in Worker, OneOfWorkers(w)
      PROVE  FreshInv'
  <2>1. step' = "workload"
    BY <1>5 DEF OneOfWorkers, LookAtFlag, Claiming, Send, Panicking, Delivering, Record, At
  <2>2. QED
    BY <2>1
<1>6. ASSUME NEW written \in BOOLEAN, WriteRow(written)
      PROVE  FreshInv'
  BY <1>6 DEF WriteRow, NextPhase
<1>7. QED
  BY <1>1, <1>2, <1>3, <1>4, <1>5, <1>6, EveryStep DEF Kinds

\* The worker that takes a step in the workload.
LEMMA StepOfWorker ==
  ASSUME NEW w, OneOfWorkers(w)
  PROVE  step = "workload" /\ UNCHANGED <<step, target>>
BY DEF OneOfWorkers, LookAtFlag, Claiming, Send, Panicking, Delivering, Record, At,
       constant, setup

\* The counter grants the budget exactly.
LEMMA GrantStep ==
  ASSUME TypeInv, ClientsInv, WorkInv, FreshInv, GrantInv, [Next]_evars
  PROVE  GrantInv'
<1> USE DEF GrantInv, RequestBased
<1>t. /\ remaining \in Int /\ sent \in Nat /\ target \in Nat
      /\ Num("limit") \in Nat
  BY NumFacts DEF TypeInv
<1>1. CASE Starting
  <2>1. \A w \in Worker : worker'[w] \in {"loop", "idle"}
    BY <1>1 DEF Starting
  <2>2. Num("limit")' = 0
    BY <2>1, NumNobodyNext
  <2>3. sent' = 0 /\ target' = target /\ (RequestBased => remaining' = target)
    BY <1>1 DEF Starting, FreshInv, Setup, counters, constant, setup
  <2>4. QED
    BY <1>t, <2>1, <2>2, <2>3 DEF Left
<1>2. CASE Disturbing
  <2>1. Num("limit")' = Num("limit")
    BY <1>2 DEF Disturbing, Num, Those
  <2>2. QED
    BY <1>2, <2>1 DEF Disturbing, Left, constant, counters, setup
<1>3. ASSUME NEW w \in Worker, LookAtFlag(w)
      PROVE  GrantInv'
  <2>1. step = "workload" /\ UNCHANGED <<step, target, remaining, sent, interrupted, panicked>>
        /\ worker[w] = "loop" /\ GoTo(w, IF interrupted THEN "leave" ELSE "claim")
    BY <1>3 DEF LookAtFlag, At, setup, budget
  <2>2. Num("limit")' = Num("limit")
    BY <2>1, NumMove
  <2>3. (\E v \in Worker : worker'[v] \in {"leave", "done"}) =>
           interrupted \/ \E v \in Worker : worker[v] \in {"leave", "done"}
    BY <2>1 DEF GoTo, TypeInv
  <2>4. QED
    BY <2>1, <2>2, <2>3 DEF Left
<1>4. ASSUME NEW w \in Worker, Claiming(w)
      PROVE  GrantInv'
  <2>1. PICK pc \in {"limit", "leave"} :
          /\ GoTo(w, pc)
          /\ RequestBased => remaining' = remaining - 1 /\ (pc = "limit" <=> remaining > 0)
    BY <1>4 DEF Claiming
  <2>2. step = "workload" /\ UNCHANGED <<step, target, sent, interrupted, panicked>>
        /\ worker[w] = "claim"
    BY <1>4 DEF Claiming, At, constant, counters, setup
  <2>3. Num("limit")' = IF pc = "limit" THEN Num("limit") + 1 ELSE Num("limit")
    BY <2>1, <2>2, NumMove
  <2>4. (\E v \in Worker : worker'[v] \in {"leave", "done"}) =>
           pc = "leave" \/ \E v \in Worker : worker[v] \in {"leave", "done"}
    BY <2>1 DEF GoTo, TypeInv
  <2>5. QED
    BY <1>t, <2>1, <2>2, <2>3, <2>4 DEF Left
<1>5. ASSUME NEW w \in Worker, Send(w)
      PROVE  GrantInv'
  <2>1. step = "workload" /\ UNCHANGED <<step, target, remaining, interrupted, panicked>>
        /\ worker[w] = "limit" /\ GoTo(w, "await") /\ sent' = sent + 1
    BY <1>5 DEF Send, At, setup
  <2>2. Num("limit")' = Num("limit") - 1
    BY <2>1, NumMove
  <2>3. \A v \in Worker : worker'[v] \in {"leave", "done"} => worker[v] \in {"leave", "done"}
    BY <2>1 DEF GoTo, TypeInv
  <2>4. QED
    BY <1>t, <2>1, <2>2, <2>3 DEF Left
<1>6. ASSUME NEW w \in Worker, NEW ok \in BOOLEAN, Record(w, ok) \/ Delivering(w)
      PROVE  GrantInv'
  <2>1. /\ step = "workload"
        /\ UNCHANGED <<step, target, remaining, sent, interrupted, panicked>>
        /\ \/ worker[w] = "await" /\ GoTo(w, "loop")
           \/ worker[w] = "leave" /\ GoTo(w, "done")
    BY <1>6 DEF Record, Delivering, At, setup, budget, constant
  <2>2. Num("limit")' = Num("limit")
    BY <2>1, NumMove
  <2>3. \A v \in Worker : worker'[v] \in {"leave", "done"} => worker[v] \in {"leave", "done"}
    BY <2>1 DEF GoTo, TypeInv
  <2>4. QED
    BY <2>1, <2>2, <2>3 DEF Left
<1>7. ASSUME NEW w \in Worker, Panicking(w)
      PROVE  GrantInv'
  <2>1. step = "workload" /\ UNCHANGED <<step, target, remaining, sent>> /\ panicked'
        /\ worker[w] = "await" /\ \E pc \in {"leave", "done"} : GoTo(w, pc)
    BY <1>7 DEF Panicking, At, setup, constant
  <2>2. Num("limit")' = Num("limit")
    BY <2>1, NumMove
  <2>3. QED
    BY <2>1, <2>2 DEF Left
<1>8. ASSUME step' # "workload"
      PROVE  GrantInv'
  BY <1>8
<1>9. QED
  BY <1>1, <1>2, <1>3, <1>4, <1>5, <1>6, <1>7, <1>8, EveryStep, SetupEffect
     DEF Kinds, OneOfWorkers, SettingUp, Setup, Verdict, CloseClients, WriteRow, NextPhase

\* What was sent is awaited or recorded: a panic loses it, nothing else does.
LEMMA RecordStep ==
  ASSUME TypeInv, ClientsInv, WorkInv, FreshInv, RecordInv, [Next]_evars
  PROVE  RecordInv'
<1> USE DEF RecordInv
<1>t. sent \in Nat /\ recorded \in Nat /\ Num("await") \in Nat
  BY NumFacts DEF TypeInv
<1>1. CASE Starting
  <2>1. \A w \in Worker : worker'[w] # "await"
    BY <1>1 DEF Starting
  <2>2. Num("await")' = 0
    BY <2>1, NumNobodyNext
  <2>3. sent' = 0 /\ recorded' = 0
    BY <1>1 DEF Starting, FreshInv, Setup, counters
  <2>4. QED
    BY <2>2, <2>3
<1>2. CASE Disturbing
  <2>1. Num("await")' = Num("await")
    BY <1>2 DEF Disturbing, Num, Those
  <2>2. QED
    BY <1>2, <2>1 DEF Disturbing, counters
<1>3. ASSUME NEW w \in Worker, LookAtFlag(w) \/ Claiming(w) \/ Delivering(w)
      PROVE  RecordInv'
  <2>1. /\ step = "workload" /\ UNCHANGED <<sent, recorded, panicked>>
        /\ worker[w] # "await"
        /\ \E pc \in {"claim", "limit", "leave", "done"} : GoTo(w, pc)
    BY <1>3 DEF LookAtFlag, Claiming, Delivering, At, budget, metrics, counters
  <2>2. Num("await")' = Num("await")
    BY <2>1, NumMove
  <2>3. QED
    BY <2>1, <2>2
<1>4. ASSUME NEW w \in Worker, Send(w)
      PROVE  RecordInv'
  <2>1. /\ step = "workload" /\ UNCHANGED <<recorded, panicked>> /\ sent' = sent + 1
        /\ worker[w] = "limit" /\ GoTo(w, "await")
    BY <1>4 DEF Send, At, metrics
  <2>2. Num("await")' = Num("await") + 1
    BY <2>1, NumMove
  <2>3. QED
    BY <1>t, <2>1, <2>2
<1>5. ASSUME NEW w \in Worker, NEW ok \in BOOLEAN, Record(w, ok)
      PROVE  RecordInv'
  <2>1. /\ step = "workload" /\ UNCHANGED <<sent, panicked>> /\ recorded' = recorded + 1
        /\ worker[w] = "await" /\ GoTo(w, "loop")
    BY <1>5 DEF Record, At, budget
  <2>2. Num("await")' = Num("await") - 1
    BY <2>1, NumMove
  <2>3. QED
    BY <1>t, <2>1, <2>2
<1>6. ASSUME NEW w \in Worker, Panicking(w)
      PROVE  RecordInv'
  <2>1. /\ step = "workload" /\ UNCHANGED <<sent, recorded>> /\ panicked'
        /\ worker[w] = "await" /\ \E pc \in {"leave", "done"} : GoTo(w, pc)
    BY <1>6 DEF Panicking, At
  <2>2. Num("await")' = Num("await") - 1
    BY <2>1, NumMove
  <2>3. QED
    BY <1>t, <2>1, <2>2
<1>7. ASSUME step' # "workload"
      PROVE  RecordInv'
  BY <1>7
<1>8. QED
  BY <1>1, <1>2, <1>3, <1>4, <1>5, <1>6, <1>7, EveryStep, SetupEffect
     DEF Kinds, OneOfWorkers, SettingUp, Setup, Verdict, CloseClients, WriteRow, NextPhase

-----------------------------------------------------------------------------
(* The results that have yet to be delivered. *)

\* Each is a worker that is not done, with a number up to its results.
LEMMA UndeliveredMembers ==
  ASSUME NEW x
  PROVE  x \in Undelivered <=>
           \E w \in Worker : /\ worker[w] # "done"
                             /\ \E k \in 1..local[w].requests : x = <<w, k>>
BY DEF Undelivered, Those

\* After a step, too.
LEMMA UndeliveredNext ==
  ASSUME NEW x
  PROVE  x \in Undelivered' <=>
           \E w \in Worker : /\ worker'[w] # "done"
                             /\ \E k \in 1..local'[w].requests : x = <<w, k>>
BY DEF Undelivered, Those

\* A worker that records has one more.
LEMMA RecordAdds ==
  ASSUME TypeInv, NEW w \in Worker, NEW ok \in BOOLEAN, Record(w, ok), IsFiniteSet(Undelivered)
  PROVE  /\ IsFiniteSet(Undelivered')
         /\ Cardinality(Undelivered)' = Cardinality(Undelivered) + 1
<1> DEFINE n == local[w].requests
           x == <<w, n + 1>>
<1>1. n \in Nat /\ local'[w].requests = n + 1 /\ \A v \in Worker : v # w => local'[v] = local[v]
  BY DEF TypeInv, Counts, Record, Plus
<1>2. worker'[w] # "done" /\ worker[w] # "done" /\ \A v \in Worker : v # w => worker'[v] = worker[v]
  BY DEF TypeInv, Record, At, GoTo
<1>3. 1..(n + 1) = (1..n) \cup {n + 1}
  BY <1>1
<1>4. ~ x \in Undelivered
  BY <1>1, UndeliveredMembers
<1>5. Undelivered' = Undelivered \cup {x}
  <2>1. ASSUME NEW y \in Undelivered'
        PROVE  y \in Undelivered \cup {x}
    <3>1. PICK v \in Worker : worker'[v] # "done" /\ \E k \in 1..local'[v].requests : y = <<v, k>>
      BY UndeliveredNext
    <3>2. CASE v = w
      BY <1>1, <1>2, <1>3, <3>1, <3>2, UndeliveredMembers
    <3>3. CASE v # w
      BY <1>1, <1>2, <3>1, <3>3, UndeliveredMembers
    <3>4. QED
      BY <3>2, <3>3
  <2>2. ASSUME NEW y \in Undelivered \cup {x}
        PROVE  y \in Undelivered'
    <3>1. CASE y = x
      BY <1>1, <1>2, <3>1, UndeliveredNext
    <3>2. CASE y \in Undelivered
      <4>1. PICK v \in Worker : worker[v] # "done" /\ \E k \in 1..local[v].requests : y = <<v, k>>
        BY <3>2, UndeliveredMembers
      <4>2. worker'[v] # "done" /\ \E k \in 1..local'[v].requests : y = <<v, k>>
        BY <1>1, <1>2, <1>3, <4>1
      <4>3. QED
        BY <4>1, <4>2, UndeliveredNext
    <3>3. QED
      BY <2>2, <3>1, <3>2
  <2>3. QED
    BY <2>1, <2>2
<1>6. QED
  BY <1>4, <1>5, FS_AddElement

\* A worker that is done has none: what it had is a set of as many elements.
LEMMA DoneRemoves ==
  ASSUME TypeInv, NEW w \in Worker, worker[w] # "done", GoTo(w, "done"), UNCHANGED local,
         IsFiniteSet(Undelivered)
  PROVE  /\ IsFiniteSet(Undelivered')
         /\ Cardinality(Undelivered)' = Cardinality(Undelivered) - local[w].requests
<1> DEFINE n == local[w].requests
           D == {w} \X (1..n)
<1>1. n \in Nat
  BY DEF TypeInv, Counts
<1>2. worker'[w] = "done" /\ \A v \in Worker : v # w => worker'[v] = worker[v]
  BY DEF TypeInv, GoTo
<1>3. Cardinality(D) = n
  <2>1. IsFiniteSet({w}) /\ Cardinality({w}) = 1
    BY FS_Singleton
  <2>2. IsFiniteSet(1..n) /\ Cardinality(1..n) = n
    <3>1. 1 \in Int /\ n \in Int
      BY <1>1
    <3>2. IsFiniteSet(1..n) /\ Cardinality(1..n) = IF 1 > n THEN 0 ELSE n - 1 + 1
      BY <3>1, FS_Interval
    <3>3. QED
      BY <1>1, <3>2
  <2>3. Cardinality(D) = 1 * n
    <3>1. \A S, T : IsFiniteSet(S) /\ IsFiniteSet(T) =>
                     Cardinality(S \X T) = Cardinality(S) * Cardinality(T)
      BY FS_Product, Zenon
    <3>2. Cardinality(D) = Cardinality({w}) * Cardinality(1..n)
      BY <2>1, <2>2, <3>1, Zenon
    <3>3. QED
      BY <2>1, <2>2, <3>2
  <2>4. QED
    BY <1>1, <2>3
<1>4. D \subseteq Undelivered
  BY UndeliveredMembers
<1>5. Undelivered' = Undelivered \ D
  <2>1. ASSUME NEW y \in Undelivered'
        PROVE  y \in Undelivered \ D
    <3>1. PICK v \in Worker : worker'[v] # "done" /\ \E k \in 1..local'[v].requests : y = <<v, k>>
      BY UndeliveredNext
    <3>2. v # w /\ worker[v] # "done" /\ \E k \in 1..local[v].requests : y = <<v, k>>
      BY <1>2, <3>1
    <3>3. QED
      BY <3>1, <3>2, UndeliveredMembers
  <2>2. ASSUME NEW y \in Undelivered \ D
        PROVE  y \in Undelivered'
    <3>1. PICK v \in Worker : worker[v] # "done" /\ \E k \in 1..local[v].requests : y = <<v, k>>
      BY UndeliveredMembers
    <3>2. v # w
      BY <2>2, <3>1
    <3>3. QED
      BY <1>2, <3>1, <3>2, UndeliveredNext
  <2>3. QED
    BY <2>1, <2>2
<1>6. Undelivered \cap D = D
  BY <1>4
<1>7. /\ IsFiniteSet(Undelivered \ D)
      /\ Cardinality(Undelivered \ D) = Cardinality(Undelivered) - Cardinality(Undelivered \cap D)
  BY FS_Difference
<1>8. QED
  BY <1>3, <1>5, <1>6, <1>7

\* Who moves without being done keeps what it has.
LEMMA MoveKeeps ==
  ASSUME TypeInv, NEW w \in Worker, worker[w] # "done", UNCHANGED local,
         NEW pc, pc # "done", GoTo(w, pc)
  PROVE  Undelivered' = Undelivered
<1>1. Those("done")' = Those("done")
  BY DEF Those, GoTo, TypeInv
<1>2. QED
  BY <1>1 DEF Undelivered

\* No collector has more errors than results.
LEMMA ErrorsStep ==
  ASSUME TypeInv, TypeInv', DeliverInv, ClientsInv, [Next]_evars
  PROVE  /\ \A w \in Worker : local'[w].errors <= local'[w].requests
         /\ merged'.errors <= merged'.requests
<1>1. CASE UNCHANGED <<local, merged>>
  BY <1>1 DEF DeliverInv
<1>2. ASSUME NEW w \in Worker, NEW ok \in BOOLEAN, Record(w, ok)
      PROVE  /\ \A v \in Worker : local'[v].errors <= local'[v].requests
             /\ merged'.errors <= merged'.requests
  <2>1. merged' = merged /\ \A v \in Worker : v # w => local'[v] = local[v]
    BY <1>2 DEF Record, TypeInv
  <2>2. /\ local'[w].requests = local[w].requests + 1
        /\ local'[w].errors = local[w].errors + IF ok THEN 0 ELSE 1
    BY <1>2 DEF Record, TypeInv, Plus
  <2>3. local[w].requests \in Nat /\ local[w].errors \in Nat
    BY DEF TypeInv, Counts
  <2>4. local'[w].errors <= local'[w].requests
    BY <2>2, <2>3 DEF DeliverInv
  <2>5. QED
    BY <2>1, <2>4 DEF DeliverInv
<1>3. ASSUME NEW w \in Worker, Delivering(w)
      PROVE  /\ \A v \in Worker : local'[v].errors <= local'[v].requests
             /\ merged'.errors <= merged'.requests
  <2>1. UNCHANGED local /\ merged' = Plus(merged, local[w])
    BY <1>3 DEF Delivering
  <2>2. merged'.errors <= merged'.requests
    <3>1. merged \in Counts /\ local[w] \in Counts
      BY DEF TypeInv
    <3>2. /\ merged'.requests = merged.requests + local[w].requests
          /\ merged'.errors = merged.errors + local[w].errors
      BY <2>1, <3>1, PlusType
    <3>3. merged.errors <= merged.requests /\ local[w].errors <= local[w].requests
      BY DEF DeliverInv
    <3>4. \A k \in {merged, local[w]} : k.requests \in Nat /\ k.errors \in Nat
      BY <3>1 DEF Counts
    <3>5. QED
      BY <3>2, <3>3, <3>4
  <2>3. QED
    BY <2>1, <2>2 DEF DeliverInv
<1>4. ASSUME NEW written \in BOOLEAN, WriteRow(written)
      PROVE  /\ \A v \in Worker : local'[v].errors <= local'[v].requests
             /\ merged'.errors <= merged'.requests
  <2>1. CASE UNCHANGED <<local, merged>>
    BY <1>1, <2>1
  <2>2. CASE NextPhase
    BY <2>2 DEF NextPhase, NoResults
  <2>3. QED
    BY <1>4, <2>1, <2>2 DEF WriteRow, metrics
<1>5. QED
  BY <1>1, <1>2, <1>3, <1>4, EveryStep, SetupEffect
     DEF Kinds, OneOfWorkers, SettingUp, Starting, Disturbing, Claiming, Panicking, LookAtFlag,
         Send, Verdict, CloseClients, counters, metrics

\* A result that was recorded is delivered once, or has yet to be.
LEMMA DeliverStep ==
  ASSUME TypeInv, TypeInv', ClientsInv, FreshInv, DeliverInv, [Next]_evars
  PROVE  DeliverInv'
<1> DEFINE Accounted == /\ \A w \in Worker : worker[w] = "idle" => local[w] = NoResults
                        /\ Whole => /\ IsFiniteSet(Undelivered)
                                    /\ merged.requests + Cardinality(Undelivered) = recorded
<1>t. /\ recorded \in Nat /\ merged.requests \in Nat
      /\ IsFiniteSet(Undelivered) => Cardinality(Undelivered) \in Nat
  BY FS_CardinalityType DEF TypeInv, Counts
<1>0. SUFFICES step' = "workload" => Accounted'
  BY ErrorsStep DEF DeliverInv
<1>e. step = "workload" => Accounted
  BY DEF DeliverInv
<1>k. UNCHANGED engine
  BY DEF Next, evars
<1>1. CASE Starting
  <2>1. local' = [w \in Worker |-> NoResults] /\ merged'.requests = 0 /\ recorded' = 0
    BY <1>1 DEF Starting, FreshInv, Setup, counters, NoResults
  <2>2. Undelivered' = {}
    <3>1. ASSUME NEW x \in Undelivered'
          PROVE  FALSE
      <4>1. PICK w \in Worker : \E k \in 1..local'[w].requests : x = <<w, k>>
        BY UndeliveredNext
      <4>2. local'[w].requests = 0
        BY <2>1 DEF NoResults
      <4>3. QED
        BY <4>1, <4>2
    <3>2. QED
      BY <3>1
  <2>3. QED
    BY <2>1, <2>2, FS_EmptySet
<1>2. CASE Disturbing
  <2>1. Undelivered' = Undelivered
    BY <1>2 DEF Disturbing, Undelivered, Those, counters
  <2>2. QED
    BY <1>e, <1>2, <2>1 DEF Disturbing, Whole, counters, constant
<1>3. ASSUME NEW w \in Worker, LookAtFlag(w) \/ Claiming(w) \/ Send(w)
      PROVE  Accounted'
  <2>1. /\ step = "workload" /\ UNCHANGED <<local, merged, recorded, panicked>>
        /\ worker[w] # "done"
        /\ \E pc \in {"claim", "limit", "await", "leave"} : GoTo(w, pc)
    BY <1>3 DEF LookAtFlag, Claiming, Send, At, budget, metrics, counters
  <2>2. Undelivered' = Undelivered
    BY <2>1, MoveKeeps
  <2>3. \A v \in Worker : worker'[v] = "idle" => worker[v] = "idle"
    BY <2>1 DEF GoTo, TypeInv
  <2>4. QED
    BY <1>e, <1>k, <2>1, <2>2, <2>3 DEF Whole
<1>4. ASSUME NEW w \in Worker, NEW ok \in BOOLEAN, Record(w, ok)
      PROVE  Accounted'
  <2>1. /\ step = "workload" /\ UNCHANGED <<merged, panicked>>
        /\ recorded' = recorded + 1 /\ GoTo(w, "loop")
        /\ \A v \in Worker : v # w => local'[v] = local[v]
    BY <1>4 DEF Record, At, TypeInv
  <2>2. \A v \in Worker : worker'[v] = "idle" => worker[v] = "idle" /\ v # w
    BY <2>1 DEF GoTo, TypeInv
  <2>3. QED
    BY <1>t, <1>e, <1>k, <1>4, <2>1, <2>2, RecordAdds DEF Whole
<1>5. ASSUME NEW w \in Worker, Delivering(w)
      PROVE  Accounted'
  <2>1. /\ step = "workload" /\ UNCHANGED <<local, recorded, panicked>>
        /\ worker[w] # "done" /\ GoTo(w, "done")
        /\ merged' = Plus(merged, local[w])
    BY <1>5 DEF Delivering, At
  <2>2. merged'.requests = merged.requests + local[w].requests /\ local[w].requests \in Nat
    BY <2>1, PlusType DEF TypeInv, Counts
  <2>3. \A v \in Worker : worker'[v] = "idle" => worker[v] = "idle"
    BY <2>1 DEF GoTo, TypeInv
  <2>4. ASSUME Whole'
        PROVE  /\ IsFiniteSet(Undelivered')
               /\ merged'.requests + Cardinality(Undelivered)' = recorded'
    <3>1. Whole
      BY <1>k, <2>1, <2>4 DEF Whole
    <3>2. QED
      BY <1>t, <1>e, <2>1, <2>2, <3>1, DoneRemoves
  <2>5. QED
    BY <1>e, <2>1, <2>3, <2>4
<1>6. ASSUME NEW w \in Worker, Panicking(w)
      PROVE  Accounted'
  <2>1. /\ step = "workload" /\ UNCHANGED <<local, merged, recorded>>
        /\ worker[w] # "done" /\ panicked'
        /\ GoTo(w, IF engine = "go" THEN "leave" ELSE "done")
    BY <1>6 DEF Panicking, At
  <2>2. \A v \in Worker : worker'[v] = "idle" => worker[v] = "idle"
    BY <2>1 DEF GoTo, TypeInv
  <2>3. Whole' => engine = "go"
    BY <1>k, <2>1 DEF Whole
  <2>4. engine = "go" => Undelivered' = Undelivered /\ Whole
    BY <2>1, MoveKeeps DEF Whole
  <2>5. QED
    BY <1>e, <2>1, <2>2, <2>3, <2>4
<1>7. QED
  BY <1>1, <1>2, <1>3, <1>4, <1>5, <1>6, EveryStep, SetupEffect
     DEF Kinds, OneOfWorkers, SettingUp, Setup, Verdict, CloseClients, WriteRow, NextPhase

-----------------------------------------------------------------------------
(* The end of a phase, and of the run. *)

\* Whoever is done has given the collector of the phase its window.
LEMMA WindowStep ==
  ASSUME TypeInv, ClientsInv, WindowInv, [Next]_evars
  PROVE  WindowInv'
<1> USE DEF WindowInv
<1>k. UNCHANGED engine
  BY DEF Next, evars
<1>1. CASE Starting
  BY <1>1, <1>k DEF Starting, TypeInv
<1>2. CASE Disturbing
  BY <1>2, <1>k DEF Disturbing
<1>3. ASSUME NEW w \in Worker, NEW ok \in BOOLEAN,
             LookAtFlag(w) \/ Claiming(w) \/ Send(w) \/ Record(w, ok) \/ Panicking(w)
      PROVE  WindowInv'
  <2>1. /\ step = "workload" /\ UNCHANGED window
        /\ \E pc \in {"loop", "claim", "limit", "await", "leave", "done"} :
             GoTo(w, pc) /\ (engine = "go" => pc # "done")
    BY <1>3 DEF LookAtFlag, Claiming, Send, Record, Panicking, At, metrics, budget
  <2>2. engine = "go" => \A v \in Worker : worker'[v] = "done" => worker[v] = "done"
    BY <2>1 DEF GoTo, TypeInv
  <2>3. QED
    BY <1>k, <2>1, <2>2
<1>4. ASSUME NEW w \in Worker, Delivering(w)
      PROVE  WindowInv'
  BY <1>k, <1>4 DEF Delivering, At
<1>5. ASSUME step' # "workload"
      PROVE  WindowInv'
  BY <1>5
<1>6. QED
  BY <1>1, <1>2, <1>3, <1>4, <1>5, EveryStep, SetupEffect
     DEF Kinds, OneOfWorkers, SettingUp, Setup, Verdict, CloseClients, WriteRow, NextPhase

\* There is always somebody to wait for.
LEMMA SomebodyDone ==
  ASSUME TypeInv, ClientsInv, WorkInv, step = "workload", AllIdle
  PROVE  \E w \in Worker : worker[w] = "done"
<1>1. PICK n \in 0..Active : clients = 1..n
  BY DEF ClientsInv
<1>2. 1 \in clients
  BY <1>1, ActiveRange DEF ClientsInv
<1>3. <<1, 1>> \in Worker
  BY SharedBudgetAssumption DEF Worker, Connection
<1>4. worker[<<1, 1>>] # "idle"
  BY <1>2, <1>3 DEF WorkInv
<1>5. QED
  BY <1>3, <1>4 DEF AllIdle

\* When the main thread has waited for everybody, the window is there, every
\* result that was recorded has been delivered, and unless a worker panicked
\* what was sent was recorded.
LEMMA AllWaitedFor ==
  ASSUME TypeInv, ClientsInv, WorkInv, RecordInv, DeliverInv, WindowInv,
         step = "workload", AllIdle
  PROVE  /\ window
         /\ Whole => merged.requests = recorded
         /\ ~ panicked => recorded = sent
<1>1. window
  <2>1. CASE engine = "rust"
    BY <2>1 DEF WindowInv
  <2>2. CASE engine = "go"
    BY <2>2, SomebodyDone DEF WindowInv
  <2>3. QED
    BY <2>1, <2>2 DEF TypeInv
<1>2. Undelivered = {}
  <2>1. ASSUME NEW x \in Undelivered
        PROVE  FALSE
    <3>1. PICK w \in Worker : worker[w] # "done" /\ \E k \in 1..local[w].requests : x = <<w, k>>
      BY UndeliveredMembers
    <3>2. local[w].requests = 0
      BY <3>1 DEF AllIdle, DeliverInv, NoResults
    <3>3. QED
      BY <3>1, <3>2
  <2>2. QED
    BY <2>1
<1>3. Whole => merged.requests = recorded
  BY <1>2, FS_EmptySet DEF DeliverInv, TypeInv, Counts
<1>4. ~ panicked => recorded = sent
  <2>1. Num("await") = 0
    BY NumNobody DEF AllIdle
  <2>2. QED
    BY <2>1 DEF RecordInv, TypeInv
<1>5. QED
  BY <1>1, <1>3, <1>4

\* The verdict is formed on everything there is, and stands.
LEMMA EndStep ==
  ASSUME TypeInv, ClientsInv, WorkInv, FreshInv, RecordInv, DeliverInv, WindowInv, EndInv,
         [Next]_evars
  PROVE  EndInv'
<1> USE DEF EndInv, Setup
<1>k. UNCHANGED engine
  BY DEF Next, evars
<1>1. CASE SetupStep /\ UNCHANGED engine
  <2>1. SettingUp
    BY <1>1, SetupEffect
  <2>2. sent = 0 /\ recorded = 0 /\ merged = NoResults
    BY <2>1 DEF SettingUp, FreshInv
  <2>3. QED
    BY <2>1, <2>2 DEF SettingUp, NoResults, counters
<1>2. CASE Starting
  BY <1>2 DEF Starting
<1>3. CASE Disturbing
  BY <1>k, <1>3 DEF Disturbing, counters, Whole
<1>4. ASSUME NEW w \in Worker, OneOfWorkers(w)
      PROVE  EndInv'
  <2>1. step = "workload" /\ UNCHANGED <<step, status>>
    BY <1>4 DEF OneOfWorkers, LookAtFlag, Claiming, Send, Panicking, Delivering, Record, At
  <2>2. QED
    BY <2>1
<1>5. CASE Verdict
  <2>1. /\ step = "workload" /\ AllIdle /\ step' = "close"
        /\ UNCHANGED <<window, merged, recorded, sent, panicked>>
    BY <1>5 DEF Verdict, metrics, budget
  <2>2. status' # "none" /\ (status' = "COMPLETED" => ~ panicked /\ ~ AllFailed)
    BY <1>5 DEF Verdict
  <2>3. merged.errors <= merged.requests /\ merged.errors \in Nat /\ merged.requests \in Nat
    BY DEF DeliverInv, TypeInv, Counts
  <2>4. status' = "COMPLETED" =>
          merged.requests = sent /\ (sent > 0 => merged.errors < sent)
    BY <2>1, <2>2, <2>3, AllWaitedFor DEF AllFailed, Whole
  <2>5. QED
    BY <1>k, <2>1, <2>2, <2>4, AllWaitedFor DEF Whole
<1>6. CASE CloseClients
  BY <1>k, <1>6 DEF CloseClients, metrics, budget, Whole
<1>7. ASSUME NEW written \in BOOLEAN, WriteRow(written)
      PROVE  EndInv'
  BY <1>7 DEF WriteRow, NextPhase
<1>8. QED
  BY <1>1, <1>2, <1>3, <1>4, <1>5, <1>6, <1>7, EveryStep DEF Kinds

\* A row that does not say COMPLETED leaves its mark on the exit status, and phases
\* are left out for a signal only.
LEMMA ExitStep ==
  ASSUME TypeInv, ClientsInv, EndInv, ExitInv, [Next]_evars
  PROVE  ExitInv'
<1> USE DEF ExitInv
<1>1. ASSUME NEW written \in BOOLEAN, WriteRow(written)
      PROVE  ExitInv'
  <2> DEFINE row == [status |-> status, written |-> written]
  <2>1. rows' = Append(rows, row) /\ exit' = IF status = "COMPLETED" THEN exit ELSE 1
    BY <1>1 DEF WriteRow
  <2>2. rows \in Seq([status : Final, written : BOOLEAN]) /\ exit \in {0, 1}
    BY DEF TypeInv
  <2>3. /\ DOMAIN rows' = (DOMAIN rows) \cup {Len(rows) + 1}
        /\ \A i \in DOMAIN rows : rows'[i] = rows[i]
        /\ rows'[Len(rows) + 1] = row
    <3>1. row \in [status : Final, written : BOOLEAN]
      BY <1>1 DEF WriteRow, EndInv, TypeInv, Setup
    <3>2. QED
      BY <2>1, <2>2, <3>1
  <2>4. (\A i \in DOMAIN rows' : rows'[i].status = "COMPLETED") <=>
          (\A i \in DOMAIN rows : rows[i].status = "COMPLETED") /\ status = "COMPLETED"
    BY <2>3
  <2>5. exit' = 0 <=> \A i \in DOMAIN rows' : rows'[i].status = "COMPLETED"
    BY <2>1, <2>2, <2>4
  <2>6. Len(rows') = Len(rows) + 1 /\ Len(rows) = phase - 1 /\ phase \in Nat
    BY <1>1, <2>1, <2>2 DEF WriteRow, TypeInv
  <2>7. UNCHANGED interrupted /\ IF interrupted \/ phase = Phases
                                THEN step' = "ended" /\ phase' = phase
                                ELSE step' = "connect" /\ phase' = phase + 1
    BY <1>1 DEF WriteRow, NextPhase, setup
  <2>8. QED
    BY <2>5, <2>6, <2>7
<1>2. ASSUME UNCHANGED <<exit, rows, phase>>,
             \/ step # "ended" /\ step' # "ended"
             \/ UNCHANGED step /\ (interrupted => interrupted')
      PROVE  ExitInv'
  BY <1>2
<1>3. ASSUME SetupStep, UNCHANGED engine
      PROVE  ExitInv'
  <2>1. SettingUp
    BY <1>3, SetupEffect
  <2>2. QED
    BY <1>2, <2>1 DEF SettingUp, Setup, constant, setup
<1>4. CASE Starting \/ Disturbing
  BY <1>2, <1>4 DEF Starting, Disturbing, constant, setup
<1>5. CASE Verdict \/ CloseClients
  BY <1>2, <1>5 DEF Verdict, CloseClients, setup, report
<1>6. ASSUME NEW w \in Worker, OneOfWorkers(w)
      PROVE  ExitInv'
  <2>1. UNCHANGED <<exit, rows, phase, step, interrupted>>
    BY <1>6 DEF OneOfWorkers, LookAtFlag, Claiming, Send, Panicking, Delivering, Record,
                constant, setup, report
  <2>2. QED
    BY <1>2, <2>1
<1>7. QED
  BY <1>1, <1>3, <1>4, <1>5, <1>6, EveryStep DEF Kinds

-----------------------------------------------------------------------------
(* The theorems. *)

\* The invariant holds at first ...
LEMMA InitIInv == EInit => IInv
<1> SUFFICES ASSUME EInit PROVE IInv
  OBVIOUS
<1> USE DEF EInit, Init
<1>1. TypeInv
  <2>1. NoResults \in Counts
    BY DEF NoResults, Counts
  <2>2. target \in Nat /\ warmup \in Nat /\ rps \in Nat
    BY SharedBudgetAssumption
  <2>3. /\ pings \in [Connection -> Nat] /\ local \in [Worker -> Counts]
        /\ worker \in [Worker -> Ended \cup {"ping", "loop", "claim", "limit", "await", "leave"}]
    BY <2>1 DEF Ended
  <2>4. failed \in BOOLEAN /\ timeUp \in BOOLEAN /\ interrupted \in BOOLEAN
        /\ window \in BOOLEAN /\ panicked \in BOOLEAN
    OBVIOUS
  <2>5. rows \in Seq([status : Final, written : BOOLEAN])
    OBVIOUS
  <2>6. QED
    BY <2>1, <2>2, <2>3, <2>4, <2>5 DEF TypeInv, Setup
<1>2. ClientsInv
  <2>1. Active \in 1..Conns
    BY <1>1, ActiveRange
  <2>2. clients = 1..0 /\ 0 \in 0..Active
    BY <2>1
  <2>3. QED
    BY <2>1, <2>2 DEF ClientsInv
<1>3. WorkInv /\ FreshInv
  BY DEF WorkInv, NoWorkEscapes, FreshInv
<1>4. GrantInv /\ RecordInv /\ WindowInv
  BY DEF GrantInv, RecordInv, WindowInv
<1>5. DeliverInv /\ EndInv
  BY DEF DeliverInv, EndInv, NoResults, Setup
<1>6. ExitInv
  BY DEF ExitInv
<1>7. QED
  BY <1>1, <1>2, <1>3, <1>4, <1>5, <1>6 DEF IInv

\* ... and every step keeps it.
LEMMA StepIInv == IInv /\ [Next]_evars => IInv'
<1> SUFFICES ASSUME IInv, [Next]_evars PROVE IInv'
  OBVIOUS
<1>1. TypeInv' /\ ClientsInv' /\ WorkInv'
  BY TypeStep, ClientsStep, WorkStep DEF IInv
<1>2. FreshInv' /\ GrantInv' /\ RecordInv'
  BY FreshStep, GrantStep, RecordStep DEF IInv
<1>3. DeliverInv' /\ WindowInv'
  BY <1>1, DeliverStep, WindowStep DEF IInv
<1>4. EndInv' /\ ExitInv'
  BY EndStep, ExitStep DEF IInv
<1>5. QED
  BY <1>1, <1>2, <1>3, <1>4 DEF IInv

\* The inductive invariant holds in every reachable state.
THEOREM Invariance == Spec => []IInv
BY InitIInv, StepIInv, PTL DEF Spec

\* A worker or warmup thread that has not ended runs inside its phase, on a
\* connection that is open: the main thread closes nothing under it.
THEOREM NobodyEscapes == Spec => []NoWorkEscapes
<1>1. IInv => NoWorkEscapes
  BY DEF IInv, WorkInv
<1>2. QED
  BY <1>1, Invariance, PTL

\* A row counts what was recorded, and a COMPLETED row what was sent.
THEOREM RowsAreFaithful == Spec => []RowFaithful
<1>1. IInv => RowFaithful
  BY DEF IInv, EndInv, RowFaithful, Whole
<1>2. QED
  BY <1>1, Invariance, PTL

\* The exit status is 0 when every phase of the workload was COMPLETED, and only if
\* every executed phase was and no other was left out without a signal.
THEOREM ExitIsHonest == Spec => []ExitHonest
<1>1. IInv => ExitHonest
  BY DEF IInv, ExitInv, ExitHonest
<1>2. QED
  BY <1>1, Invariance, PTL

\* Each step of an engine is a step of the abstract budget, or leaves it alone.
LEMMA BudgetStep ==
  ASSUME IInv, [Next]_evars
  PROVE  [Budget!Next]_(Budget!vars)
<1> USE DEF IInv, Budget!vars
<1>1. ASSUME UNCHANGED <<target, sent, recorded, status>>
      PROVE  UNCHANGED Budget!vars
  BY <1>1
<1>2. CASE SetupStep /\ UNCHANGED engine
  <2>1. UNCHANGED <<target, sent, recorded>> /\ status = "none"
        /\ status' \in {"none", "ERROR", "INTERRUPTED"}
    BY <1>2, SetupEffect DEF SettingUp, EndInv, constant, setup, counters
  <2>2. QED
    BY <2>1 DEF Budget!Next, Budget!Abort
<1>3. CASE Starting \/ Disturbing \/ CloseClients
  BY <1>3 DEF Starting, Disturbing, CloseClients, constant, setup, counters, metrics, budget
<1>4. ASSUME NEW w \in Worker, LookAtFlag(w) \/ Claiming(w) \/ Panicking(w) \/ Delivering(w)
      PROVE  UNCHANGED Budget!vars
  BY <1>4 DEF LookAtFlag, Claiming, Panicking, Delivering, constant, setup, counters, metrics,
              budget
<1>5. ASSUME NEW w \in Worker, Send(w)
      PROVE  Budget!Issue
  <2>1. step = "workload" /\ status = "none" /\ w \in Those("limit")
    BY <1>5 DEF Send, At, EndInv, Those
  <2>2. Num("limit") \in Nat \ {0}
    BY <2>1, NumFacts
  <2>3. target = 0 \/ sent < target
    BY <2>1, <2>2 DEF GrantInv, RequestBased, Left, TypeInv
  <2>4. QED
    BY <1>5, <2>1, <2>3 DEF Budget!Issue, Send, setup, metrics
<1>6. ASSUME NEW w \in Worker, NEW ok \in BOOLEAN, Record(w, ok)
      PROVE  Budget!Record
  <2>1. step = "workload" /\ status = "none" /\ w \in Those("await")
    BY <1>6 DEF Record, At, EndInv, Those
  <2>2. Num("await") \in Nat \ {0}
    BY <2>1, NumFacts
  <2>3. recorded < sent
    BY <2>1, <2>2 DEF RecordInv, TypeInv
  <2>4. QED
    BY <1>6, <2>1, <2>3 DEF Budget!Record, Record, setup, budget
<1>7. CASE Verdict
  <2>1. /\ step = "workload" /\ AllIdle /\ status = "none"
        /\ UNCHANGED <<target, sent, recorded>>
    BY <1>7 DEF Verdict, EndInv, setup, budget, metrics
  <2>2. CASE status' = "COMPLETED"
    <3>1. ~ interrupted /\ ~ panicked
      BY <1>7, <2>2 DEF Verdict
    <3>2. recorded = sent
      BY <2>1, <3>1, AllWaitedFor
    <3>3. Num("limit") = 0
      BY <2>1, NumNobody DEF AllIdle
    <3>4. target # 0 => sent = target
      BY <2>1, <3>1, <3>3, SomebodyDone DEF GrantInv, RequestBased, Left, TypeInv
    <3>5. QED
      BY <2>1, <2>2, <3>2, <3>4 DEF Budget!Next, Budget!Complete
  <2>3. CASE status' \in {"ERROR", "INTERRUPTED"}
    BY <2>1, <2>3 DEF Budget!Next, Budget!Abort
  <2>4. QED
    BY <1>7, <2>2, <2>3 DEF Verdict
<1>8. ASSUME NEW written \in BOOLEAN, WriteRow(written)
      PROVE  [Budget!Next]_(Budget!vars)
  <2>1. CASE NextPhase
    <3>1. target' \in Nat /\ status # "none"
      BY <1>8, <2>1, SharedBudgetAssumption DEF NextPhase, WriteRow, EndInv, Setup
    <3>2. QED
      BY <2>1, <3>1 DEF NextPhase, Budget!Next, Budget!Restart
  <2>2. CASE UNCHANGED <<setup, budget, metrics, status>>
    BY <2>2 DEF setup, budget, metrics
  <2>3. QED
    BY <1>8, <2>1, <2>2 DEF WriteRow
<1>9. QED
  BY <1>1, <1>2, <1>3, <1>4, <1>5, <1>6, <1>7, <1>8, EveryStep
     DEF Kinds, OneOfWorkers, Budget!Next

\* Each phase of both engines implements RequestBudget.
THEOREM ImplementsBudget == Spec => BudgetSpec
<1>1. EInit => Budget!Init
  BY SharedBudgetAssumption DEF EInit, Init, Budget!Init
<1>2. IInv /\ [Next]_evars => [Budget!Next]_(Budget!vars)
  BY BudgetStep
<1>3. QED
  BY <1>1, <1>2, Invariance, PTL DEF Spec, BudgetSpec, Budget!Spec
=============================================================================
