---------------------------- MODULE PythonWorkers ----------------------------
(***************************************************************************)
(* Inside the measured window of a phase of the Python engine: what the    *)
(* worker tasks of engine/benchmark.py do between the barriers PythonEngine*)
(* models.  `pipeline_depth' tasks per connection share one event loop,    *)
(* one request budget, one sequential counter, and per connection a key    *)
(* generator, a client and its sockets.                                    *)
(*                                                                         *)
(* asyncio runs one task at a time, in the order in which tasks became     *)
(* ready, until the task waits for something that is not there yet.  A     *)
(* request may be answered without such a wait (an in-memory driver, a     *)
(* client that raises before its first await).  Failures of connections    *)
(* and Ctrl-C are in PythonEngine, the times of the limiter in LockLimiter.*)
(***************************************************************************)
EXTENDS KeyStream, FiniteSets, SequencesExt

CONSTANTS
  None,
  Configs,        \* phases as workload files have them
  Drivers,        \* kinds of driver: a subset of {"pool", "multiplex", "memory"}
  Nodes,          \* how many servers there may be: 1, or the nodes of a cluster
  Yield,          \* YIELD_EVERY_N_REQUESTS
  BackoffAfter,   \* CONSECUTIVE_FAILURE_BACKOFF_AFTER
  MaxRequests     \* bound: requests of a duration-based phase

ASSUME WorkersAssumption ==
  /\ Drivers \subseteq {"pool", "multiplex", "memory"}
  /\ {Yield, BackoffAfter, MaxRequests} \subseteq Nat \ {0}
  /\ Nodes \subseteq Nat \ {0}

\* The commands that are implemented.
Supported == {"ping", "get", "set"}

\* No number, status, task or request is None.
ASSUME NoneAssumption ==
  /\ None \notin Int /\ None \notin {"COMPLETED", "ERROR"}
  /\ None \notin Nat \X Nat /\ None \notin Supported \X Nat

\* A phase of a workload file; any of these numbers may be missing.
Number == Int \cup {None}
ASSUME ConfigsAssumption ==
  Configs \subseteq
    [connections : Number, pipeline_depth : Number, rps_limit : Int,
     completion : [type : STRING, requests : Number, seconds : Number],
     keyspace : [generation_alg : STRING, keys_count : Number, seed : Number],
     commands : Seq([command : STRING, weight : Int])]

VARIABLES
  phase,          \* the phase, accepted by the loader
  driver,         \* the kind of the driver
  nodes,          \* the servers its clients talk to
  ready,          \* the event loop's queue of tasks that can go on
  running,        \* the task that runs, None: the loop picks the next one
  at,             \* task -> where it is
  unyielded,      \* task -> since_yield
  failures,       \* task -> consecutive_failures, counted up to BackoffAfter
  asked,          \* task -> the command and the key of its request
  budget,         \* request_budget
  timeUp,         \* time.monotonic() >= end_time
  counter,        \* shared_counter
  generators,     \* task -> state of the generator it uses, in the entry of Owner
  sockets,        \* <<connection, node>> -> sockets its client has open there
  collector,      \* [requests, errors]
  status,         \* what _run_workload returns, None before
  drawn,          \* history: connection -> key indices, as they were drawn
  stored, failed, \* history: the keys of requests that succeeded and failed
  overtaken       \* history: task -> requests recorded since it became ready

loop == <<ready, running, at>>
pacing == <<unyielded, failures>>
keys == <<counter, generators, drawn>>
results == <<collector, stored, failed>>
config == <<phase, driver, nodes>>
vars == <<config, loop, pacing, asked, budget, timeUp, keys, sockets, results,
          status, overtaken>>

-----------------------------------------------------------------------------
(* The phase, as config/loader.py accepts it.                              *)

\* completion.validate(): the bound of the given type is there and positive.
completion_validates(c) ==
  /\ c.type \in {"duration", "requests"}
  /\ LET bound == IF c.type = "duration" THEN c.seconds ELSE c.requests
     IN  IF bound = None THEN FALSE ELSE bound > 0

keyspace_validates(k) ==
  /\ IF k.keys_count = None THEN FALSE ELSE k.keys_count >= 1
  /\ k.generation_alg \in {"sequential_int", "uniform_rand"}

\* _parse_phase: a phase that is not refused; a depth of 0 or less is 1.
parse_phase(p) ==
  IF /\ completion_validates(p.completion)
     /\ keyspace_validates(p.keyspace)
     /\ IF p.connections = None THEN FALSE ELSE p.connections >= 1
     /\ p.commands # <<>>
     /\ \A k \in DOMAIN p.commands : p.commands[k].command \in Supported
     /\ Last(cumulative_weights(p.commands)) > 0
  THEN [p EXCEPT !.pipeline_depth = IF @ = None \/ @ <= 0 THEN 1 ELSE @]
  ELSE None

RequestBased == phase.completion.type = "requests"
HasLimit == phase.rps_limit > 0
Connections == 1..phase.connections
Task == Connections \X (1..phase.pipeline_depth)

\* The tasks in the order they are created: connection by connection.
InOrder(p) == [k \in 1..(p.connections * p.pipeline_depth) |->
                 <<1 + ((k - 1) \div p.pipeline_depth), 1 + ((k - 1) % p.pipeline_depth)>>]

\* The task whose entry of `generators' a task draws from: one generator per
\* connection.  The plausible bug: one per task.
OwnGenerator(t) == t
Owner(t) == <<t[1], 1>>

\* Where next_key reads the counter.  The plausible bug: a counter of the
\* connection, which has drawn this many keys.
ConnectionCounter(t) == Len(drawn[t[1]])
CounterOf(t) == counter

seed_base == IF phase.keyspace.seed = None THEN 0 ELSE phase.keyspace.seed

-----------------------------------------------------------------------------
(* The sockets of a client.                                                *)

\* What the row reports of every client: a pool is capped at the depth
\* (set_max_in_flight); others hold one socket.
sockets_per_client(p, d) == IF d = "pool" THEN p.pipeline_depth ELSE 1

\* A client keeps a pool per node of a cluster, and caps each of them.
Pools == Connections \X (1..nodes)

\* connect() opens a socket with a PING, and prime() has as many PINGs in flight
\* as a pool may have sockets.  The plausible bug: one PING after the other,
\* all over the same socket.
PrimeInTurn(p, d) == 1
Primed(p, d) == sockets_per_client(p, d)

\* The nodes a client has connected to when the window starts: a cluster client
\* of redis-py sends PING to one node, GLIDE has connected to all of them.
Connected == IF driver = "pool" THEN {1} ELSE 1..nodes

\* The node that serves a request; a cluster spreads the keys over its nodes.
NodeOf(request) == IF request[1] = "ping" THEN 1 ELSE 1 + (request[2] % nodes)

InFlight(q) ==
  Cardinality({t \in Task : t[1] = q[1] /\ at[t] = "flight" /\ NodeOf(asked[t]) = q[2]})

-----------------------------------------------------------------------------

\* The start of the measured window: the clients are connected and primed, and
\* every worker is scheduled.
Init ==
  /\ phase \in {parse_phase(p) : p \in Configs} \ {None}
  /\ driver \in Drivers /\ nodes \in IF driver = "memory" THEN {1} ELSE Nodes
  /\ ready = InOrder(phase) /\ running = None
  /\ at = [t \in Task |-> "loop"]
  /\ asked = [t \in Task |-> None]
  /\ unyielded = [t \in Task |-> 0] /\ failures = [t \in Task |-> 0]
  /\ budget = 0 /\ timeUp = FALSE
  /\ counter = 0
  /\ generators = [t \in Task |-> initial_scramble(seed_base + t[1] - 1)]
  /\ drawn = [c \in Connections |-> <<>>]
  /\ sockets = [q \in Pools |-> IF q[2] \in Connected THEN Primed(phase, driver) ELSE 0]
  /\ collector = [requests |-> 0, errors |-> 0]
  /\ stored = {} /\ failed = {}
  /\ status = None
  /\ overtaken = [t \in Task |-> 0]

GoTo(t, s) == at' = [at EXCEPT ![t] = s]

\* The running task waits for something that is not there yet.
Suspend == running' = None /\ UNCHANGED ready

\* A task that waited can go on: call_soon, a timer or a future.
Resume(t, s) ==
  /\ GoTo(t, s)
  /\ ready' = Append(ready, t)
  /\ overtaken' = [overtaken EXCEPT ![t] = 0]
  /\ UNCHANGED running

\* The loop takes the task that has been ready for the longest time.
StartTurn ==
  /\ running = None /\ ready # <<>>
  /\ running' = Head(ready) /\ ready' = Tail(ready)
  /\ UNCHANGED <<config, at, pacing, asked, budget, timeUp, keys, sockets, results,
                 status, overtaken>>

Runs(s) == running # None /\ at[running] = s

Exhausted == IF RequestBased THEN budget >= phase.completion.requests ELSE timeUp

\* The requests sent, each by its connection and its place there.
Draws == UNION {{c} \X DOMAIN drawn[c] : c \in Connections}
Sent == Cardinality(Draws)

\* A slot of the budget or time before the deadline, or the end of the task.
Claim ==
  /\ Runs("loop")
  /\ RequestBased \/ timeUp \/ Sent < MaxRequests
  /\ budget' = IF RequestBased THEN budget + 1 ELSE budget
  /\ IF Exhausted THEN GoTo(running, "done") /\ Suspend
     ELSE /\ GoTo(running, IF HasLimit THEN "limit" ELSE "request")
          /\ UNCHANGED <<running, ready>>
  /\ UNCHANGED <<config, pacing, asked, timeUp, keys, sockets, results, status,
                 overtaken>>

\* The limiter lets the task pass, or puts it to sleep and is asked again.
Acquire ==
  /\ Runs("limit")
  /\ \/ GoTo(running, "request") /\ UNCHANGED <<running, ready>>
     \/ GoTo(running, "paced") /\ Suspend
  /\ UNCHANGED <<config, pacing, asked, budget, timeUp, keys, sockets, results,
                 status, overtaken>>

\* How a driver receives a request: it waits for the answer, raises before that
\* (a pool without a free socket does), or has the answer at once.
Outcomes(q) ==
  IF driver = "memory" THEN {"ok", "error"}
  ELSE IF driver = "pool" /\ InFlight(q) >= sockets_per_client(phase, driver) THEN {"error"}
  ELSE {"flight", "error"}

\* select(), next_key() and the call of the driver.  A pool whose sockets are
\* all in use opens another one.
Send ==
  /\ Runs("request")
  /\ \E draw \in next_key(phase.keyspace, CounterOf(running), generators[Owner(running)]),
        command \in Selectable(phase.commands) :
       LET c == running[1]
           q == <<c, NodeOf(<<command, draw.index>>)>>
       IN  \E outcome \in Outcomes(q) :
             /\ asked' = [asked EXCEPT ![running] = <<command, draw.index>>]
             /\ drawn' = [drawn EXCEPT ![c] = Append(@, draw.index)]
             /\ counter' = draw.counter
             /\ generators' = [generators EXCEPT ![Owner(running)] = draw.state]
             /\ sockets' = [sockets EXCEPT ![q] =
                   IF driver = "pool" /\ outcome = "flight" /\ InFlight(q) = @
                   THEN @ + 1 ELSE @]
             /\ GoTo(running, outcome)
             /\ IF outcome = "flight" THEN Suspend ELSE UNCHANGED <<running, ready>>
  /\ UNCHANGED <<config, pacing, budget, timeUp, results, status, overtaken>>

\* A request is answered or fails; with a failure a pool may lose the socket.
Answer(t) ==
  /\ at[t] = "flight"
  /\ \E outcome \in {"ok", "error"} :
       /\ Resume(t, outcome)
       /\ \E lost \in IF outcome = "error" /\ driver = "pool" THEN {0, 1} ELSE {0} :
            sockets' = [sockets EXCEPT ![<<t[1], NodeOf(asked[t])>>] = @ - lost]
  /\ UNCHANGED <<config, pacing, asked, budget, timeUp, keys, results, status>>

\* The suspension that follows a request: after Yield requests without one, and
\* after every failure, for a time once failures are consecutive.  The plausible
\* bug: only failures suspend.
PauseOnFailure(t, success) ==
  [unyielded |-> 0, failures |-> 0, goOn |-> success, to |-> "loop"]

Pause(t, success) ==
  LET n    == unyielded[t] + 1
      fail == IF failures[t] < BackoffAfter THEN failures[t] + 1 ELSE BackoffAfter
  IN  IF success
      THEN [unyielded |-> n % Yield, failures |-> 0, goOn |-> n < Yield, to |-> "loop"]
      ELSE [unyielded |-> 0, failures |-> fail, goOn |-> FALSE,
            to |-> IF fail = BackoffAfter THEN "backoff" ELSE "loop"]

\* collector.record(), and on to the next request, now or when it is due.
Record ==
  /\ Runs("ok") \/ Runs("error")
  /\ LET success == at[running] = "ok"
         pause   == Pause(running, success)
         stays   == ~pause.goOn /\ pause.to = "loop"
     IN  /\ collector' = [requests |-> collector.requests + 1,
                          errors |-> collector.errors + (IF success THEN 0 ELSE 1)]
         /\ stored' = IF success THEN stored \cup {asked[running]} ELSE stored
         /\ failed' = IF success THEN failed ELSE failed \cup {asked[running]}
         /\ unyielded' = [unyielded EXCEPT ![running] = pause.unyielded]
         /\ failures' = [failures EXCEPT ![running] = pause.failures]
         /\ GoTo(running, pause.to)
         /\ ready' = IF stays THEN Append(ready, running) ELSE ready
         /\ running' = IF pause.goOn THEN running ELSE None
  /\ asked' = [asked EXCEPT ![running] = None]
  /\ overtaken' = [t \in Task |-> IF t \in ToSet(ready) THEN overtaken[t] + 1 ELSE 0]
  /\ UNCHANGED <<config, budget, timeUp, keys, sockets, status>>

\* A sleep ends: of the limiter, which looks at the clock again, or a backoff.
Awake(t) ==
  /\ at[t] \in {"paced", "backoff"}
  /\ Resume(t, IF at[t] = "paced" THEN "limit" ELSE "loop")
  /\ UNCHANGED <<config, pacing, asked, budget, timeUp, keys, sockets, results, status>>

Deadline ==
  /\ ~RequestBased /\ ~timeUp
  /\ timeUp' = TRUE
  /\ UNCHANGED <<config, loop, pacing, asked, budget, keys, sockets, results, status,
                 overtaken>>

\* gather() returns: the verdict of the phase.
Finish ==
  /\ status = None /\ \A t \in Task : at[t] = "done"
  /\ status' = IF collector.requests > 0 /\ collector.errors = collector.requests
               THEN "ERROR" ELSE "COMPLETED"
  /\ UNCHANGED <<config, loop, pacing, asked, budget, timeUp, keys, sockets, results,
                 overtaken>>

Turn == StartTurn \/ Claim \/ Acquire \/ Send \/ Record

Next == Turn \/ Deadline \/ Finish \/ \E t \in Task : Answer(t) \/ Awake(t)

Spec == Init /\ [][Next]_vars

-----------------------------------------------------------------------------
(* Properties.                                                             *)

\* No task monopolises the event loop, even when no request ever suspends: from
\* the moment a task can go on, the others record at most Yield requests each
\* before its turn.
NoMonopoly ==
  \A t \in ToSet(ready) : overtaken[t] <= (Cardinality(Task) - 1) * Yield

\* The outputs of generator c by the definition of java.util.Random, the first n
\* of them: a uniform key is made of those below the largest multiple of the
\* bound, modulo the bound; a power of two takes the high bits of each.
Output(c, k) ==
  StatesFrom(initial_scramble(seed_base + c - 1))[k] \div Pow2[Bits - Drawn]
Whole == Pow2[Drawn] - (Pow2[Drawn] % phase.keyspace.keys_count)
Kept(c, n) == {k \in 1..n : Output(c, k) < Whole}
KeyOf(x) ==
  LET bound == phase.keyspace.keys_count
  IN  IF PowerOfTwo(bound) THEN x \div (Pow2[Drawn] \div bound) ELSE x % bound

\* The keys drawn on c are those of the first n outputs, in their order.
DrawnFrom(c, n) ==
  /\ Len(drawn[c]) = Cardinality(Kept(c, n))
  /\ \A k \in Kept(c, n) : drawn[c][Cardinality(Kept(c, k))] = KeyOf(Output(c, k))

\* Which keys a phase touches does not depend on the depth or on the order in
\* which tasks run: uniform keys of connection c are the first of the stream
\* seeded seed + c, as long as a draw can name every key, and sequential keys
\* are 0, 1, 2, ... over all connections.
KeysOfPhase ==
  LET bound == phase.keyspace.keys_count
      times(k) == Cardinality({d \in Draws : drawn[d[1]][d[2]] = k})
  IN  IF phase.keyspace.generation_alg = "uniform_rand"
      THEN bound <= Pow2[Drawn] =>
             \A c \in Connections : \E n \in 0..(Len(drawn[c]) * Pow2[Bits]) : DrawnFrom(c, n)
      ELSE \A k \in 0..(bound - 1) :
             times(k) = Cardinality({i \in 0..(Sent - 1) : i % bound = k})

\* A sequential SET phase with at least as many requests as keys leaves no key
\* out: each is stored when the phase is COMPLETED, unless a SET of it failed.
PopulateComplete ==
  (/\ status = "COMPLETED" /\ RequestBased
   /\ phase.keyspace.generation_alg = "sequential_int"
   /\ phase.completion.requests >= phase.keyspace.keys_count
   /\ Selectable(phase.commands) = {"set"})
    => \A k \in 0..(phase.keyspace.keys_count - 1) : <<"set", k>> \in stored \cup failed

\* The number of sockets in the row is true for the whole window where there is
\* one server: no client has more, and as long as no request failed none of them
\* opens one (its connect would be measured as latency of the request).  Of the
\* nodes of a cluster each has at most that many of a client.
SocketsAsReported ==
  \A q \in Pools :
    /\ sockets[q] <= sockets_per_client(phase, driver)
    /\ (nodes = 1 /\ failed = {} /\ \A t \in Task : at[t] # "error")
         => sockets[q] = sockets_per_client(phase, driver)

=============================================================================
