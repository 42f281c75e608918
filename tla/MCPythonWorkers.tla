--------------------------- MODULE MCPythonWorkers ---------------------------
(* Small instances of PythonWorkers for TLC. *)
EXTENDS PythonWorkers

Set == [command |-> "set", weight |-> 1]
Get == [command |-> "get", weight |-> 1]
Off == [command |-> "get", weight |-> 0]

Keys(alg, n) == [generation_alg |-> alg, keys_count |-> n, seed |-> None]
Requests(n) == [type |-> "requests", requests |-> n, seconds |-> None]
Seconds(n) == [type |-> "duration", requests |-> None, seconds |-> n]

Phase(connections, depth, limit, completion, keyspace, commands) ==
  [connections |-> connections, pipeline_depth |-> depth, rps_limit |-> limit,
   completion |-> completion, keyspace |-> keyspace, commands |-> commands]

\* A populate phase, the same with every depth and with more requests than keys;
\* uniform phases over 3 and 4 keys, paced or with a deadline; one that reads and
\* writes sequential keys in equal parts; and phases that the loader refuses.
Phases ==
  { Phase(2, 1, -1, Requests(4), Keys("sequential_int", 3), <<Set>>),
    Phase(2, 2, -1, Requests(3), Keys("sequential_int", 3), <<Set>>),
    Phase(1, 2, -1, Requests(5), Keys("uniform_rand", 3), <<Get>>),
    Phase(2, None, 1, Requests(3), Keys("uniform_rand", 4), <<Get>>),
    Phase(1, 0, -1, Seconds(1), Keys("uniform_rand", 3), <<Set, Get>>),
    Phase(1, 2, -1, Requests(2), Keys("sequential_int", 2), <<Set, Get>>),
    Phase(2, 1, -1, Requests(0), Keys("sequential_int", 3), <<Set>>),
    Phase(2, 1, -1, Seconds(None), Keys("sequential_int", 3), <<Set>>),
    Phase(0, 1, -1, Seconds(1), Keys("sequential_int", 3), <<Set>>),
    Phase(1, 1, -1, Seconds(1), Keys("sequential_int", 0), <<Set>>),
    Phase(1, 1, -1, Seconds(1), Keys("sequential_int", 1), <<Off>>) }
=============================================================================
