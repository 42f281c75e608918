----------------------------- MODULE MCSweepData -----------------------------
(* Small matrices and measurements for SweepData.                          *)
EXTENDS SweepData

File(stem, id, credentials) ==
  [stem |-> stem, driver_id |-> id, credentials |-> credentials]

MCFiles ==
  [glide  |-> File("glide", "valkey-glide", {}),
   sdv    |-> File("sdv", "spring-data-valkey", {}),
   jedisA |-> File("jedis", "jedis", {}),
   jedisB |-> File("jedis", "jedis", {"auth"}),
   iored  |-> File("ioredis", "ioredis", {"auth"}),
   rec    |-> File("recording", "recording", {})]
MCEngineOf == [ioredis |-> "node"]
At(authAttempt) == [c \in {{}, {"auth"}} |-> IF c = {} THEN 1 ELSE authAttempt]

Val(v) == [val |-> v]
Ref(d) == [ref |-> d]
Dim(name, values) == [name |-> name, values |-> values, applies_to |-> None]
For(drivers, d) == [d EXCEPT !.applies_to = drivers]
Plan(axis, iterations, dims) ==
  [x_axis |-> axis, iterations |-> iterations, workload_template |-> "t", dimensions |-> dims]
DriversDim(paths) == Dim("driver_config", [k \in DOMAIN paths |-> Val(paths[k])])
Conns(xs) == Dim("connections", [k \in DOMAIN xs |-> Val(xs[k])])

\* Plans: free dimensions, bindings, both in one, conditional ones, another
\* axis, two files of one stem, a serverless driver; then those that do not run.
Matrices ==
  {Plan("connections", 2, <<Conns(<<1, 2>>), DriversDim(<<"glide", "sdv">>),
                          For({"sdv"}, Dim("pool_size", <<Ref("connections")>>))>>),
   Plan("connections", 1, <<DriversDim(<<"glide", "iored">>), Conns(<<1, 8>>),
                          Dim("env", <<Val("e1"), Val("e2")>>),
                          Dim("pool_size", <<Ref("connections"), Val(8)>>)>>),
   Plan("pool_size", 1, <<Dim("pool_size", <<Val(1), Val(2)>>), DriversDim(<<"glide">>),
                        Dim("connections", <<Val(2), Ref("pool_size")>>)>>),
   Plan("pool_size", 1, <<Dim("pool_size", <<Val(1), Val(2)>>), DriversDim(<<"sdv">>)>>),
   Plan("connections", 1, <<Conns(<<1, 2>>), DriversDim(<<"jedisA", "jedisB">>)>>),
   Plan("connections", 1, <<Conns(<<1, 2>>), DriversDim(<<"glide">>),
                          Dim("threads", <<Val(4)>>),
                          Dim("pool_size", <<Ref("threads"), Ref("connections")>>)>>),
   Plan("connections", 1, <<Conns(<<1, 2>>), DriversDim(<<"glide">>),
                          Dim("threads", <<Val(4)>>),
                          Dim("pool_size", <<Ref("threads"), Val(8), Ref("connections")>>)>>),
   Plan("connections", 1, <<Conns(<<1, 2>>), DriversDim(<<"rec">>)>>),
   Plan("connections", 1, <<Conns(<<1>>), DriversDim(<<"rec", "glide">>),
                          For({"glide"}, Dim("pool_size", <<Ref("nosuch")>>))>>),
   Plan("connections", 1, <<Conns(<<1>>), DriversDim(<<"glide">>), Dim("env", <<>>)>>),
   Plan("connections", 1, <<Conns(<<>>), DriversDim(<<"glide">>)>>),
   Plan("pool_size", 1, <<Conns(<<1>>), DriversDim(<<"glide">>)>>),
   Plan("connections", 1, <<Conns(<<1>>), DriversDim(<<"missing">>)>>)}

Latency(v) == [GET |-> [p50 |-> v, p99 |-> 2 * v]]
Row(requests, latency, cpu) ==
  [requests |-> requests, duration |-> 1000, status |-> "COMPLETED",
   latency |-> latency, cpu |-> cpu]

Normal == Row(20, Latency(5), 10)
\* Two close runs, two that stand out either way, one with neither command nor
\* CPU sample, a failed phase with and without a duration, a cell without rows.
Shapes ==
  {Normal, Row(21, Latency(50), 11), Row(32, Latency(6), 30), Row(10, Latency(5), 90),
   Row(20, <<>>, None),
   [Normal EXCEPT !.status = "ERROR", !.requests = 0, !.duration = 0, !.latency = <<>>],
   [Normal EXCEPT !.status = "ERROR", !.requests = 8], None}
\* Throughputs so far apart that most of them deviate from the median.
Spread == {Row(n, Latency(5), 10) : n \in {2, 20, 21, 30, 40}}

Measuring(m, shapes) ==
  [matrix |-> m, shapes |-> shapes, here |-> TRUE, tools |-> <<"cli">>, answersAt |-> At(1)]
MCExperiments ==
  {[matrix |-> m, shapes |-> {Normal}, here |-> h, tools |-> t, answersAt |-> At(a)]
     : m \in Matrices, h \in BOOLEAN, t \in {<<"cli">>, <<>>}, a \in {2, 3}} \cup
  {Measuring(Plan("connections", 4, <<Conns(<<1>>), DriversDim(<<"glide">>)>>), Shapes),
   Measuring(Plan("connections", 3, <<Conns(<<1, 2>>), DriversDim(<<"glide">>)>>),
             {Normal, Row(32, Latency(5), 10), None}),
   Measuring(Plan("connections", 5, <<Conns(<<1>>), DriversDim(<<"glide">>)>>), Spread)}
=============================================================================
