------------------------- MODULE PythonWorkersProofs -------------------------
(***************************************************************************)
(* Proofs about PythonWorkers for every phase, depth, driver and size of   *)
(* the generator: no task monopolises the event loop, the sockets are      *)
(* those of the row where there is one server, a COMPLETED populate phase  *)
(* has left no key out, the keys do not depend on the order in which the   *)
(* tasks run, and a draw of the generator ends.                            *)
(*                                                                         *)
(* The states of a generator are a recursive function, so that the last    *)
(* two of these need induction.  It is obtained here from the fact that <  *)
(* is well-founded, for sets instead of predicates.                        *)
(***************************************************************************)
EXTENDS PythonWorkers, FiniteSetTheorems, WellFoundedInduction, TLAPS

-----------------------------------------------------------------------------
(* The inductive invariant. *)

Places == {"loop", "limit", "paced", "request", "flight", "ok", "error", "backoff", "done"}

\* A phase the loader accepted.
PhaseInv ==
  /\ phase.connections \in Nat \ {0} /\ phase.pipeline_depth \in Nat \ {0}
  /\ phase.keyspace.keys_count \in Nat \ {0}
  /\ phase.keyspace.generation_alg \in {"sequential_int", "uniform_rand"}
  /\ phase.keyspace.seed \in Number
  /\ RequestBased => phase.completion.requests \in Nat \ {0}

TypeInv ==
  /\ PhaseInv /\ driver \in Drivers
  /\ ready \in Seq(Task) /\ running \in Task \cup {None}
  /\ at \in [Task -> Places]
  /\ DOMAIN asked = Task
  /\ unyielded \in [Task -> 0..(Yield - 1)] /\ DOMAIN failures = Task
  /\ budget \in Nat /\ counter \in Nat
  /\ generators \in [Task -> Int]
  /\ drawn \in [Connections -> Seq(Nat)]
  /\ sockets \in [Pools -> Int]
  /\ overtaken \in [Task -> Nat]

\* A task is in the queue once, or runs, or waits.
QueueInv ==
  /\ \A i, j \in DOMAIN ready : ready[i] = ready[j] => i = j
  /\ \A i \in DOMAIN ready : /\ at[ready[i]] \in {"loop", "limit", "ok", "error"}
                             /\ ready[i] # running
  /\ running # None => at[running] \in {"loop", "limit", "request", "ok", "error"}

\* What the running task may still record before it has to suspend.
Remaining == IF running = None THEN 0 ELSE Yield - unyielded[running]

\* What is recorded before the turn of a task when i others come before it: at most
\* Yield by each of the rest.
Bound(i) == (Cardinality(Task) - 1 - i) * Yield

\* What was recorded since a task became ready, and what the running task may
\* still record, leave Yield for each task that is before it in the queue.
TurnInv == \A i \in DOMAIN ready : overtaken[ready[i]] + Remaining <= Bound(i - 1)

\* Requests claimed and not sent.
Claimed == {t \in Task : at[t] \in {"limit", "paced", "request"}}

\* Every slot of the budget is a request claimed or sent, and a task is done
\* when there is none left.
BudgetInv ==
  /\ IsFiniteSet(Draws)
  /\ RequestBased =>
       /\ Cardinality(Claimed) + Sent = IF budget <= phase.completion.requests
                                       THEN budget ELSE phase.completion.requests
       /\ \A t \in Task : at[t] = "done" => budget >= phase.completion.requests
  /\ status # None => \A t \in Task : at[t] = "done"

Sequential == phase.keyspace.generation_alg = "sequential_int"

\* Every index that was counted is the key of a request that was answered, or of
\* one that a task has on its hands.
PopulateInv ==
  /\ Sequential => counter = Sent
  /\ \A t \in Task : at[t] \notin {"flight", "ok", "error"} => asked[t] = None
  /\ Sequential /\ Selectable(phase.commands) = {"set"} =>
       \A i \in 0..(counter - 1) :
         \/ <<"set", i % phase.keyspace.keys_count>> \in stored \cup failed
         \/ \E t \in Task : asked[t] = <<"set", i % phase.keyspace.keys_count>>

\* The generator of a connection is as far as the keys drawn on it.
StreamInv ==
  ~ Sequential /\ phase.keyspace.keys_count <= Pow2[Drawn] =>
    \A c \in Connections : \E n \in 0..(Len(drawn[c]) * Pow2[Bits]) :
      /\ DrawnFrom(c, n)
      /\ generators[<<c, 1>>] = StatesFrom(initial_scramble(seed_base + c - 1))[n]

\* How often a key was drawn.
Times(k) == Cardinality({d \in Draws : drawn[d[1]][d[2]] = k})

\* Sequential keys, counted over all connections.
CountInv ==
  Sequential => \A k \in 0..(phase.keyspace.keys_count - 1) :
    Times(k) = Cardinality({i \in 0..(Sent - 1) : i % phase.keyspace.keys_count = k})

IInv ==
  /\ TypeInv /\ QueueInv /\ TurnInv /\ SocketsAsReported
  /\ BudgetInv /\ PopulateInv /\ StreamInv /\ CountInv

-----------------------------------------------------------------------------
(* Induction over the natural numbers, from the well-foundedness of <. *)

\* A set of natural numbers that is not empty has a least element.
LEMMA LeastElement ==
  ASSUME NEW T, T \subseteq Nat, T # {}
  PROVE  \E x \in T : \A y \in T : x <= y
<1>1. OpToRel(<, Nat) = {pair \in Nat \X Nat : pair[1] < pair[2]}
  BY DEF OpToRel
<1>2. PICK x \in T : \A y \in T : ~ (<<y, x>> \in OpToRel(<, Nat))
  BY WFMin, NatLessThanWellFounded
<1>3. ASSUME NEW y \in T
      PROVE  x <= y
  <2>1. ~ (<<y, x>> \in {pair \in Nat \X Nat : pair[1] < pair[2]})
    BY <1>1, <1>2
  <2>2. <<y, x>> \in Nat \X Nat
    OBVIOUS
  <2>3. ~ (y < x)
    BY <2>1, <2>2
  <2>4. QED
    BY <2>3
<1>4. QED
  BY <1>3

\* A set with 0 and with the successor of every number in it has all of them.
LEMMA Induction ==
  ASSUME NEW S, 0 \in S, \A n \in Nat : n \in S => n + 1 \in S
  PROVE  Nat \subseteq S
<1>1. SUFFICES ASSUME Nat \ S # {}
               PROVE  FALSE
  OBVIOUS
<1>2. PICK x \in Nat \ S : \A y \in Nat \ S : x <= y
  BY <1>1, LeastElement
<1>3. x # 0 /\ x - 1 \in Nat
  BY <1>2
<1>4. x - 1 \in S
  BY <1>2, <1>3
<1>5. QED
  BY <1>2, <1>3, <1>4

\* The beginning, up to n, of the sequence that starts with a and goes on with F.
Begins(a, F, h, n) == h[0] = a /\ \A k \in 1..n : h[k] = F[<<k, h[k - 1]>>]

\* Two beginnings agree as far as both go.
LEMMA BeginningsAgree ==
  ASSUME NEW a, NEW F, NEW n \in Nat, NEW m \in Nat, m <= n, NEW g, NEW h,
         Begins(a, F, g, m), Begins(a, F, h, n)
  PROVE  g[m] = h[m]
<1> DEFINE S == {k \in Nat : k <= m => g[k] = h[k]}
<1>1. 0 \in S
  BY DEF Begins
<1>2. ASSUME NEW k \in Nat, k \in S
      PROVE  k + 1 \in S
  <2>1. SUFFICES ASSUME k + 1 <= m
                 PROVE  g[k + 1] = h[k + 1]
    OBVIOUS
  <2>2. g[k] = h[k] /\ k + 1 \in 1..m /\ k + 1 \in 1..n /\ (k + 1) - 1 = k
    BY <1>2, <2>1
  <2>3. QED
    BY <2>2 DEF Begins
<1> HIDE DEF S
<1>3. Nat \subseteq S
  BY <1>1, <1>2, Induction
<1>4. QED
  BY <1>3 DEF S

\* There is a beginning of every length.
LEMMA BeginningExists ==
  ASSUME NEW S, NEW a \in S, NEW F \in [Nat \X S -> S], NEW n \in Nat
  PROVE  \E h \in [Nat -> S] : Begins(a, F, h, n)
<1> DEFINE T == {k \in Nat : \E h \in [Nat -> S] : Begins(a, F, h, k)}
<1>1. 0 \in T
  <2>1. [k \in Nat |-> a] \in [Nat -> S] /\ Begins(a, F, [k \in Nat |-> a], 0)
    BY DEF Begins
  <2>2. QED
    BY <2>1
<1>2. ASSUME NEW k \in Nat, k \in T
      PROVE  k + 1 \in T
  <2>1. PICK h \in [Nat -> S] : Begins(a, F, h, k)
    BY <1>2
  <2> DEFINE next == F[<<k + 1, h[k]>>]
             g == [h EXCEPT ![k + 1] = next]
  <2>2. next \in S /\ g \in [Nat -> S]
    OBVIOUS
  <2>3. g[0] = a
    BY <2>1 DEF Begins
  <2>4. ASSUME NEW j \in 1..(k + 1)
        PROVE  g[j] = F[<<j, g[j - 1]>>]
    <3>1. g[j - 1] = h[j - 1]
      OBVIOUS
    <3>2. CASE j = k + 1
      BY <3>1, <3>2
    <3>3. CASE j \in 1..k
      <4>1. g[j] = h[j]
        BY <3>3
      <4>2. QED
        BY <2>1, <3>1, <3>3, <4>1 DEF Begins
    <3>4. QED
      BY <3>2, <3>3
  <2>5. Begins(a, F, g, k + 1)
    BY <2>3, <2>4 DEF Begins
  <2> HIDE DEF g
  <2>6. QED
    BY <2>2, <2>5
<1> HIDE DEF T
<1>3. Nat \subseteq T
  BY <1>1, <1>2, Induction
<1>4. QED
  BY <1>3 DEF T

\* The whole of it.
Follows(a, F, f) == f[0] = a /\ \A n \in Nat \ {0} : f[n] = F[<<n, f[n - 1]>>]

\* A sequence can be defined by its first element and by how it goes on.
LEMMA Recursion ==
  ASSUME NEW S, NEW a, NEW F, a \in S, F \in [Nat \X S -> S]
  PROVE  \E f \in [Nat -> S] : Follows(a, F, f)
<1> DEFINE upTo(n) == CHOOSE h \in [Nat -> S] : Begins(a, F, h, n)
           f == [n \in Nat |-> upTo(n)[n]]
<1>1. ASSUME NEW n \in Nat
      PROVE  upTo(n) \in [Nat -> S] /\ Begins(a, F, upTo(n), n)
  BY BeginningExists
<1> HIDE DEF upTo
<1>2. f \in [Nat -> S]
  BY <1>1
<1>3. f[0] = a
  BY <1>1 DEF Begins
<1>4. ASSUME NEW n \in Nat \ {0}
      PROVE  f[n] = F[<<n, f[n - 1]>>]
  <2>1. Begins(a, F, upTo(n), n) /\ Begins(a, F, upTo(n - 1), n - 1) /\ n - 1 \in Nat
    BY <1>1
  <2>2. upTo(n)[n] = F[<<n, upTo(n)[n - 1]>>]
    BY <2>1 DEF Begins
  <2>3. upTo(n - 1)[n - 1] = upTo(n)[n - 1]
    BY <2>1, BeginningsAgree
  <2>4. QED
    BY <2>1, <2>2, <2>3
<1> HIDE DEF f
<1>5. QED
  BY <1>2, <1>3, <1>4 DEF Follows

-----------------------------------------------------------------------------
(* The recursive functions of the generator. *)

\* The powers of two.
LEMMA Pow2Facts ==
  /\ Pow2 \in [Nat -> Nat \ {0}]
  /\ Pow2[0] = 1
  /\ \A n \in Nat : Pow2[n + 1] = 2 * Pow2[n]
<1> DEFINE S == Nat \ {0}
           F == [x \in Nat \X S |-> 2 * x[2]]
           D(f) == [n \in Nat |-> IF n = 0 THEN 1 ELSE 2 * f[n - 1]]
<1>1. F \in [Nat \X S -> S] /\ 1 \in S
  OBVIOUS
<1>2. \A n \in Nat, x \in S : F[<<n, x>>] = 2 * x
  OBVIOUS
<1> HIDE DEF F, S
<1>3. PICK f \in [Nat -> S] : Follows(1, F, f)
  BY <1>1, Recursion, Zenon
<1>4. \A n \in Nat \ {0} : F[<<n, f[n - 1]>>] = 2 * f[n - 1]
  BY <1>2, <1>3
<1>5. f = D(f)
  BY <1>3, <1>4 DEF Follows
<1>6. Pow2 = CHOOSE g : g = D(g)
  BY DEF Pow2
<1>7. Pow2 = D(Pow2)
  BY <1>5, <1>6
<1>8. Pow2[0] = 1 /\ \A n \in Nat : Pow2[n + 1] = 2 * Pow2[n]
  BY <1>7
<1> DEFINE T == {n \in Nat : Pow2[n] \in Nat \ {0}}
<1>9. 0 \in T /\ \A n \in Nat : n \in T => n + 1 \in T
  BY <1>8
<1> HIDE DEF T
<1>10. Nat \subseteq T
  BY <1>9, Induction
<1>11. \A n \in Nat : Pow2[n] \in Nat \ {0}
  BY <1>10 DEF T
<1>12. QED
  BY <1>7, <1>8, <1>11

\* There are finitely many states, and every draw has its bits.
LEMMA NextStateFacts ==
  ASSUME NEW state \in Int
  PROVE  /\ NextState(state) \in 0..(Pow2[Bits] - 1)
         /\ Pow2[Bits] \in Nat \ {0} /\ Pow2[Drawn] \in Nat \ {0} /\ Pow2[Bits - Drawn] \in Nat \ {0}
<1>1. Bits \in Nat /\ Drawn \in Nat /\ Bits - Drawn \in Nat
  BY GeneratorAssumption
<1>2. Pow2[Bits] \in Nat \ {0} /\ Pow2[Drawn] \in Nat \ {0} /\ Pow2[Bits - Drawn] \in Nat \ {0}
  BY <1>1, Pow2Facts
<1>3. state * Multiplier + Addend \in Int
  BY GeneratorAssumption
<1>4. QED
  BY <1>2, <1>3 DEF NextState

\* The states of a generator follow one another.
LEMMA StatesFromFacts ==
  ASSUME NEW state \in Int
  PROVE  /\ StatesFrom(state)[0] = state
         /\ \A n \in Nat : /\ StatesFrom(state)[n] \in Int
                           /\ StatesFrom(state)[n + 1] = NextState(StatesFrom(state)[n])
<1> DEFINE F == [x \in Nat \X Int |-> NextState(x[2])]
           D(f) == [n \in Nat |-> IF n = 0 THEN state ELSE NextState(f[n - 1])]
           after == StatesFrom(state)
<1>1. F \in [Nat \X Int -> Int]
  BY NextStateFacts
<1>2. \A n \in Nat, x \in Int : F[<<n, x>>] = NextState(x)
  OBVIOUS
<1> HIDE DEF F
<1>3. PICK f \in [Nat -> Int] : Follows(state, F, f)
  BY <1>1, Recursion, Zenon
<1>4. \A n \in Nat \ {0} : F[<<n, f[n - 1]>>] = NextState(f[n - 1])
  BY <1>2, <1>3
<1>5. f = D(f)
  BY <1>3, <1>4 DEF Follows
<1>6. after = CHOOSE g : g = D(g)
  BY DEF StatesFrom
<1> HIDE DEF after
<1>7. after = D(after)
  BY <1>5, <1>6
<1>8. after[0] = state /\ \A n \in Nat : after[n + 1] = NextState(after[n])
  BY <1>7
<1> DEFINE T == {n \in Nat : after[n] \in Int}
<1>9. 0 \in T /\ \A n \in Nat : n \in T => n + 1 \in T
  BY <1>8, NextStateFacts
<1> HIDE DEF T
<1>10. Nat \subseteq T
  BY <1>9, Induction
<1>11. \A n \in Nat : after[n] \in Int
  BY <1>10 DEF T
<1>12. QED
  BY <1>8, <1>11 DEF after

\* The first state of a generator is a number.
LEMMA ScrambleFacts ==
  ASSUME NEW seed \in Int
  PROVE  initial_scramble(seed) \in Int
<1> DEFINE bit(x, n) == (x \div Pow2[n]) % 2
           add(n) == Pow2[n - 1] * ((bit(seed, n - 1) + bit(Multiplier, n - 1)) % 2)
           F == [x \in Nat \X Int |-> IF x[1] = 0 THEN 0 ELSE x[2] + add(x[1])]
           D(f) == [n \in Nat |-> IF n = 0 THEN 0 ELSE f[n - 1] + add(n)]
<1>1. \A n \in Nat \ {0} : add(n) \in Int
  <2>1. SUFFICES ASSUME NEW n \in Nat \ {0}
                 PROVE  add(n) \in Int
    OBVIOUS
  <2>2. Pow2[n - 1] \in Nat \ {0} /\ Multiplier \in Int
    BY Pow2Facts, GeneratorAssumption
  <2>3. \A x \in Int : bit(x, n - 1) \in Int
    BY <2>2
  <2>4. (bit(seed, n - 1) + bit(Multiplier, n - 1)) % 2 \in Int
    BY <2>2, <2>3
  <2>5. QED
    BY <2>2, <2>4
<1> HIDE DEF add
<1>2. F \in [Nat \X Int -> Int] /\ 0 \in Int
  BY <1>1
<1>3. \A n \in Nat \ {0}, x \in Int : F[<<n, x>>] = x + add(n)
  OBVIOUS
<1> HIDE DEF F
<1>4. PICK f \in [Nat -> Int] : Follows(0, F, f)
  BY <1>2, Recursion, Zenon
<1>5. \A n \in Nat \ {0} : F[<<n, f[n - 1]>>] = f[n - 1] + add(n)
  BY <1>3, <1>4
<1>6. f = D(f)
  BY <1>4, <1>5 DEF Follows
<1> DEFINE low == CHOOSE g : g = D(g)
<1>7. low = D(low)
  BY <1>6
<1>8. initial_scramble(seed) = low[Bits]
  BY DEF initial_scramble, add
<1> HIDE DEF low
<1>9. low[0] = 0 /\ \A n \in Nat : low[n + 1] = low[n] + add(n + 1)
  BY <1>7
<1> DEFINE T == {n \in Nat : low[n] \in Int}
<1>10. 0 \in T /\ \A n \in Nat : n \in T => n + 1 \in T
  BY <1>1, <1>9
<1> HIDE DEF T
<1>11. Nat \subseteq T
  BY <1>10, Induction
<1>12. low[Bits] \in Int
  BY <1>11, GeneratorAssumption DEF T
<1>13. QED
  BY <1>8, <1>12

\* What next_key returns is a number and a state, whatever the bound.
LEMMA NextKeyFacts ==
  ASSUME PhaseInv, NEW n \in Nat, NEW state \in Int,
         NEW draw \in next_key(phase.keyspace, n, state)
  PROVE  /\ draw.index \in Nat /\ draw.counter \in Nat /\ draw.state \in Int
         /\ Sequential => /\ draw.index = n % phase.keyspace.keys_count
                          /\ draw.counter = n + 1 /\ draw.state = state
<1> DEFINE bound == phase.keyspace.keys_count
<1>1. bound \in Nat \ {0}
  BY DEF PhaseInv
<1>2. CASE Sequential
  <2>1. draw = [index |-> n % bound, counter |-> n + 1, state |-> state]
    BY <1>2 DEF next_key, Sequential
  <2>2. QED
    BY <1>1, <2>1
<1>3. CASE ~ Sequential
  <2>1. PICK d \in next_int(state, bound) :
          draw = [index |-> d.index % bound, counter |-> n, state |-> d.state]
    BY <1>3 DEF next_key, Sequential
  <2>2. d.index \in Int /\ d.state \in Int
    <3>1. CASE d \in FastPath(state, bound)
      <4>1. next_bits(state) \in Int /\ NextState(state) \in Int /\ Pow2[Drawn] \in Nat \ {0}
        BY NextStateFacts DEF next_bits
      <4>2. (bound * next_bits(state)) \div Pow2[Drawn] \in Int
        BY <1>1, <4>1
      <4>3. QED
        BY <3>1, <4>1, <4>2 DEF FastPath
    <3>2. CASE d \in FirstAccepted(state, bound)
      <4> DEFINE after == StatesFrom(state)
      <4>1. PICK k \in 1..Pow2[Bits] :
              d = [state |-> after[k], index |-> next_bits(after[k - 1]) % bound]
        BY <3>2 DEF FirstAccepted
      <4>2. Pow2[Bits] \in Nat /\ k \in Nat /\ k - 1 \in Nat
        BY NextStateFacts
      <4>3. after[k] \in Int /\ after[k - 1] \in Int
        BY <4>2, StatesFromFacts
      <4>4. next_bits(after[k - 1]) \in Int
        BY <4>3, NextStateFacts DEF next_bits
      <4>5. next_bits(after[k - 1]) % bound \in Int
        BY <1>1, <4>4
      <4>6. QED
        BY <4>1, <4>3, <4>5
    <3>3. QED
      BY <3>1, <3>2 DEF next_int
  <2>3. d.index % bound \in Nat
    BY <1>1, <2>2
  <2>4. QED
    BY <1>3, <2>1, <2>2, <2>3
<1>4. QED
  BY <1>2, <1>3

-----------------------------------------------------------------------------
(* Type correctness. *)

\* The pool that a request goes to.
Target(c, command, index) == <<c, NodeOf(<<command, index>>)>>

\* The phase stays the same during its measured window.
LEMMA PhaseStays ==
  ASSUME [Next]_vars
  PROVE  /\ phase' = phase /\ driver' = driver /\ nodes' = nodes
         /\ Task' = Task /\ Connections' = Connections /\ Pools' = Pools
<1>1. phase' = phase /\ driver' = driver /\ nodes' = nodes
  BY DEF Next, Turn, StartTurn, Claim, Acquire, Send, Record, Deadline, Finish, Answer, Awake,
         config, vars
<1>2. QED
  BY <1>1 DEF Task, Connections, Pools

\* The tasks of a phase are finitely many.
LEMMA TaskFacts ==
  ASSUME PhaseInv
  PROVE  /\ IsFiniteSet(Task) /\ Cardinality(Task) = phase.connections * phase.pipeline_depth
         /\ \A t \in Task : t[1] \in Connections /\ <<t[1], 1>> \in Task
         /\ Task # {} /\ None \notin Task
<1>1. phase.connections \in Nat \ {0} /\ phase.pipeline_depth \in Nat \ {0}
  BY DEF PhaseInv
<1>2. /\ IsFiniteSet(Connections) /\ Cardinality(Connections) = phase.connections
      /\ IsFiniteSet(1..phase.pipeline_depth)
      /\ Cardinality(1..phase.pipeline_depth) = phase.pipeline_depth
  <2>1. \A n \in Nat \ {0} : IsFiniteSet(1..n) /\ Cardinality(1..n) = n
    <3>1. \A a, b \in Int : /\ IsFiniteSet(a..b)
                            /\ Cardinality(a..b) = IF a > b THEN 0 ELSE b - a + 1
      BY FS_Interval
    <3>2. QED
      BY <3>1
  <2>2. QED
    BY <1>1, <2>1 DEF Connections
<1>3. IsFiniteSet(Task) /\ Cardinality(Task) = phase.connections * phase.pipeline_depth
  <2>1. \A S, T : IsFiniteSet(S) /\ IsFiniteSet(T) =>
                   /\ IsFiniteSet(S \X T)
                   /\ Cardinality(S \X T) = Cardinality(S) * Cardinality(T)
    BY FS_Product, Zenon
  <2>2. IsFiniteSet(Task) /\ Cardinality(Task) = Cardinality(Connections)
                                                * Cardinality(1..phase.pipeline_depth)
    BY <1>2, <2>1, Zenon DEF Task
  <2>3. QED
    BY <1>2, <2>2
<1>4. \A t \in Task : t[1] \in Connections /\ <<t[1], 1>> \in Task
  BY <1>1 DEF Task
<1>5. <<1, 1>> \in Task
  BY <1>1 DEF Task, Connections
<1>6. Task \subseteq Nat \X Nat
  BY <1>1 DEF Task, Connections
<1>7. QED
  BY <1>3, <1>4, <1>5, <1>6, NoneAssumption

\* What a request that is sent sets.
LEMMA SendFacts ==
  ASSUME TypeInv, Send
  PROVE  /\ running \in Task /\ at[running] = "request"
         /\ \E draw \in next_key(phase.keyspace, counter, generators[<<running[1], 1>>]),
               command \in Selectable(phase.commands) :
            \E outcome \in Outcomes(Target(running[1], command, draw.index)) :
              /\ asked' = [asked EXCEPT ![running] = <<command, draw.index>>]
              /\ drawn' = [drawn EXCEPT ![running[1]] = Append(@, draw.index)]
              /\ counter' = draw.counter
              /\ generators' = [generators EXCEPT ![<<running[1], 1>>] = draw.state]
              /\ sockets' = [sockets EXCEPT ![Target(running[1], command, draw.index)] =
                    IF driver = "pool" /\ outcome = "flight"
                         /\ InFlight(Target(running[1], command, draw.index)) = @
                    THEN @ + 1 ELSE @]
              /\ at' = [at EXCEPT ![running] = outcome] /\ outcome \in {"flight", "ok", "error"}
              /\ ready' = ready
              /\ running' = IF outcome = "flight" THEN None ELSE running
         /\ UNCHANGED <<phase, driver, unyielded, failures, budget, timeUp, collector, stored,
                        failed, status, overtaken>>
<1>1. running \in Task /\ at[running] = "request"
  BY DEF Send, Runs, TypeInv
<1>2. \A c : Outcomes(c) \subseteq {"flight", "ok", "error"}
  BY DEF Outcomes
<1>3. UNCHANGED <<phase, driver, unyielded, failures, budget, timeUp, collector, stored,
                  failed, status, overtaken>>
  BY DEF Send, config, pacing, results
<1>4. PICK draw \in next_key(phase.keyspace, CounterOf(running), generators[Owner(running)]),
           command \in Selectable(phase.commands) :
      \E outcome \in Outcomes(<<running[1], NodeOf(<<command, draw.index>>)>>) :
        /\ asked' = [asked EXCEPT ![running] = <<command, draw.index>>]
        /\ drawn' = [drawn EXCEPT ![running[1]] = Append(@, draw.index)]
        /\ counter' = draw.counter
        /\ generators' = [generators EXCEPT ![Owner(running)] = draw.state]
        /\ sockets' = [sockets EXCEPT ![<<running[1], NodeOf(<<command, draw.index>>)>>] =
              IF driver = "pool" /\ outcome = "flight"
                   /\ InFlight(<<running[1], NodeOf(<<command, draw.index>>)>>) = @
              THEN @ + 1 ELSE @]
        /\ GoTo(running, outcome)
        /\ IF outcome = "flight" THEN Suspend ELSE UNCHANGED <<running, ready>>
  BY Zenon DEF Send
<1>5. PICK outcome \in Outcomes(<<running[1], NodeOf(<<command, draw.index>>)>>) :
        /\ asked' = [asked EXCEPT ![running] = <<command, draw.index>>]
        /\ drawn' = [drawn EXCEPT ![running[1]] = Append(@, draw.index)]
        /\ counter' = draw.counter
        /\ generators' = [generators EXCEPT ![Owner(running)] = draw.state]
        /\ sockets' = [sockets EXCEPT ![<<running[1], NodeOf(<<command, draw.index>>)>>] =
              IF driver = "pool" /\ outcome = "flight"
                   /\ InFlight(<<running[1], NodeOf(<<command, draw.index>>)>>) = @
              THEN @ + 1 ELSE @]
        /\ GoTo(running, outcome)
        /\ IF outcome = "flight" THEN Suspend ELSE UNCHANGED <<running, ready>>
  BY <1>4, Zenon
<1>6. at' = [at EXCEPT ![running] = outcome] /\ outcome \in {"flight", "ok", "error"}
  BY <1>2, <1>5, Zenon DEF GoTo
<1>7. ready' = ready /\ running' = IF outcome = "flight" THEN None ELSE running
  BY <1>5, Zenon DEF Suspend
<1>8. QED
  BY <1>1, <1>3, <1>5, <1>6, <1>7, Zenon DEF Owner, CounterOf, Target

\* The same, as far as the types of the variables need it.
LEMMA SendTypes ==
  ASSUME TypeInv, Send
  PROVE  \E draw \in next_key(phase.keyspace, CounterOf(running), generators[Owner(running)]),
            command \in Selectable(phase.commands), outcome \in {"flight", "ok", "error"} :
          /\ asked' = [asked EXCEPT ![running] = <<command, draw.index>>]
          /\ drawn' = [drawn EXCEPT ![running[1]] = Append(@, draw.index)]
          /\ counter' = draw.counter
          /\ generators' = [generators EXCEPT ![Owner(running)] = draw.state]
          /\ \E q : sockets' = [sockets EXCEPT ![q] =
                      IF driver = "pool" /\ outcome = "flight" /\ InFlight(q) = @
                      THEN @ + 1 ELSE @]
          /\ at' = [at EXCEPT ![running] = outcome]
          /\ IF outcome = "flight" THEN running' = None /\ UNCHANGED ready
                                  ELSE UNCHANGED <<running, ready>>
<1>1. PICK draw \in next_key(phase.keyspace, CounterOf(running), generators[Owner(running)]),
           command \in Selectable(phase.commands) :
      \E outcome \in Outcomes(Target(running[1], command, draw.index)) :
        /\ asked' = [asked EXCEPT ![running] = <<command, draw.index>>]
        /\ drawn' = [drawn EXCEPT ![running[1]] = Append(@, draw.index)]
        /\ counter' = draw.counter
        /\ generators' = [generators EXCEPT ![Owner(running)] = draw.state]
        /\ sockets' = [sockets EXCEPT ![Target(running[1], command, draw.index)] =
              IF driver = "pool" /\ outcome = "flight"
                   /\ InFlight(Target(running[1], command, draw.index)) = @
              THEN @ + 1 ELSE @]
        /\ at' = [at EXCEPT ![running] = outcome] /\ outcome \in {"flight", "ok", "error"}
        /\ ready' = ready
        /\ running' = IF outcome = "flight" THEN None ELSE running
  BY SendFacts, Zenon DEF Owner, CounterOf
<1>2. PICK outcome \in {"flight", "ok", "error"} :
          /\ asked' = [asked EXCEPT ![running] = <<command, draw.index>>]
          /\ drawn' = [drawn EXCEPT ![running[1]] = Append(@, draw.index)]
          /\ counter' = draw.counter
          /\ generators' = [generators EXCEPT ![Owner(running)] = draw.state]
          /\ \E q : sockets' = [sockets EXCEPT ![q] =
                      IF driver = "pool" /\ outcome = "flight" /\ InFlight(q) = @
                      THEN @ + 1 ELSE @]
          /\ at' = [at EXCEPT ![running] = outcome]
          /\ IF outcome = "flight" THEN running' = None /\ ready' = ready
                                  ELSE running' = running /\ ready' = ready
  BY <1>1, Zenon
<1>3. QED
  BY <1>2, Zenon

\* The suspension after a request has the types of the variables it sets.
LEMMA PauseFacts ==
  ASSUME TypeInv, NEW t \in Task, NEW success \in BOOLEAN
  PROVE  LET pause == Pause(t, success)
         IN  /\ pause.unyielded \in 0..(Yield - 1) /\ pause.to \in {"loop", "backoff"}
             /\ pause.goOn => /\ success /\ pause.to = "loop" /\ unyielded[t] + 1 < Yield
                              /\ pause.unyielded = unyielded[t] + 1
<1>1. unyielded[t] \in 0..(Yield - 1) /\ Yield \in Nat \ {0}
  BY WorkersAssumption DEF TypeInv
<1>2. (unyielded[t] + 1) % Yield \in 0..(Yield - 1)
  BY <1>1
<1>3. unyielded[t] + 1 < Yield => (unyielded[t] + 1) % Yield = unyielded[t] + 1
  BY <1>1
<1>4. CASE success
  BY <1>1, <1>2, <1>3, <1>4 DEF Pause
<1>5. CASE ~ success
  BY <1>1, <1>5 DEF Pause
<1>6. QED
  BY <1>4, <1>5

\* The variables keep their types.
LEMMA TypeStep ==
  ASSUME TypeInv, [Next]_vars
  PROVE  TypeInv'
<1> USE DEF TypeInv, Places, Suspend, GoTo, Resume, Runs, config, loop, pacing, keys, results
<1>p. /\ PhaseInv' /\ Task' = Task /\ Connections' = Connections /\ Pools' = Pools
      /\ driver' \in Drivers
  BY PhaseStays DEF PhaseInv, RequestBased
<1>1. CASE StartTurn
  BY <1>1, <1>p DEF StartTurn
<1>2. CASE Claim
  <2>1. budget' \in Nat
    BY <1>2 DEF Claim
  <2>2. /\ at' \in [Task -> Places] /\ ready' \in Seq(Task) /\ running' \in Task \cup {None}
    BY <1>2 DEF Claim
  <2>3. QED
    BY <1>2, <1>p, <2>1, <2>2 DEF Claim
<1>3. CASE Acquire
  BY <1>3, <1>p DEF Acquire
<1>4. CASE Send
  <2> DEFINE c == running[1]
  <2>1. running \in Task /\ c \in Connections /\ Owner(running) \in Task
    BY <1>4, TaskFacts DEF Send, Owner
  <2>2. PICK draw \in next_key(phase.keyspace, CounterOf(running), generators[Owner(running)]),
             command \in Selectable(phase.commands), outcome \in {"flight", "ok", "error"} :
          /\ asked' = [asked EXCEPT ![running] = <<command, draw.index>>]
          /\ drawn' = [drawn EXCEPT ![c] = Append(@, draw.index)]
          /\ counter' = draw.counter
          /\ generators' = [generators EXCEPT ![Owner(running)] = draw.state]
          /\ \E q : sockets' = [sockets EXCEPT ![q] =
                      IF driver = "pool" /\ outcome = "flight" /\ InFlight(q) = @
                      THEN @ + 1 ELSE @]
          /\ at' = [at EXCEPT ![running] = outcome]
          /\ IF outcome = "flight" THEN running' = None /\ UNCHANGED ready
                                  ELSE UNCHANGED <<running, ready>>
    BY <1>4, SendTypes
  <2>3. draw.index \in Nat /\ draw.counter \in Nat /\ draw.state \in Int
    BY <2>1, <2>2, NextKeyFacts DEF CounterOf
  <2>4. at' \in [Task -> Places]
    BY <2>1, <2>2
  <2>5. drawn' \in [Connections -> Seq(Nat)] /\ generators' \in [Task -> Int]
    <3>1. Append(drawn[c], draw.index) \in Seq(Nat)
      BY <2>1, <2>3
    <3>2. drawn' \in [Connections -> Seq(Nat)]
      BY <2>2, <3>1
    <3>3. generators' \in [Task -> Int]
      BY <2>1, <2>2, <2>3
    <3>4. QED
      BY <3>2, <3>3
  <2>6. sockets' \in [Pools -> Int]
    <3>1. PICK q : sockets' = [sockets EXCEPT ![q] =
                      IF driver = "pool" /\ outcome = "flight" /\ InFlight(q) = @
                      THEN @ + 1 ELSE @]
      BY <2>2
    <3>2. \A p \in Pools : sockets[p] \in Int /\ sockets[p] + 1 \in Int
      OBVIOUS
    <3>3. DOMAIN sockets' = Pools /\ \A p \in Pools : sockets'[p] \in {sockets[p], sockets[p] + 1}
      BY <3>1
    <3>4. sockets' = [p \in Pools |-> sockets'[p]]
      BY <3>1
    <3>5. QED
      BY <3>2, <3>3, <3>4
  <2>7. ready' \in Seq(Task) /\ running' \in Task \cup {None}
    BY <2>1, <2>2
  <2>8. DOMAIN asked' = Task /\ counter' \in Nat
    BY <2>2, <2>3
  <2>9. QED
    BY <1>4, <1>p, <2>4, <2>5, <2>6, <2>7, <2>8 DEF Send
<1>5. CASE Record
  <2> DEFINE pause == Pause(running, at[running] = "ok")
  <2>1. running \in Task
    BY <1>5, TaskFacts DEF Record
  <2>2. pause.unyielded \in 0..(Yield - 1) /\ pause.to \in Places
    BY <2>1, PauseFacts
  <2> HIDE DEF pause
  <2>3. /\ unyielded' = [unyielded EXCEPT ![running] = pause.unyielded]
        /\ at' = [at EXCEPT ![running] = pause.to]
        /\ failures' = [failures EXCEPT ![running] = pause.failures]
        /\ ready' = Append(ready, running) \/ ready' = ready
        /\ running' = running \/ running' = None
    BY <1>5 DEF Record, pause
  <2>4. overtaken' \in [Task -> Nat]
    <3>1. overtaken' = [t \in Task |-> IF t \in ToSet(ready) THEN overtaken[t] + 1 ELSE 0]
      BY <1>5 DEF Record
    <3>2. QED
      BY <3>1
  <2>5. unyielded' \in [Task -> 0..(Yield - 1)] /\ at' \in [Task -> Places]
        /\ DOMAIN failures' = Task
    BY <2>1, <2>2, <2>3
  <2>6. ready' \in Seq(Task) /\ running' \in Task \cup {None}
    <3>1. ready \in Seq(Task) /\ Append(ready, running) \in Seq(Task)
      BY <2>1
    <3>2. QED
      BY <2>1, <2>3, <3>1
  <2>7. DOMAIN asked' = Task /\ UNCHANGED <<budget, counter, generators, drawn, sockets>>
    BY <1>5 DEF Record
  <2>8. QED
    BY <1>p, <2>4, <2>5, <2>6, <2>7
<1>6. CASE Deadline \/ Finish \/ UNCHANGED vars
  BY <1>6, <1>p DEF Deadline, Finish, vars
<1>7. ASSUME NEW t \in Task, Answer(t)
      PROVE  TypeInv'
  <2>1. PICK outcome \in {"ok", "error"}, lost \in {0, 1} :
          /\ at' = [at EXCEPT ![t] = outcome]
          /\ sockets' = [sockets EXCEPT ![<<t[1], NodeOf(asked[t])>>] = @ - lost]
    BY <1>7 DEF Answer
  <2>2. sockets' \in [Pools -> Int] /\ at' \in [Task -> Places]
    <3>1. \E q : sockets' = [sockets EXCEPT ![q] = @ - lost]
      BY <2>1
    <3>2. PICK q : sockets' = [sockets EXCEPT ![q] = @ - lost]
      BY <3>1
    <3>3. \A p \in Pools : sockets[p] \in Int /\ sockets[p] - lost \in Int
      OBVIOUS
    <3>4. DOMAIN sockets' = Pools /\ \A p \in Pools : sockets'[p] \in {sockets[p], sockets[p] - lost}
      BY <3>2
    <3>5. sockets' = [p \in Pools |-> sockets'[p]]
      BY <3>2
    <3>6. sockets' \in [Pools -> Int]
      BY <3>3, <3>4, <3>5
    <3>7. QED
      BY <2>1, <3>6
  <2>3. /\ ready' \in Seq(Task) /\ overtaken' \in [Task -> Nat]
        /\ UNCHANGED <<running, asked, unyielded, failures, budget, counter, generators, drawn>>
    BY <1>7 DEF Answer
  <2>4. QED
    BY <1>p, <2>2, <2>3
<1>8. ASSUME NEW t \in Task, Awake(t)
      PROVE  TypeInv'
  BY <1>8, <1>p DEF Awake
<1>9. QED
  BY <1>1, <1>2, <1>3, <1>4, <1>5, <1>6, <1>7, <1>8 DEF Next, Turn

-----------------------------------------------------------------------------
(* The event loop. *)

\* What the record of a result sets.
LEMMA RecordFacts ==
  ASSUME TypeInv, Record
  PROVE  /\ running \in Task /\ at[running] \in {"ok", "error"}
         /\ \E pause \in {Pause(running, at[running] = "ok")} :
              /\ pause.unyielded \in 0..(Yield - 1) /\ pause.to \in {"loop", "backoff"}
              /\ pause.goOn => /\ pause.to = "loop"
                               /\ pause.unyielded = unyielded[running] + 1
              /\ unyielded' = [unyielded EXCEPT ![running] = pause.unyielded]
              /\ at' = [at EXCEPT ![running] = pause.to]
              /\ ready' = IF ~ pause.goOn /\ pause.to = "loop" THEN Append(ready, running) ELSE ready
              /\ running' = IF pause.goOn THEN running ELSE None
         /\ stored' = IF at[running] = "ok" THEN stored \cup {asked[running]} ELSE stored
         /\ failed' = IF at[running] = "ok" THEN failed ELSE failed \cup {asked[running]}
         /\ asked' = [asked EXCEPT ![running] = None]
         /\ overtaken' = [t \in Task |-> IF t \in ToSet(ready) THEN overtaken[t] + 1 ELSE 0]
         /\ UNCHANGED <<phase, driver, budget, timeUp, counter, generators, drawn, sockets, status>>
<1> DEFINE pause == Pause(running, at[running] = "ok")
<1>1. running \in Task /\ at[running] \in {"ok", "error"}
  BY DEF Record, Runs, TypeInv
<1>2. /\ pause.unyielded \in 0..(Yield - 1) /\ pause.to \in {"loop", "backoff"}
      /\ pause.goOn => /\ pause.to = "loop"
                       /\ pause.unyielded = unyielded[running] + 1
  BY <1>1, PauseFacts
<1>3. /\ unyielded' = [unyielded EXCEPT ![running] = pause.unyielded]
      /\ at' = [at EXCEPT ![running] = pause.to]
      /\ ready' = IF ~ pause.goOn /\ pause.to = "loop" THEN Append(ready, running) ELSE ready
      /\ running' = IF pause.goOn THEN running ELSE None
  BY DEF Record, GoTo
<1> HIDE DEF pause
<1>4. /\ stored' = IF at[running] = "ok" THEN stored \cup {asked[running]} ELSE stored
      /\ failed' = IF at[running] = "ok" THEN failed ELSE failed \cup {asked[running]}
      /\ asked' = [asked EXCEPT ![running] = None]
      /\ overtaken' = [t \in Task |-> IF t \in ToSet(ready) THEN overtaken[t] + 1 ELSE 0]
      /\ UNCHANGED <<phase, driver, budget, timeUp, counter, generators, drawn, sockets, status>>
  BY DEF Record, config, keys
<1>5. QED
  BY <1>1, <1>2, <1>3, <1>4 DEF pause

\* A task that waited, and is in the queue or running no more, goes to its end.
LEMMA ResumeFacts ==
  ASSUME TypeInv, QueueInv, NEW t \in Task, Answer(t) \/ Awake(t)
  PROVE  /\ at[t] \in {"flight", "paced", "backoff"}
         /\ \E s \in {"loop", "limit", "ok", "error"} :
              /\ at' = [at EXCEPT ![t] = s]
              /\ at[t] = "paced" => s = "limit"
              /\ at[t] = "backoff" => s = "loop"
              /\ at[t] = "flight" => s \in {"ok", "error"}
         /\ ready' = Append(ready, t) /\ running' = running
         /\ overtaken' = [overtaken EXCEPT ![t] = 0]
         /\ t # running /\ \A i \in DOMAIN ready : ready[i] # t
         /\ UNCHANGED <<phase, driver, unyielded, failures, asked, budget, timeUp, counter,
                        generators, drawn, stored, failed, status>>
<1>1. at[t] \in {"flight", "paced", "backoff"}
  BY DEF Answer, Awake
<1>2. \E s \in {"loop", "limit", "ok", "error"} :
        /\ at' = [at EXCEPT ![t] = s]
        /\ at[t] = "paced" => s = "limit"
        /\ at[t] = "backoff" => s = "loop"
        /\ at[t] = "flight" => s \in {"ok", "error"}
  BY DEF Answer, Awake, Resume, GoTo
<1>3. /\ ready' = Append(ready, t) /\ running' = running
      /\ overtaken' = [overtaken EXCEPT ![t] = 0]
  BY DEF Answer, Awake, Resume
<1>4. t # running /\ \A i \in DOMAIN ready : ready[i] # t
  BY <1>1, TaskFacts DEF QueueInv, TypeInv
<1>5. UNCHANGED <<phase, driver, unyielded, failures, asked, budget, timeUp, counter,
                  generators, drawn, stored, failed, status>>
  BY DEF Answer, Awake, config, pacing, keys, results
<1>6. QED
  BY <1>1, <1>2, <1>3, <1>4, <1>5

\* A task at the end of the queue that was not in it.
LEMMA AppendFacts ==
  ASSUME TypeInv, QueueInv, NEW t \in Task, \A i \in DOMAIN ready : ready[i] # t,
         ready' = Append(ready, t)
  PROVE  /\ Len(ready) \in Nat /\ DOMAIN ready = 1..Len(ready)
         /\ DOMAIN ready' = 1..(Len(ready) + 1)
         /\ \A i \in DOMAIN ready : ready'[i] = ready[i] /\ ready[i] \in Task
         /\ ready'[Len(ready) + 1] = t
         /\ \A i, j \in DOMAIN ready' : ready'[i] = ready'[j] => i = j
<1>1. /\ Len(ready) \in Nat /\ DOMAIN ready = 1..Len(ready)
      /\ DOMAIN ready' = 1..(Len(ready) + 1)
      /\ \A i \in DOMAIN ready : ready'[i] = ready[i] /\ ready[i] \in Task
      /\ ready'[Len(ready) + 1] = t
  <2>1. ready \in Seq(Task) /\ ready' = Append(ready, t)
    BY DEF TypeInv
  <2>2. /\ Len(ready) \in Nat /\ DOMAIN ready = 1..Len(ready)
        /\ DOMAIN ready' = 1..(Len(ready) + 1)
    BY <2>1
  <2>3. \A i \in DOMAIN ready : ready'[i] = ready[i] /\ ready[i] \in Task
    BY <2>1
  <2>4. ready'[Len(ready) + 1] = t
    BY <2>1
  <2>5. QED
    BY <2>2, <2>3, <2>4
<1>2. \A i \in DOMAIN ready' : i \in DOMAIN ready \/ i = Len(ready) + 1
  BY <1>1
<1>3. QED
  BY <1>1, <1>2 DEF QueueInv

\* The task that runs leaves the queue.
LEMMA StartFacts ==
  ASSUME TypeInv, QueueInv, StartTurn
  PROVE  /\ running = None /\ running' = ready[1] /\ ready[1] \in Task
         /\ Len(ready) \in Nat \ {0} /\ DOMAIN ready = 1..Len(ready)
         /\ DOMAIN ready' = 1..(Len(ready) - 1)
         /\ \A i \in DOMAIN ready' : /\ ready'[i] = ready[i + 1] /\ i + 1 \in DOMAIN ready
                                     /\ ready[i + 1] # ready[1]
         /\ UNCHANGED <<phase, driver, at, unyielded, asked, budget, counter, generators, drawn,
                        sockets, stored, failed, status, overtaken>>
<1>1. /\ running = None /\ running' = Head(ready) /\ ready' = Tail(ready)
      /\ ready \in Seq(Task) /\ ready # <<>>
  BY DEF StartTurn, TypeInv
<1>2. /\ running' = ready[1] /\ ready[1] \in Task
      /\ Len(ready) \in Nat \ {0} /\ DOMAIN ready = 1..Len(ready)
      /\ DOMAIN ready' = 1..(Len(ready) - 1)
      /\ \A i \in DOMAIN ready' : ready'[i] = ready[i + 1] /\ i + 1 \in DOMAIN ready
  BY <1>1
<1>3. ASSUME NEW i \in DOMAIN ready'
      PROVE  ready[i + 1] # ready[1]
  <2>1. i + 1 \in DOMAIN ready /\ 1 \in DOMAIN ready /\ i + 1 # 1
    BY <1>2
  <2>2. QED
    BY <2>1 DEF QueueInv
<1>4. UNCHANGED <<phase, driver, at, unyielded, asked, budget, counter, generators, drawn,
                  sockets, stored, failed, status, overtaken>>
  BY DEF StartTurn, config, pacing, keys, results
<1>5. QED
  BY <1>1, <1>2, <1>3, <1>4

\* The other steps of the running task: a claim and a call of the limiter.
LEMMA ClaimFacts ==
  ASSUME TypeInv, Claim \/ Acquire
  PROVE  /\ running \in Task /\ at[running] \in {"loop", "limit"}
         /\ \E s \in {"done", "limit", "request", "paced"} :
              /\ at' = [at EXCEPT ![running] = s]
              /\ running' = IF s \in {"done", "paced"} THEN None ELSE running
              /\ at[running] = "limit" => s \in {"request", "paced"} /\ budget' = budget
              /\ at[running] = "loop" =>
                   /\ budget' = IF RequestBased THEN budget + 1 ELSE budget
                   /\ IF Exhausted THEN s = "done" ELSE s \in {"limit", "request"}
         /\ ready' = ready
         /\ UNCHANGED <<phase, driver, unyielded, asked, counter, generators, drawn, sockets,
                        stored, failed, status, overtaken>>
<1>1. running \in Task /\ at[running] \in {"loop", "limit"}
  BY DEF Claim, Acquire, Runs, TypeInv
<1>2. ready' = ready
  BY DEF Claim, Acquire, Suspend
<1>3. UNCHANGED <<phase, driver, unyielded, asked, counter, generators, drawn, sockets,
                  stored, failed, status, overtaken>>
  BY DEF Claim, Acquire, config, pacing, keys, results
<1>4. CASE Claim
  <2>1. at[running] = "loop"
    BY <1>4 DEF Claim, Runs
  <2>2. QED
    BY <1>1, <1>2, <1>3, <1>4, <2>1 DEF Claim, GoTo, Suspend
<1>5. CASE Acquire
  <2>1. at[running] = "limit"
    BY <1>5 DEF Acquire, Runs
  <2>2. QED
    BY <1>1, <1>2, <1>3, <1>5, <2>1 DEF Acquire, GoTo, Suspend
<1>6. QED
  BY <1>4, <1>5

\* The steps that leave the event loop alone.
LEMMA OtherFacts ==
  ASSUME Deadline \/ Finish \/ UNCHANGED vars
  PROVE  UNCHANGED <<phase, driver, ready, running, at, unyielded, asked, budget, counter,
                     generators, drawn, sockets, stored, failed, overtaken>>
BY DEF Deadline, Finish, vars, config, loop, pacing, keys, results

\* The queue holds each task once, and none that runs or waits.
LEMMA QueueStep ==
  ASSUME TypeInv, QueueInv, [Next]_vars
  PROVE  QueueInv'
<1>1. CASE StartTurn
  <2>1. \A i, j \in DOMAIN ready' : ready'[i] = ready'[j] => i = j
    BY <1>1, StartFacts DEF QueueInv
  <2>2. running' \in Task /\ at'[running'] \in {"loop", "limit", "ok", "error"}
    BY <1>1, StartFacts DEF QueueInv
  <2>3. QED
    BY <1>1, <2>1, <2>2, StartFacts DEF QueueInv
<1>q. /\ \A i, j \in DOMAIN ready : ready[i] = ready[j] => i = j
      /\ \A i \in DOMAIN ready : /\ at[ready[i]] \in {"loop", "limit", "ok", "error"}
                                 /\ ready[i] # running /\ ready[i] \in Task
      /\ None \notin Task /\ at \in [Task -> Places]
  BY TaskFacts DEF QueueInv, TypeInv
<1>2. CASE Claim \/ Acquire
  <2>1. PICK s \in {"done", "limit", "request", "paced"} :
          /\ at' = [at EXCEPT ![running] = s]
          /\ running' = IF s \in {"done", "paced"} THEN None ELSE running
    BY <1>2, ClaimFacts
  <2>2. running \in Task /\ ready' = ready
    BY <1>2, ClaimFacts
  <2>3. \A t \in Task : at'[t] = IF t = running THEN s ELSE at[t]
    BY <1>q, <2>1, <2>2
  <2>4. \A i \in DOMAIN ready' : at'[ready'[i]] \in {"loop", "limit", "ok", "error"}
                               /\ ready'[i] # running'
    BY <1>q, <2>1, <2>2, <2>3
  <2>5. running' # None => at'[running'] \in {"loop", "limit", "request", "ok", "error"}
    BY <2>1, <2>2, <2>3
  <2>6. QED
    BY <1>q, <2>2, <2>4, <2>5 DEF QueueInv
<1>3. CASE Send
  <2>1. PICK outcome \in {"flight", "ok", "error"} :
          at' = [at EXCEPT ![running] = outcome]
          /\ running' = IF outcome = "flight" THEN None ELSE running
    BY <1>3, SendFacts
  <2>2. running \in Task /\ ready' = ready
    BY <1>3, SendFacts
  <2>3. \A i \in DOMAIN ready' : at'[ready'[i]] \in {"loop", "limit", "ok", "error"}
                               /\ ready'[i] # running'
    BY <1>q, <2>1, <2>2
  <2>4. running' # None => at'[running'] \in {"loop", "limit", "request", "ok", "error"}
    BY <1>q, <2>1, <2>2
  <2>5. QED
    BY <1>q, <2>2, <2>3, <2>4 DEF QueueInv
<1>4. CASE Record
  <2>1. PICK pause \in {Pause(running, at[running] = "ok")} :
          /\ pause.to \in {"loop", "backoff"}
          /\ pause.goOn => pause.to = "loop"
          /\ at' = [at EXCEPT ![running] = pause.to]
          /\ ready' = IF ~ pause.goOn /\ pause.to = "loop" THEN Append(ready, running) ELSE ready
          /\ running' = IF pause.goOn THEN running ELSE None
    BY <1>4, RecordFacts
  <2>2. running \in Task /\ \A i \in DOMAIN ready : ready[i] # running
    BY <1>4, RecordFacts DEF QueueInv
  <2>3. \A t \in Task : at'[t] = IF t = running THEN pause.to ELSE at[t]
    BY <1>q, <2>1, <2>2
  <2>4. CASE pause.goOn \/ pause.to = "backoff"
    <3>1. ready' = ready
      BY <2>1, <2>4
    <3>2. running' # None => running' = running /\ at'[running'] = "loop"
      BY <2>1, <2>2, <2>3
    <3>3. \A i \in DOMAIN ready' : at'[ready'[i]] \in {"loop", "limit", "ok", "error"}
                                 /\ ready'[i] # running'
      BY <1>q, <2>1, <2>2, <2>3, <3>1
    <3>4. QED
      BY <1>q, <3>1, <3>2, <3>3 DEF QueueInv
  <2>5. CASE ~ pause.goOn /\ pause.to = "loop"
    <3>1. ready' = Append(ready, running) /\ running' = None
      BY <2>1, <2>5
    <3>2. /\ DOMAIN ready = 1..Len(ready) /\ DOMAIN ready' = 1..(Len(ready) + 1)
          /\ \A i \in DOMAIN ready : ready'[i] = ready[i]
          /\ ready'[Len(ready) + 1] = running /\ Len(ready) \in Nat
          /\ \A i, j \in DOMAIN ready' : ready'[i] = ready'[j] => i = j
      BY <2>2, <3>1, AppendFacts
    <3>3. \A i \in DOMAIN ready' : at'[ready'[i]] \in {"loop", "limit", "ok", "error"}
                                 /\ ready'[i] # running'
      <4>1. \A i \in DOMAIN ready' : i \in DOMAIN ready \/ i = Len(ready) + 1
        BY <3>2
      <4>2. QED
        BY <1>q, <2>2, <2>3, <2>5, <3>1, <3>2, <4>1
    <3>4. QED
      BY <3>1, <3>2, <3>3 DEF QueueInv
  <2>6. QED
    BY <2>1, <2>4, <2>5
<1>5. CASE Deadline \/ Finish \/ UNCHANGED vars
  BY <1>5, OtherFacts DEF QueueInv
<1>6. ASSUME NEW t \in Task, Answer(t) \/ Awake(t)
      PROVE  QueueInv'
  <2>1. /\ ready' = Append(ready, t) /\ running' = running
        /\ t # running /\ \A i \in DOMAIN ready : ready[i] # t
    BY <1>6, ResumeFacts
  <2>2. PICK s \in {"loop", "limit", "ok", "error"} : at' = [at EXCEPT ![t] = s]
    BY <1>6, ResumeFacts
  <2>3. /\ DOMAIN ready = 1..Len(ready) /\ DOMAIN ready' = 1..(Len(ready) + 1)
        /\ \A i \in DOMAIN ready : ready'[i] = ready[i]
        /\ ready'[Len(ready) + 1] = t /\ Len(ready) \in Nat
        /\ \A i, j \in DOMAIN ready' : ready'[i] = ready'[j] => i = j
    BY <2>1, AppendFacts
  <2>4. \A u \in Task : at'[u] = IF u = t THEN s ELSE at[u]
    BY <1>q, <2>2
  <2>5. \A i \in DOMAIN ready' : at'[ready'[i]] \in {"loop", "limit", "ok", "error"}
                               /\ ready'[i] # running'
    <3>1. \A i \in DOMAIN ready' : i \in DOMAIN ready \/ i = Len(ready) + 1
      BY <2>3
    <3>2. QED
      BY <1>q, <2>1, <2>3, <2>4, <3>1
  <2>6. running' # None => at'[running'] \in {"loop", "limit", "request", "ok", "error"}
    BY <2>1, <2>4 DEF QueueInv, TypeInv
  <2>7. QED
    BY <2>3, <2>5, <2>6 DEF QueueInv
<1>7. QED
  BY <1>1, <1>2, <1>3, <1>4, <1>5, <1>6 DEF Next, Turn

-----------------------------------------------------------------------------
(* No task monopolises the event loop. *)

\* A list of m different tasks.
Different(f, m) == f \in [1..m -> Task] /\ \A i, j \in 1..m : f[i] = f[j] => i = j

\* It is no longer than there are tasks.
LEMMA DifferentTasks ==
  ASSUME PhaseInv, NEW m, NEW f, m \in Nat, Different(f, m)
  PROVE  m <= Cardinality(Task)
<1>1. IsFiniteSet(Task) /\ IsFiniteSet(1..m) /\ Cardinality(1..m) = m
  <2>1. IsFiniteSet(1..m) /\ Cardinality(1..m) = IF 1 > m THEN 0 ELSE m - 1 + 1
    BY FS_Interval
  <2>2. QED
    BY <2>1, TaskFacts
<1>2. f \in Injection(1..m, Task)
  BY DEF Different, Injection, IsInjective
<1>3. QED
  BY <1>1, <1>2, FS_Injection

\* The queue is shorter than the tasks that are not in it are many.
LEMMA QueueLength ==
  ASSUME TypeInv, QueueInv, NEW t \in Task, \A i \in DOMAIN ready : ready[i] # t
  PROVE  /\ Len(ready) + 1 <= Cardinality(Task)
         /\ running # None /\ running # t => Len(ready) + 2 <= Cardinality(Task)
<1> DEFINE f == [i \in 1..(Len(ready) + 1) |-> IF i <= Len(ready) THEN ready[i] ELSE t]
           g == [i \in 1..(Len(ready) + 2) |-> IF i <= Len(ready) + 1 THEN f[i] ELSE running]
<1>1. Len(ready) \in Nat /\ DOMAIN ready = 1..Len(ready) /\ \A i \in DOMAIN ready : ready[i] \in Task
  BY DEF TypeInv
<1>2. Different(f, Len(ready) + 1) /\ Len(ready) + 1 \in Nat /\ PhaseInv
  <2>1. f \in [1..(Len(ready) + 1) -> Task]
    BY <1>1
  <2>2. \A i, j \in 1..(Len(ready) + 1) : f[i] = f[j] => i = j
    BY <1>1 DEF QueueInv
  <2>3. QED
    BY <1>1, <2>1, <2>2 DEF TypeInv, Different
<1> HIDE DEF f
<1>3. Len(ready) + 1 <= Cardinality(Task)
  BY <1>2, DifferentTasks, Zenon
<1>4. ASSUME running # None, running # t
      PROVE  Len(ready) + 2 <= Cardinality(Task)
  <2>1. running \in Task /\ \A i \in DOMAIN ready : ready[i] # running
    BY <1>4 DEF TypeInv, QueueInv
  <2>2. \A i \in 1..(Len(ready) + 1) : f[i] # running
    BY <1>1, <1>4, <2>1 DEF f
  <2>3. Different(g, Len(ready) + 2) /\ Len(ready) + 2 \in Nat
    BY <1>1, <1>2, <2>1, <2>2 DEF Different
  <2> HIDE DEF g
  <2>4. QED
    BY <1>2, <2>3, DifferentTasks, Zenon
<1>5. QED
  BY <1>3, <1>4

\* How the bound changes with the place in the queue.
LEMMA BoundFacts ==
  ASSUME PhaseInv
  PROVE  /\ Cardinality(Task) \in Nat /\ Yield \in Nat \ {0}
         /\ \A i \in Nat : Bound(i) \in Int /\ Bound(i + 1) + Yield = Bound(i)
         /\ \A i \in Nat : i + 1 <= Cardinality(Task) => 0 <= Bound(i)
         /\ \A i \in Nat : i + 2 <= Cardinality(Task) => Yield <= Bound(i)
<1>1. Cardinality(Task) \in Nat /\ Yield \in Nat \ {0}
  BY TaskFacts, FS_CardinalityType, WorkersAssumption
<1>2. \A k \in Int : k * Yield \in Int /\ (k - 1) * Yield + Yield = k * Yield
  BY <1>1
<1>3. \A k \in Nat : 0 <= k * Yield
  BY <1>1
<1>4. \A i \in Nat : Bound(i) \in Int /\ Bound(i + 1) + Yield = Bound(i)
  <2>1. SUFFICES ASSUME NEW i \in Nat
                 PROVE  Bound(i) \in Int /\ Bound(i + 1) + Yield = Bound(i)
    OBVIOUS
  <2>2. /\ Cardinality(Task) - 1 - i \in Int
        /\ Cardinality(Task) - 1 - (i + 1) = (Cardinality(Task) - 1 - i) - 1
    BY <1>1
  <2>3. QED
    BY <1>2, <2>2 DEF Bound
<1>5. \A i \in Nat : i + 1 <= Cardinality(Task) => 0 <= Bound(i)
  BY <1>1, <1>3 DEF Bound
<1>6. \A i \in Nat : i + 2 <= Cardinality(Task) => Yield <= Bound(i)
  BY <1>1, <1>4, <1>5
<1>7. QED
  BY <1>1, <1>4, <1>5, <1>6

\* The running task may record Yield results at most.
LEMMA RemainingFacts ==
  ASSUME TypeInv
  PROVE  /\ Remaining \in Nat /\ Remaining <= Yield
         /\ running = None => Remaining = 0
         /\ running # None => Remaining = Yield - unyielded[running] /\ Remaining >= 1
<1>1. Yield \in Nat \ {0}
  BY WorkersAssumption
<1>2. CASE running = None
  BY <1>1, <1>2 DEF Remaining
<1>3. CASE running # None
  <2>1. unyielded[running] \in 0..(Yield - 1)
    BY <1>3 DEF TypeInv
  <2>2. QED
    BY <1>1, <1>3, <2>1 DEF Remaining
<1>4. QED
  BY <1>2, <1>3

\* Every result recorded uses up one of what the running task may still record;
\* a turn that starts has Yield of them, and the queue moves up by one.
LEMMA TurnStep ==
  ASSUME TypeInv, QueueInv, TurnInv, [Next]_vars, TypeInv'
  PROVE  TurnInv'
<1>b. /\ Cardinality(Task) \in Nat /\ Yield \in Nat \ {0}
      /\ \A i \in Nat : Bound(i) \in Int /\ Bound(i + 1) + Yield = Bound(i)
      /\ \A i \in Nat : i + 1 <= Cardinality(Task) => 0 <= Bound(i)
      /\ \A i \in Nat : i + 2 <= Cardinality(Task) => Yield <= Bound(i)
  BY BoundFacts DEF TypeInv
<1>t. /\ Len(ready) \in Nat /\ DOMAIN ready = 1..Len(ready)
      /\ \A i \in DOMAIN ready : ready[i] \in Task /\ overtaken[ready[i]] \in Nat
      /\ None \notin Task
  <2>1. ready \in Seq(Task) /\ overtaken \in [Task -> Nat]
    BY DEF TypeInv
  <2>2. /\ Len(ready) \in Nat /\ DOMAIN ready = 1..Len(ready)
        /\ \A i \in DOMAIN ready : ready[i] \in Task
    BY <2>1
  <2>3. \A i \in DOMAIN ready : overtaken[ready[i]] \in Nat
    BY <2>1, <2>2
  <2>4. None \notin Task
    BY TaskFacts DEF TypeInv
  <2>5. QED
    BY <2>2, <2>3, <2>4
<1>r. /\ Remaining \in Nat /\ Remaining <= Yield
      /\ running = None => Remaining = 0
      /\ running # None => Remaining = Yield - unyielded[running] /\ Remaining >= 1
  BY RemainingFacts
<1>d. \A i \in DOMAIN ready : i - 1 \in Nat /\ Bound(i - 1) \in Int
  <2>1. \A i \in DOMAIN ready : i - 1 \in Nat
    BY <1>t
  <2>2. QED
    BY <1>b, <2>1
<1>i. \A i \in DOMAIN ready : overtaken[ready[i]] + Remaining <= Bound(i - 1)
  BY DEF TurnInv
<1>p. \A i \in Nat : Bound(i)' = Bound(i)
  BY PhaseStays DEF Bound
<1>s. SUFFICES \A i \in DOMAIN ready' : overtaken'[ready'[i]] + Remaining' <= Bound(i - 1)'
  BY DEF TurnInv
<1>1. CASE StartTurn
  <2>1. ASSUME NEW i \in DOMAIN ready'
        PROVE  overtaken'[ready'[i]] + Remaining' <= Bound(i - 1)
    <3>1. /\ ready'[i] = ready[i + 1] /\ i + 1 \in DOMAIN ready /\ i \in Nat \ {0}
          /\ UNCHANGED overtaken
      BY <1>1, StartFacts
    <3>2. overtaken[ready[i + 1]] + Remaining <= Bound((i - 1) + 1)
      BY <1>i, <3>1
    <3>3. Remaining' <= Yield /\ Remaining' \in Int
      <4>1. running' \in Task /\ unyielded' = unyielded
        BY <1>1, StartFacts
      <4>2. unyielded'[running'] \in 0..(Yield - 1)
        BY <4>1 DEF TypeInv
      <4>3. Remaining' = Yield - unyielded'[running']
        BY <1>t, <4>1 DEF Remaining
      <4>4. QED
        BY <1>b, <4>2, <4>3
    <3>4. Bound((i - 1) + 1) + Yield = Bound(i - 1) /\ Bound(i - 1) \in Int /\ Bound((i - 1) + 1) \in Int
      BY <1>b, <3>1
    <3>5. overtaken[ready[i + 1]] \in Nat
      BY <1>t, <3>1
    <3>6. QED
      BY <1>b, <1>r, <3>1, <3>2, <3>3, <3>4, <3>5
  <2>2. DOMAIN ready' \subseteq Nat
    BY <1>1, StartFacts
  <2>3. QED
    BY <1>1, <1>p, <2>1, StartFacts
<1>2. ASSUME UNCHANGED <<ready, overtaken, unyielded>>, running' = running \/ running' = None
      PROVE  \A i \in DOMAIN ready' : overtaken'[ready'[i]] + Remaining' <= Bound(i - 1)'
  <2>1. Remaining' \in Nat /\ Remaining' <= Remaining
    <3>1. CASE running' = running
      <4>1. Remaining' = Remaining
        BY <1>2, <3>1 DEF Remaining
      <4>2. QED
        BY <1>r, <4>1
    <3>2. CASE running' = None
      BY <1>r, <3>2 DEF Remaining
    <3>3. QED
      BY <1>2, <3>1, <3>2
  <2>2. QED
    BY <1>2, <1>d, <1>i, <1>p, <1>r, <1>t, <2>1
<1>3. CASE Claim \/ Acquire \/ Send
  <2>1. UNCHANGED <<ready, overtaken, unyielded>> /\ (running' = running \/ running' = None)
    BY <1>3, ClaimFacts, SendFacts
  <2>2. QED
    BY <1>2, <2>1
<1>4. CASE Record
  <2>1. PICK pause \in {Pause(running, at[running] = "ok")} :
          /\ pause.unyielded \in 0..(Yield - 1) /\ pause.to \in {"loop", "backoff"}
          /\ pause.goOn => pause.unyielded = unyielded[running] + 1
          /\ unyielded' = [unyielded EXCEPT ![running] = pause.unyielded]
          /\ ready' = IF ~ pause.goOn /\ pause.to = "loop" THEN Append(ready, running) ELSE ready
          /\ running' = IF pause.goOn THEN running ELSE None
    BY <1>4, RecordFacts
  <2>2. /\ running \in Task /\ \A i \in DOMAIN ready : ready[i] # running
        /\ overtaken' = [t \in Task |-> IF t \in ToSet(ready) THEN overtaken[t] + 1 ELSE 0]
    BY <1>4, RecordFacts DEF QueueInv
  <2>3. /\ \A i \in DOMAIN ready : overtaken'[ready[i]] = overtaken[ready[i]] + 1
        /\ overtaken'[running] = 0
    BY <1>t, <2>2 DEF ToSet
  <2>4. Remaining' \in Nat /\ Remaining' + 1 <= Remaining
    <3>1. Remaining = Yield - unyielded[running] /\ unyielded[running] \in 0..(Yield - 1)
      BY <1>r, <1>t, <2>2 DEF TypeInv
    <3>2. CASE pause.goOn
      <4>1. running' = running /\ unyielded'[running] = unyielded[running] + 1
        BY <2>1, <2>2, <3>2 DEF TypeInv
      <4>2. Remaining' = Yield - (unyielded[running] + 1)
        BY <1>t, <2>2, <4>1 DEF Remaining
      <4>3. unyielded[running] + 1 \in 0..(Yield - 1)
        BY <2>1, <3>2
      <4>4. QED
        BY <1>b, <3>1, <4>2, <4>3
    <3>3. CASE ~ pause.goOn
      <4>1. Remaining' = 0
        BY <2>1, <3>3 DEF Remaining
      <4>2. Remaining >= 1
        BY <1>r, <1>t, <2>2
      <4>3. QED
        BY <1>r, <4>1, <4>2
    <3>4. QED
      BY <3>2, <3>3
  <2>5. ASSUME NEW i \in DOMAIN ready
        PROVE  overtaken'[ready[i]] + Remaining' <= Bound(i - 1)
    <3>1. i - 1 \in Nat /\ Bound(i - 1) \in Int /\ overtaken[ready[i]] \in Nat
      BY <1>d, <1>t
    <3>2. overtaken[ready[i]] + Remaining <= Bound(i - 1)
      BY <1>i
    <3>3. overtaken'[ready[i]] = overtaken[ready[i]] + 1
      BY <2>3
    <3>4. Remaining \in Nat /\ Remaining' \in Nat /\ Remaining' + 1 <= Remaining
      BY <1>r, <2>4
    <3>5. (overtaken[ready[i]] + 1) + Remaining' <= Bound(i - 1)
      <4>1. \A a, r, q \in Nat, b \in Int : a + r <= b /\ q + 1 <= r => (a + 1) + q <= b
        OBVIOUS
      <4>2. overtaken[ready[i]] \in Nat /\ Bound(i - 1) \in Int
        BY <3>1
      <4>3. QED
        BY <3>2, <3>4, <4>1, <4>2
    <3>6. QED
      BY <3>3, <3>5
  <2>6. CASE ready' = ready
    BY <1>p, <1>t, <2>5, <2>6
  <2>7. CASE ready' = Append(ready, running) /\ running' = None
    <3>1. /\ DOMAIN ready' = 1..(Len(ready) + 1)
          /\ \A i \in DOMAIN ready : ready'[i] = ready[i]
          /\ ready'[Len(ready) + 1] = running
      BY <2>2, <2>7, AppendFacts
    <3>2. 0 <= Bound((Len(ready) + 1) - 1)
      BY <1>b, <1>t, <2>2, QueueLength
    <3>3. overtaken'[ready'[Len(ready) + 1]] + Remaining' <= Bound((Len(ready) + 1) - 1)
      BY <2>3, <2>7, <3>1, <3>2 DEF Remaining
    <3>4. \A i \in DOMAIN ready' : i \in DOMAIN ready \/ i = Len(ready) + 1
      BY <1>t, <3>1
    <3>5. \A i \in DOMAIN ready' : i - 1 \in Nat
      BY <1>t, <3>1
    <3>6. QED
      BY <1>p, <2>5, <3>1, <3>3, <3>4, <3>5
  <2>8. QED
    BY <2>1, <2>6, <2>7
<1>5. CASE Deadline \/ Finish \/ UNCHANGED vars
  BY <1>2, <1>5, OtherFacts
<1>6. ASSUME NEW t \in Task, Answer(t) \/ Awake(t)
      PROVE  \A i \in DOMAIN ready' : overtaken'[ready'[i]] + Remaining' <= Bound(i - 1)'
  <2>1. /\ ready' = Append(ready, t) /\ running' = running /\ unyielded' = unyielded
        /\ overtaken' = [overtaken EXCEPT ![t] = 0]
        /\ t # running /\ \A i \in DOMAIN ready : ready[i] # t
    BY <1>6, ResumeFacts
  <2>2. /\ DOMAIN ready' = 1..(Len(ready) + 1)
        /\ \A i \in DOMAIN ready : ready'[i] = ready[i]
        /\ ready'[Len(ready) + 1] = t
    BY <2>1, AppendFacts
  <2>3. Remaining' = Remaining
    BY <2>1 DEF Remaining
  <2>4. overtaken'[t] = 0 /\ \A i \in DOMAIN ready : overtaken'[ready[i]] = overtaken[ready[i]]
    BY <1>t, <2>1 DEF TypeInv
  <2>5. Remaining <= Bound((Len(ready) + 1) - 1)
    <3>1. /\ Len(ready) + 1 <= Cardinality(Task)
          /\ running # None => Len(ready) + 2 <= Cardinality(Task)
      BY <2>1, QueueLength
    <3>2. (Len(ready) + 1) - 1 = Len(ready) /\ Bound(Len(ready)) \in Int
      BY <1>b, <1>t
    <3>3. CASE running = None
      BY <1>b, <1>r, <1>t, <3>1, <3>2, <3>3
    <3>4. CASE running # None
      BY <1>b, <1>r, <1>t, <3>1, <3>2, <3>4
    <3>5. QED
      BY <3>3, <3>4
  <2>6. overtaken'[ready'[Len(ready) + 1]] + Remaining' <= Bound((Len(ready) + 1) - 1)
    BY <1>r, <2>2, <2>3, <2>4, <2>5
  <2>7. \A i \in DOMAIN ready' : i \in DOMAIN ready \/ i = Len(ready) + 1
    BY <1>t, <2>2
  <2>8. \A i \in DOMAIN ready' : i - 1 \in Nat
    BY <1>t, <2>2
  <2>9. QED
    BY <1>i, <1>p, <2>2, <2>3, <2>4, <2>6, <2>7, <2>8
<1>7. QED
  BY <1>1, <1>3, <1>4, <1>5, <1>6 DEF Next, Turn

\* No task monopolises the loop: the first task in the queue has the largest bound.
LEMMA TurnsAreShort ==
  ASSUME TypeInv, TurnInv
  PROVE  NoMonopoly
<1> SUFFICES ASSUME NEW t \in ToSet(ready)
             PROVE  overtaken[t] <= (Cardinality(Task) - 1) * Yield
  BY DEF NoMonopoly
<1>1. PICK i \in DOMAIN ready : ready[i] = t
  BY DEF ToSet
<1>2. i - 1 \in Nat /\ overtaken[t] \in Nat /\ Remaining \in Nat
  <2>1. ready \in Seq(Task)
    BY DEF TypeInv
  <2>2. i - 1 \in Nat /\ t \in Task
    BY <1>1, <2>1
  <2>3. overtaken[t] \in Nat
    BY <2>2 DEF TypeInv
  <2>4. QED
    BY <2>2, <2>3, RemainingFacts
<1>3. overtaken[t] + Remaining <= Bound(i - 1)
  BY <1>1 DEF TurnInv
<1>4. Cardinality(Task) \in Nat /\ Yield \in Nat \ {0} /\ Bound(i - 1) \in Int
  BY <1>2, BoundFacts DEF TypeInv
<1>5. Bound(i - 1) <= (Cardinality(Task) - 1) * Yield
  <2>1. \A n, k \in Nat : (n - 1 - k) * Yield <= (n - 1) * Yield
    <3>1. SUFFICES ASSUME NEW n \in Nat, NEW k \in Nat
                   PROVE  (n - 1 - k) * Yield <= (n - 1) * Yield
      OBVIOUS
    <3>2. (n - 1 - k) * Yield = (n - 1) * Yield - k * Yield /\ k * Yield >= 0
      BY <1>4
    <3>3. (n - 1) * Yield \in Int /\ k * Yield \in Int
      BY <1>4
    <3>4. QED
      BY <3>2, <3>3
  <2>2. QED
    BY <1>2, <1>4, <2>1 DEF Bound
<1>6. (Cardinality(Task) - 1) * Yield \in Int
  BY <1>4
<1>7. QED
  BY <1>2, <1>3, <1>4, <1>5, <1>6

-----------------------------------------------------------------------------
(* The sockets. *)

\* A socket is opened only below the cap, and lost only with a request that failed.
LEMMA SocketStep ==
  ASSUME TypeInv, QueueInv, SocketsAsReported, [Next]_vars
  PROVE  SocketsAsReported'
<1> DEFINE cap == sockets_per_client(phase, driver)
           untroubled == nodes = 1 /\ failed = {} /\ \A t \in Task : at[t] # "error"
<1>c. cap \in Nat /\ cap' = cap /\ Pools' = Pools /\ Task' = Task /\ nodes' = nodes
  BY PhaseStays DEF sockets_per_client, TypeInv, PhaseInv
<1>i. \A p \in Pools : /\ sockets[p] \in Int /\ sockets[p] <= cap
                       /\ untroubled => sockets[p] = cap
  BY DEF SocketsAsReported, TypeInv
<1> HIDE DEF cap, untroubled
<1>s. SUFFICES \A p \in Pools : /\ sockets'[p] <= cap
                                /\ untroubled' => sockets'[p] = cap
  BY <1>c DEF SocketsAsReported, cap, untroubled
<1>1. ASSUME UNCHANGED sockets, untroubled' => untroubled
      PROVE  \A p \in Pools : /\ sockets'[p] <= cap
                              /\ untroubled' => sockets'[p] = cap
  BY <1>1, <1>i
<1>2. CASE StartTurn \/ Deadline \/ Finish \/ UNCHANGED vars
  BY <1>1, <1>2, <1>c, StartFacts, OtherFacts DEF untroubled
<1>3. CASE Claim \/ Acquire
  <2>1. UNCHANGED <<sockets, failed>> /\ \A t \in Task : at[t] = "error" => at'[t] = "error"
    BY <1>3, ClaimFacts DEF TypeInv
  <2>2. QED
    BY <1>1, <1>c, <2>1 DEF untroubled
<1>4. CASE Send
  <2>0. \E q : \E outcome \in Outcomes(q) :
          /\ sockets' = [sockets EXCEPT ![q] =
                IF driver = "pool" /\ outcome = "flight" /\ InFlight(q) = @
                THEN @ + 1 ELSE @]
          /\ at' = [at EXCEPT ![running] = outcome]
    BY <1>4, SendFacts
  <2>q. PICK q : \E outcome \in Outcomes(q) :
          /\ sockets' = [sockets EXCEPT ![q] =
                IF driver = "pool" /\ outcome = "flight" /\ InFlight(q) = @
                THEN @ + 1 ELSE @]
          /\ at' = [at EXCEPT ![running] = outcome]
    BY <2>0
  <2>1. PICK outcome \in Outcomes(q) :
          /\ sockets' = [sockets EXCEPT ![q] =
                IF driver = "pool" /\ outcome = "flight" /\ InFlight(q) = @
                THEN @ + 1 ELSE @]
          /\ at' = [at EXCEPT ![running] = outcome]
    BY <2>q
  <2>2. running \in Task /\ at[running] = "request" /\ failed' = failed
    BY <1>4, SendFacts DEF TypeInv
  <2>3. untroubled' => untroubled
    <3>1. \A t \in Task : at[t] = "error" => at'[t] = "error"
      BY <2>1, <2>2 DEF TypeInv
    <3>2. QED
      BY <1>c, <2>2, <3>1 DEF untroubled
  <2>4. driver = "pool" /\ outcome = "flight" => ~ (InFlight(q) >= cap)
    BY <2>1 DEF Outcomes, cap
  <2>5. ASSUME NEW p \in Pools
        PROVE  sockets'[p] = IF p = q /\ driver = "pool" /\ outcome = "flight"
                                /\ InFlight(q) = sockets[p]
                             THEN sockets[p] + 1 ELSE sockets[p]
    BY <2>1 DEF TypeInv
  <2>6. ASSUME NEW p \in Pools
        PROVE  sockets'[p] <= cap /\ (untroubled => sockets'[p] = sockets[p])
    <3>1. sockets[p] \in Int /\ sockets[p] <= cap /\ (untroubled => sockets[p] = cap)
      BY <1>i
    <3>2. QED
      BY <1>c, <2>4, <2>5, <3>1
  <2>7. QED
    BY <1>i, <2>3, <2>6
<1>5. CASE Record
  <2>1. UNCHANGED sockets
    BY <1>5, RecordFacts
  <2>2. untroubled' => untroubled
    <3>1. SUFFICES ASSUME untroubled' PROVE untroubled
      OBVIOUS
    <3>2. running \in Task /\ at[running] \in {"ok", "error"}
      BY <1>5, RecordFacts
    <3>3. failed' = IF at[running] = "ok" THEN failed ELSE failed \cup {asked[running]}
      BY <1>5, RecordFacts
    <3>4. at[running] = "ok" /\ failed = {}
      BY <3>1, <3>2, <3>3 DEF untroubled
    <3>5. \A t \in Task : t # running => at'[t] = at[t]
      BY <1>5, RecordFacts DEF TypeInv
    <3>6. QED
      BY <1>c, <3>1, <3>4, <3>5 DEF untroubled
  <2>3. QED
    BY <1>1, <2>1, <2>2
<1>6. ASSUME NEW t \in Task, Answer(t)
      PROVE  \A p \in Pools : /\ sockets'[p] <= cap
                              /\ untroubled' => sockets'[p] = cap
  <2>a. PICK outcome \in {"ok", "error"} :
          /\ at' = [at EXCEPT ![t] = outcome]
          /\ \E lost \in IF outcome = "error" /\ driver = "pool" THEN {0, 1} ELSE {0} :
               sockets' = [sockets EXCEPT ![<<t[1], NodeOf(asked[t])>>] = @ - lost]
    BY <1>6 DEF Answer, Resume, GoTo
  <2>1. failed' = failed /\ at[t] = "flight"
    BY <1>6, TaskFacts DEF TypeInv, Answer, results
  <2>2. \A p \in Pools : /\ sockets'[p] \in Int /\ sockets'[p] <= sockets[p]
                         /\ outcome = "ok" => sockets'[p] = sockets[p]
    <3>1. PICK lost \in IF outcome = "error" /\ driver = "pool" THEN {0, 1} ELSE {0} :
            \E q : sockets' = [sockets EXCEPT ![q] = @ - lost]
      BY <2>a
    <3>2. lost \in Nat /\ (outcome = "ok" => lost = 0)
      OBVIOUS
    <3>3. PICK q : sockets' = [sockets EXCEPT ![q] = @ - lost]
      BY <3>1
    <3>4. \A p \in Pools : sockets'[p] = IF p = q THEN sockets[p] - lost ELSE sockets[p]
      BY <3>3 DEF TypeInv
    <3>5. QED
      BY <1>i, <3>2, <3>4
  <2>3. untroubled' => untroubled /\ outcome = "ok"
    <3>1. SUFFICES ASSUME untroubled' PROVE untroubled /\ outcome = "ok"
      OBVIOUS
    <3>2. nodes = 1 /\ failed = {} /\ \A u \in Task : at'[u] # "error"
      BY <1>c, <2>1, <3>1 DEF untroubled
    <3>3. at'[t] = outcome /\ \A u \in Task : u # t => at'[u] = at[u]
      BY <2>a DEF TypeInv
    <3>4. \A u \in Task : at[u] # "error"
      BY <2>1, <3>2, <3>3
    <3>5. QED
      BY <3>2, <3>3, <3>4 DEF untroubled
  <2>4. ASSUME NEW p \in Pools
        PROVE  /\ sockets'[p] <= cap
               /\ untroubled' => sockets'[p] = cap
    <3>1. /\ sockets'[p] \in Int /\ sockets'[p] <= sockets[p]
          /\ outcome = "ok" => sockets'[p] = sockets[p]
      BY <2>2
    <3>2. sockets[p] \in Int /\ sockets[p] <= cap /\ (untroubled => sockets[p] = cap)
      BY <1>i
    <3>3. sockets'[p] <= cap
      BY <1>c, <3>1, <3>2
    <3>4. QED
      BY <2>3, <3>1, <3>2, <3>3
  <2>5. QED
    BY <2>4
<1>7. ASSUME NEW t \in Task, Awake(t)
      PROVE  \A p \in Pools : /\ sockets'[p] <= cap
                              /\ untroubled' => sockets'[p] = cap
  <2>1. UNCHANGED <<sockets, failed>>
    BY <1>7 DEF Awake, results
  <2>2. \A u \in Task : at[u] = "error" => at'[u] = "error"
    BY <1>7 DEF Awake, Resume, GoTo, TypeInv
  <2>3. QED
    BY <1>1, <1>c, <2>1, <2>2 DEF untroubled
<1>8. QED
  BY <1>2, <1>3, <1>4, <1>5, <1>6, <1>7 DEF Next, Turn

-----------------------------------------------------------------------------
(* The budget and the requests sent. *)

\* A request sent adds one to those sent.
LEMMA DrawsFacts ==
  ASSUME TypeInv, IsFiniteSet(Draws), phase' = phase, NEW x \in Nat, NEW c \in Connections,
         drawn' = [drawn EXCEPT ![c] = Append(@, x)]
  PROVE  LET new == <<c, Len(drawn[c]) + 1>>
         IN  /\ new \notin Draws /\ Draws' = Draws \cup {new}
             /\ IsFiniteSet(Draws)' /\ Sent \in Nat /\ Sent' = Sent + 1
             /\ drawn'[new[1]][new[2]] = x
             /\ \A d \in Draws : drawn'[d[1]][d[2]] = drawn[d[1]][d[2]]
<1> DEFINE new == <<c, Len(drawn[c]) + 1>>
<1>1. /\ drawn[c] \in Seq(Nat) /\ Len(drawn[c]) \in Nat /\ DOMAIN drawn[c] = 1..Len(drawn[c])
      /\ drawn'[c] = Append(drawn[c], x)
      /\ \A b \in Connections : b # c => drawn'[b] = drawn[b]
  BY DEF TypeInv
<1>2. Connections' = Connections
  BY DEF Connections
<1>3. DOMAIN drawn'[c] = DOMAIN drawn[c] \cup {Len(drawn[c]) + 1}
  BY <1>1
<1>4. \A b, i : <<b, i>> \in Draws <=> b \in Connections /\ i \in DOMAIN drawn[b]
  BY DEF Draws
<1>5. \A b, i : <<b, i>> \in Draws' <=> b \in Connections /\ i \in DOMAIN drawn'[b]
  BY <1>2 DEF Draws
<1>6. new \notin Draws
  BY <1>1, <1>4
<1>7. Draws' = Draws \cup {new}
  <2>1. \A d \in Draws \cup Draws' \cup {new} : d = <<d[1], d[2]>>
    BY DEF Draws
  <2>2. \A b, i : <<b, i>> \in Draws' <=> <<b, i>> \in Draws \/ <<b, i>> = new
    BY <1>1, <1>3, <1>4, <1>5
  <2>3. QED
    BY <2>1, <2>2
<1>8. IsFiniteSet(Draws)' /\ Sent \in Nat /\ Sent' = Sent + 1
  BY <1>6, <1>7, FS_AddElement, FS_CardinalityType DEF Sent
<1>9. drawn'[c][Len(drawn[c]) + 1] = x
  BY <1>1
<1>10. \A d \in Draws : drawn'[d[1]][d[2]] = drawn[d[1]][d[2]]
  <2>1. SUFFICES ASSUME NEW d \in Draws
                 PROVE  drawn'[d[1]][d[2]] = drawn[d[1]][d[2]]
    OBVIOUS
  <2>2. d[1] \in Connections /\ d[2] \in DOMAIN drawn[d[1]]
    BY DEF Draws
  <2>3. CASE d[1] = c
    BY <1>1, <2>2, <2>3
  <2>4. CASE d[1] # c
    BY <1>1, <2>2, <2>4
  <2>5. QED
    BY <2>3, <2>4
<1>11. QED
  BY <1>6, <1>7, <1>8, <1>9, <1>10

\* Without one they stay.
LEMMA DrawsStay ==
  ASSUME phase' = phase, drawn' = drawn
  PROVE  Draws' = Draws /\ Sent' = Sent
BY DEF Draws, Sent, Connections

\* How the requests claimed and not sent change when a task moves.
LEMMA ClaimedMoves ==
  ASSUME TypeInv, phase' = phase, NEW t \in Task, NEW s, at' = [at EXCEPT ![t] = s]
  PROVE  LET waiting == {"limit", "paced", "request"}
         IN  /\ Cardinality(Claimed) \in Nat
             /\ at[t] \in waiting <=> s \in waiting => Cardinality(Claimed') = Cardinality(Claimed)
             /\ at[t] \notin waiting /\ s \in waiting =>
                  Cardinality(Claimed') = Cardinality(Claimed) + 1
             /\ at[t] \in waiting /\ s \notin waiting =>
                  Cardinality(Claimed') = Cardinality(Claimed) - 1
<1> DEFINE waiting == {"limit", "paced", "request"}
<1>1. Task' = Task
  BY DEF Task, Connections
<1>2. IsFiniteSet(Claimed) /\ Cardinality(Claimed) \in Nat
  <2>1. Claimed \subseteq Task /\ IsFiniteSet(Task)
    BY TaskFacts DEF Claimed, TypeInv
  <2>2. QED
    BY <2>1, FS_Subset, FS_CardinalityType
<1>3. at'[t] = s /\ \A u \in Task : u # t => at'[u] = at[u]
  BY DEF TypeInv
<1>4. CASE at[t] \in waiting <=> s \in waiting
  <2>1. Claimed' = Claimed
    BY <1>1, <1>3, <1>4 DEF Claimed
  <2>2. QED
    BY <1>2, <1>4, <2>1
<1>5. CASE at[t] \notin waiting /\ s \in waiting
  <2>1. Claimed' = Claimed \cup {t} /\ t \notin Claimed
    BY <1>1, <1>3, <1>5 DEF Claimed
  <2>2. QED
    BY <1>2, <1>5, <2>1, FS_AddElement
<1>6. CASE at[t] \in waiting /\ s \notin waiting
  <2>1. Claimed' = Claimed \ {t} /\ t \in Claimed
    BY <1>1, <1>3, <1>6 DEF Claimed
  <2>2. QED
    BY <1>2, <1>6, <2>1, FS_RemoveElement
<1>7. QED
  BY <1>4, <1>5, <1>6

\* Every slot of the budget is a request claimed or sent.
LEMMA BudgetStep ==
  ASSUME TypeInv, QueueInv, BudgetInv, [Next]_vars
  PROVE  BudgetInv'
<1> DEFINE target == phase.completion.requests
           count == Cardinality(Claimed) + Sent
           settled == IF budget <= target THEN budget ELSE target
           Spent == \A t \in Task : at[t] = "done" => budget >= target
<1>p. /\ phase' = phase /\ Task' = Task /\ RequestBased' = RequestBased
      /\ (RequestBased => target \in Nat) /\ budget \in Nat /\ at \in [Task -> Places]
      /\ target' = target
  BY PhaseStays DEF RequestBased, TypeInv, PhaseInv
<1>i. /\ IsFiniteSet(Draws)
      /\ RequestBased => count = settled /\ Spent
      /\ status # None => \A t \in Task : at[t] = "done"
  BY DEF BudgetInv
<1>n. Sent \in Nat /\ Cardinality(Claimed) \in Nat
  <2>1. Claimed \subseteq Task /\ IsFiniteSet(Task)
    BY TaskFacts DEF Claimed, TypeInv
  <2>2. QED
    BY <1>i, <2>1, FS_Subset, FS_CardinalityType DEF Sent
<1> HIDE DEF count, settled, Spent, target
<1>s. ASSUME IsFiniteSet(Draws)',
             RequestBased => count' = settled' /\ Spent',
             status' # None => \A t \in Task : at'[t] = "done"
      PROVE  BudgetInv'
  BY <1>p, <1>s DEF BudgetInv, count, settled, Spent, target
<1>1. CASE StartTurn \/ Deadline \/ UNCHANGED vars
  <2>1. UNCHANGED <<phase, drawn, at, budget, status>>
    BY <1>1, StartFacts DEF Deadline, vars, config, keys, loop
  <2>2. Claimed' = Claimed /\ Draws' = Draws /\ Sent' = Sent
    BY <1>p, <2>1, DrawsStay DEF Claimed
  <2>3. QED
    BY <1>i, <1>p, <1>s, <2>1, <2>2 DEF count, settled, Spent
<1>2. CASE Finish
  <2>1. UNCHANGED <<phase, drawn, at, budget>> /\ \A t \in Task : at[t] = "done"
    BY <1>2 DEF Finish, config, keys, loop
  <2>2. Claimed' = Claimed /\ Draws' = Draws /\ Sent' = Sent
    BY <1>p, <2>1, DrawsStay DEF Claimed
  <2>3. QED
    BY <1>i, <1>p, <1>s, <2>1, <2>2 DEF count, settled, Spent
<1>3. ASSUME NEW t \in Task, NEW s, at' = [at EXCEPT ![t] = s], at[t] # "done", status' = status,
             UNCHANGED <<drawn, budget>>, s # "done",
             at[t] \in {"limit", "paced", "request"} <=> s \in {"limit", "paced", "request"}
      PROVE  BudgetInv'
  <2>1. Draws' = Draws /\ Sent' = Sent /\ Cardinality(Claimed') = Cardinality(Claimed)
    BY <1>3, <1>p, DrawsStay, ClaimedMoves
  <2>2. \A u \in Task : at'[u] = "done" => at[u] = "done"
    BY <1>3, <1>p
  <2>3. status' = None
    BY <1>3, <1>i
  <2>4. QED
    BY <1>i, <1>p, <1>3, <1>s, <2>1, <2>2, <2>3 DEF count, settled, Spent
<1>4. CASE Record
  <2>1. PICK s \in {"loop", "backoff"} : at' = [at EXCEPT ![running] = s]
    BY <1>4, RecordFacts
  <2>2. running \in Task /\ at[running] \in {"ok", "error"} /\ UNCHANGED <<drawn, budget, status>>
    BY <1>4, RecordFacts
  <2>3. QED
    BY <1>3, <2>1, <2>2
<1>5. ASSUME NEW t \in Task, Answer(t) \/ Awake(t)
      PROVE  BudgetInv'
  <2>1. PICK s \in {"loop", "limit", "ok", "error"} :
          /\ at' = [at EXCEPT ![t] = s]
          /\ at[t] = "paced" => s = "limit"
          /\ at[t] = "backoff" => s = "loop"
          /\ at[t] = "flight" => s \in {"ok", "error"}
    BY <1>5, ResumeFacts
  <2>2. at[t] \in {"flight", "paced", "backoff"} /\ UNCHANGED <<drawn, budget, status>>
    BY <1>5, ResumeFacts
  <2>3. at[t] # "done" /\ s # "done"
        /\ (at[t] \in {"limit", "paced", "request"} <=> s \in {"limit", "paced", "request"})
    BY <2>1, <2>2
  <2>4. QED
    BY <1>3, <2>1, <2>2, <2>3
<1>6. CASE Send
  <2>1. /\ running \in Task /\ at[running] = "request" /\ running[1] \in Connections
        /\ UNCHANGED <<budget, status>>
    BY <1>6, SendFacts, TaskFacts DEF TypeInv
  <2>2. PICK s \in {"flight", "ok", "error"} : at' = [at EXCEPT ![running] = s]
    BY <1>6, SendFacts
  <2>3. Cardinality(Claimed') = Cardinality(Claimed) - 1
    BY <1>p, <2>1, <2>2, ClaimedMoves
  <2>4. \E x \in Nat : drawn' = [drawn EXCEPT ![running[1]] = Append(@, x)]
    <3>1. generators[<<running[1], 1>>] \in Int /\ counter \in Nat
      BY <2>1, TaskFacts DEF TypeInv
    <3>2. QED
      BY <1>6, <3>1, SendFacts, NextKeyFacts DEF TypeInv
  <2>5. IsFiniteSet(Draws)' /\ Sent' = Sent + 1
    BY <1>i, <1>p, <2>1, <2>4, DrawsFacts
  <2>6. \A u \in Task : at'[u] = "done" => at[u] = "done"
    BY <1>p, <2>1, <2>2
  <2>7. status' = None
    BY <1>i, <2>1
  <2>8. count' = count
    BY <1>n, <2>3, <2>5 DEF count
  <2>9. QED
    BY <1>i, <1>p, <1>s, <2>1, <2>5, <2>6, <2>7, <2>8 DEF settled, Spent
<1>7. CASE Claim \/ Acquire
  <2>1. PICK s \in {"done", "limit", "request", "paced"} :
          /\ at' = [at EXCEPT ![running] = s]
          /\ at[running] = "limit" => s \in {"request", "paced"} /\ budget' = budget
          /\ at[running] = "loop" =>
               /\ budget' = IF RequestBased THEN budget + 1 ELSE budget
               /\ IF Exhausted THEN s = "done" ELSE s \in {"limit", "request"}
    BY <1>7, ClaimFacts
  <2>2. /\ running \in Task /\ at[running] \in {"loop", "limit"}
        /\ UNCHANGED <<drawn, status>>
    BY <1>7, ClaimFacts
  <2>3. Draws' = Draws /\ Sent' = Sent
    BY <1>p, <2>2, DrawsStay
  <2>4. status' = None
    BY <1>i, <2>2
  <2>5. CASE at[running] = "limit"
    <3>1. s # "done" /\ s \in {"limit", "paced", "request"} /\ UNCHANGED budget
      BY <2>1, <2>5
    <3>2. QED
      BY <1>3, <2>1, <2>2, <2>5, <3>1
  <2>6. CASE at[running] = "loop"
    <3>1. SUFFICES ASSUME RequestBased
                   PROVE  count' = settled' /\ Spent'
      BY <1>i, <1>s, <2>3, <2>4
    <3>2. /\ budget' = budget + 1 /\ budget \in Nat /\ target \in Nat
          /\ IF budget >= target THEN s = "done" ELSE s \in {"limit", "request"}
      BY <1>p, <2>1, <2>6, <3>1 DEF Exhausted, target
    <3>3. \A u \in Task : at'[u] = "done" => at[u] = "done" \/ budget >= target
      BY <1>p, <2>1, <2>2, <3>2
    <3>4. Spent'
      BY <1>i, <1>p, <3>1, <3>2, <3>3 DEF Spent
    <3>5. CASE budget >= target
      <4>1. Cardinality(Claimed') = Cardinality(Claimed)
        BY <1>p, <2>1, <2>2, <2>6, <3>2, <3>5, ClaimedMoves
      <4>2. settled = target /\ settled' = target
        BY <1>p, <3>2, <3>5 DEF settled
      <4>3. QED
        BY <1>i, <2>3, <3>1, <3>4, <4>1, <4>2 DEF count
    <3>6. CASE ~ (budget >= target)
      <4>1. Cardinality(Claimed') = Cardinality(Claimed) + 1
        BY <1>p, <2>1, <2>2, <2>6, <3>2, <3>6, ClaimedMoves
      <4>2. settled = budget /\ settled' = budget + 1
        BY <1>p, <3>2, <3>6 DEF settled
      <4>3. QED
        BY <1>i, <1>n, <2>3, <3>1, <3>4, <4>1, <4>2 DEF count
    <3>7. QED
      BY <3>5, <3>6
  <2>7. QED
    BY <2>2, <2>5, <2>6
<1>8. QED
  BY <1>1, <1>2, <1>4, <1>5, <1>6, <1>7 DEF Next, Turn

-----------------------------------------------------------------------------
(* The keys of a populate phase. *)

\* A key drawn is stored, failed or asked for by a task.
Touched(i) ==
  \/ <<"set", i % phase.keyspace.keys_count>> \in stored \cup failed
  \/ \E t \in Task : asked[t] = <<"set", i % phase.keyspace.keys_count>>

\* No key is None.
LEMMA KeysAreKeys ==
  ASSUME PhaseInv, NEW i \in Int
  PROVE  <<"set", i % phase.keyspace.keys_count>> # None
<1>1. i % phase.keyspace.keys_count \in Nat
  BY DEF PhaseInv
<1>2. <<"set", i % phase.keyspace.keys_count>> \in Supported \X Nat
  BY <1>1 DEF Supported
<1>3. QED
  BY <1>2, NoneAssumption

\* A key that was counted stays touched: a result that is recorded moves it from the
\* task to the keys stored or failed.
LEMMA PopulateStep ==
  ASSUME TypeInv, QueueInv, BudgetInv, PopulateInv, [Next]_vars
  PROVE  PopulateInv'
<1> DEFINE bound == phase.keyspace.keys_count
           Idle == \A t \in Task : at[t] \notin {"flight", "ok", "error"} => asked[t] = None
           Kind == Sequential /\ Selectable(phase.commands) = {"set"}
           All == \A i \in 0..(counter - 1) : Touched(i)
<1>p. /\ phase' = phase /\ Task' = Task /\ Sequential' = Sequential /\ Kind' = Kind
      /\ at \in [Task -> Places] /\ DOMAIN asked = Task /\ counter \in Nat /\ PhaseInv
  BY PhaseStays DEF TypeInv, Sequential
<1>i. /\ Sequential => counter = Sent
      /\ Idle
      /\ Kind => All
  BY DEF PopulateInv, Touched
<1>k. \A i \in 0..(counter - 1) : <<"set", i % bound>> # None
  BY <1>p, KeysAreKeys
<1> HIDE DEF Idle, Kind, All, bound
<1>s. ASSUME Sequential => counter' = Sent', Idle', Kind => All'
      PROVE  PopulateInv'
  BY <1>p, <1>s DEF PopulateInv, Touched, Idle, Kind, All
<1>1. CASE StartTurn \/ Deadline \/ Finish \/ UNCHANGED vars
  <2>1. UNCHANGED <<phase, drawn, at, asked, counter, stored, failed>>
    BY <1>1, StartFacts, OtherFacts
  <2>2. QED
    BY <1>i, <1>p, <1>s, <2>1, DrawsStay DEF Idle, All, Touched
<1>2. ASSUME NEW t \in Task, NEW s, at' = [at EXCEPT ![t] = s],
             at[t] \in {"flight", "ok", "error"} <=> s \in {"flight", "ok", "error"},
             UNCHANGED <<drawn, asked, counter, stored, failed>>
      PROVE  PopulateInv'
  <2>1. Idle'
    BY <1>2, <1>i, <1>p DEF Idle
  <2>2. All' <=> All
    BY <1>2, <1>p DEF All, Touched
  <2>3. QED
    BY <1>2, <1>i, <1>p, <1>s, <2>1, <2>2, DrawsStay
<1>3. CASE Claim \/ Acquire
  <2>1. PICK s \in {"done", "limit", "request", "paced"} : at' = [at EXCEPT ![running] = s]
    BY <1>3, ClaimFacts
  <2>2. /\ running \in Task /\ at[running] \in {"loop", "limit"}
        /\ UNCHANGED <<drawn, asked, counter, stored, failed>>
    BY <1>3, ClaimFacts
  <2>3. QED
    BY <1>2, <2>1, <2>2
<1>4. ASSUME NEW t \in Task, Answer(t) \/ Awake(t)
      PROVE  PopulateInv'
  <2>1. PICK s \in {"loop", "limit", "ok", "error"} :
          /\ at' = [at EXCEPT ![t] = s]
          /\ at[t] = "paced" => s = "limit"
          /\ at[t] = "backoff" => s = "loop"
          /\ at[t] = "flight" => s \in {"ok", "error"}
    BY <1>4, ResumeFacts
  <2>2. at[t] \in {"flight", "paced", "backoff"}
        /\ UNCHANGED <<drawn, asked, counter, stored, failed>>
    BY <1>4, ResumeFacts
  <2>3. at[t] \in {"flight", "ok", "error"} <=> s \in {"flight", "ok", "error"}
    BY <2>1, <2>2
  <2>4. QED
    BY <1>2, <2>1, <2>2, <2>3
<1>5. CASE Record
  <2>1. /\ running \in Task /\ asked' = [asked EXCEPT ![running] = None]
        /\ stored' \cup failed' = (stored \cup failed) \cup {asked[running]}
        /\ UNCHANGED <<drawn, counter>>
    BY <1>5, RecordFacts
  <2>2. Idle'
    <3>1. \A t \in Task : t # running => at'[t] = at[t]
      BY <1>5, <1>p, RecordFacts
    <3>2. QED
      BY <1>i, <1>p, <2>1, <3>1 DEF Idle
  <2>3. ASSUME NEW i \in 0..(counter - 1), Touched(i)
        PROVE  Touched(i)'
    <3>1. CASE <<"set", i % bound>> \in (stored \cup failed) \cup {asked[running]}
      BY <1>p, <2>1, <3>1 DEF Touched, bound
    <3>2. CASE \E t \in Task : t # running /\ asked[t] = <<"set", i % bound>>
      <4>1. \E t \in Task : asked'[t] = <<"set", i % bound>>
        BY <1>p, <2>1, <3>2
      <4>2. QED
        BY <1>p, <4>1 DEF Touched, bound
    <3>3. QED
      BY <2>3, <3>1, <3>2 DEF Touched, bound
  <2>4. All => All'
    BY <2>1, <2>3 DEF All
  <2>5. QED
    BY <1>i, <1>p, <1>s, <2>1, <2>2, <2>4, DrawsStay
<1>6. CASE Send
  <2>1. /\ running \in Task /\ at[running] = "request" /\ running[1] \in Connections
        /\ generators[<<running[1], 1>>] \in Int
        /\ UNCHANGED <<stored, failed>>
    BY <1>6, SendFacts, TaskFacts DEF TypeInv
  <2>2. PICK draw \in next_key(phase.keyspace, counter, generators[<<running[1], 1>>]),
             command \in Selectable(phase.commands), outcome \in {"flight", "ok", "error"} :
          /\ asked' = [asked EXCEPT ![running] = <<command, draw.index>>]
          /\ drawn' = [drawn EXCEPT ![running[1]] = Append(@, draw.index)]
          /\ counter' = draw.counter
          /\ at' = [at EXCEPT ![running] = outcome]
    BY <1>6, SendFacts
  <2>3. /\ draw.index \in Nat
        /\ Sequential => draw.index = counter % bound /\ draw.counter = counter + 1
    BY <1>p, <2>1, NextKeyFacts DEF bound
  <2>4. Sent' = Sent + 1
    BY <1>p, <2>1, <2>2, <2>3, DrawsFacts DEF BudgetInv
  <2>5. Idle'
    BY <1>i, <1>p, <2>1, <2>2 DEF Idle
  <2>6. ASSUME Kind, NEW i \in 0..(counter' - 1)
        PROVE  Touched(i)'
    <3>1. Sequential /\ command = "set" /\ counter' = counter + 1
      BY <2>2, <2>3, <2>6 DEF Kind
    <3>2. CASE i = counter
      <4>1. asked'[running] = <<"set", i % bound>>
        BY <1>p, <2>1, <2>2, <2>3, <3>1, <3>2
      <4>2. QED
        BY <1>p, <2>1, <4>1 DEF Touched, bound
    <3>3. CASE i \in 0..(counter - 1)
      <4>1. asked[running] = None
        BY <1>i, <2>1 DEF Idle
      <4>2. <<"set", i % bound>> \in stored \cup failed
              \/ \E t \in Task : t # running /\ asked[t] = <<"set", i % bound>>
        BY <1>i, <1>k, <2>6, <3>3, <4>1 DEF All, Touched, bound
      <4>3. <<"set", i % bound>> \in stored' \cup failed'
              \/ \E t \in Task : asked'[t] = <<"set", i % bound>>
        BY <1>p, <2>1, <2>2, <4>2
      <4>4. QED
        BY <1>p, <4>3 DEF Touched, bound
    <3>4. QED
      BY <1>p, <3>1, <3>2, <3>3
  <2>7. Kind => All'
    BY <2>6 DEF All
  <2>8. QED
    BY <1>i, <1>s, <2>2, <2>3, <2>4, <2>5, <2>7
<1>7. QED
  BY <1>1, <1>3, <1>4, <1>5, <1>6 DEF Next, Turn

\* When the phase is COMPLETED nobody has a key on its hands, and the budget was
\* spent on as many keys as there are.
LEMMA NoKeyLeftOut ==
  ASSUME TypeInv, BudgetInv, PopulateInv
  PROVE  PopulateComplete
<1> DEFINE bound == phase.keyspace.keys_count
<1> SUFFICES ASSUME status = "COMPLETED", RequestBased, Sequential,
                    phase.completion.requests >= bound,
                    Selectable(phase.commands) = {"set"}, NEW k \in 0..(bound - 1)
             PROVE  <<"set", k>> \in stored \cup failed
  BY DEF PopulateComplete, Sequential
<1>1. /\ bound \in Nat \ {0} /\ phase.completion.requests \in Nat /\ budget \in Nat
      /\ PhaseInv /\ k \in Nat
  BY DEF TypeInv, PhaseInv
<1>2. status # None
  BY NoneAssumption
<1>3. \A t \in Task : at[t] = "done" /\ asked[t] = None
  BY <1>2 DEF BudgetInv, PopulateInv
<1>4. Claimed = {} /\ budget >= phase.completion.requests
  BY <1>1, <1>3, TaskFacts DEF BudgetInv, Claimed
<1>5. Sent = phase.completion.requests
  <2>1. Cardinality(Claimed) = 0 /\ Sent \in Nat
    BY <1>4, FS_EmptySet, FS_CardinalityType DEF BudgetInv, Sent
  <2>2. Cardinality(Claimed) + Sent = phase.completion.requests
    BY <1>1, <1>4 DEF BudgetInv
  <2>3. QED
    BY <2>1, <2>2
<1>6. k \in 0..(counter - 1)
  BY <1>1, <1>5 DEF PopulateInv
<1>7. k % bound = k
  BY <1>1
<1>8. <<"set", k>> # None
  BY <1>1, <1>7, KeysAreKeys
<1>9. QED
  BY <1>3, <1>6, <1>7, <1>8 DEF PopulateInv

-----------------------------------------------------------------------------
(* Which keys were drawn. *)

\* Steps that draw no key leave the keys and the generators.
LEMMA Draw ==
  ASSUME TypeInv, [Next]_vars
  PROVE  Send \/ UNCHANGED <<phase, drawn, generators>>
BY DEF Next, Turn, StartTurn, Claim, Acquire, Record, Deadline, Finish, Answer, Awake, config,
       keys, vars

\* The numbers below n that are k modulo bound.
Congruent(k, n, bound) == {i \in 0..(n - 1) : i % bound = k}

\* One more number is in the set exactly when it is k modulo bound.
LEMMA CongruentFacts ==
  ASSUME NEW n \in Nat, NEW bound \in Nat \ {0}, NEW k
  PROVE  /\ IsFiniteSet(Congruent(k, n, bound)) /\ n \notin Congruent(k, n, bound)
         /\ Congruent(k, n + 1, bound) = IF n % bound = k THEN Congruent(k, n, bound) \cup {n}
                                         ELSE Congruent(k, n, bound)
<1>1. IsFiniteSet(0..(n - 1))
  BY FS_Interval
<1>2. Congruent(k, n, bound) \subseteq 0..(n - 1)
  BY DEF Congruent
<1>3. 0..((n + 1) - 1) = (0..(n - 1)) \cup {n}
  OBVIOUS
<1>4. QED
  BY <1>1, <1>2, <1>3, FS_Subset DEF Congruent

\* The draws of a key.
DrawsOf(k) == {d \in Draws : drawn[d[1]][d[2]] = k}

\* A sequential key is drawn as often as a count modulo the bound meets it.
LEMMA CountStep ==
  ASSUME TypeInv, BudgetInv, PopulateInv, CountInv, [Next]_vars
  PROVE  CountInv'
<1> DEFINE bound == phase.keyspace.keys_count
<1>p. /\ phase' = phase /\ Sequential' = Sequential
      /\ bound \in Nat \ {0} /\ counter \in Nat /\ IsFiniteSet(Draws) /\ PhaseInv
  BY PhaseStays DEF TypeInv, PhaseInv, BudgetInv, Sequential
<1>1. CASE ~ Send
  <2>1. UNCHANGED <<phase, drawn>>
    BY <1>1, Draw
  <2>2. Draws' = Draws /\ Sent' = Sent
    BY <2>1, DrawsStay
  <2>3. QED
    BY <1>p, <2>1, <2>2 DEF CountInv, Times
<1>2. CASE Send
  <2>1. SUFFICES ASSUME Sequential, NEW k \in 0..(bound - 1)
                 PROVE  Cardinality(DrawsOf(k)') = Cardinality(Congruent(k, Sent', bound))
    BY <1>p DEF CountInv, Times, DrawsOf, Congruent
  <2>2. /\ running[1] \in Connections /\ generators[<<running[1], 1>>] \in Int
    BY <1>2, SendFacts, TaskFacts DEF TypeInv
  <2>3. PICK draw \in next_key(phase.keyspace, counter, generators[<<running[1], 1>>]) :
          drawn' = [drawn EXCEPT ![running[1]] = Append(@, draw.index)]
    BY <1>2, SendFacts
  <2>4. draw.index \in Nat /\ draw.index = Sent % bound
    BY <1>p, <2>1, <2>2, NextKeyFacts DEF PopulateInv
  <2> DEFINE new == <<running[1], Len(drawn[running[1]]) + 1>>
  <2>5. /\ new \notin Draws /\ Draws' = Draws \cup {new} /\ Sent \in Nat /\ Sent' = Sent + 1
        /\ drawn'[new[1]][new[2]] = draw.index
        /\ \A d \in Draws : drawn'[d[1]][d[2]] = drawn[d[1]][d[2]]
    BY <1>p, <2>2, <2>3, <2>4, DrawsFacts
  <2> HIDE DEF new
  <2>6. DrawsOf(k)' = IF Sent % bound = k THEN DrawsOf(k) \cup {new} ELSE DrawsOf(k)
    BY <2>4, <2>5 DEF DrawsOf
  <2>7. IsFiniteSet(DrawsOf(k)) /\ new \notin DrawsOf(k)
    <3>1. DrawsOf(k) \subseteq Draws
      BY DEF DrawsOf
    <3>2. QED
      BY <1>p, <2>5, <3>1, FS_Subset
  <2>8. /\ IsFiniteSet(Congruent(k, Sent, bound)) /\ Sent \notin Congruent(k, Sent, bound)
        /\ Congruent(k, Sent + 1, bound) =
             IF Sent % bound = k THEN Congruent(k, Sent, bound) \cup {Sent}
             ELSE Congruent(k, Sent, bound)
    <3> HIDE DEF bound
    <3>1. Sent \in Nat /\ bound \in Nat \ {0}
      BY <1>p, <2>5
    <3> HIDE DEF Sent
    <3>2. QED
      BY <3>1, CongruentFacts, Zenon
  <2>9. Cardinality(DrawsOf(k)) = Cardinality(Congruent(k, Sent, bound))
    BY <2>1 DEF CountInv, Times, DrawsOf, Congruent
  <2>10. Congruent(k, Sent', bound) = Congruent(k, Sent + 1, bound)
    BY <2>5
  <2>11. CASE Sent % bound = k
    <3>1. /\ Cardinality(DrawsOf(k) \cup {new}) = Cardinality(DrawsOf(k)) + 1
          /\ Cardinality(Congruent(k, Sent, bound) \cup {Sent}) =
               Cardinality(Congruent(k, Sent, bound)) + 1
      BY <2>7, <2>8, FS_AddElement
    <3>2. QED
      BY <2>6, <2>8, <2>9, <2>10, <2>11, <3>1
  <2>12. CASE Sent % bound # k
    BY <2>6, <2>8, <2>9, <2>10, <2>12
  <2>13. QED
    BY <2>11, <2>12
<1>3. QED
  BY <1>1, <1>2

\* Sums of exponents.
LEMMA Pow2Sum ==
  ASSUME NEW k \in Nat, NEW j \in Nat
  PROVE  Pow2[k + j] = Pow2[k] * Pow2[j]
<1> DEFINE T == {n \in Nat : Pow2[k + n] = Pow2[k] * Pow2[n]}
<1>1. 0 \in T
  <2>1. Pow2[k] \in Nat /\ Pow2[0] = 1 /\ k + 0 = k
    BY Pow2Facts
  <2>2. QED
    BY <2>1
<1>2. ASSUME NEW n \in Nat, n \in T
      PROVE  n + 1 \in T
  <2>1. k + n \in Nat /\ k + (n + 1) = (k + n) + 1
    OBVIOUS
  <2>2. Pow2[k + (n + 1)] = 2 * Pow2[k + n] /\ Pow2[n + 1] = 2 * Pow2[n]
    BY <2>1, Pow2Facts
  <2>3. Pow2[k + n] = Pow2[k] * Pow2[n] /\ Pow2[k] \in Nat /\ Pow2[n] \in Nat
    BY <1>2, Pow2Facts
  <2>4. \A a, b \in Nat : 2 * (a * b) = a * (2 * b)
    OBVIOUS
  <2>5. QED
    BY <2>2, <2>3, <2>4
<1> HIDE DEF T
<1>3. Nat \subseteq T
  BY <1>1, <1>2, Induction
<1>4. QED
  BY <1>3 DEF T

\* A power of two up to 2^Drawn divides it.
LEMMA Pow2Divides ==
  ASSUME NEW bound \in Nat \ {0}, bound <= Pow2[Drawn], PowerOfTwo(bound)
  PROVE  \E m \in Nat \ {0} : Pow2[Drawn] = bound * m
<1>1. PICK k \in 0..bound : bound = Pow2[k]
  BY DEF PowerOfTwo
<1>2. Drawn \in Nat /\ k \in Nat
  BY GeneratorAssumption
<1>3. k <= Drawn
  <2>1. SUFFICES ASSUME k > Drawn
                 PROVE  FALSE
    BY <1>2
  <2>2. k - Drawn - 1 \in Nat /\ k - Drawn \in Nat /\ Drawn + (k - Drawn) = k
        /\ k - Drawn = (k - Drawn - 1) + 1
    BY <1>2, <2>1
  <2>3. Pow2[k] = Pow2[Drawn] * Pow2[k - Drawn]
    BY <1>2, <2>2, Pow2Sum
  <2>4. Pow2[k - Drawn] = 2 * Pow2[k - Drawn - 1] /\ Pow2[k - Drawn - 1] \in Nat \ {0}
        /\ Pow2[Drawn] \in Nat \ {0}
    BY <1>2, <2>2, Pow2Facts
  <2>5. \A a, b \in Nat \ {0} : a * (2 * b) > a
    OBVIOUS
  <2>6. QED
    BY <1>1, <2>3, <2>4, <2>5
<1>4. Drawn - k \in Nat /\ k + (Drawn - k) = Drawn
  BY <1>2, <1>3
<1>5. Pow2[k + (Drawn - k)] = Pow2[k] * Pow2[Drawn - k]
  BY <1>2, <1>4, Pow2Sum
<1>6. Pow2[Drawn - k] \in Nat \ {0}
  BY <1>4, Pow2Facts
<1>7. QED
  BY <1>1, <1>4, <1>5, <1>6

\* Division by a positive number, and what it keeps of the order.
LEMMA DivMod ==
  ASSUME NEW x \in Int, NEW d \in Nat \ {0}
  PROVE  /\ x \div d \in Int /\ x % d \in 0..(d - 1)
         /\ x = d * (x \div d) + (x % d)
         /\ x >= 0 => x \div d >= 0
OBVIOUS

\* The quotient is the number whose multiple is next below.
LEMMA DivIs ==
  ASSUME NEW x \in Int, NEW d \in Nat \ {0}, NEW q \in Int, d * q <= x, x < d * q + d
  PROVE  x \div d = q
<1>1. /\ x \div d \in Int /\ x % d \in 0..(d - 1)
      /\ x = d * (x \div d) + (x % d)
  BY DivMod
<1>2. \A p, r \in Int : p >= r + 1 => d * p >= d * r + d
  OBVIOUS
<1>3. QED
  BY <1>1, <1>2

\* An output of the generator is a number of Drawn bits.
LEMMA DivBelow ==
  ASSUME NEW x \in Nat, NEW a \in Nat \ {0}, NEW b \in Nat \ {0}, x < a * b
  PROVE  x \div b \in 0..(a - 1)
<1>1. /\ x \div b \in Int /\ x % b \in 0..(b - 1)
      /\ x = b * (x \div b) + (x % b) /\ x \div b >= 0
  <2>1. x \in Int /\ x >= 0
    OBVIOUS
  <2>2. QED
    BY <2>1, DivMod
<1>2. \A q \in Int : q >= a => b * q >= a * b
  OBVIOUS
<1>3. QED
  BY <1>1, <1>2

\* A draw is rejected exactly when it is not below the largest multiple of the
\* bound: only then the sum the code computes leaves the int32 range.
LEMMA RejectsFacts ==
  ASSUME NEW bound \in Nat \ {0}, bound <= Pow2[Drawn], NEW bits \in 0..(Pow2[Drawn] - 1)
  PROVE  Rejects(bits, bound) <=> bits >= Pow2[Drawn] - (Pow2[Drawn] % bound)
<1> DEFINE P == Pow2[Drawn]
           v == bits - (bits % bound) + (bound - 1)
<1>1. P \in Nat \ {0} /\ Pow2[Drawn + 1] = 2 * P
  BY Pow2Facts, GeneratorAssumption
<1> DEFINE q == bits \div bound
           Q == P \div bound
<1>2. /\ q \in Int /\ bits % bound \in 0..(bound - 1) /\ bits = bound * q + (bits % bound)
      /\ Q \in Int /\ P % bound \in 0..(bound - 1) /\ P = bound * Q + (P % bound)
  <2>1. bits \in Int /\ P \in Int
    BY <1>1
  <2>2. QED
    BY <2>1, DivMod
<1>3. v \in 0..(2 * P - 1) /\ v = bound * q + (bound - 1)
  <2>1. bits \in Int /\ bits >= 0 /\ bits <= P - 1 /\ bound <= P
    BY <1>1
  <2>2. q >= 0
    BY <2>1, DivMod
  <2>3. \A a \in Int : a >= 0 => bound * a >= 0
    OBVIOUS
  <2>4. bound * q >= 0 /\ bound * q \in Int
    BY <1>2, <2>2, <2>3
  <2> HIDE DEF q, P
  <2>5. QED
    BY <1>1, <1>2, <2>1, <2>4
<1>4. v % (2 * P) = v
  <2> HIDE DEF v, P
  <2>1. QED
    BY <1>1, <1>3
<1>5. Rejects(bits, bound) <=> v >= P
  <2>1. to_int32(v) = IF v >= P THEN v - 2 * P ELSE v
    BY <1>1, <1>4 DEF to_int32
  <2>2. QED
    BY <1>1, <1>3, <2>1 DEF Rejects
<1>6. \A a, b \in Int : a >= b + 1 => bound * a >= bound * b + bound
  OBVIOUS
<1> HIDE DEF v, P, q, Q
<1>7. bits >= P - (P % bound) <=> q >= Q
  <2>1. P - (P % bound) = bound * Q
    BY <1>1, <1>2
  <2>2. q >= Q => bound * q >= bound * Q
    BY <1>2, <1>6
  <2>3. ~ (q >= Q) => bound * Q >= bound * q + bound
    BY <1>2, <1>6
  <2>4. QED
    BY <1>1, <1>2, <2>1, <2>2, <2>3
<1>8. v >= P <=> q >= Q
  <2>1. q >= Q => bound * q >= bound * Q
    BY <1>2, <1>6
  <2>2. ~ (q >= Q) => bound * Q >= bound * q + bound
    BY <1>2, <1>6
  <2>3. QED
    BY <1>1, <1>2, <1>3, <2>1, <2>2
<1>9. QED
  BY <1>5, <1>7, <1>8 DEF P

\* The k-th output after a state.
OutputOf(state, k) == StatesFrom(state)[k] \div Pow2[Bits - Drawn]

\* The outputs have Drawn bits, and are what next_bits returns one after the other.
LEMMA OutputFacts ==
  ASSUME NEW state \in Int, NEW k \in Nat \ {0}
  PROVE  /\ OutputOf(state, k) \in 0..(Pow2[Drawn] - 1)
         /\ next_bits(StatesFrom(state)[k - 1]) = OutputOf(state, k)
<1> DEFINE before == StatesFrom(state)[k - 1]
<1>1. before \in Int /\ StatesFrom(state)[k] = NextState(before)
  <2>1. k - 1 \in Nat /\ (k - 1) + 1 = k
    OBVIOUS
  <2>2. before \in Int /\ StatesFrom(state)[(k - 1) + 1] = NextState(before)
    BY <2>1, StatesFromFacts
  <2>3. QED
    BY <2>1, <2>2
<1> HIDE DEF before
<1>2. /\ NextState(before) \in 0..(Pow2[Bits] - 1)
      /\ Pow2[Bits] \in Nat \ {0} /\ Pow2[Drawn] \in Nat \ {0} /\ Pow2[Bits - Drawn] \in Nat \ {0}
  BY <1>1, NextStateFacts
<1>3. Pow2[Bits] = Pow2[Drawn] * Pow2[Bits - Drawn]
  <2>1. Drawn \in Nat /\ Bits - Drawn \in Nat /\ Drawn + (Bits - Drawn) = Bits
    BY GeneratorAssumption
  <2>2. Pow2[Drawn + (Bits - Drawn)] = Pow2[Drawn] * Pow2[Bits - Drawn]
    BY <2>1, Pow2Sum
  <2>3. QED
    BY <2>1, <2>2
<1>4. NextState(before) \in Nat /\ NextState(before) < Pow2[Drawn] * Pow2[Bits - Drawn]
  BY <1>2, <1>3
<1>5. NextState(before) \div Pow2[Bits - Drawn] \in 0..(Pow2[Drawn] - 1)
  BY <1>2, <1>4, DivBelow
<1>6. QED
  BY <1>1, <1>5 DEF OutputOf, next_bits, before

\* A generator that goes on from its n-th state goes on with the next ones.
LEMMA StatesShift ==
  ASSUME NEW state \in Int, NEW n \in Nat, NEW j \in Nat
  PROVE  StatesFrom(state)[n + j] = StatesFrom(StatesFrom(state)[n])[j]
<1> DEFINE here == StatesFrom(state)[n]
           T == {i \in Nat : StatesFrom(state)[n + i] = StatesFrom(here)[i]}
<1>1. here \in Int
  BY StatesFromFacts
<1> HIDE DEF here
<1>2. StatesFrom(here)[0] = here /\ \A i \in Nat : StatesFrom(here)[i + 1] = NextState(StatesFrom(here)[i])
  BY <1>1, StatesFromFacts
<1>3. 0 \in T
  BY <1>2 DEF here
<1>4. ASSUME NEW i \in Nat, i \in T
      PROVE  i + 1 \in T
  <2>1. n + i \in Nat /\ n + (i + 1) = (n + i) + 1
    OBVIOUS
  <2>2. StatesFrom(state)[(n + i) + 1] = NextState(StatesFrom(state)[n + i])
    BY <2>1, StatesFromFacts
  <2>3. QED
    BY <1>2, <1>4, <2>1, <2>2
<1> HIDE DEF T
<1>5. Nat \subseteq T
  BY <1>3, <1>4, Induction
<1>6. QED
  BY <1>5 DEF T, here

\* A draw takes the first output that is kept, passes over those before it, and
\* makes of it the key the definition names.
LEMMA DrawFacts ==
  ASSUME PhaseInv, phase.keyspace.keys_count <= Pow2[Drawn], NEW state \in Int,
         NEW draw \in next_int(state, phase.keyspace.keys_count)
  PROVE  \E m \in 1..Pow2[Bits] :
           /\ draw.state = StatesFrom(state)[m]
           /\ \A j \in 1..(m - 1) : ~ (OutputOf(state, j) < Whole)
           /\ OutputOf(state, m) < Whole
           /\ draw.index % phase.keyspace.keys_count = KeyOf(OutputOf(state, m))
<1> DEFINE bound == phase.keyspace.keys_count
           out(j) == OutputOf(state, j)
<1>1. /\ bound \in Nat \ {0} /\ Pow2[Drawn] \in Nat \ {0} /\ Pow2[Bits] \in Nat \ {0}
      /\ bound <= Pow2[Drawn] /\ Pow2[Drawn] \in Int
  BY NextStateFacts DEF PhaseInv
<1>2. \A j \in 1..Pow2[Bits] : /\ out(j) \in 0..(Pow2[Drawn] - 1)
                               /\ next_bits(StatesFrom(state)[j - 1]) = out(j)
  BY <1>1, OutputFacts
<1>3. Whole = Pow2[Drawn] - (Pow2[Drawn] % bound)
  BY DEF Whole
<1>4. \A j \in 1..Pow2[Bits] : KeyOf(out(j)) = IF PowerOfTwo(bound)
                                             THEN out(j) \div (Pow2[Drawn] \div bound)
                                             ELSE out(j) % bound
  BY DEF KeyOf
<1> HIDE DEF bound, out
<1>5. CASE PowerOfTwo(bound)
  <2>1. PICK m \in Nat \ {0} : Pow2[Drawn] = bound * m
    BY <1>1, <1>5, Pow2Divides
  <2>2. Pow2[Drawn] \div bound = m
    <3>1. Pow2[Drawn] \in Int /\ m \in Int /\ bound * m <= Pow2[Drawn]
          /\ Pow2[Drawn] < bound * m + bound
      BY <1>1, <2>1
    <3>2. QED
      BY <1>1, <3>1, DivIs
  <2>3. Pow2[Drawn] % bound = 0 /\ Whole = Pow2[Drawn]
    <3>1. /\ Pow2[Drawn] % bound \in 0..(bound - 1)
          /\ Pow2[Drawn] = bound * m + (Pow2[Drawn] % bound)
      BY <1>1, <2>2, DivMod
    <3>2. \A a, b \in Int : a = a + b => b = 0
      OBVIOUS
    <3>3. Pow2[Drawn] % bound = 0
      BY <1>1, <2>1, <3>1, <3>2
    <3>4. QED
      BY <1>1, <1>3, <3>3
  <2>4. 1 \in 1..Pow2[Bits] /\ 1 - 1 = 0
    BY <1>1
  <2>5. StatesFrom(state)[0] = state /\ StatesFrom(state)[1] = NextState(state)
        /\ next_bits(state) = out(1) /\ out(1) \in 0..(Pow2[Drawn] - 1)
    <3>1. StatesFrom(state)[0] = state /\ StatesFrom(state)[0 + 1] = NextState(StatesFrom(state)[0])
      BY StatesFromFacts
    <3>2. next_bits(StatesFrom(state)[1 - 1]) = out(1) /\ out(1) \in 0..(Pow2[Drawn] - 1)
      BY <1>2, <2>4
    <3>3. QED
      BY <3>1, <3>2
  <2>6. draw.state = StatesFrom(state)[1]
        /\ draw.index = (bound * out(1)) \div Pow2[Drawn]
    BY <1>5, <2>5 DEF next_int, FastPath, bound
  <2>7. draw.index = out(1) \div m /\ draw.index \in 0..(bound - 1)
    <3> DEFINE x == out(1)
               q == x \div m
    <3>1. x \in Nat /\ x \in Int /\ x < bound * m
      BY <1>1, <2>1, <2>5
    <3> HIDE DEF x
    <3>2. q \in Int /\ x % m \in 0..(m - 1) /\ x = m * q + (x % m)
      BY <2>1, <3>1, DivMod
    <3>3. q \in 0..(bound - 1)
      BY <1>1, <3>1, DivBelow
    <3>4. (bound * x) \div Pow2[Drawn] = q
      <4>1. bound * x \in Int /\ bound * m \in Nat \ {0} /\ q \in Int
        BY <1>1, <2>1, <3>1, <3>2
      <4>2. (bound * m) * q <= bound * x /\ bound * x < (bound * m) * q + bound * m
        <5> HIDE DEF q
        <5>1. \A b \in Nat \ {0}, y, z \in Int : /\ y <= z => b * y <= b * z
                                                 /\ y < z => b * y < b * z
          OBVIOUS
        <5>2. m * q <= x /\ x < m * q + m /\ m * q \in Int /\ m * q + m \in Int
          BY <3>2
        <5>3. bound * (m * q) <= bound * x /\ bound * x < bound * (m * q + m)
          BY <1>1, <3>1, <5>1, <5>2
        <5>4. \A b, y, z \in Int : b * (y * z) = (b * y) * z /\ b * (y * z + y) = (b * y) * z + b * y
          OBVIOUS
        <5>5. /\ bound * (m * q) = (bound * m) * q
              /\ bound * (m * q + m) = (bound * m) * q + bound * m
          BY <1>1, <3>2, <5>4
        <5>6. QED
          BY <5>3, <5>5
      <4>3. (bound * x) \div (bound * m) = q
        <5> HIDE DEF q
        <5>1. QED
          BY <4>1, <4>2, DivIs
      <4>4. QED
        BY <2>1, <4>3
    <3>5. QED
      BY <2>6, <3>3, <3>4 DEF x
  <2>8. draw.index % bound = draw.index
    BY <1>1, <2>7
  <2>9. draw.index % bound = KeyOf(out(1))
    BY <1>4, <1>5, <2>2, <2>4, <2>7, <2>8
  <2>10. out(1) < Whole
    BY <1>1, <2>3, <2>5
  <2>11. QED
    BY <2>4, <2>6, <2>9, <2>10 DEF bound, out
<1>6. CASE ~ PowerOfTwo(bound)
  <2>1. PICK m \in 1..Pow2[Bits] :
          /\ draw = [state |-> StatesFrom(state)[m],
                     index |-> next_bits(StatesFrom(state)[m - 1]) % bound]
          /\ ~ Rejects(next_bits(StatesFrom(state)[m - 1]), bound)
          /\ \A j \in 1..(m - 1) : Rejects(next_bits(StatesFrom(state)[j - 1]), bound)
    BY <1>6 DEF next_int, FirstAccepted, bound
  <2>2. \A j \in 1..Pow2[Bits] : Rejects(out(j), bound) <=> out(j) >= Whole
    BY <1>1, <1>2, <1>3, RejectsFacts
  <2>3. Whole \in Int /\ \A j \in 1..m : j \in 1..Pow2[Bits]
    <3>1. Pow2[Drawn] % bound \in 0..(bound - 1)
      BY <1>1, DivMod
    <3>2. QED
      BY <1>1, <1>3, <3>1
  <2>4. \A j \in 1..(m - 1) : j \in 1..Pow2[Bits] /\ Rejects(out(j), bound)
    BY <1>2, <2>1, <2>3
  <2>5. \A j \in 1..(m - 1) : ~ (out(j) < Whole)
    BY <1>2, <2>2, <2>3, <2>4
  <2>6. ~ Rejects(out(m), bound) /\ draw.index = out(m) % bound
        /\ draw.state = StatesFrom(state)[m]
    BY <1>2, <2>1
  <2>7. out(m) < Whole
    BY <1>2, <2>2, <2>3, <2>6
  <2>8. draw.index % bound = draw.index
    <3>1. out(m) \in Int
      BY <1>2
    <3>2. draw.index \in 0..(bound - 1)
      BY <1>1, <2>6, <3>1, DivMod
    <3>3. QED
      BY <1>1, <3>2
  <2>9. KeyOf(out(m)) = out(m) % bound
    BY <1>4, <1>6
  <2>10. QED
    BY <2>5, <2>6, <2>7, <2>8, <2>9 DEF bound, out
<1>7. QED
  BY <1>5, <1>6

\* What StreamInv says of one connection.
StreamOf(c) ==
  \E n \in 0..(Len(drawn[c]) * Pow2[Bits]) :
    /\ DrawnFrom(c, n)
    /\ generators[<<c, 1>>] = StatesFrom(initial_scramble(seed_base + c - 1))[n]

\* The outputs that are kept are counted in their order.
LEMMA KeptFacts ==
  ASSUME NEW c, NEW n \in Nat
  PROVE  /\ IsFiniteSet(Kept(c, n)) /\ Cardinality(Kept(c, n)) \in Nat
         /\ \A k \in Kept(c, n) : /\ k \in 1..n
                                  /\ Cardinality(Kept(c, k)) \in 1..Cardinality(Kept(c, n))
<1>1. \A k \in Nat : IsFiniteSet(Kept(c, k)) /\ Cardinality(Kept(c, k)) \in Nat
  <2>1. \A k \in Nat : IsFiniteSet(1..k)
    BY FS_Interval
  <2>2. \A k \in Nat : Kept(c, k) \subseteq 1..k
    BY DEF Kept
  <2>3. QED
    BY <2>1, <2>2, FS_Subset, FS_CardinalityType
<1>2. ASSUME NEW k \in Kept(c, n)
      PROVE  k \in 1..n /\ Cardinality(Kept(c, k)) \in 1..Cardinality(Kept(c, n))
  <2>1. k \in 1..n /\ k \in Kept(c, k) /\ Kept(c, k) \subseteq Kept(c, n)
    BY DEF Kept
  <2>2. Cardinality(Kept(c, k)) <= Cardinality(Kept(c, n))
    BY <1>1, <2>1, FS_Subset
  <2>3. Cardinality(Kept(c, k)) # 0
    BY <1>1, <2>1, FS_EmptySet
  <2>4. QED
    BY <1>1, <2>1, <2>2, <2>3
<1>3. QED
  BY <1>1, <1>2

\* The definition of the stream is about the phase alone.
LEMMA StreamStays ==
  ASSUME phase' = phase, NEW c
  PROVE  /\ \A n : Kept(c, n)' = Kept(c, n)
         /\ \A k : KeyOf(Output(c, k))' = KeyOf(Output(c, k))
         /\ seed_base' = seed_base
BY DEF Kept, KeyOf, Output, Whole, seed_base

\* A draw takes the stream of its connection to the next output that is kept.
LEMMA StreamGoesOn ==
  ASSUME TypeInv, ~ Sequential, phase.keyspace.keys_count <= Pow2[Drawn], phase' = phase,
         NEW c \in Connections, StreamOf(c),
         NEW draw \in next_int(generators[<<c, 1>>], phase.keyspace.keys_count),
         drawn'[c] = Append(drawn[c], draw.index % phase.keyspace.keys_count),
         generators'[<<c, 1>>] = draw.state
  PROVE  StreamOf(c)'
<1> DEFINE first == initial_scramble(seed_base + c - 1)
           key == draw.index % phase.keyspace.keys_count
<1>1. PICK n \in 0..(Len(drawn[c]) * Pow2[Bits]) :
        DrawnFrom(c, n) /\ generators[<<c, 1>>] = StatesFrom(first)[n]
  BY DEF StreamOf
<1>2. /\ drawn[c] \in Seq(Nat) /\ Len(drawn[c]) \in Nat /\ Pow2[Bits] \in Nat \ {0}
      /\ n \in Nat /\ n <= Len(drawn[c]) * Pow2[Bits]
  <2>1. drawn[c] \in Seq(Nat) /\ Len(drawn[c]) \in Nat /\ Pow2[Bits] \in Nat \ {0}
    BY NextStateFacts DEF TypeInv
  <2>2. QED
    BY <2>1
<1>3. first \in Int
  <2>1. seed_base \in Int /\ c \in Int
    BY DEF TypeInv, PhaseInv, Number, seed_base, Connections
  <2>2. QED
    BY <2>1, ScrambleFacts
<1>4. \A k : Output(c, k) = OutputOf(first, k)
  BY DEF Output, OutputOf
<1> HIDE DEF first
<1> DEFINE here == StatesFrom(first)[n]
<1>5. here \in Int
  BY <1>2, <1>3, StatesFromFacts
<1> HIDE DEF here
<1>6. PICK m \in 1..Pow2[Bits] :
        /\ draw.state = StatesFrom(here)[m]
        /\ \A j \in 1..(m - 1) : ~ (OutputOf(here, j) < Whole)
        /\ OutputOf(here, m) < Whole
        /\ key = KeyOf(OutputOf(here, m))
  <2>1. PhaseInv /\ draw \in next_int(here, phase.keyspace.keys_count)
    BY <1>1 DEF TypeInv, here
  <2>2. QED
    BY <1>5, <2>1, DrawFacts
<1>7. \A j \in Nat : /\ StatesFrom(first)[n + j] = StatesFrom(here)[j]
                     /\ Output(c, n + j) = OutputOf(here, j)
  <2>1. ASSUME NEW j \in Nat
        PROVE  StatesFrom(first)[n + j] = StatesFrom(here)[j]
    BY <1>2, <1>3, StatesShift DEF here
  <2>2. \A j \in Nat : OutputOf(first, n + j) = OutputOf(here, j)
    BY <2>1 DEF OutputOf
  <2>3. QED
    BY <1>4, <2>1, <2>2
<1> DEFINE next == n + m
<1>8. next \in Nat /\ m \in Nat /\ n < next
  BY <1>2
<1>9. Output(c, next) < Whole /\ key = KeyOf(Output(c, next))
      /\ draw.state = StatesFrom(first)[next]
  BY <1>6, <1>7, <1>8
<1>10. Kept(c, next) = Kept(c, n) \cup {next} /\ next \notin Kept(c, n)
  <2>1. \A k \in Nat : n < k /\ k < next => ~ (Output(c, k) < Whole)
    <3>1. SUFFICES ASSUME NEW k \in Nat, n < k, k < next
                   PROVE  ~ (Output(c, k) < Whole)
      OBVIOUS
    <3>2. k - n \in 1..(m - 1) /\ k - n \in Nat /\ n + (k - n) = k
      BY <1>2, <1>8, <3>1
    <3>3. Output(c, k) = OutputOf(here, k - n)
      BY <1>7, <3>2
    <3>4. QED
      BY <1>6, <3>2, <3>3
  <2>2. \A k : k \in Kept(c, next) <=> k \in 1..next /\ Output(c, k) < Whole
    BY DEF Kept
  <2>3. \A k : k \in Kept(c, n) <=> k \in 1..n /\ Output(c, k) < Whole
    BY DEF Kept
  <2>4. \A k \in 1..next : k \in 1..n \/ (n < k /\ k < next) \/ k = next
    BY <1>2, <1>8
  <2>5. 1..n \subseteq 1..next /\ next \notin 1..n /\ next \in 1..next
    BY <1>2, <1>8
  <2> HIDE DEF next
  <2>6. QED
    BY <1>9, <2>1, <2>2, <2>3, <2>4, <2>5
<1> HIDE DEF next, key
<1>11. /\ IsFiniteSet(Kept(c, n)) /\ Cardinality(Kept(c, n)) = Len(drawn[c])
       /\ \A k \in Kept(c, n) : Cardinality(Kept(c, k)) \in 1..Len(drawn[c])
       /\ \A k \in Kept(c, n) : drawn[c][Cardinality(Kept(c, k))] = KeyOf(Output(c, k))
  BY <1>1, <1>2, KeptFacts DEF DrawnFrom
<1>12. Cardinality(Kept(c, next)) = Len(drawn[c]) + 1
  BY <1>10, <1>11, FS_AddElement
<1>13. /\ Len(drawn'[c]) = Len(drawn[c]) + 1
       /\ drawn'[c][Len(drawn[c]) + 1] = key
       /\ \A i \in 1..Len(drawn[c]) : drawn'[c][i] = drawn[c][i]
  <2>1. drawn'[c] = Append(drawn[c], key)
    BY DEF key
  <2>2. QED
    BY <1>2, <2>1
<1>14. DrawnFrom(c, next)'
  <2>1. \A k \in Kept(c, next) : drawn'[c][Cardinality(Kept(c, k))] = KeyOf(Output(c, k))
    <3>1. SUFFICES ASSUME NEW k \in Kept(c, next)
                   PROVE  drawn'[c][Cardinality(Kept(c, k))] = KeyOf(Output(c, k))
      OBVIOUS
    <3>2. CASE k = next
      BY <1>9, <1>12, <1>13, <3>2
    <3>3. CASE k \in Kept(c, n)
      BY <1>11, <1>13, <3>3
    <3>4. QED
      BY <1>10, <3>2, <3>3
  <2>2. Len(drawn'[c]) = Cardinality(Kept(c, next))
    BY <1>12, <1>13
  <2>3. /\ \A k : Kept(c, k)' = Kept(c, k)
        /\ \A k : KeyOf(Output(c, k))' = KeyOf(Output(c, k))
    BY StreamStays
  <2>4. QED
    BY <2>1, <2>2, <2>3 DEF DrawnFrom
<1>15. next \in 0..(Len(drawn'[c]) * Pow2[Bits])
  <2>1. \A a, b \in Nat : (a + 1) * b = a * b + b
    OBVIOUS
  <2>2. (Len(drawn[c]) + 1) * Pow2[Bits] = Len(drawn[c]) * Pow2[Bits] + Pow2[Bits]
    BY <1>2, <2>1
  <2>3. \A x, y, a, b \in Nat : x <= a /\ y <= b => x + y <= a + b
    OBVIOUS
  <2>4. Len(drawn[c]) * Pow2[Bits] \in Nat /\ m <= Pow2[Bits]
    BY <1>2, <1>8
  <2>5. next <= Len(drawn[c]) * Pow2[Bits] + Pow2[Bits]
    BY <1>2, <1>8, <2>3, <2>4 DEF next
  <2>6. QED
    BY <1>2, <1>8, <1>13, <2>2, <2>4, <2>5
<1>16. generators'[<<c, 1>>] = StatesFrom(initial_scramble(seed_base' + c - 1))[next]
  BY <1>9, StreamStays DEF first
<1>17. QED
  BY <1>14, <1>15, <1>16 DEF StreamOf

\* Every connection draws the stream of its own seed.
LEMMA StreamStep ==
  ASSUME TypeInv, StreamInv, [Next]_vars
  PROVE  StreamInv'
<1> DEFINE bound == phase.keyspace.keys_count
<1>p. phase' = phase /\ Connections' = Connections /\ Sequential' = Sequential /\ PhaseInv
  BY PhaseStays DEF Sequential, TypeInv
<1>1. SUFFICES ASSUME ~ Sequential, bound <= Pow2[Drawn], NEW c \in Connections
               PROVE  StreamOf(c)'
  BY <1>p DEF StreamInv, StreamOf
<1>2. StreamOf(c)
  BY <1>1 DEF StreamInv, StreamOf
<1>3. ASSUME drawn'[c] = drawn[c], generators'[<<c, 1>>] = generators[<<c, 1>>]
      PROVE  StreamOf(c)'
  <2>1. \A n : DrawnFrom(c, n)' <=> DrawnFrom(c, n)
    BY <1>p, <1>3, StreamStays DEF DrawnFrom
  <2>2. QED
    BY <1>p, <1>2, <1>3, <2>1, StreamStays DEF StreamOf
<1>4. CASE ~ Send
  BY <1>3, <1>4, Draw
<1>5. CASE Send
  <2>1. /\ running \in Task /\ running[1] \in Connections /\ <<running[1], 1>> \in Task
        /\ generators \in [Task -> Int] /\ drawn \in [Connections -> Seq(Nat)]
    BY <1>5, SendFacts, TaskFacts DEF TypeInv
  <2>2. PICK result \in next_key(phase.keyspace, counter, generators[<<running[1], 1>>]) :
          /\ drawn' = [drawn EXCEPT ![running[1]] = Append(@, result.index)]
          /\ generators' = [generators EXCEPT ![<<running[1], 1>>] = result.state]
    BY <1>5, SendFacts
  <2>3. CASE c # running[1]
    BY <1>3, <2>1, <2>2, <2>3
  <2>4. CASE c = running[1]
    <3>1. PICK draw \in next_int(generators[<<c, 1>>], bound) :
            result = [index |-> draw.index % bound, counter |-> counter, state |-> draw.state]
      BY <1>1, <2>2, <2>4 DEF next_key, Sequential
    <3>2. drawn'[c] = Append(drawn[c], draw.index % bound) /\ generators'[<<c, 1>>] = draw.state
      BY <2>1, <2>2, <2>4, <3>1
    <3>3. QED
      BY <1>p, <1>1, <1>2, <3>1, <3>2, StreamGoesOn
  <2>5. QED
    BY <2>3, <2>4
<1>6. QED
  BY <1>4, <1>5

-----------------------------------------------------------------------------
(* A draw of the generator ends. *)

\* 2^k steps at once: the state is multiplied by a number that is 1 modulo 4 * 2^k, and
\* an odd multiple of 2^k is added.
Jumps(k, u, v) ==
  \A s \in Int : \E w \in Int :
    StatesFrom(s)[Pow2[k]] = s * (1 + 4 * Pow2[k] * u) + Pow2[k] * (2 * v + 1) + Pow2[Bits] * w

\* So it is because the multiplier is 1 modulo 4 and the addend odd.
LEMMA JumpFacts ==
  ASSUME NEW k \in Nat
  PROVE  \E u \in Int, v \in Int : Jumps(k, u, v)
<1> DEFINE T == {n \in Nat : \E u \in Int, v \in Int : Jumps(n, u, v)}
           N == Pow2[Bits]
<1>n. N \in Nat \ {0}
  BY NextStateFacts
<1>1. 0 \in T
  <2>1. PICK u \in Int, v \in Int : Multiplier = 1 + 4 * u /\ Addend = 2 * v + 1
    <3>1. /\ Multiplier = 4 * (Multiplier \div 4) + (Multiplier % 4)
          /\ Addend = 2 * (Addend \div 2) + (Addend % 2)
          /\ Multiplier \div 4 \in Int /\ Addend \div 2 \in Int
      BY GeneratorAssumption, DivMod
    <3>2. Multiplier = 1 + 4 * (Multiplier \div 4) /\ Addend = 2 * (Addend \div 2) + 1
      BY <3>1, GeneratorAssumption
    <3>3. QED
      BY <3>1, <3>2
  <2>2. ASSUME NEW s \in Int
        PROVE  \E w \in Int : StatesFrom(s)[Pow2[0]] =
                                s * (1 + 4 * Pow2[0] * u) + Pow2[0] * (2 * v + 1) + N * w
    <3> DEFINE y == s * Multiplier + Addend
    <3>1. StatesFrom(s)[0] = s /\ StatesFrom(s)[0 + 1] = NextState(StatesFrom(s)[0])
      BY StatesFromFacts
    <3>2. Pow2[0] = 1 /\ StatesFrom(s)[1] = y % N
      BY <3>1, Pow2Facts DEF NextState
    <3>3. y \in Int
      BY GeneratorAssumption
    <3>4. y = s * (1 + 4 * u) + (2 * v + 1)
      BY <2>1
    <3> HIDE DEF y, N
    <3>5. y = N * (y \div N) + (y % N) /\ y \div N \in Int /\ y % N \in Int
      BY <1>n, <3>3, DivMod
    <3>6. y % N = y + N * (- (y \div N)) /\ - (y \div N) \in Int
      BY <1>n, <3>3, <3>5
    <3>7. StatesFrom(s)[Pow2[0]] = s * (1 + 4 * Pow2[0] * u) + Pow2[0] * (2 * v + 1)
                                     + N * (- (y \div N))
      BY <3>2, <3>4, <3>6
    <3>8. QED
      BY <3>6, <3>7
  <2>3. QED
    BY <2>2 DEF Jumps
<1>2. ASSUME NEW n \in Nat, n \in T
      PROVE  n + 1 \in T
  <2> DEFINE M == Pow2[n]
  <2>1. PICK u \in Int, v \in Int : Jumps(n, u, v)
    BY <1>2
  <2>2. M \in Nat \ {0} /\ Pow2[n + 1] = 2 * M /\ 2 * M = M + M
    BY Pow2Facts
  <2> DEFINE A == 1 + 4 * M * u
             C == M * (2 * v + 1)
             uu == u + 2 * M * u * u
             vv == v + M * u * (2 * v + 1)
  <2>3. ASSUME NEW s \in Int
        PROVE  \E w \in Int : StatesFrom(s)[Pow2[n + 1]] =
                                s * (1 + 4 * Pow2[n + 1] * uu) + Pow2[n + 1] * (2 * vv + 1) + N * w
    <3> DEFINE t == StatesFrom(s)[M]
    <3>1. t \in Int /\ StatesFrom(s)[M + M] = StatesFrom(t)[M]
      BY <2>2, StatesFromFacts, StatesShift
    <3>2. PICK x \in Int : t = s * A + C + N * x
      BY <2>1 DEF Jumps
    <3>3. PICK y \in Int : StatesFrom(t)[M] = t * A + C + N * y
      BY <2>1, <3>1 DEF Jumps
    <3>4. StatesFrom(s)[Pow2[n + 1]] = (s * A + C + N * x) * A + C + N * y
      BY <2>2, <3>1, <3>2, <3>3
    <3>5. \A a, b, c, d, e, f, g \in Int :
            (a * (1 + 4 * b * c) + b * (2 * d + 1) + e * f) * (1 + 4 * b * c) + b * (2 * d + 1) + e * g
              = a * (1 + 4 * (2 * b) * (c + 2 * b * c * c))
                  + (2 * b) * (2 * (d + b * c * (2 * d + 1)) + 1)
                  + e * (f * (1 + 4 * b * c) + g)
      OBVIOUS
    <3> HIDE DEF M, N
    <3>6. (s * A + C + N * x) * A + C + N * y
            = s * (1 + 4 * (2 * M) * uu) + (2 * M) * (2 * vv + 1) + N * (x * A + y)
      BY <1>n, <2>2, <3>5
    <3>7. x * A + y \in Int
      BY <2>2
    <3>8. QED
      BY <2>2, <3>4, <3>6, <3>7
  <2>4. uu \in Int /\ vv \in Int
    BY <2>2
  <2> HIDE DEF uu, vv
  <2>5. QED
    BY <2>3, <2>4 DEF Jumps
<1> HIDE DEF T
<1>3. Nat \subseteq T
  BY <1>1, <1>2, Induction
<1>4. QED
  BY <1>3 DEF T

\* The generator has a full period: within 2^k steps it meets every residue modulo 2^k.
LEMMA FullPeriod ==
  ASSUME NEW s \in Int, NEW r \in Int
  PROVE  \E n \in 0..(Pow2[Bits] - 1), q \in Int : StatesFrom(s)[n] = r + Pow2[Bits] * q
<1> DEFINE Meets(k) == \E n \in 0..(Pow2[k] - 1), q \in Int : StatesFrom(s)[n] = r + Pow2[k] * q
           T == {k \in Nat : k <= Bits => Meets(k)}
<1>1. 0 \in T
  <2>1. Pow2[0] = 1 /\ StatesFrom(s)[0] = s
    BY Pow2Facts, StatesFromFacts
  <2>2. s - r \in Int /\ s = r + 1 * (s - r) /\ 0 \in 0..(1 - 1)
    OBVIOUS
  <2>3. QED
    BY <2>1, <2>2
<1>2. ASSUME NEW k \in Nat, k \in T
      PROVE  k + 1 \in T
  <2>1. SUFFICES ASSUME k + 1 <= Bits
                 PROVE  Meets(k + 1)
    OBVIOUS
  <2> DEFINE M == Pow2[k]
  <2>2. M \in Nat \ {0} /\ Pow2[k + 1] = 2 * M
    BY Pow2Facts
  <2>3. PICK h \in Int : Pow2[Bits] = (2 * M) * h
    <3>1. Bits - (k + 1) \in Nat /\ (k + 1) + (Bits - (k + 1)) = Bits /\ k + 1 \in Nat
      BY <2>1, GeneratorAssumption
    <3>2. Pow2[(k + 1) + (Bits - (k + 1))] = Pow2[k + 1] * Pow2[Bits - (k + 1)]
      BY <3>1, Pow2Sum
    <3>3. Pow2[Bits - (k + 1)] \in Int
      BY <3>1, Pow2Facts
    <3>4. QED
      BY <2>2, <3>1, <3>2, <3>3
  <2>4. PICK n \in 0..(M - 1), q \in Int : StatesFrom(s)[n] = r + M * q
    BY <1>2, <2>1, GeneratorAssumption
  <2>5. PICK u \in Int, v \in Int : Jumps(k, u, v)
    BY JumpFacts
  <2>6. PICK p \in Int : q = 2 * p \/ q = 2 * p + 1
    <3>1. q = 2 * (q \div 2) + (q % 2) /\ q % 2 \in 0..(2 - 1) /\ q \div 2 \in Int
      BY DivMod
    <3>2. q = 2 * (q \div 2) \/ q = 2 * (q \div 2) + 1
      BY <3>1
    <3>3. QED
      BY <3>1, <3>2
  <2>7. CASE q = 2 * p
    <3>1. n \in 0..(2 * M - 1) /\ r + M * q = r + (2 * M) * p
      BY <2>2, <2>7
    <3>2. QED
      BY <2>2, <2>4, <3>1
  <2>8. CASE q = 2 * p + 1
    <3> DEFINE x == StatesFrom(s)[n]
    <3>0. n \in Nat
      BY <2>2
    <3>1. x \in Int /\ n \in Nat /\ StatesFrom(s)[n + M] = StatesFrom(x)[M]
      <4>1. x \in Int
        BY <3>0, StatesFromFacts
      <4>2. StatesFrom(s)[n + M] = StatesFrom(x)[M]
        BY <2>2, <3>0, StatesShift
      <4>3. QED
        BY <3>0, <4>1, <4>2
    <3>2. PICK w \in Int :
            StatesFrom(x)[M] = x * (1 + 4 * M * u) + M * (2 * v + 1) + Pow2[Bits] * w
      BY <2>5, <3>1 DEF Jumps
    <3> HIDE DEF x
    <3>3. x = r + M * (2 * p + 1)
      BY <2>4, <2>8 DEF x
    <3>4. \A a, b, c, d, e, f, g, i \in Int :
            a = e + b * (2 * f + 1) =>
              a * (1 + 4 * b * c) + b * (2 * d + 1) + ((2 * b) * g) * i
                = e + (2 * b) * (f + d + 1 + 2 * a * c + g * i)
      OBVIOUS
    <3> DEFINE z == p + v + 1 + 2 * x * u + h * w
    <3>5. StatesFrom(s)[n + M] = r + (2 * M) * z
      <4>1. x * (1 + 4 * M * u) + M * (2 * v + 1) + ((2 * M) * h) * w = r + (2 * M) * z
        BY <2>2, <3>1, <3>3, <3>4
      <4>2. QED
        BY <2>3, <3>1, <3>2, <4>1
    <3>6. z \in Int /\ n + M \in 0..(2 * M - 1)
      BY <2>2, <3>1
    <3> HIDE DEF z
    <3>7. QED
      BY <2>2, <3>5, <3>6
  <2>9. QED
    BY <2>6, <2>7, <2>8
<1> HIDE DEF T
<1>3. Nat \subseteq T
  BY <1>1, <1>2, Induction
<1>4. Bits \in Nat
  BY GeneratorAssumption
<1>5. QED
  BY <1>3, <1>4 DEF T

\* The powers of two grow.
LEMMA Pow2Grows ==
  ASSUME NEW k \in Nat, NEW j \in Nat, k <= j
  PROVE  Pow2[k] <= Pow2[j]
<1>1. j - k \in Nat /\ k + (j - k) = j
  OBVIOUS
<1>2. Pow2[k + (j - k)] = Pow2[k] * Pow2[j - k]
  BY <1>1, Pow2Sum
<1>3. Pow2[k] \in Nat \ {0} /\ Pow2[j - k] \in Nat \ {0}
  BY <1>1, Pow2Facts
<1>4. \A a, b \in Nat \ {0} : a <= a * b
  OBVIOUS
<1>5. QED
  BY <1>1, <1>2, <1>3, <1>4

\* The loop of next_int ends, within the period of the generator, for every bound a
\* draw can name: it meets an output that is kept from every state.  For a bound between
\* 2^Drawn and 2^(Drawn + 1) every output is rejected, and the loop goes on for ever.
THEOREM DrawsEnd ==
  ASSUME NEW state \in Int, NEW bound \in Nat \ {0}
  PROVE  /\ bound <= Pow2[Drawn] => next_int(state, bound) # {}
         /\ Pow2[Drawn] < bound /\ bound < Pow2[Drawn + 1] => next_int(state, bound) = {}
<1> DEFINE P == Pow2[Drawn]
           after == StatesFrom(state)
           bits(k) == next_bits(after[k - 1])
           N == Pow2[Bits]
<1>1. /\ P \in Nat \ {0} /\ N \in Nat \ {0} /\ Pow2[Bits - Drawn] \in Nat \ {0}
      /\ Drawn \in Nat /\ Pow2[Drawn + 1] = 2 * P
  BY NextStateFacts, Pow2Facts, GeneratorAssumption
<1>2. \A k \in 1..N : bits(k) = OutputOf(state, k) /\ bits(k) \in 0..(P - 1)
  <2>1. \A k \in 1..N : k \in Nat \ {0}
    BY <1>1
  <2>2. QED
    BY <2>1, OutputFacts
<1> HIDE DEF bits
<1>3. ASSUME bound <= P
      PROVE  next_int(state, bound) # {}
  <2>1. CASE PowerOfTwo(bound)
    BY <2>1 DEF next_int, FastPath
  <2>2. CASE ~ PowerOfTwo(bound)
    <3>1. PICK n \in 0..(N - 1), q \in Int : StatesFrom(after[1])[n] = 0 + N * q
      <4>1. after[1] \in Int /\ 0 \in Int
        BY StatesFromFacts
      <4> HIDE DEF after
      <4>2. QED
        BY <4>1, FullPeriod
    <3>2. n \in Nat /\ 1 + n \in 1..N /\ 1 + n \in Nat \ {0}
      BY <1>1
    <3>3. after[1 + n] = N * q
      <4>1. after[1 + n] = StatesFrom(after[1])[n]
        BY <3>2, StatesShift
      <4>2. QED
        BY <1>1, <3>1, <4>1
    <3>4. after[1 + n] = NextState(after[n]) /\ after[n] \in Int
      <4>1. after[n + 1] = NextState(after[n]) /\ after[n] \in Int
        BY <3>2, StatesFromFacts
      <4>2. QED
        BY <3>2, <4>1
    <3>5. after[1 + n] = 0
      <4>1. N * q \in 0..(N - 1)
        BY <3>3, <3>4, NextStateFacts
      <4>2. \A a \in Nat \ {0}, b \in Int : /\ b >= 1 => a * b >= a
                                            /\ b <= -1 => a * b < 0
        OBVIOUS
      <4>3. q = 0
        BY <1>1, <4>1, <4>2
      <4>4. QED
        BY <1>1, <3>3, <4>3
    <3>6. bits(1 + n) = 0
      <4>1. OutputOf(state, 1 + n) = 0
        BY <1>1, <3>5 DEF OutputOf
      <4>2. QED
        BY <1>2, <3>2, <4>1
    <3>7. ~ Rejects(bits(1 + n), bound)
      <4>1. P % bound \in 0..(bound - 1)
        <5>1. P \in Int
          BY <1>1
        <5>2. QED
          BY <5>1, DivMod
      <4>2. ~ (0 >= P - (P % bound)) /\ 0 \in 0..(P - 1)
        BY <1>1, <1>3, <4>1
      <4>3. QED
        BY <1>3, <3>6, <4>2, RejectsFacts
    <3> DEFINE kept == {k \in 1..N : ~ Rejects(bits(k), bound)}
    <3>8. kept \subseteq Nat /\ kept # {}
      BY <1>1, <3>2, <3>7
    <3>9. PICK m \in kept : \A k \in kept : m <= k
      BY <3>8, LeastElement
    <3>10. \A j \in 1..(m - 1) : Rejects(bits(j), bound)
      <4>1. SUFFICES ASSUME NEW j \in 1..(m - 1)
                     PROVE  Rejects(bits(j), bound)
        OBVIOUS
      <4>2. j \in 1..N /\ ~ (m <= j)
        BY <1>1, <3>9
      <4>3. QED
        BY <3>9, <4>2
    <3>11. [state |-> after[m], index |-> bits(m) % bound] \in FirstAccepted(state, bound)
      BY <3>9, <3>10 DEF FirstAccepted, bits
    <3>12. QED
      BY <2>2, <3>11 DEF next_int
  <2>3. QED
    BY <2>1, <2>2
<1>4. ASSUME P < bound, bound < Pow2[Drawn + 1]
      PROVE  next_int(state, bound) = {}
  <2>1. ~ PowerOfTwo(bound)
    <3>1. SUFFICES ASSUME NEW k \in Nat, bound = Pow2[k]
                   PROVE  FALSE
      BY DEF PowerOfTwo
    <3>2. CASE k <= Drawn
      BY <1>1, <1>4, <3>1, <3>2, Pow2Grows
    <3>3. CASE ~ (k <= Drawn)
      <4>1. Drawn + 1 \in Nat /\ Drawn + 1 <= k
        BY <1>1, <3>3
      <4>2. Pow2[Drawn + 1] <= Pow2[k]
        BY <4>1, Pow2Grows
      <4>3. QED
        BY <1>1, <1>4, <3>1, <4>2
    <3>4. QED
      BY <3>2, <3>3
  <2>2. \A x \in 0..(P - 1) : Rejects(x, bound)
    <3>1. SUFFICES ASSUME NEW x \in 0..(P - 1)
                   PROVE  Rejects(x, bound)
      OBVIOUS
    <3>2. x % bound = x
      BY <1>1, <1>4
    <3>3. x - (x % bound) + (bound - 1) = bound - 1
      BY <1>1, <3>2
    <3>4. (bound - 1) % (2 * P) = bound - 1 /\ bound - 1 >= P
      BY <1>1, <1>4
    <3>5. to_int32(bound - 1) < 0
      BY <1>1, <1>4, <3>4 DEF to_int32
    <3>6. QED
      BY <3>3, <3>5 DEF Rejects
  <2>3. \A k \in 1..N : Rejects(bits(k), bound)
    BY <1>2, <2>2
  <2>4. FirstAccepted(state, bound) = {}
    BY <2>3 DEF FirstAccepted, bits
  <2>5. QED
    BY <2>1, <2>4 DEF next_int
<1>5. QED
  BY <1>3, <1>4

-----------------------------------------------------------------------------
(* The start of the window, and the theorems. *)

\* The loader lets no phase pass that has not what the workers need of it.
LEMMA LoadedPhase ==
  ASSUME Init
  PROVE  PhaseInv
<1>1. PICK p \in Configs : phase = parse_phase(p) /\ parse_phase(p) # None
  BY DEF Init
<1>2. /\ p.connections \in Number /\ p.pipeline_depth \in Number
      /\ p.completion.requests \in Number
      /\ p.keyspace.keys_count \in Number /\ p.keyspace.seed \in Number
      /\ DOMAIN p = {"connections", "pipeline_depth", "rps_limit", "completion", "keyspace",
                     "commands"}
  BY ConfigsAssumption
<1>3. /\ completion_validates(p.completion) /\ keyspace_validates(p.keyspace)
      /\ IF p.connections = None THEN FALSE ELSE p.connections >= 1
      /\ phase = [p EXCEPT !.pipeline_depth = IF @ = None \/ @ <= 0 THEN 1 ELSE @]
  BY <1>1 DEF parse_phase
<1>4. /\ phase.connections = p.connections /\ phase.completion = p.completion
      /\ phase.keyspace = p.keyspace
      /\ phase.pipeline_depth =
           IF p.pipeline_depth = None \/ p.pipeline_depth <= 0 THEN 1 ELSE p.pipeline_depth
  BY <1>2, <1>3
<1>5. phase.connections \in Nat \ {0} /\ phase.pipeline_depth \in Nat \ {0}
  BY <1>2, <1>3, <1>4 DEF Number
<1>6. /\ phase.keyspace.keys_count \in Nat \ {0} /\ phase.keyspace.seed \in Number
      /\ phase.keyspace.generation_alg \in {"sequential_int", "uniform_rand"}
  BY <1>2, <1>3, <1>4 DEF Number, keyspace_validates
<1>7. RequestBased => phase.completion.requests \in Nat \ {0}
  BY <1>2, <1>3, <1>4 DEF Number, completion_validates, RequestBased
<1>8. QED
  BY <1>5, <1>6, <1>7 DEF PhaseInv

\* Every task is in the queue once.
LEMMA AllReady ==
  ASSUME PhaseInv
  PROVE  LET queue == InOrder(phase)
         IN  /\ queue \in Seq(Task) /\ DOMAIN queue = 1..Cardinality(Task)
             /\ \A i, j \in DOMAIN queue : queue[i] = queue[j] => i = j
<1> DEFINE depth == phase.pipeline_depth
           connections == phase.connections
           queue == InOrder(phase)
           c(k) == (k - 1) \div depth
           d(k) == (k - 1) % depth
<1>1. depth \in Nat \ {0} /\ connections \in Nat \ {0} /\ Cardinality(Task) = connections * depth
  BY TaskFacts DEF PhaseInv
<1>2. queue = [k \in 1..(connections * depth) |-> <<1 + c(k), 1 + d(k)>>]
  BY DEF InOrder
<1>3. Task = (1..connections) \X (1..depth)
  BY DEF Task, Connections
<1> HIDE DEF depth, connections, queue
<1>4. ASSUME NEW k \in 1..(connections * depth)
      PROVE  /\ c(k) \in 0..(connections - 1) /\ d(k) \in 0..(depth - 1)
             /\ k - 1 = depth * c(k) + d(k)
  <2>1. connections * depth \in Nat /\ k - 1 \in Nat /\ k - 1 \in Int
        /\ k - 1 < connections * depth
    BY <1>1
  <2>2. (k - 1) \div depth \in 0..(connections - 1)
    BY <1>1, <2>1, DivBelow
  <2>3. /\ (k - 1) % depth \in 0..(depth - 1)
        /\ k - 1 = depth * ((k - 1) \div depth) + ((k - 1) % depth)
    BY <1>1, <2>1, DivMod
  <2>4. QED
    BY <2>2, <2>3
<1> HIDE DEF c, d
<1>5. connections * depth \in Nat
  BY <1>1
<1>6. \A k \in 1..(connections * depth) : <<1 + c(k), 1 + d(k)>> \in Task
  BY <1>1, <1>3, <1>4
<1>7. queue \in Seq(Task) /\ DOMAIN queue = 1..Cardinality(Task)
  BY <1>1, <1>2, <1>5, <1>6
<1>8. ASSUME NEW i \in DOMAIN queue, NEW j \in DOMAIN queue, queue[i] = queue[j]
      PROVE  i = j
  <2>1. i \in 1..(connections * depth) /\ j \in 1..(connections * depth)
    BY <1>2
  <2>2. 1 + c(i) = 1 + c(j) /\ 1 + d(i) = 1 + d(j)
    BY <1>2, <1>8, <2>1
  <2>3. c(i) \in Int /\ c(j) \in Int /\ d(i) \in Int /\ d(j) \in Int
    BY <1>1, <1>4, <2>1
  <2>4. c(i) = c(j) /\ d(i) = d(j)
    BY <2>2, <2>3
  <2>5. i - 1 = j - 1
    BY <1>4, <2>1, <2>4
  <2>6. QED
    BY <1>5, <2>1, <2>5
<1>9. QED
  BY <1>7, <1>8 DEF queue

\* At the start nothing is drawn.
LEMMA NothingDrawn ==
  ASSUME Init
  PROVE  Draws = {} /\ IsFiniteSet(Draws) /\ Sent = 0
<1>1. \A c \in Connections : DOMAIN drawn[c] = {}
  BY DEF Init
<1>2. Draws = {}
  BY <1>1 DEF Draws
<1>3. QED
  BY <1>2, FS_EmptySet DEF Sent

\* The invariant holds at the start.
LEMMA InitIInv ==
  ASSUME Init
  PROVE  IInv
<1>p. /\ PhaseInv /\ Task = Connections \X (1..phase.pipeline_depth)
      /\ IsFiniteSet(Task) /\ None \notin Task /\ Yield \in Nat \ {0}
      /\ \A t \in Task : t[1] \in Connections
      /\ \A c \in Connections : <<c, 1>> \in Task /\ c \in Int
  BY LoadedPhase, TaskFacts, WorkersAssumption DEF Task, Connections, PhaseInv
<1>q. /\ ready \in Seq(Task) /\ DOMAIN ready = 1..Cardinality(Task)
      /\ \A i, j \in DOMAIN ready : ready[i] = ready[j] => i = j
  BY <1>p, AllReady DEF Init
<1>d. Draws = {} /\ IsFiniteSet(Draws) /\ Sent = 0
  BY NothingDrawn
<1>s. \A c \in Connections : initial_scramble(seed_base + c - 1) \in Int
  <2>1. seed_base \in Int
    BY <1>p DEF seed_base, PhaseInv, Number
  <2>2. \A c \in Connections : c \in Int
    BY <1>p
  <2>3. \A c \in Connections : seed_base + c - 1 \in Int
    BY <2>1, <2>2
  <2>4. QED
    BY <2>3, ScrambleFacts
<1>r. \A i \in DOMAIN ready : ready[i] \in Task
  <2>1. ready \in Seq(Task)
    BY <1>q
  <2>2. QED
    BY <2>1
<1>1. TypeInv
  <2>1. generators \in [Task -> Int]
    <3>1. \A t \in Task : initial_scramble(seed_base + t[1] - 1) \in Int
      BY <1>p, <1>s
    <3>2. QED
      BY <3>1 DEF Init
  <2>2. sockets \in [Pools -> Int]
    <3>1. Primed(phase, driver) \in Int
      BY <1>p DEF Primed, sockets_per_client, PhaseInv
    <3>2. QED
      BY <3>1 DEF Init
  <2>3. /\ driver \in Drivers /\ running \in Task \cup {None} /\ at \in [Task -> Places]
        /\ DOMAIN asked = Task /\ DOMAIN failures = Task /\ budget \in Nat /\ counter \in Nat
        /\ overtaken \in [Task -> Nat]
    BY DEF Init, Places
  <2>4. unyielded \in [Task -> 0..(Yield - 1)]
    BY <1>p DEF Init
  <2>5. drawn \in [Connections -> Seq(Nat)]
    BY DEF Init
  <2>6. QED
    BY <1>p, <1>q, <2>1, <2>2, <2>3, <2>4, <2>5 DEF TypeInv
<1>2. QueueInv
  <2>1. running = None /\ \A t \in Task : at[t] = "loop"
    BY DEF Init
  <2>2. \A i \in DOMAIN ready : at[ready[i]] = "loop" /\ ready[i] # running
    BY <1>p, <1>r, <2>1
  <2>3. QED
    BY <1>q, <2>1, <2>2 DEF QueueInv
<1>3. TurnInv
  <2>1. SUFFICES ASSUME NEW i \in DOMAIN ready
                 PROVE  overtaken[ready[i]] + Remaining <= Bound(i - 1)
    BY DEF TurnInv
  <2>2. overtaken[ready[i]] = 0 /\ Remaining = 0
    BY <1>r DEF Init, Remaining
  <2>3. Cardinality(Task) \in Nat /\ i \in 1..Cardinality(Task)
    BY <1>p, <1>q, FS_CardinalityType
  <2>4. Cardinality(Task) - 1 - (i - 1) \in Nat
    BY <2>3
  <2>5. \A a, b \in Nat : 0 <= a * b
    OBVIOUS
  <2>6. 0 <= Bound(i - 1)
    BY <1>p, <2>4, <2>5 DEF Bound
  <2>7. QED
    BY <2>2, <2>6
<1>4. SocketsAsReported
  <2>1. /\ sockets_per_client(phase, driver) \in Int
        /\ 0 <= sockets_per_client(phase, driver)
    BY <1>p DEF sockets_per_client, PhaseInv
  <2>2. \A q \in Pools : sockets[q] \in {0, sockets_per_client(phase, driver)}
    BY DEF Init, Primed
  <2>3. ASSUME nodes = 1, NEW q \in Pools
        PROVE  sockets[q] = sockets_per_client(phase, driver)
    <3>1. q[2] = 1 /\ 1 \in Connected
      BY <2>3 DEF Pools, Connected
    <3>2. QED
      BY <3>1 DEF Init, Primed
  <2>4. QED
    BY <2>1, <2>2, <2>3 DEF SocketsAsReported
<1>5. BudgetInv
  <2>1. Claimed = {} /\ budget = 0 /\ status = None /\ \A t \in Task : at[t] # "done"
    BY DEF Init, Claimed
  <2>2. Cardinality(Claimed) = 0
    BY <2>1, FS_EmptySet
  <2>3. RequestBased => phase.completion.requests \in Nat
    BY <1>p DEF PhaseInv
  <2>4. QED
    BY <1>d, <2>1, <2>2, <2>3 DEF BudgetInv
<1>6. PopulateInv
  BY <1>d DEF Init, PopulateInv
<1>7. StreamInv
  <2>1. SUFFICES ASSUME NEW c \in Connections
                 PROVE  StreamOf(c)
    BY DEF StreamInv, StreamOf
  <2> DEFINE first == initial_scramble(seed_base + c - 1)
  <2>2. drawn[c] = <<>> /\ Len(drawn[c]) = 0 /\ Pow2[Bits] \in Nat
    BY NextStateFacts DEF Init
  <2>3. Kept(c, 0) = {}
    BY DEF Kept
  <2>4. DrawnFrom(c, 0)
    BY <2>2, <2>3, FS_EmptySet DEF DrawnFrom
  <2>5. generators[<<c, 1>>] = first
    <3>1. \A t \in Task : generators[t] = initial_scramble(seed_base + t[1] - 1)
      BY DEF Init
    <3>2. <<c, 1>> \in Task /\ <<c, 1>>[1] = c
      BY <1>p
    <3>3. QED
      BY <3>1, <3>2
  <2>6. StatesFrom(first)[0] = first
    <3>1. first \in Int
      BY <1>s
    <3>2. QED
      BY <3>1, StatesFromFacts
  <2>7. 0 \in 0..(Len(drawn[c]) * Pow2[Bits])
    BY <2>2
  <2>8. QED
    BY <2>4, <2>5, <2>6, <2>7 DEF StreamOf
<1>8. CountInv
  <2>1. SUFFICES ASSUME NEW k
                 PROVE  Times(k) = Cardinality({i \in 0..(Sent - 1) :
                                                  i % phase.keyspace.keys_count = k})
    BY DEF CountInv
  <2>2. {d \in Draws : drawn[d[1]][d[2]] = k} = {}
        /\ {i \in 0..(Sent - 1) : i % phase.keyspace.keys_count = k} = {}
    BY <1>d
  <2>3. QED
    BY <2>2 DEF Times
<1>9. QED
  BY <1>1, <1>2, <1>3, <1>4, <1>5, <1>6, <1>7, <1>8 DEF IInv

\* Every step keeps it.
LEMMA StepIInv ==
  ASSUME IInv, [Next]_vars
  PROVE  IInv'
BY TypeStep, QueueStep, TurnStep, SocketStep, BudgetStep, PopulateStep, StreamStep, CountStep
   DEF IInv

\* The workers keep the invariant.
THEOREM Invariance == Spec => []IInv
<1>1. Init => IInv
  BY InitIInv
<1>2. IInv /\ [Next]_vars => IInv'
  BY StepIInv
<1>3. QED
  BY <1>1, <1>2, PTL DEF Spec

\* No task monopolises the event loop: while a task waits for its turn every other
\* task records at most Yield requests, whatever the driver and however many of
\* them never suspend (the asyncio.sleep(0) of the worker).
THEOREM NobodyMonopolises == Spec => []NoMonopoly
<1>1. IInv => NoMonopoly
  BY TurnsAreShort DEF IInv
<1>2. QED
  BY <1>1, Invariance, PTL

\* Where there is one server no client opens a socket in the measured window unless
\* a request failed, and none ever has more than the row of the phase says
\* (sockets_per_client, prime()); in a cluster no node has more of a client.
THEOREM SocketsStayAsReported == Spec => []SocketsAsReported
<1>1. IInv => SocketsAsReported
  BY DEF IInv
<1>2. QED
  BY <1>1, Invariance, PTL

\* A COMPLETED populate phase has stored every key, unless a SET of it failed: the
\* shared counter deals out all residues, and no slot of the budget is lost.
THEOREM PopulateLeavesNoKeyOut == Spec => []PopulateComplete
<1>1. IInv => PopulateComplete
  BY NoKeyLeftOut DEF IInv
<1>2. QED
  BY <1>1, Invariance, PTL

\* The keys of a phase depend neither on its depth nor on the order in which the
\* tasks run: uniform ones are the first of the stream of java.util.Random for the
\* seed of the connection, sequential ones count up over all connections.
THEOREM KeysAreReproducible == Spec => []KeysOfPhase
<1>1. IInv => KeysOfPhase
  BY DEF IInv, TypeInv, PhaseInv, StreamInv, CountInv, KeysOfPhase, Times, Sequential
<1>2. QED
  BY <1>1, Invariance, PTL
=============================================================================
