------------------------------ MODULE KeyStream ------------------------------
(***************************************************************************)
(* Which keys and commands a connection of the Python engine asks for:     *)
(* engine/key_generator.py over engine/java_random.py (a port of           *)
(* java.util.Random, so that all engines draw the same keys), and          *)
(* engine/command_selector.py.                                             *)
(*                                                                         *)
(* A key is its index: the text is the prefix and the index in at least    *)
(* max(key_size_bytes - len(prefix), 1) digits, hence another text for     *)
(* another index.  Bits, Drawn and the multiplier are parameters so that   *)
(* a whole period of the generator can be enumerated.                      *)
(***************************************************************************)
EXTENDS Integers, Sequences, FiniteSetsExt

CONSTANTS
  Bits,          \* the state has this many bits; 48 in the code
  Drawn,         \* bits of a draw; 31 in the code, so that int32 has one more
  Multiplier,    \* 0x5DEECE66D
  Addend         \* 0xB

ASSUME GeneratorAssumption ==
  /\ Bits \in Nat /\ Drawn \in 1..Bits
  /\ Multiplier \in Nat /\ Multiplier % 4 = 1    \* a full period, as the code's
  /\ Addend \in Nat /\ Addend % 2 = 1

Pow2[n \in Nat] == IF n = 0 THEN 1 ELSE 2 * Pow2[n - 1]

\* The value in the low Drawn + 1 bits, as a signed integer.
to_int32(value) ==
  LET low == value % Pow2[Drawn + 1]
  IN  IF low >= Pow2[Drawn] THEN low - Pow2[Drawn + 1] ELSE low

\* seed ^ Multiplier, the low Bits bits of it.
initial_scramble(seed) ==
  LET bit(x, n) == (x \div Pow2[n]) % 2
      low[n \in Nat] == IF n = 0 THEN 0
                       ELSE low[n - 1] + Pow2[n - 1] * ((bit(seed, n - 1) + bit(Multiplier, n - 1)) % 2)
  IN  low[Bits]

NextState(state) == (state * Multiplier + Addend) % Pow2[Bits]
next_bits(state) == NextState(state) \div Pow2[Bits - Drawn]

\* The states that follow one another.
StatesFrom(state) ==
  LET after[n \in Nat] == IF n = 0 THEN state ELSE NextState(after[n - 1])
  IN  after

PowerOfTwo(bound) == \E k \in 0..bound : bound = Pow2[k]

\* A draw of the incomplete last block wraps around int32 and is rejected.
Rejects(bits, bound) == to_int32(bits - (bits % bound) + (bound - 1)) < 0

\* A bound that is no power of two: the first draw that is not rejected.
FirstAccepted(state, bound) ==
  LET after == StatesFrom(state)
      bits(n) == next_bits(after[n - 1])
  IN  {[state |-> after[n], index |-> bits(n) % bound]
         : n \in {k \in 1..Pow2[Bits] : /\ ~Rejects(bits(k), bound)
                                       /\ \A j \in 1..(k - 1) : Rejects(bits(j), bound)}}

FastPath(state, bound) ==
  {[state |-> NextState(state), index |-> (bound * next_bits(state)) \div Pow2[Drawn]]}

\* Plausible bug: integers of any width, where no sum ever turns negative.
NextIntUnbounded(state, bound) ==
  IF PowerOfTwo(bound) THEN FastPath(state, bound)
  ELSE {[state |-> NextState(state), index |-> next_bits(state) % bound]}

\* What a call returns: one result, or none if the loop rejects every state
\* there is and goes on for ever.
next_int(state, bound) ==
  IF PowerOfTwo(bound) THEN FastPath(state, bound) ELSE FirstAccepted(state, bound)

\* Counter.next_value() for sequential keys, the generator for uniform ones.
next_key(keyspace, counter, state) ==
  IF keyspace.generation_alg = "sequential_int"
  THEN {[index |-> counter % keyspace.keys_count, counter |-> counter + 1, state |-> state]}
  ELSE {[index |-> draw.index % keyspace.keys_count, counter |-> counter, state |-> draw.state]
          : draw \in next_int(state, keyspace.keys_count)}

\* Weights are integers here; a negative one is accepted when the sum is positive.
cumulative_weights(commands) ==
  [k \in DOMAIN commands |-> MapThenSumSet(LAMBDA j : commands[j].weight, 1..k)]

\* The commands that select() may return: the first whose cumulative weight
\* reaches a real number drawn from 0 up to but not including the total.  That is
\* a command that reaches further than all before it, below the total, or the
\* first that reaches 0, even with weight 0: the number may be exactly 0.
Selectable(commands) ==
  LET upTo == cumulative_weights(commands)
      reached(k) == {upTo[j] : j \in 1..(k - 1)}
      drawsZero(k) == upTo[k] >= 0 /\ \A x \in reached(k) : x < 0
      drawsMore(k) == \A x \in reached(k) \cup {0} : x < upTo[k] /\ x < upTo[Len(upTo)]
  IN  {commands[k].command : k \in {j \in DOMAIN upTo : drawsZero(j) \/ drawsMore(j)}}
=============================================================================
