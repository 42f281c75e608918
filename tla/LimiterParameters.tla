-------------------------- MODULE LimiterParameters --------------------------
(* What the models of the rate limiters have in common: who calls them and  *)
(* the spacing of the slots, 1_000_000_000 / rate in clock units.           *)
EXTENDS Naturals

CONSTANTS
  Workers,       \* the threads, goroutines or tasks that call acquire()
  Interval,      \* the nanoseconds of a slot, in clock units
  MaxTime        \* bound on the clock

ASSUME IntervalAssumption == Interval \in Nat \ {0}
ASSUME MaxTimeAssumption == MaxTime \in Nat
=============================================================================
