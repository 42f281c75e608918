--------------------------- MODULE LimiterContract ---------------------------
(***************************************************************************)
(* What the rate limiters of the engines promise whatever their algorithm: *)
(* the limiter is created at time 0 with a slot every Interval, and the    *)
(* permission number k (from 0) is not given before its slot k * Interval. *)
(* So after t time units at most t / Interval + 1 operations went through. *)
(* A limiter whose clock can be stepped ahead, by up to Slack, is early by  *)
(* no more than that.                                                      *)
(*                                                                         *)
(* The contract says nothing of how far apart two permissions are: unused  *)
(* slots may be kept.                                                      *)
(***************************************************************************)
EXTENDS Naturals

CONSTANTS
  Interval,      \* 1_000_000_000 / rate, in clock units
  Slack          \* how far the clock the limiter reads may run ahead

VARIABLES clock, granted

vars == <<clock, granted>>

Init == clock = 0 /\ granted = 0

Grant ==
  /\ granted * Interval <= clock + Slack
  /\ granted' = granted + 1
  /\ UNCHANGED clock

Tick ==
  /\ clock' \in Nat /\ clock' > clock
  /\ UNCHANGED granted

Next == Grant \/ Tick

Spec == Init /\ [][Next]_vars
=============================================================================
