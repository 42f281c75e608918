----------------------------- MODULE LockLimiter -----------------------------
(***************************************************************************)
(* The rate limiter of the Go engine (RateLimiter.Acquire): the test and   *)
(* the advance of nextAllowed are one critical section.  The Python, Node  *)
(* and PHP engines have the same algorithm without the lock, their test    *)
(* and advance being atomic for want of an await or of a second thread.    *)
(*                                                                         *)
(* Sleeps last by the monotonic clock.  The limiter reads `Wall`: in Go    *)
(* that is time.Now().UnixNano(), the wall clock, which an administrator   *)
(* or NTP may step; with MaxStep = 0 it is the monotonic clock the other   *)
(* engines read.                                                           *)
(***************************************************************************)
EXTENDS LimiterParameters, Integers, Sequences

CONSTANT MaxStep \* how far the wall clock may be stepped, once

VARIABLES
  clock,         \* monotonic time since the creation of the limiter
  skew,          \* wall clock minus monotonic clock
  nextAllowed,   \* guarded by the mutex
  pc,            \* per worker: "out", "try", "asleep"
  until,         \* per worker: when its sleep is over, monotonic
  times          \* history: when each permission was given, in order

vars == <<clock, skew, nextAllowed, pc, until, times>>

GoTo(w, s) == pc' = [pc EXCEPT ![w] = s]

\* nowNanos()
Wall == clock + skew

Init ==
  /\ clock = 0
  /\ skew = 0
  /\ nextAllowed = Wall
  /\ pc = [w \in Workers |-> "out"]
  /\ until = [w \in Workers |-> 0]
  /\ times = <<>>

\* Plausible bugs: sleeping for the absolute time; returning after the sleep
\* without taking the slot.
SleepAbsolute(w) ==
  /\ pc[w] = "try"
  /\ Wall < nextAllowed
  /\ until' = [until EXCEPT ![w] = clock + nextAllowed]
  /\ GoTo(w, "asleep")
  /\ UNCHANGED <<clock, skew, nextAllowed, times>>

WakeAndReturn(w) ==
  /\ pc[w] = "asleep"
  /\ clock >= until[w]
  /\ times' = Append(times, clock)
  /\ GoTo(w, "out")
  /\ UNCHANGED <<clock, skew, nextAllowed, until>>

\* A worker calls Acquire().
Call(w) ==
  /\ pc[w] = "out"
  /\ GoTo(w, "try")
  /\ UNCHANGED <<clock, skew, nextAllowed, until, times>>

\* The critical section, the slot being due: take it.
Take(w) ==
  /\ pc[w] = "try"
  /\ Wall >= nextAllowed
  /\ nextAllowed' = nextAllowed + Interval
  /\ times' = Append(times, clock)
  /\ GoTo(w, "out")
  /\ UNCHANGED <<clock, skew, until>>

\* The critical section, the slot not being due: sleep for what is missing.
Sleep(w) ==
  /\ pc[w] = "try"
  /\ Wall < nextAllowed
  /\ until' = [until EXCEPT ![w] = clock + (nextAllowed - Wall)]
  /\ GoTo(w, "asleep")
  /\ UNCHANGED <<clock, skew, nextAllowed, times>>

Wake(w) ==
  /\ pc[w] = "asleep"
  /\ clock >= until[w]
  /\ GoTo(w, "try")
  /\ UNCHANGED <<clock, skew, nextAllowed, until, times>>

Tick ==
  /\ clock < MaxTime
  /\ clock' = clock + 1
  /\ UNCHANGED <<skew, nextAllowed, pc, until, times>>

\* The wall clock is stepped, by at most MaxStep either way.
StepWall ==
  /\ skew = 0
  /\ skew' \in -MaxStep..MaxStep
  /\ UNCHANGED <<clock, nextAllowed, pc, until, times>>

Acquire(w) ==
  \/ Call(w)
  \/ Take(w)
  \/ Sleep(w)
  \/ Wake(w)

Next == Tick \/ StepWall \/ \E w \in Workers : Acquire(w)

Spec == Init /\ [][Next]_vars

-----------------------------------------------------------------------------
(* Properties. *)

\* A caller sleeps until the next slot: a step of the wall clock makes it wait
\* longer by no more than the step, and with a monotonic clock never for more
\* than one slot.
WaitBounded ==
  \A w \in Workers : pc[w] = "asleep" =>
    until[w] - clock <= Interval + (IF skew = 0 THEN 0 ELSE MaxStep)
=============================================================================
