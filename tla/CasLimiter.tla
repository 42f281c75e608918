----------------------------- MODULE CasLimiter -----------------------------
(***************************************************************************)
(* The lock-free rate limiter of the Java engine (RateLimiter.acquire),    *)
(* which the Ruby and C# engines repeat (C# sleeps whole milliseconds and  *)
(* spins through the rest).  The workers of a phase share the atomic       *)
(* `nextAllowed`; each reads the clock, then the atomic, and either claims *)
(* the slot with compareAndSet or sleeps until it is due.                  *)
(*                                                                         *)
(* Time is measured from the creation of the limiter.                      *)
(***************************************************************************)
EXTENDS LimiterParameters, Sequences

VARIABLES
  clock,         \* System.nanoTime()
  nextAllowed,   \* AtomicLong nextAllowedNanos
  pc,            \* per worker: "out", "clock", "next", "cas", "asleep"
  now,           \* per worker: its reading of the clock
  next,          \* per worker: its reading of nextAllowed
  until,         \* per worker: when its sleep is over
  times          \* history: when each permission was given, in order

vars == <<clock, nextAllowed, pc, now, next, until, times>>

GoTo(w, s) == pc' = [pc EXCEPT ![w] = s]

Init ==
  /\ clock = 0
  /\ nextAllowed = 0
  /\ pc = [w \in Workers |-> "out"]
  /\ now = [w \in Workers |-> 0]
  /\ next = [w \in Workers |-> 0]
  /\ until = [w \in Workers |-> 0]
  /\ times = <<>>

\* A worker calls acquire().
Call(w) ==
  /\ pc[w] = "out"
  /\ GoTo(w, "clock")
  /\ UNCHANGED <<clock, nextAllowed, now, next, until, times>>

\* long now = System.nanoTime()
ReadClock(w) ==
  /\ pc[w] = "clock"
  /\ now' = [now EXCEPT ![w] = clock]
  /\ GoTo(w, "next")
  /\ UNCHANGED <<clock, nextAllowed, next, until, times>>

\* long next = nextAllowedNanos.get(), and the comparison: claim or sleep for
\* the difference of the two readings.
ReadNext(w) ==
  /\ pc[w] = "next"
  /\ next' = [next EXCEPT ![w] = nextAllowed]
  /\ IF now[w] >= nextAllowed
       THEN /\ GoTo(w, "cas")
            /\ UNCHANGED until
       ELSE /\ GoTo(w, "asleep")
            /\ until' = [until EXCEPT ![w] = clock + (nextAllowed - now[w])]
  /\ UNCHANGED <<clock, nextAllowed, now, times>>

\* compareAndSet(next, next + intervalNanos) succeeded: acquire() returns.
CasWins(w) ==
  /\ pc[w] = "cas"
  /\ nextAllowed = next[w]
  /\ nextAllowed' = next[w] + Interval
  /\ times' = Append(times, clock)
  /\ GoTo(w, "out")
  /\ UNCHANGED <<clock, now, next, until>>

\* Another thread took the slot: start over.
CasLoses(w) ==
  /\ pc[w] = "cas"
  /\ nextAllowed # next[w]
  /\ GoTo(w, "clock")
  /\ UNCHANGED <<clock, nextAllowed, now, next, until, times>>

\* Thread.sleep returned, not before its time.
Wake(w) ==
  /\ pc[w] = "asleep"
  /\ clock >= until[w]
  /\ GoTo(w, "clock")
  /\ UNCHANGED <<clock, nextAllowed, now, next, until, times>>

Tick ==
  /\ clock < MaxTime
  /\ clock' = clock + 1
  /\ UNCHANGED <<nextAllowed, pc, now, next, until, times>>

Acquire(w) ==
  \/ Call(w)
  \/ ReadClock(w)
  \/ ReadNext(w)
  \/ CasWins(w)
  \/ CasLoses(w)
  \/ Wake(w)

Next == Tick \/ \E w \in Workers : Acquire(w)

Spec == Init /\ [][Next]_vars

-----------------------------------------------------------------------------
(* Properties. *)

\* Every permission belongs to a slot of its own, and none is given before its
\* slot, however the readings of the racing workers interleave.
NotBeforeSlot == \A i \in DOMAIN times : times[i] >= (i - 1) * Interval

\* No slot is lost and none is shared when workers collide: the atomic has
\* advanced by one interval for every permission.
SlotPerPermission == nextAllowed = Len(times) * Interval
=============================================================================
