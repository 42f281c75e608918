--------------------------- MODULE ReserveLimiter ---------------------------
(***************************************************************************)
(* The rate limiter of the Rust engine (RateLimiter::acquire): a caller    *)
(* reserves a slot first, the later of the cursor and its own reading of   *)
(* the clock, by compare_exchange, and then sleeps until the slot.  A slot *)
(* that was not used in time is not kept.                                  *)
(*                                                                         *)
(* Time is measured from the limiter's `origin`.                           *)
(***************************************************************************)
EXTENDS LimiterParameters, Sequences, FiniteSetsExt

VARIABLES
  clock,         \* now_nanos()
  nextAllowed,   \* AtomicI64 next_allowed_nanos
  pc,            \* per worker: "out", "clock", "next", "cas", "asleep"
  now,           \* per worker: its reading of the clock
  next,          \* per worker: its reading of next_allowed_nanos
  until,         \* per worker: when its sleep is over
  slots,         \* history: the reserved slots, in the order of reservation
  granted        \* history: how many calls returned

vars == <<clock, nextAllowed, pc, now, next, until, slots, granted>>

GoTo(w, s) == pc' = [pc EXCEPT ![w] = s]

Init ==
  /\ clock = 0
  /\ nextAllowed = 0
  /\ pc = [w \in Workers |-> "out"]
  /\ now = [w \in Workers |-> 0]
  /\ next = [w \in Workers |-> 0]
  /\ until = [w \in Workers |-> 0]
  /\ slots = <<>>
  /\ granted = 0

\* Plausible bug: the slot ignores the cursor.
OwnSlot(w) == now[w]

\* A worker calls acquire().
Call(w) ==
  /\ pc[w] = "out"
  /\ GoTo(w, "clock")
  /\ UNCHANGED <<clock, nextAllowed, now, next, until, slots, granted>>

ReadClock(w) ==
  /\ pc[w] = "clock"
  /\ now' = [now EXCEPT ![w] = clock]
  /\ GoTo(w, "next")
  /\ UNCHANGED <<clock, nextAllowed, next, until, slots, granted>>

ReadNext(w) ==
  /\ pc[w] = "next"
  /\ next' = [next EXCEPT ![w] = nextAllowed]
  /\ GoTo(w, "cas")
  /\ UNCHANGED <<clock, nextAllowed, now, until, slots, granted>>

\* The slot this caller would reserve.
Slot(w) == Max({next[w], now[w]})

\* compare_exchange(next, slot + interval): the slot is reserved, and the
\* caller sleeps for slot - now.
Reserve(w) ==
  /\ pc[w] = "cas"
  /\ nextAllowed = next[w]
  /\ nextAllowed' = Slot(w) + Interval
  /\ slots' = Append(slots, Slot(w))
  /\ until' = [until EXCEPT ![w] = clock + (Slot(w) - now[w])]
  /\ GoTo(w, "asleep")
  /\ UNCHANGED <<clock, now, next, granted>>

\* Lost the race: retry with the updated cursor.
CasLoses(w) ==
  /\ pc[w] = "cas"
  /\ nextAllowed # next[w]
  /\ GoTo(w, "clock")
  /\ UNCHANGED <<clock, nextAllowed, now, next, until, slots, granted>>

\* The sleep is over (it was none when the slot was already due).
Return(w) ==
  /\ pc[w] = "asleep"
  /\ clock >= until[w]
  /\ granted' = granted + 1
  /\ GoTo(w, "out")
  /\ UNCHANGED <<clock, nextAllowed, now, next, until, slots>>

Tick ==
  /\ clock < MaxTime
  /\ clock' = clock + 1
  /\ UNCHANGED <<nextAllowed, pc, now, next, until, slots, granted>>

Acquire(w) ==
  \/ Call(w)
  \/ ReadClock(w)
  \/ ReadNext(w)
  \/ Reserve(w)
  \/ CasLoses(w)
  \/ Return(w)

Next == Tick \/ \E w \in Workers : Acquire(w)

Spec == Init /\ [][Next]_vars

-----------------------------------------------------------------------------
(* Properties. *)

\* Reserved slots are at least one interval apart: a stall does not leave a
\* backlog that a later burst could use up.
SlotsSpaced ==
  \A i \in 1..(Len(slots) - 1) : slots[i + 1] - slots[i] >= Interval
=============================================================================
