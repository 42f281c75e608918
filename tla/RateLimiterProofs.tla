-------------------------- MODULE RateLimiterProofs --------------------------
(***************************************************************************)
(* Proofs about RateLimiters for every set of callers, every interval and  *)
(* every step of the wall clock: each of the three algorithms implements   *)
(* LimiterContract, the lock-free one has a slot for every permission, no  *)
(* caller of the Go limiter sleeps for more than a slot and the step, and  *)
(* the slots of the Rust limiter are an interval apart.                    *)
(*                                                                         *)
(* Where one shared value gives the slots (compareAndSet, lock), it is the *)
(* number of permissions times the interval.  Where callers reserve a slot *)
(* and sleep, they return in any order: the contract holds because the     *)
(* slots of those that have returned are distinct, due, and apart.         *)
(***************************************************************************)
EXTENDS RateLimiters, FiniteSetTheorems, TLAPS

-----------------------------------------------------------------------------
(* The inductive invariant. *)

TypeInv ==
  /\ limiter \in {"cas", "lock", "reserve"}
  /\ clock \in Nat /\ nextAllowed \in Nat /\ granted \in Nat
  /\ skew \in Int /\ -MaxStep <= skew /\ skew <= MaxStep
  /\ pc \in [Workers -> {"out", "clock", "next", "cas", "try", "asleep"}]
  /\ now \in [Workers -> Nat] /\ next \in [Workers -> Nat] /\ until \in [Workers -> Nat]
  /\ times \in Seq(Nat) /\ slots \in Seq(Nat)

\* A reading of the clock is never ahead of it.
ReadingInv == \A w \in Workers : now[w] <= clock

\* One slot per permission, which was not given before it; who is about to claim
\* has found the slot due.
CasInv ==
  limiter = "cas" =>
    /\ Cas!SlotPerPermission /\ Cas!NotBeforeSlot
    /\ \A w \in Workers : pc[w] = "cas" => next[w] <= now[w]

\* One slot per permission; the next one is an interval away at most, by the
\* clock that was furthest ahead.
LockInv ==
  limiter = "lock" =>
    /\ nextAllowed = Len(times) * Interval
    /\ nextAllowed <= clock + Interval + (IF skew > 0 THEN skew ELSE 0)
    /\ Lock!WaitBounded

\* The slot of a caller, as long as it sleeps: the later of its readings.
Later(w) == IF now[w] > next[w] THEN now[w] ELSE next[w]

\* The slots are an interval apart, the first no earlier than 0, and the
\* cursor is an interval past the last.
SlotsInv ==
  limiter = "reserve" =>
    /\ Len(slots) * Interval <= nextAllowed
    /\ \A i \in DOMAIN slots : /\ (i - 1) * Interval <= slots[i]
                               /\ slots[i] + Interval <= nextAllowed
    /\ \A i, j \in DOMAIN slots : i < j => slots[i] + Interval <= slots[j]

\* Each sleeper has a slot of its own and sleeps at least until then.
SleeperInv ==
  limiter = "reserve" =>
    \A w \in Workers : pc[w] = "asleep" =>
      /\ Later(w) <= until[w]
      /\ \E i \in DOMAIN slots : slots[i] = Later(w)
      /\ \A v \in Workers : pc[v] = "asleep" /\ Later(v) = Later(w) => v = w

\* The slots of the callers that have returned.
Returned ==
  {i \in DOMAIN slots : \A w \in Workers : pc[w] = "asleep" => Later(w) # slots[i]}

\* There are as many as there were permissions, and they are due.
ReturnedInv ==
  limiter = "reserve" =>
    /\ Cardinality(Returned) = granted
    /\ \A i \in Returned : slots[i] <= clock

IInv ==
  /\ TypeInv /\ ReadingInv /\ CasInv /\ LockInv
  /\ SlotsInv /\ SleeperInv /\ ReturnedInv

-----------------------------------------------------------------------------
(* Type correctness. *)

\* The later reading is what the Rust engine's max is.
LEMMA SlotIsLater ==
  ASSUME NEW w \in Workers, now[w] \in Nat, next[w] \in Nat
  PROVE  Reserve!Slot(w) = Later(w)
<1> DEFINE S == {next[w], now[w]}
<1>1. Later(w) \in S /\ \A y \in S : Later(w) >= y
  BY DEF Later
<1>2. \A x \in S : (\A y \in S : x >= y) => x = Later(w)
  BY <1>1
<1>3. Reserve!Max(S) = Later(w)
  BY <1>1, <1>2 DEF Reserve!Max
<1>4. QED
  BY <1>3 DEF Reserve!Slot

\* The steps of the compareAndSet limiter.
LEMMA TypeCas ==
  ASSUME TypeInv, Cas!Next, UNCHANGED <<limiter, skew, slots, granted>>
  PROVE  TypeInv'
<1> USE IntervalAssumption DEF TypeInv, Cas!GoTo
<1>1. ASSUME NEW w \in Workers, Cas!ReadNext(w)
      PROVE  TypeInv'
  <2>1. until' \in [Workers -> Nat]
    <3>1. CASE now[w] >= nextAllowed
      BY <1>1, <3>1 DEF Cas!ReadNext
    <3>2. CASE ~ (now[w] >= nextAllowed)
      <4>1. clock + (nextAllowed - now[w]) \in Nat
        BY <3>2
      <4>2. QED
        BY <1>1, <3>2, <4>1 DEF Cas!ReadNext
    <3>3. QED
      BY <3>1, <3>2
  <2>2. next' \in [Workers -> Nat] /\ now' \in [Workers -> Nat]
    BY <1>1 DEF Cas!ReadNext
  <2>3. pc' \in [Workers -> {"out", "clock", "next", "cas", "try", "asleep"}]
    BY <1>1 DEF Cas!ReadNext
  <2>4. QED
    BY <1>1, <2>1, <2>2, <2>3 DEF Cas!ReadNext
<1>2. ASSUME NEW w \in Workers, Cas!CasWins(w)
      PROVE  TypeInv'
  BY <1>2 DEF Cas!CasWins
<1>3. ASSUME NEW w \in Workers,
             Cas!Call(w) \/ Cas!ReadClock(w) \/ Cas!CasLoses(w) \/ Cas!Wake(w)
      PROVE  TypeInv'
  BY <1>3 DEF Cas!Call, Cas!ReadClock, Cas!CasLoses, Cas!Wake
<1>4. CASE Cas!Tick
  BY <1>4 DEF Cas!Tick
<1>5. QED
  BY <1>1, <1>2, <1>3, <1>4 DEF Cas!Next, Cas!Acquire

\* The steps of the limiter with a lock.
LEMMA TypeLock ==
  ASSUME TypeInv, Lock!Next, UNCHANGED <<limiter, now, next, slots, granted>>
  PROVE  TypeInv'
<1> USE IntervalAssumption, MaxStepAssumption DEF TypeInv, Lock!GoTo
<1>1. ASSUME NEW w \in Workers, Lock!Sleep(w)
      PROVE  TypeInv'
  <2>1. until' \in [Workers -> Nat]
    BY <1>1 DEF Lock!Sleep, Lock!Wall
  <2>2. pc' \in [Workers -> {"out", "clock", "next", "cas", "try", "asleep"}]
    BY <1>1 DEF Lock!Sleep
  <2>3. QED
    BY <1>1, <2>1, <2>2 DEF Lock!Sleep
<1>2. ASSUME NEW w \in Workers, Lock!Call(w) \/ Lock!Take(w) \/ Lock!Wake(w)
      PROVE  TypeInv'
  <2>1. nextAllowed' \in Nat /\ times' \in Seq(Nat)
    <3>1. CASE Lock!Take(w)
      BY <3>1 DEF Lock!Take
    <3>2. CASE UNCHANGED <<nextAllowed, times>>
      BY <3>2
    <3>3. QED
      BY <1>2, <3>1, <3>2 DEF Lock!Call, Lock!Wake
  <2>2. pc' \in [Workers -> {"out", "clock", "next", "cas", "try", "asleep"}]
    BY <1>2 DEF Lock!Call, Lock!Take, Lock!Wake
  <2>3. QED
    BY <1>2, <2>1, <2>2 DEF Lock!Call, Lock!Take, Lock!Wake
<1>3. CASE Lock!Tick \/ Lock!StepWall
  BY <1>3 DEF Lock!Tick, Lock!StepWall
<1>4. QED
  BY <1>1, <1>2, <1>3 DEF Lock!Next, Lock!Acquire

\* The steps of the limiter with reservations.
LEMMA TypeReserve ==
  ASSUME TypeInv, ReadingInv, Reserve!Next, UNCHANGED <<limiter, skew, times>>
  PROVE  TypeInv'
<1> USE IntervalAssumption DEF TypeInv, Reserve!GoTo
<1>1. ASSUME NEW w \in Workers, Reserve!Reserve(w)
      PROVE  TypeInv'
  <2>1. Reserve!Slot(w) = Later(w) /\ Later(w) \in Nat /\ Later(w) >= now[w]
    BY SlotIsLater DEF Later
  <2>2. nextAllowed' \in Nat /\ slots' \in Seq(Nat)
    <3>1. nextAllowed' = Later(w) + Interval /\ slots' = Append(slots, Later(w))
      BY <1>1, <2>1 DEF Reserve!Reserve
    <3>2. QED
      BY <2>1, <3>1
  <2>3. until' \in [Workers -> Nat]
    <3>1. until' = [until EXCEPT ![w] = clock + (Later(w) - now[w])]
      BY <1>1, <2>1 DEF Reserve!Reserve
    <3>2. clock + (Later(w) - now[w]) \in Nat
      BY <2>1
    <3>3. QED
      BY <3>1, <3>2
  <2>4. pc' \in [Workers -> {"out", "clock", "next", "cas", "try", "asleep"}]
    BY <1>1 DEF Reserve!Reserve
  <2>5. QED
    BY <1>1, <2>2, <2>3, <2>4 DEF Reserve!Reserve
<1>2. ASSUME NEW w \in Workers, \/ Reserve!Call(w) \/ Reserve!ReadClock(w) \/ Reserve!ReadNext(w)
                                \/ Reserve!CasLoses(w) \/ Reserve!Return(w)
      PROVE  TypeInv'
  <2>1. now' \in [Workers -> Nat] /\ next' \in [Workers -> Nat] /\ granted' \in Nat
    <3>1. CASE Reserve!ReadClock(w)
      BY <3>1 DEF Reserve!ReadClock
    <3>2. CASE Reserve!ReadNext(w)
      BY <3>2 DEF Reserve!ReadNext
    <3>3. CASE Reserve!Return(w)
      BY <3>3 DEF Reserve!Return
    <3>4. CASE UNCHANGED <<now, next, granted>>
      BY <3>4
    <3>5. QED
      BY <1>2, <3>1, <3>2, <3>3, <3>4 DEF Reserve!Call, Reserve!CasLoses
  <2>2. pc' \in [Workers -> {"out", "clock", "next", "cas", "try", "asleep"}]
    BY <1>2 DEF Reserve!Call, Reserve!ReadClock, Reserve!ReadNext, Reserve!CasLoses,
                Reserve!Return
  <2>3. QED
    BY <1>2, <2>1, <2>2 DEF Reserve!Call, Reserve!ReadClock, Reserve!ReadNext,
                            Reserve!CasLoses, Reserve!Return
<1>3. CASE Reserve!Tick
  BY <1>3 DEF Reserve!Tick
<1>4. QED
  BY <1>1, <1>2, <1>3 DEF Reserve!Next, Reserve!Acquire

\* The variables keep their types, and no reading gets ahead of the clock.
LEMMA TypeStep ==
  ASSUME TypeInv, ReadingInv, [Next]_vars
  PROVE  TypeInv' /\ ReadingInv'
<1>1. TypeInv'
  <2>1. CASE UNCHANGED vars
    BY <2>1 DEF vars, TypeInv
  <2>2. QED
    BY <2>1, TypeCas, TypeLock, TypeReserve DEF Next
<1>2. ReadingInv'
  <2> USE DEF TypeInv, ReadingInv
  <2>1. ASSUME UNCHANGED now, clock' \in Nat, clock' >= clock
        PROVE  ReadingInv'
    BY <2>1
  <2>2. ASSUME NEW w \in Workers, now' = [now EXCEPT ![w] = clock], UNCHANGED clock
        PROVE  ReadingInv'
    BY <2>2
  <2>3. CASE Cas!Next
    BY <2>1, <2>2, <2>3
       DEF Cas!Next, Cas!Acquire, Cas!Tick, Cas!Call, Cas!ReadClock, Cas!ReadNext, Cas!CasWins,
           Cas!CasLoses, Cas!Wake
  <2>4. CASE Lock!Next /\ UNCHANGED now
    BY <2>1, <2>4
       DEF Lock!Next, Lock!Acquire, Lock!Tick, Lock!StepWall, Lock!Call, Lock!Take, Lock!Sleep,
           Lock!Wake
  <2>5. CASE Reserve!Next
    BY <2>1, <2>2, <2>5
       DEF Reserve!Next, Reserve!Acquire, Reserve!Tick, Reserve!Call, Reserve!ReadClock,
           Reserve!ReadNext, Reserve!Reserve, Reserve!CasLoses, Reserve!Return
  <2>6. QED
    BY <2>1, <2>3, <2>4, <2>5 DEF Next, vars
<1>3. QED
  BY <1>1, <1>2

-----------------------------------------------------------------------------
(* One shared value gives the slots. *)

\* The steps of one limiter are those of its module.
LEMMA OneLimiter ==
  ASSUME [Next]_vars
  PROVE  /\ limiter' = limiter
         /\ limiter = "cas" => Cas!Next \/ UNCHANGED vars
         /\ limiter = "lock" => Lock!Next \/ UNCHANGED vars
         /\ limiter = "reserve" => Reserve!Next \/ UNCHANGED vars
BY DEF Next, vars

\* One interval more is the slot of one permission more.
LEMMA NextSlot ==
  ASSUME NEW n \in Nat
  PROVE  (n + 1) * Interval = n * Interval + Interval
BY IntervalAssumption

\* A claim that succeeds compared the slot with the clock before: its permission
\* is given when the slot is due.
LEMMA CasClaims ==
  ASSUME TypeInv, ReadingInv, CasInv, limiter = "cas", NEW w \in Workers, Cas!CasWins(w)
  PROVE  /\ Len(times) * Interval <= clock
         /\ times' = Append(times, clock)
         /\ Cas!SlotPerPermission' /\ Cas!NotBeforeSlot'
<1> USE DEF TypeInv
<1>1. Len(times) * Interval <= clock
  <2>1. next[w] <= now[w] /\ now[w] <= clock /\ next[w] \in Nat /\ now[w] \in Nat
    BY DEF CasInv, ReadingInv, Cas!CasWins
  <2>2. nextAllowed = next[w] /\ nextAllowed = Len(times) * Interval
    BY DEF CasInv, Cas!CasWins, Cas!SlotPerPermission
  <2>3. QED
    BY <2>1, <2>2
<1>2. times' = Append(times, clock) /\ nextAllowed' = nextAllowed + Interval
  BY DEF Cas!CasWins
<1>3. Len(times') = Len(times) + 1
  BY <1>2
<1>4. Cas!SlotPerPermission'
  BY <1>2, <1>3, NextSlot DEF CasInv, Cas!SlotPerPermission
<1>5. ASSUME NEW i \in DOMAIN times'
      PROVE  times'[i] >= (i - 1) * Interval
  <2>1. CASE i \in DOMAIN times
    <3>1. times'[i] = times[i]
      BY <1>2, <2>1
    <3>2. times[i] >= (i - 1) * Interval
      BY <2>1 DEF CasInv, Cas!NotBeforeSlot
    <3>3. QED
      BY <3>1, <3>2
  <2>2. CASE i = Len(times) + 1
    <3>1. times'[i] = clock /\ i - 1 = Len(times)
      BY <1>2, <2>2
    <3>2. QED
      BY <1>1, <3>1, IntervalAssumption
  <2>3. QED
    BY <1>2, <1>3, <2>1, <2>2
<1>6. QED
  BY <1>1, <1>2, <1>4, <1>5 DEF Cas!NotBeforeSlot

\* One slot per permission, whatever the others read in the meantime.
LEMMA CasStep ==
  ASSUME TypeInv, ReadingInv, CasInv, [Next]_vars
  PROVE  CasInv'
<1> SUFFICES ASSUME limiter = "cas"
             PROVE  CasInv'
  BY OneLimiter DEF CasInv
<1> USE DEF TypeInv, Cas!GoTo
<1>i. /\ Cas!SlotPerPermission /\ Cas!NotBeforeSlot
      /\ \A w \in Workers : pc[w] = "cas" => next[w] <= now[w]
  BY DEF CasInv
<1>u. ASSUME UNCHANGED <<nextAllowed, times>>
      PROVE  Cas!SlotPerPermission' /\ Cas!NotBeforeSlot'
  BY <1>i, <1>u DEF Cas!SlotPerPermission, Cas!NotBeforeSlot
<1>1. ASSUME NEW w \in Workers, Cas!CasWins(w)
      PROVE  CasInv'
  <2>1. \A v \in Workers : pc'[v] = "cas" => pc[v] = "cas"
    BY <1>1 DEF Cas!CasWins
  <2>2. UNCHANGED <<now, next>>
    BY <1>1 DEF Cas!CasWins
  <2>3. QED
    BY <1>1, <1>i, <2>1, <2>2, CasClaims DEF CasInv
<1>2. ASSUME NEW w \in Workers, Cas!ReadNext(w)
      PROVE  CasInv'
  <2>1. pc'[w] = "cas" => next'[w] <= now'[w]
    BY <1>2 DEF Cas!ReadNext
  <2>2. \A v \in Workers : v # w => pc'[v] = pc[v] /\ next'[v] = next[v] /\ now'[v] = now[v]
    BY <1>2 DEF Cas!ReadNext
  <2>3. UNCHANGED <<nextAllowed, times>>
    BY <1>2 DEF Cas!ReadNext
  <2>4. QED
    BY <1>i, <1>u, <2>1, <2>2, <2>3 DEF CasInv
<1>3. ASSUME NEW w \in Workers, Cas!ReadClock(w)
      PROVE  CasInv'
  <2>1. \A v \in Workers : pc'[v] = "cas" => v # w /\ pc[v] = "cas"
    BY <1>3 DEF Cas!ReadClock
  <2>2. \A v \in Workers : v # w => next'[v] = next[v] /\ now'[v] = now[v]
    BY <1>3 DEF Cas!ReadClock
  <2>3. UNCHANGED <<nextAllowed, times>>
    BY <1>3 DEF Cas!ReadClock
  <2>4. QED
    BY <1>i, <1>u, <2>1, <2>2, <2>3 DEF CasInv
<1>4. ASSUME NEW w \in Workers, Cas!Call(w) \/ Cas!CasLoses(w) \/ Cas!Wake(w)
      PROVE  CasInv'
  <2>1. \A v \in Workers : pc'[v] = "cas" => pc[v] = "cas"
    BY <1>4 DEF Cas!Call, Cas!CasLoses, Cas!Wake
  <2>2. UNCHANGED <<nextAllowed, times, now, next>>
    BY <1>4 DEF Cas!Call, Cas!CasLoses, Cas!Wake
  <2>3. QED
    BY <1>i, <1>u, <2>1, <2>2 DEF CasInv
<1>5. CASE Cas!Tick \/ UNCHANGED vars
  BY <1>5, <1>i, <1>u DEF CasInv, Cas!Tick, vars
<1>6. QED
  BY <1>1, <1>2, <1>3, <1>4, <1>5, OneLimiter DEF Cas!Next, Cas!Acquire

\* Under the lock, the next slot is at most an interval past the clock that
\* was furthest ahead, and nobody sleeps for longer than until then.
LEMMA LockStep ==
  ASSUME TypeInv, TypeInv', LockInv, [Next]_vars
  PROVE  LockInv'
<1> SUFFICES ASSUME limiter = "lock"
             PROVE  LockInv'
  BY OneLimiter DEF LockInv
<1> USE IntervalAssumption, MaxStepAssumption DEF TypeInv, Lock!GoTo, Lock!Wall
<1>i. /\ nextAllowed = Len(times) * Interval
      /\ nextAllowed <= clock + Interval + (IF skew > 0 THEN skew ELSE 0)
      /\ \A w \in Workers : pc[w] = "asleep" =>
           until[w] - clock <= Interval + (IF skew = 0 THEN 0 ELSE MaxStep)
  BY DEF LockInv, Lock!WaitBounded
<1>1. ASSUME NEW w \in Workers, Lock!Take(w)
      PROVE  LockInv'
  <2>1. nextAllowed' = nextAllowed + Interval /\ Len(times') = Len(times) + 1
        /\ nextAllowed <= clock + skew
    BY <1>1 DEF Lock!Take
  <2>2. \A v \in Workers : pc'[v] = "asleep" => pc[v] = "asleep"
    BY <1>1 DEF Lock!Take
  <2>3. nextAllowed' <= clock' + Interval + (IF skew' > 0 THEN skew' ELSE 0)
    BY <1>1, <2>1 DEF Lock!Take
  <2>4. nextAllowed' = Len(times') * Interval
    BY <1>i, <2>1, NextSlot
  <2>5. QED
    BY <1>1, <1>i, <2>2, <2>3, <2>4 DEF LockInv, Lock!WaitBounded, Lock!Take
<1>2. ASSUME NEW w \in Workers, Lock!Sleep(w)
      PROVE  LockInv'
  <2>1. until'[w] = clock + (nextAllowed - (clock + skew))
        /\ UNCHANGED <<clock, skew, nextAllowed, times>>
    BY <1>2 DEF Lock!Sleep
  <2>2. until'[w] - clock' <= Interval + (IF skew' = 0 THEN 0 ELSE MaxStep)
    <3>1. /\ {clock, nextAllowed, Interval, MaxStep} \subseteq Nat
          /\ skew \in Int /\ -MaxStep <= skew /\ skew <= MaxStep
      OBVIOUS
    <3>2. nextAllowed <= clock + Interval + (IF skew > 0 THEN skew ELSE 0)
      BY <1>i
    <3> HIDE DEF TypeInv
    <3>3. QED
      BY <2>1, <3>1, <3>2
  <2>3. \A v \in Workers : v # w => until'[v] = until[v] /\ pc'[v] = pc[v]
    BY <1>2 DEF Lock!Sleep
  <2>4. QED
    BY <1>i, <2>1, <2>2, <2>3 DEF LockInv, Lock!WaitBounded
<1>3. ASSUME NEW w \in Workers, Lock!Call(w) \/ Lock!Wake(w)
      PROVE  LockInv'
  <2>1. \A v \in Workers : pc'[v] = "asleep" => pc[v] = "asleep"
    BY <1>3 DEF Lock!Call, Lock!Wake
  <2>2. UNCHANGED <<clock, skew, nextAllowed, until, times>>
    BY <1>3 DEF Lock!Call, Lock!Wake
  <2>3. QED
    BY <1>i, <2>1, <2>2 DEF LockInv, Lock!WaitBounded
<1>4. CASE Lock!Tick
  <2>1. clock' = clock + 1 /\ UNCHANGED <<skew, nextAllowed, pc, until, times>>
    BY <1>4 DEF Lock!Tick
  <2>2. nextAllowed' <= clock' + Interval + (IF skew' > 0 THEN skew' ELSE 0)
    BY <1>i, <2>1
  <2>3. ASSUME NEW v \in Workers, pc'[v] = "asleep"
        PROVE  until'[v] - clock' <= Interval + (IF skew' = 0 THEN 0 ELSE MaxStep)
    <3>1. until[v] - clock <= Interval + (IF skew = 0 THEN 0 ELSE MaxStep)
      BY <1>i, <2>1, <2>3
    <3>2. until'[v] - clock' <= until[v] - clock /\ skew' = skew
      BY <2>1
    <3>3. until[v] - clock \in Int /\ until'[v] - clock' \in Int
      BY <2>1
    <3>4. Interval + (IF skew = 0 THEN 0 ELSE MaxStep) \in Int
      OBVIOUS
    <3> HIDE DEF TypeInv
    <3>5. QED
      BY <3>1, <3>2, <3>3, <3>4
  <2>4. QED
    BY <1>i, <2>1, <2>2, <2>3 DEF LockInv, Lock!WaitBounded
<1>5. CASE Lock!StepWall
  <2>1. skew = 0 /\ UNCHANGED <<clock, nextAllowed, pc, until, times>>
    BY <1>5 DEF Lock!StepWall
  <2>2. nextAllowed' <= clock' + Interval + (IF skew' > 0 THEN skew' ELSE 0)
    BY <1>i, <2>1
  <2>3. ASSUME NEW v \in Workers, pc'[v] = "asleep"
        PROVE  until'[v] - clock' <= Interval + (IF skew' = 0 THEN 0 ELSE MaxStep)
    <3>1. until[v] - clock <= Interval
      BY <1>i, <2>1, <2>3
    <3>2. until'[v] - clock' = until[v] - clock /\ until[v] - clock \in Int
      BY <2>1
    <3>3. Interval \in Nat /\ MaxStep \in Nat
      OBVIOUS
    <3> HIDE DEF TypeInv
    <3>4. QED
      BY <3>1, <3>2, <3>3
  <2>4. QED
    BY <1>i, <2>1, <2>2, <2>3 DEF LockInv, Lock!WaitBounded
<1>6. CASE UNCHANGED vars
  BY <1>i, <1>6 DEF LockInv, Lock!WaitBounded, vars
<1>7. QED
  BY <1>1, <1>2, <1>3, <1>4, <1>5, <1>6, OneLimiter DEF Lock!Next, Lock!Acquire

-----------------------------------------------------------------------------
(* Slots that are reserved. *)

\* Products are ordered as their first factors.
LEMMA TimesOrder ==
  ASSUME NEW a \in Int, NEW b \in Int, a * Interval < b * Interval
  PROVE  a < b
BY IntervalAssumption

\* n + 1 distinct slots that are due: the slot number n, from 0, is due.
LEMMA DueSlots ==
  ASSUME NEW S \in Seq(Nat), NEW I \in SUBSET (DOMAIN S), NEW n \in Nat, NEW t \in Nat,
         Cardinality(I) = n + 1,
         \A i \in DOMAIN S : (i - 1) * Interval <= S[i],
         \A i \in I : S[i] <= t
  PROVE  n * Interval <= t
<1> SUFFICES ASSUME t < n * Interval
             PROVE  FALSE
  BY IntervalAssumption
<1>1. I \subseteq 1..n
  <2> SUFFICES ASSUME NEW i \in I
               PROVE  i \in 1..n
    OBVIOUS
  <2>1. i \in Nat \ {0}
    OBVIOUS
  <2>2. (i - 1) * Interval < n * Interval
    <3>1. S[i] \in Nat /\ (i - 1) * Interval <= S[i] /\ S[i] <= t
      OBVIOUS
    <3>2. (i - 1) * Interval \in Int /\ n * Interval \in Int
      BY <2>1, IntervalAssumption
    <3>3. QED
      BY <3>1, <3>2
  <2>3. i - 1 < n
    BY <2>1, <2>2, TimesOrder
  <2>4. QED
    BY <2>1, <2>3
<1>2. IsFiniteSet(1..n) /\ Cardinality(1..n) = n
  BY FS_Interval
<1>3. Cardinality(I) <= n
  BY <1>1, <1>2, FS_Subset
<1>4. QED
  BY <1>3

\* The slots of a sequence with one slot more.
LEMMA OneSlotMore ==
  ASSUME NEW S \in Seq(Nat), NEW s \in Nat, NEW T, T = Append(S, s)
  PROVE  /\ Len(T) = Len(S) + 1
         /\ DOMAIN T = DOMAIN S \cup {Len(S) + 1}
         /\ \A i \in DOMAIN S : T[i] = S[i] /\ i <= Len(S) /\ i \in Nat \ {0}
         /\ T[Len(S) + 1] = s
         /\ ~ Len(S) + 1 \in DOMAIN S
OBVIOUS

\* What a reservation does.
LEMMA Reserved ==
  ASSUME TypeInv, NEW w \in Workers, Reserve!Reserve(w)
  PROVE  /\ pc[w] = "cas" /\ pc' = [pc EXCEPT ![w] = "asleep"]
         /\ nextAllowed <= Later(w) /\ now[w] <= Later(w) /\ Later(w) \in Nat
         /\ nextAllowed' = Later(w) + Interval
         /\ slots' = Append(slots, Later(w))
         /\ until'[w] = clock + (Later(w) - now[w])
         /\ \A v \in Workers : v # w => until'[v] = until[v]
         /\ UNCHANGED <<clock, now, next, granted>>
<1>1. Reserve!Slot(w) = Later(w)
  BY SlotIsLater DEF TypeInv
<1>2. QED
  BY <1>1 DEF Reserve!Reserve, Reserve!GoTo, TypeInv, Later

\* The slots after it.
LEMMA ReservedSlots ==
  ASSUME TypeInv, NEW w \in Workers, Reserve!Reserve(w)
  PROVE  /\ Len(slots') = Len(slots) + 1
         /\ DOMAIN slots' = DOMAIN slots \cup {Len(slots) + 1}
         /\ \A i \in DOMAIN slots : slots'[i] = slots[i] /\ i <= Len(slots) /\ i \in Nat \ {0}
         /\ slots'[Len(slots) + 1] = Later(w)
         /\ ~ Len(slots) + 1 \in DOMAIN slots
<1>1. slots \in Seq(Nat) /\ Later(w) \in Nat /\ slots' = Append(slots, Later(w))
  BY Reserved DEF TypeInv
<1>2. QED
  BY <1>1, OneSlotMore

\* The slots stay apart.
LEMMA SlotsStep ==
  ASSUME TypeInv, SlotsInv, [Next]_vars
  PROVE  SlotsInv'
<1> SUFFICES ASSUME limiter = "reserve"
             PROVE  SlotsInv'
  BY OneLimiter DEF SlotsInv
<1>1. ASSUME NEW w \in Workers, Reserve!Reserve(w)
      PROVE  SlotsInv'
  <2> DEFINE n == Len(slots)
             s == Later(w)
  <2>t. /\ n \in Nat /\ s \in Nat /\ nextAllowed \in Nat /\ nextAllowed <= s
        /\ nextAllowed' = s + Interval
        /\ \A i \in DOMAIN slots : slots[i] \in Nat
        /\ Interval \in Nat \ {0}
    <3>1. n \in Nat /\ \A i \in DOMAIN slots : slots[i] \in Nat
      BY DEF TypeInv
    <3>2. QED
      BY <1>1, <3>1, Reserved, IntervalAssumption DEF TypeInv
  <2>1. /\ Len(slots') = n + 1
        /\ DOMAIN slots' = DOMAIN slots \cup {n + 1}
        /\ \A i \in DOMAIN slots : slots'[i] = slots[i] /\ i <= n /\ i \in Nat \ {0}
        /\ slots'[n + 1] = s
    BY <1>1, ReservedSlots
  <2>2. /\ n * Interval <= nextAllowed
        /\ \A i \in DOMAIN slots : /\ (i - 1) * Interval <= slots[i]
                                   /\ slots[i] + Interval <= nextAllowed
        /\ \A i, j \in DOMAIN slots : i < j => slots[i] + Interval <= slots[j]
    BY DEF SlotsInv
  <2>3. (n + 1) * Interval <= nextAllowed'
    <3>1. (n + 1) * Interval = n * Interval + Interval /\ n * Interval \in Nat
      BY <2>t, NextSlot
    <3>2. QED
      BY <2>t, <2>2, <3>1
  <2>4. ASSUME NEW i \in DOMAIN slots'
        PROVE  (i - 1) * Interval <= slots'[i] /\ slots'[i] + Interval <= nextAllowed'
    <3>1. CASE i = n + 1
      <4>1. (i - 1) * Interval = n * Interval /\ n * Interval \in Nat
        BY <2>t, <3>1
      <4>2. QED
        BY <2>t, <2>1, <2>2, <3>1, <4>1
    <3>2. CASE i \in DOMAIN slots
      <4>1. slots'[i] = slots[i] /\ slots[i] \in Nat
        BY <2>t, <2>1, <3>2
      <4>2. (i - 1) * Interval <= slots[i] /\ slots[i] + Interval <= nextAllowed
        BY <2>2, <3>2
      <4>3. slots[i] + Interval <= nextAllowed'
        BY <2>t, <4>1, <4>2
      <4>4. QED
        BY <4>1, <4>2, <4>3
    <3>3. QED
      BY <2>1, <3>1, <3>2
  <2>5. ASSUME NEW i \in DOMAIN slots', NEW j \in DOMAIN slots', i < j
        PROVE  slots'[i] + Interval <= slots'[j]
    <3>1. i \in DOMAIN slots
      BY <2>t, <2>1, <2>5
    <3>2. CASE j = n + 1
      <4>1. slots'[i] = slots[i] /\ slots[i] \in Nat /\ slots'[j] = s
        BY <2>t, <2>1, <3>1, <3>2
      <4>2. slots[i] + Interval <= nextAllowed
        BY <2>2, <3>1
      <4>3. QED
        BY <2>t, <4>1, <4>2
    <3>3. CASE j \in DOMAIN slots
      BY <2>1, <2>2, <2>5, <3>1, <3>3
    <3>4. QED
      BY <2>1, <3>2, <3>3
  <2>6. QED
    BY <2>1, <2>3, <2>4, <2>5 DEF SlotsInv
<1>2. CASE UNCHANGED <<nextAllowed, slots>>
  BY <1>2 DEF SlotsInv
<1>3. QED
  BY <1>1, <1>2, OneLimiter
     DEF Reserve!Next, Reserve!Acquire, Reserve!Tick, Reserve!Call, Reserve!ReadClock,
         Reserve!ReadNext, Reserve!CasLoses, Reserve!Return, vars

\* A caller that does not reserve or return leaves the sleepers and the slots
\* alone.
LEMMA OthersSleepOn ==
  ASSUME TypeInv, Reserve!Next \/ UNCHANGED vars,
         \A w \in Workers : ~ Reserve!Reserve(w) /\ ~ Reserve!Return(w)
  PROVE  /\ UNCHANGED <<slots, granted, until>>
         /\ clock' \in Nat /\ clock <= clock'
         /\ \A v \in Workers : pc'[v] = "asleep" <=> pc[v] = "asleep"
         /\ \A v \in Workers : pc[v] = "asleep" => Later(v)' = Later(v)
<1> USE DEF TypeInv, Reserve!GoTo, Later
<1>1. ASSUME NEW w \in Workers, Reserve!ReadClock(w) \/ Reserve!ReadNext(w)
      PROVE  /\ UNCHANGED <<slots, granted, until, clock>>
             /\ \A v \in Workers : pc'[v] = "asleep" <=> pc[v] = "asleep"
             /\ \A v \in Workers : pc[v] = "asleep" => Later(v)' = Later(v)
  <2>1. pc[w] # "asleep" /\ \E s \in {"next", "cas"} : pc' = [pc EXCEPT ![w] = s]
    BY <1>1 DEF Reserve!ReadClock, Reserve!ReadNext
  <2>2. \A v \in Workers : v # w => now'[v] = now[v] /\ next'[v] = next[v]
    BY <1>1 DEF Reserve!ReadClock, Reserve!ReadNext
  <2>3. UNCHANGED <<slots, granted, until, clock>>
    BY <1>1 DEF Reserve!ReadClock, Reserve!ReadNext
  <2>4. QED
    BY <2>1, <2>2, <2>3
<1>2. ASSUME NEW w \in Workers, Reserve!Call(w) \/ Reserve!CasLoses(w)
      PROVE  /\ UNCHANGED <<slots, granted, until, clock, now, next>>
             /\ \A v \in Workers : pc'[v] = "asleep" <=> pc[v] = "asleep"
  BY <1>2 DEF Reserve!Call, Reserve!CasLoses
<1>3. CASE Reserve!Tick
  BY <1>3 DEF Reserve!Tick
<1>4. CASE UNCHANGED vars
  BY <1>4 DEF vars
<1>5. QED
  BY <1>1, <1>2, <1>3, <1>4 DEF Reserve!Next, Reserve!Acquire

\* Who returns was asleep, and the others sleep on.
LEMMA Returning ==
  ASSUME TypeInv, NEW w \in Workers, Reserve!Return(w)
  PROVE  /\ pc[w] = "asleep" /\ until[w] <= clock
         /\ \A v \in Workers : pc'[v] = "asleep" <=> pc[v] = "asleep" /\ v # w
         /\ \A v \in Workers : Later(v)' = Later(v)
         /\ granted' = granted + 1
         /\ UNCHANGED <<clock, slots, until, nextAllowed>>
BY DEF TypeInv, Reserve!Return, Reserve!GoTo, Later

\* Nobody gets the slot of another, and nobody wakes before its slot.
LEMMA SleeperStep ==
  ASSUME TypeInv, ReadingInv, SlotsInv, SleeperInv, [Next]_vars
  PROVE  SleeperInv'
<1> SUFFICES ASSUME limiter = "reserve"
             PROVE  SleeperInv'
  BY OneLimiter DEF SleeperInv
<1>i. \A w \in Workers : pc[w] = "asleep" =>
        /\ Later(w) <= until[w]
        /\ \E i \in DOMAIN slots : slots[i] = Later(w)
        /\ \A v \in Workers : pc[v] = "asleep" /\ Later(v) = Later(w) => v = w
  BY DEF SleeperInv
<1>1. ASSUME NEW w \in Workers, Reserve!Reserve(w)
      PROVE  SleeperInv'
  <2>1. /\ \A v \in Workers : pc'[v] = "asleep" <=> pc[v] = "asleep" \/ v = w
        /\ \A v \in Workers : Later(v)' = Later(v)
        /\ pc[w] # "asleep"
    BY <1>1, Reserved DEF TypeInv, Later
  <2>2. \A i \in DOMAIN slots : i \in DOMAIN slots' /\ slots'[i] = slots[i]
    BY <1>1, ReservedSlots
  <2>3. \E i \in DOMAIN slots' : slots'[i] = Later(w)
    BY <1>1, ReservedSlots
  <2>4. Later(w) <= until'[w]
    <3>1. now[w] \in Nat /\ clock \in Nat /\ now[w] <= clock
      BY DEF TypeInv, ReadingInv
    <3>2. QED
      BY <1>1, <3>1, Reserved
  <2>5. \A v \in Workers : pc[v] = "asleep" => Later(v) < Later(w)
    <3>1. ASSUME NEW v \in Workers, pc[v] = "asleep"
          PROVE  Later(v) < Later(w)
      <4>1. PICK i \in DOMAIN slots : slots[i] = Later(v)
        BY <1>i, <3>1
      <4>2. slots[i] + Interval <= nextAllowed /\ slots[i] \in Nat /\ nextAllowed \in Nat
        BY DEF SlotsInv, TypeInv
      <4>3. QED
        BY <1>1, <4>1, <4>2, Reserved, IntervalAssumption
    <3>2. QED
      BY <3>1
  <2>6. \A v \in Workers : v # w => until'[v] = until[v]
    BY <1>1, Reserved
  <2>7. \A v \in Workers : Later(v) \in Nat
    BY DEF Later, TypeInv
  <2>8. QED
    BY <1>i, <2>1, <2>2, <2>3, <2>4, <2>5, <2>6, <2>7 DEF SleeperInv
<1>2. ASSUME NEW w \in Workers, Reserve!Return(w)
      PROVE  SleeperInv'
  BY <1>i, <1>2, Returning DEF SleeperInv
<1>3. CASE \A w \in Workers : ~ Reserve!Reserve(w) /\ ~ Reserve!Return(w)
  BY <1>i, <1>3, OneLimiter, OthersSleepOn DEF SleeperInv
<1>4. QED
  BY <1>1, <1>2, <1>3

\* A caller that returns adds its slot to those of the callers before it.
LEMMA ReturnAdds ==
  ASSUME TypeInv, SlotsInv, SleeperInv, ReturnedInv, limiter = "reserve",
         NEW w \in Workers, Reserve!Return(w)
  PROVE  /\ Returned' \subseteq DOMAIN slots
         /\ Cardinality(Returned)' = granted + 1
         /\ \A i \in Returned' : slots[i] <= clock
<1>1. PICK k \in DOMAIN slots : slots[k] = Later(w)
  BY Returning DEF SleeperInv
<1>2. ~ k \in Returned
  BY <1>1, Returning DEF Returned
<1>3. ASSUME NEW i \in DOMAIN slots, slots[i] = slots[k]
      PROVE  i = k
  <2>1. i \in Nat /\ k \in Nat /\ slots[i] \in Nat
    BY DEF TypeInv
  <2>2. (i < k => slots[i] + Interval <= slots[k]) /\ (k < i => slots[k] + Interval <= slots[i])
    BY <1>3 DEF SlotsInv
  <2>3. QED
    BY <1>3, <2>1, <2>2, IntervalAssumption
<1>4. Returned' = Returned \cup {k}
  <2>1. ASSUME NEW i \in DOMAIN slots
        PROVE  i \in Returned' <=> i \in Returned \/ i = k
    <3>1. i \in Returned' <=>
            \A v \in Workers : pc[v] = "asleep" /\ v # w => Later(v) # slots[i]
      BY Returning DEF Returned
    <3>2. CASE i = k
      BY <1>1, <3>1, <3>2, Returning DEF SleeperInv
    <3>3. CASE i # k
      <4>1. Later(w) # slots[i]
        BY <1>1, <1>3, <3>3
      <4>2. QED
        BY <3>1, <3>3, <4>1 DEF Returned
    <3>4. QED
      BY <3>2, <3>3
  <2>2. Returned \subseteq DOMAIN slots /\ Returned' \subseteq DOMAIN slots
    BY Returning DEF Returned
  <2>3. QED
    BY <2>1, <2>2
<1>5. IsFiniteSet(Returned)
  <2>1. DOMAIN slots = 1..Len(slots) /\ Len(slots) \in Nat
    BY DEF TypeInv
  <2>2. IsFiniteSet(DOMAIN slots)
    BY <2>1, FS_Interval
  <2>3. QED
    BY <2>2, FS_Subset DEF Returned
<1>6. Cardinality(Returned)' = granted + 1
  BY <1>2, <1>4, <1>5, FS_AddElement DEF ReturnedInv
<1>7. slots[k] <= clock
  <2>1. Later(w) <= until[w] /\ until[w] <= clock
    BY Returning DEF SleeperInv
  <2>2. slots[k] \in Nat /\ until[w] \in Nat /\ clock \in Nat
    BY DEF TypeInv
  <2>3. QED
    BY <1>1, <2>1, <2>2
<1>8. QED
  BY <1>4, <1>6, <1>7 DEF Returned, ReturnedInv

\* The callers that have returned had a slot each, and it was due.
LEMMA ReturnedStep ==
  ASSUME TypeInv, SlotsInv, SleeperInv, ReturnedInv, [Next]_vars
  PROVE  ReturnedInv'
<1> SUFFICES ASSUME limiter = "reserve"
             PROVE  ReturnedInv'
  BY OneLimiter DEF ReturnedInv
<1>i. Cardinality(Returned) = granted /\ \A i \in Returned : slots[i] <= clock
  BY DEF ReturnedInv
<1>1. ASSUME NEW w \in Workers, Reserve!Reserve(w)
      PROVE  ReturnedInv'
  <2>1. /\ \A v \in Workers : pc'[v] = "asleep" <=> pc[v] = "asleep" \/ v = w
        /\ \A v \in Workers : Later(v)' = Later(v)
    BY <1>1, Reserved DEF TypeInv, Later
  <2>2. ~ Len(slots) + 1 \in Returned'
    BY <1>1, <2>1, ReservedSlots DEF Returned
  <2>3. ASSUME NEW i \in DOMAIN slots
        PROVE  i \in Returned' <=> i \in Returned
    <3>1. slots[i] + Interval <= nextAllowed /\ slots[i] \in Nat /\ nextAllowed \in Nat
      BY DEF SlotsInv, TypeInv
    <3>2. nextAllowed <= Later(w) /\ Later(w) \in Nat
      BY <1>1, Reserved
    <3>3. Later(w) # slots[i]
      BY <3>1, <3>2, IntervalAssumption
    <3>4. i \in DOMAIN slots' /\ slots'[i] = slots[i]
      BY <1>1, ReservedSlots
    <3>5. QED
      BY <2>1, <3>3, <3>4 DEF Returned
  <2>4. Returned \subseteq DOMAIN slots /\ Returned' \subseteq DOMAIN slots \cup {Len(slots) + 1}
    BY <1>1, ReservedSlots DEF Returned
  <2>5. Returned' = Returned
    BY <2>2, <2>3, <2>4
  <2>6. \A i \in Returned : slots'[i] = slots[i]
    BY <1>1, <2>4, ReservedSlots
  <2>7. UNCHANGED <<granted, clock>>
    BY <1>1, Reserved
  <2>8. QED
    BY <1>i, <2>5, <2>6, <2>7 DEF ReturnedInv
<1>2. ASSUME NEW w \in Workers, Reserve!Return(w)
      PROVE  ReturnedInv'
  BY <1>2, ReturnAdds, Returning DEF ReturnedInv
<1>3. CASE \A w \in Workers : ~ Reserve!Reserve(w) /\ ~ Reserve!Return(w)
  <2>1. /\ UNCHANGED <<slots, granted>> /\ clock' \in Nat /\ clock <= clock'
        /\ \A v \in Workers : pc'[v] = "asleep" <=> pc[v] = "asleep"
        /\ \A v \in Workers : pc[v] = "asleep" => Later(v)' = Later(v)
    BY <1>3, OneLimiter, OthersSleepOn
  <2>2. Returned' = Returned
    BY <2>1 DEF Returned
  <2>3. \A i \in Returned : slots[i] \in Nat
    BY DEF Returned, TypeInv
  <2>4. clock \in Nat
    BY DEF TypeInv
  <2>5. QED
    BY <1>i, <2>1, <2>2, <2>3, <2>4 DEF ReturnedInv
<1>4. QED
  BY <1>1, <1>2, <1>3

-----------------------------------------------------------------------------
(* The theorems. *)

\* The invariant holds at first ...
LEMMA InitIInv == Init => IInv
<1> SUFFICES ASSUME Init PROVE IInv
  OBVIOUS
<1> USE IntervalAssumption, MaxStepAssumption
    DEF Init, Cas!Init, Lock!Init, Reserve!Init, Lock!Wall
<1>1. TypeInv /\ ReadingInv
  <2>1. pc \in [Workers -> {"out", "clock", "next", "cas", "try", "asleep"}]
    OBVIOUS
  <2>2. now \in [Workers -> Nat] /\ next \in [Workers -> Nat] /\ until \in [Workers -> Nat]
    OBVIOUS
  <2>3. skew \in Int /\ -MaxStep <= skew /\ skew <= MaxStep
    OBVIOUS
  <2>4. times \in Seq(Nat) /\ slots \in Seq(Nat)
    OBVIOUS
  <2>5. QED
    BY <2>1, <2>2, <2>3, <2>4 DEF TypeInv, ReadingInv
<1>2. CasInv /\ LockInv
  BY DEF CasInv, Cas!SlotPerPermission, Cas!NotBeforeSlot, LockInv, Lock!WaitBounded
<1>3. SlotsInv /\ SleeperInv
  BY DEF SlotsInv, SleeperInv
<1>4. ReturnedInv
  <2>1. Returned = {}
    BY DEF Returned
  <2>2. QED
    BY <2>1, FS_EmptySet DEF ReturnedInv
<1>5. QED
  BY <1>1, <1>2, <1>3, <1>4 DEF IInv

\* ... and every step keeps it.
LEMMA StepIInv == IInv /\ [Next]_vars => IInv'
<1> SUFFICES ASSUME IInv, [Next]_vars PROVE IInv'
  OBVIOUS
<1>1. TypeInv' /\ ReadingInv'
  BY TypeStep DEF IInv
<1>2. CasInv' /\ LockInv'
  BY <1>1, CasStep, LockStep DEF IInv
<1>3. SlotsInv' /\ SleeperInv' /\ ReturnedInv'
  BY SlotsStep, SleeperStep, ReturnedStep DEF IInv
<1>4. QED
  BY <1>1, <1>2, <1>3 DEF IInv

\* The inductive invariant holds in every reachable state.
THEOREM Invariance == Spec => []IInv
BY InitIInv, StepIInv, PTL DEF Spec

\* Collisions of the callers of the lock-free limiter neither lose nor share a slot:
\* the cursor has advanced by one interval for every permission.
THEOREM SlotsAreExact == Spec => [](limiter = "cas" => Cas!SlotPerPermission)
<1>1. IInv => (limiter = "cas" => Cas!SlotPerPermission)
  BY DEF IInv, CasInv
<1>2. QED
  BY <1>1, Invariance, PTL

\* The lock-free limiter gives no permission before its slot, however the readings
\* of the racing callers interleave.
THEOREM NeverBeforeSlot == Spec => [](limiter = "cas" => Cas!NotBeforeSlot)
<1>1. IInv => (limiter = "cas" => Cas!NotBeforeSlot)
  BY DEF IInv, CasInv
<1>2. QED
  BY <1>1, Invariance, PTL

\* No caller of the limiter with a lock sleeps past the next slot, except for
\* what the wall clock was stepped.
THEOREM WaitsAreBounded == Spec => []WaitBounded
<1>1. IInv => WaitBounded
  BY DEF IInv, LockInv, WaitBounded
<1>2. QED
  BY <1>1, Invariance, PTL

\* Reserved slots are an interval apart.
THEOREM SlotsAreSpaced == Spec => []SlotsSpaced
<1>1. IInv => SlotsSpaced
  <2> SUFFICES ASSUME IInv, limiter = "reserve", NEW i \in 1..(Len(slots) - 1)
               PROVE  slots[i + 1] - slots[i] >= Interval
    BY DEF SlotsSpaced, Reserve!SlotsSpaced
  <2>1. /\ i \in DOMAIN slots /\ i + 1 \in DOMAIN slots /\ i < i + 1
        /\ slots[i] \in Nat /\ slots[i + 1] \in Nat
    BY DEF IInv, TypeInv
  <2>2. slots[i] + Interval <= slots[i + 1]
    BY <2>1 DEF IInv, SlotsInv
  <2>3. QED
    BY <2>1, <2>2, IntervalAssumption
<1>2. QED
  BY <1>1, Invariance, PTL

\* A step of any limiter is a step of the contract, or leaves it alone.
LEMMA ContractStep ==
  ASSUME IInv, [Next]_vars
  PROVE  [IF limiter = "lock" THEN Contract(MaxStep)!Next
                              ELSE Contract(0)!Next]_(Contract(0)!vars)
<1> DEFINE given == IF limiter = "reserve" THEN granted ELSE Len(times)
<1> USE DEF Contract!Next, Contract!vars
<1>t. /\ clock \in Nat /\ granted \in Nat /\ times \in Seq(Nat) /\ slots \in Seq(Nat)
      /\ nextAllowed \in Nat /\ skew <= MaxStep /\ skew \in Int
  BY DEF IInv, TypeInv
<1>k. limiter' = limiter
  BY OneLimiter
<1>1. ASSUME UNCHANGED <<clock, granted, times>>
      PROVE  UNCHANGED Contract(0)!vars
  BY <1>k, <1>1
<1>2. ASSUME clock' = clock + 1, UNCHANGED <<granted, times>>
      PROVE  Contract(0)!Tick /\ Contract(MaxStep)!Tick
  BY <1>k, <1>t, <1>2 DEF Contract!Tick
<1>3. CASE limiter = "cas" /\ Cas!Next /\ UNCHANGED granted
  <2>1. ASSUME NEW w \in Workers, Cas!CasWins(w)
        PROVE  Contract(0)!Grant
    <3>2. Len(times) * Interval <= clock
      BY <1>3, <2>1, CasClaims DEF IInv
    <3>3. Len(times') = Len(times) + 1 /\ UNCHANGED clock
      BY <1>t, <2>1 DEF Cas!CasWins
    <3>4. QED
      BY <1>k, <1>t, <1>3, <3>2, <3>3 DEF Contract!Grant
  <2>2. QED
    BY <1>1, <1>2, <1>3, <2>1
       DEF Cas!Next, Cas!Acquire, Cas!Tick, Cas!Call, Cas!ReadClock, Cas!ReadNext,
           Cas!CasLoses, Cas!Wake
<1>4. CASE limiter = "lock" /\ Lock!Next /\ UNCHANGED granted
  <2>1. ASSUME NEW w \in Workers, Lock!Take(w)
        PROVE  Contract(MaxStep)!Grant
    <3>1. nextAllowed <= clock + skew
      BY <1>t, <2>1 DEF Lock!Take, Lock!Wall
    <3>2. Len(times) * Interval <= clock + MaxStep
      BY <1>4, <1>t, <3>1, MaxStepAssumption DEF IInv, LockInv
    <3>3. Len(times') = Len(times) + 1 /\ UNCHANGED clock
      BY <1>t, <2>1 DEF Lock!Take
    <3>4. QED
      BY <1>k, <1>4, <3>2, <3>3 DEF Contract!Grant
  <2>2. QED
    BY <1>1, <1>2, <1>4, <2>1
       DEF Lock!Next, Lock!Acquire, Lock!Tick, Lock!StepWall, Lock!Call, Lock!Sleep, Lock!Wake
<1>5. CASE limiter = "reserve" /\ Reserve!Next /\ UNCHANGED times
  <2>1. ASSUME NEW w \in Workers, Reserve!Return(w)
        PROVE  Contract(0)!Grant
    <3>1. /\ Returned' \subseteq DOMAIN slots
          /\ Cardinality(Returned') = granted + 1
          /\ \A i \in Returned' : slots[i] <= clock
      BY <1>5, <2>1, ReturnAdds DEF IInv
    <3>2. \A i \in DOMAIN slots : (i - 1) * Interval <= slots[i]
      BY <1>5 DEF IInv, SlotsInv
    <3>3. granted * Interval <= clock
      BY <1>t, <3>1, <3>2, DueSlots
    <3>4. QED
      BY <1>k, <1>t, <1>5, <2>1, <3>3, Returning DEF Contract!Grant, IInv
  <2>2. QED
    BY <1>1, <1>2, <1>5, <2>1
       DEF Reserve!Next, Reserve!Acquire, Reserve!Tick, Reserve!Call, Reserve!ReadClock,
           Reserve!ReadNext, Reserve!Reserve, Reserve!CasLoses
<1>6. CASE UNCHANGED vars
  BY <1>1, <1>6 DEF vars
<1>7. QED
  BY <1>3, <1>4, <1>5, <1>6 DEF Next

\* Every limiter implements LimiterContract; the one that reads the wall clock
\* is early by no more than it was stepped.
THEOREM ImplementsContract == Spec => RateContract
<1>1. Init => Contract(0)!Init
  BY DEF Init, Cas!Init, Reserve!Init, Contract!Init
<1>2. IInv /\ [Next]_vars =>
        [IF limiter = "lock" THEN Contract(MaxStep)!Next
                             ELSE Contract(0)!Next]_(Contract(0)!vars)
  BY ContractStep
<1>3. QED
  BY <1>1, <1>2, Invariance, PTL DEF Spec, RateContract
=============================================================================
