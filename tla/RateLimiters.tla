---------------------------- MODULE RateLimiters ----------------------------
(***************************************************************************)
(* The rate limiters of all engines, one of the three algorithms at a      *)
(* time, and what each promises:                                           *)
(*   "cas"      Java, Ruby and C#: CasLimiter                              *)
(*   "lock"     Go (Python, Node and PHP without the lock): LockLimiter    *)
(*   "reserve"  Rust: ReserveLimiter                                       *)
(* Variables an algorithm does not have stay as they are.                  *)
(***************************************************************************)
EXTENDS LimiterParameters, Integers, Sequences

CONSTANT MaxStep \* how far the wall clock the Go engine reads may be stepped

ASSUME MaxStepAssumption == MaxStep \in Nat

VARIABLES limiter, clock, nextAllowed, pc, until, times, now, next, skew, slots,
          granted

Cas == INSTANCE CasLimiter
Lock == INSTANCE LockLimiter
Reserve == INSTANCE ReserveLimiter

vars == <<limiter, clock, nextAllowed, pc, until, times, now, next, skew, slots,
          granted>>

Init ==
  /\ limiter \in {"cas", "lock", "reserve"}
  /\ Cas!Init
  /\ Lock!Init
  /\ Reserve!Init

Next ==
  \/ /\ limiter = "cas"
     /\ Cas!Next
     /\ UNCHANGED <<limiter, skew, slots, granted>>
  \/ /\ limiter = "lock"
     /\ Lock!Next
     /\ UNCHANGED <<limiter, now, next, slots, granted>>
  \/ /\ limiter = "reserve"
     /\ Reserve!Next
     /\ UNCHANGED <<limiter, skew, times>>

Spec == Init /\ [][Next]_vars

-----------------------------------------------------------------------------
(* Properties. *)

\* No caller of the Go limiter sleeps past the next slot, except for what the
\* wall clock was stepped.
WaitBounded == limiter = "lock" => Lock!WaitBounded

\* The slots of the Rust limiter are an interval apart: a stall leaves no
\* backlog that a later burst could use up.
SlotsSpaced == limiter = "reserve" => Reserve!SlotsSpaced

\* Every limiter implements the contract; the Go limiter is early by no more
\* than its wall clock was stepped ahead.
Contract(slack) ==
  INSTANCE LimiterContract
    WITH granted <- IF limiter = "reserve" THEN granted ELSE Len(times),
         Slack <- slack

RateContract ==
  /\ Contract(0)!Init
  /\ [][IF limiter = "lock" THEN Contract(MaxStep)!Next
                            ELSE Contract(0)!Next]_(Contract(0)!vars)
=============================================================================
