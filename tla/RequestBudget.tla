---------------------------- MODULE RequestBudget ----------------------------
(***************************************************************************)
(* What a phase of a workload promises, whatever the engine that runs it.  *)
(* A phase has a budget of `target` requests (0: no budget, the phase ends *)
(* by its duration).  Requests are issued to the driver and     *)
(* their results recorded; the phase ends with one verdict, after which    *)
(* nothing is issued or recorded any more.  COMPLETED is the strong        *)
(* verdict: the budget was issued in full and every result was recorded.   *)
(*                                                                         *)
(* The engines' modules implement this specification.                      *)
(***************************************************************************)
EXTENDS Naturals

VARIABLES
  target,           \* completion.requests, 0 for a duration-based phase
  issued,           \* requests handed to the driver
  recorded,         \* results recorded by the metrics collector
  verdict           \* "none" while the phase runs, then its status

vars == <<target, issued, recorded, verdict>>

Verdict == {"COMPLETED", "ERROR", "INTERRUPTED"}

Init ==
  /\ target \in Nat
  /\ issued = 0
  /\ recorded = 0
  /\ verdict = "none"

Issue ==
  /\ verdict = "none"
  /\ target = 0 \/ issued < target
  /\ issued' = issued + 1
  /\ UNCHANGED <<target, recorded, verdict>>

Record ==
  /\ verdict = "none"
  /\ recorded < issued
  /\ recorded' = recorded + 1
  /\ UNCHANGED <<target, issued, verdict>>

Complete ==
  /\ verdict = "none"
  /\ recorded = issued
  /\ target # 0 => issued = target
  /\ verdict' = "COMPLETED"
  /\ UNCHANGED <<target, issued, recorded>>

\* A failed or interrupted phase may have issued less than its budget, and
\* results may be missing.
Abort ==
  /\ verdict = "none"
  /\ verdict' \in {"ERROR", "INTERRUPTED"}
  /\ UNCHANGED <<target, issued, recorded>>

\* The next phase of the run.
Restart ==
  /\ verdict # "none"
  /\ target' \in Nat
  /\ issued' = 0
  /\ recorded' = 0
  /\ verdict' = "none"

Next == Issue \/ Record \/ Complete \/ Abort \/ Restart

Spec == Init /\ [][Next]_vars
=============================================================================
