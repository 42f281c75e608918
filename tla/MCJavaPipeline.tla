--------------------------- MODULE MCJavaPipeline ---------------------------
(* Small instances of JavaPipeline for TLC. *)
EXTENDS JavaPipeline

\* A duration-based phase, budgets the initial fills exhaust, and one that
\* needs refills.
Budgets == {0, 1, 3}

\* Enough for a refill in the middle of a pass.
RefillBudgets == {5}
=============================================================================
