------------------------ MODULE MCSharedBudgetEngines ------------------------
(* Small instances of SharedBudgetEngines for TLC. *)
EXTENDS SharedBudgetEngines

\* A duration-based phase, and budgets below and above the number of workers.
Budgets == {0, 1, 3}
ZeroOrOne == {0, 1}
\* A rate that leaves a connection out, and one that leaves out none.
RateLimits == {1, 3}
=============================================================================
