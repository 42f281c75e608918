--------------------------- MODULE MCJavaWorkload ---------------------------
(* A small instance of JavaWorkload for TLC: phases that are duration-based, *)
(* or whose budget is smaller than, equal to or larger than the number of    *)
(* workers.                                                                  *)
EXTENDS JavaWorkload

Budgets == {0, 2, 3, 4}
=============================================================================
