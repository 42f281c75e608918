--------------------------- MODULE MCPythonEngine ---------------------------
(* Small instances of PythonEngine for TLC. *)
EXTENDS PythonEngine

\* A duration-based phase, and budgets of one and two requests.
Budgets == {0, 1, 2}
ZeroOrOne == {0, 1}
AnyStep == {"create", "warmup", "workload", "close"}
Never == {}
=============================================================================
