\* Two phases on two connections with two tasks each; every failure, and Ctrl-C
\* anywhere.  A duration-based phase has at most two requests.
CONSTANTS
  Phases = 2
  Conns = 2
  Depth = 2
  Targets <- Budgets
  Warmups <- ZeroOrOne
  MaxSent = 2
  ConnectFails = TRUE
  CancelAt <- AnyStep
SPECIFICATION FairSpec
INVARIANTS
  NoWorkEscapes
  ExitHonest
  RowPerPhase
PROPERTIES
  Ends
  BudgetSpec
