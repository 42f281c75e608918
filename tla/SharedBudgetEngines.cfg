\* Two phases on two connections with one worker each.  A duration-based phase
\* has at most two requests.
CONSTANTS
  Phases = 2
  Conns = 2
  Depth = 1
  Targets <- Budgets
  Warmups <- ZeroOrOne
  Rates <- RateLimits
  MaxSent = 2
SPECIFICATION FairSpec
INVARIANTS
  NoWorkEscapes
  RowFaithful
  ExitHonest
PROPERTIES
  Terminates
  BudgetSpec
