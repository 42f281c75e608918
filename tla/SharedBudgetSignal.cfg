\* The same instance as in SharedBudgetEngines.cfg.
CONSTANTS
  Phases = 2
  Conns = 2
  Depth = 1
  Targets <- Budgets
  Warmups <- ZeroOrOne
  Rates <- RateLimits
  MaxSent = 2
SPECIFICATION Spec
INVARIANTS
  ZeroIfEveryPhaseCompleted
