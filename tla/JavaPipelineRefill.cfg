\* One refill is enough.
CONSTANTS
  Workers = {w1, w2}
  Depth = 2
  Targets <- RefillBudgets
  MaxSent = 0
SPECIFICATION Spec
INVARIANTS
  RefillSurvives
