\* Two workers, two requests in flight each: the refills of one worker race with
\* the fill of the other.  A duration-based phase has at most five requests.
CONSTANTS
  Workers = {w1, w2}
  Depth = 2
  Targets <- Budgets
  MaxSent = 5
SPECIFICATION FairSpec
INVARIANTS
  NoResultTwice
PROPERTIES
  Terminates
  BudgetSpec
