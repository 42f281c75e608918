\* Three workers; a duration-based phase lasts one tick and has at most three
\* requests.
CONSTANTS
  Workers = {w1, w2, w3}
  Targets <- Budgets
  Deadline = 1
  MaxSent = 3
SPECIFICATION FairSpec
INVARIANTS
  TypeOK
  CompletedIsExact
  OverrunBounded
  VerdictHonest
PROPERTIES
  Terminates
  BudgetSpec
