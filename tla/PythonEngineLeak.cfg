\* One phase whose second connection cannot be opened.
CONSTANTS
  Phases = 1
  Conns = 2
  Depth = 1
  Targets <- Budgets
  Warmups <- ZeroOrOne
  MaxSent = 2
  ConnectFails = TRUE
  CancelAt <- Never
SPECIFICATION Spec
INVARIANTS
  NothingLeftOpen
