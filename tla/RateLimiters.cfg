\* Three callers, two clock units per slot, a wall clock that is stepped by up to
\* two.  The clock stops at MaxTime, where callers wait for slots that never come.
CONSTANTS
  Workers = {w1, w2, w3}
  Interval = 2
  MaxTime = 4
  MaxStep = 2
SYMMETRY Symmetry
SPECIFICATION Spec
INVARIANTS
  WaitBounded
  SlotsSpaced
PROPERTIES
  RateContract
CHECK_DEADLOCK FALSE
