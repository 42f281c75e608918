\* A generator with a period of 32 and draws of three bits: the whole period and
\* both paths of next_int are met.  The loop ends with the phase.
CONSTANTS
  None = None
  Bits = 5
  Drawn = 3
  Multiplier = 5
  Addend = 3
  Configs <- Phases
  Drivers = {"pool", "multiplex", "memory"}
  Nodes = {1, 2}
  Yield = 2
  BackoffAfter = 2
  MaxRequests = 3
SPECIFICATION Spec
CHECK_DEADLOCK FALSE
INVARIANTS
  NoMonopoly
  KeysOfPhase
  PopulateComplete
  SocketsAsReported
