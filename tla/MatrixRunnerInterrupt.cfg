\* One invocation, interrupted.
CONSTANTS
  RunIds = {r1}
  Modes <- AllModes
  Cells = 2
  Needs <- SecondOrBoth
  MaxInvocations = 1
  Interrupts = TRUE
  Crashes = FALSE
  Aborts = FALSE
SPECIFICATION Spec
INVARIANTS
  ManifestMatches
CHECK_DEADLOCK FALSE
