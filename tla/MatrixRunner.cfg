\* Two invocations in every mode over one or two run ids, of two cells, the
\* second or both of which need a server; they may be interrupted or killed
\* anywhere, or end with a traceback wherever an exception is not caught.
CONSTANTS
  RunIds = {r1, r2}
  Modes <- AllModes
  Cells = 2
  Needs <- SecondOrBoth
  MaxInvocations = 2
  Interrupts = TRUE
  Crashes = TRUE
  Aborts = TRUE
SPECIFICATION FairSpec
INVARIANTS
  ManifestHonest
  ExitTruth
  NoSilentMerge
  
PROPERTIES
  Ends
CHECK_DEADLOCK FALSE
