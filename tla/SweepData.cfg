\* Two cells and one fault for the samples; the matrices and the shapes of rows
\* of MCSweepData for the rows.
CONSTANTS
  None = None
  Cells = 2
  Interval = 1
  Delay = 1
  JoinTimeout = 2
  MaxTime = 7
  MaxFaults = 1
  Files <- MCFiles
  Templates = {"t"}
  Serverless = {"recording"}
  EngineOf <- MCEngineOf
  Experiments <- MCExperiments
  Attempts = 2
  Commands = {"GET"}
  MaxValues = 3
SPECIFICATION DataSpec
CHECK_DEADLOCK FALSE
INVARIANTS
  TilesTime
  CpuOfWindow
  WindowSampled
  SeriesPure
  EveryValueRun
  FlushedAsDriver
  OutliersStayOut
  KeepsMajority
  GeneratorsAgree
