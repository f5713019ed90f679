SPECIFICATION RunsSpec
CONSTANTS
  Sessions <- MCSessions
  Runs <- MCDirectRuns
  Served <- MCDirectServed
  sessionOf <- MCsessionOf
  NoRun = NoRun
  MaxReceipts = 3
  WritesFail = FALSE
  LoadsStop = FALSE
  TurnsThrow = TRUE
INVARIANTS ActiveRunsHaveTurns
