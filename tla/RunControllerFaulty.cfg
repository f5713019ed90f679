SPECIFICATION RunsSpec
CONSTANTS
  Sessions <- MCSessions
  Runs <- MCRuns
  Served <- MCTwoServed
  sessionOf <- MCsessionOf
  NoRun = NoRun
  MaxReceipts = 2
  WritesFail = TRUE
  LoadsStop = FALSE
  TurnsThrow = FALSE
INVARIANTS ToldOutcomesStay OneActiveRun ActiveRunsHaveTurns
PROPERTIES ReceiptsDurable
