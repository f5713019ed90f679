SPECIFICATION FairRunsSpec
CONSTANTS
  Sessions <- MCSessions
  Runs <- MCBeside
  Served <- MCTwoServed
  sessionOf <- MCsessionOf
  NoRun = NoRun
  MaxReceipts = 2
  WritesFail = FALSE
  LoadsStop = TRUE
  TurnsThrow = TRUE
INVARIANTS RunsTypeOK OutcomesAgree
PROPERTIES OutcomesStay RunsLetGo
