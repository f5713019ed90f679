SPECIFICATION FairFleetSpec
CONSTANTS
  Bots <- MCBot
  Backends <- MCBotBackends
  botOf <- MCbotOf
  attemptsOf <- MCTwice
  None = None
  MaxWorkers = 1
  MaxStarts = 1
  MaxGeneration <- MCStoppedOnce
  SlowBots = {"a"}
INVARIANTS FleetTypeOK OneWorkerPerBot ReadyMeansListening CleanedUp
PROPERTIES RequestsSettle
