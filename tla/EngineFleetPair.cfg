SPECIFICATION FairFleetSpec
CONSTANTS
  Bots <- MCBots
  Backends <- MCBackends
  botOf <- MCbotOf
  attemptsOf <- MCOnce
  None = None
  MaxWorkers = 2
  MaxStarts = 1
  MaxGeneration <- MCStoppedOnce
  SlowBots = {}
INVARIANTS SlotsFollowBoots
PROPERTIES OvertakenStop
