SPECIFICATION Spec
CONSTANTS
  Bots <- MCBots
  Claims <- MCClaims
  Direct <- MCDirect
  botOf <- MCbotOf
  runOf <- MCrunOf
  kindOf <- MCkindOf
  rootOf <- MCrootOf
  NoRoot = NoRoot
  DotNames = {}
  MaxConcurrent = 3
  MaxAutomaticAcp = 1
  MaxPerBotActive = 2
  MaxPending = 3
  MaxPendingPerBot = 2
INVARIANTS TypeOK LimitsHold WritersDisjoint RunExclusive
  QueuesServed
PROPERTIES ServiceInOrder KeepsTable
