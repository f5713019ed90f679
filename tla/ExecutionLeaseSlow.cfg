SPECIFICATION LeaseSpec
CONSTANTS
  Bots <- MCBots
  Claims <- MCTwiceClaims
  Direct <- MCDirect
  botOf <- MCbotOf
  runOf <- MCrunOf
  kindOf <- MCkindOf
  rootOf <- MCrootOf
  NoRoot = NoRoot
  DotNames = {}
  MaxConcurrent = 2
  MaxAutomaticAcp = 1
  MaxPerBotActive = 2
  MaxPending = 2
  MaxPendingPerBot = 2
  Worker = "bot"
  Runs <- MCRuns
  claimsOf <- MCTwiceOf
  parentOf <- MCparentOf
  NoRun = NoRun
  NoLease = NoLease
  MaxRequests = 4
  MaxClaims = 1
  SlowReceipts = TRUE
INVARIANTS LeaseTypeOK NoOrphanLease NoSpuriousRefusals
  WitnessFollowsScope
