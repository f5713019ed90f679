SPECIFICATION FairLeaseSpec
CONSTANTS
  Bots <- MCBots
  Claims <- MCOnceClaims
  Direct <- MCDirect
  botOf <- MCbotOf
  runOf <- MCrunOf
  kindOf <- MCkindOf
  rootOf <- MCrootOf
  NoRoot = NoRoot
  DotNames = {}
  MaxConcurrent = 2
  MaxAutomaticAcp = 1
  MaxPerBotActive = 2
  MaxPending = 2
  MaxPendingPerBot = 2
  Worker = "bot"
  Runs <- MCRuns
  claimsOf <- MCOnceOf
  parentOf <- MCparentOf
  NoRun = NoRun
  NoLease = NoLease
  MaxRequests = 4
  MaxClaims = 2
  SlowReceipts = FALSE
PROPERTIES ClaimsAndLeasesEnd
INVARIANTS WritersExcluded
