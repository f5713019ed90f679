SPECIFICATION FairConsultationSpec
CONSTANTS
  Bots <- MCBots
  lead = "lead"
  Dispatches <- MCDispatches
  rootOf <- MCrootOf
  originBot <- MCoriginBot
  targetBot <- MCtargetBot
  parentOf <- MCparentOf
  NoParent = "none"
  MaxFanOut = 2
  MaxFailures = 1
INVARIANTS ConsultationTypeOK LedgerRecovers RevokedRunsCancelled
PROPERTIES KeepsContract WaitersAnswered
CHECK_DEADLOCK FALSE
