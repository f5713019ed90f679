SPECIFICATION ReleaseSpec
CONSTANTS
  Bots <- MCReaderBots
  Claims <- MCReaders
  Direct = {}
  botOf <- MCReaderBotOf
  runOf <- MCReaderRunOf
  kindOf <- MCReaderKindOf
  rootOf <- MCReaderRootOf
  NoRoot = NoRoot
  DotNames = {}
  MaxConcurrent = 2
  MaxAutomaticAcp = 1
  MaxPerBotActive = 1
  MaxPending = 3
  MaxPendingPerBot = 2
PROPERTIES WaitEnds
