SPECIFICATION FairGatewaySpec
CONSTANTS
  Messages <- MCMessages
  Direct <- MCDirect
  Sessions <- MCSessions
  sessionOf <- MCsessionOf
  NoMessage = NoMessage
  MaxTombstones = 1
  Faults = {"lost", "kept"}
  MaxFailures = 1
INVARIANTS GatewayTypeOK AcknowledgedKept AtMostOneTurn
PROPERTIES SettledStays TakenUp LetGo
