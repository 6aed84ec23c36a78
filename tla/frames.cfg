SPECIFICATION FairSpec
CONSTANTS
  HeaderSize = 3
  PayloadSize <- Payloads
  MaxPayload = 5
  GradientKind <- WidestSecond
  SocketSpace = 9
  MaxConns = 3
  MaxMsgs = 4
INVARIANTS
  ReadHasRoom
PROPERTIES
  ImplementsChannel DeliversAll
CHECK_DEADLOCK FALSE
