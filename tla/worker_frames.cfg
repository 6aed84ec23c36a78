SPECIFICATION FairSpec
CONSTANTS
  HeaderSize = 2
  PayloadSize <- Payloads
  MaxPayload = 5
  DrainSize = 2
  DoneKinds <- Dones
  OwnDone = 3
  SocketSpace = 5
  MaxConns = 1
  MaxMsgs = 3
PROPERTIES
  WorkerImplementsChannel WorkerDeliversAll WorkerNoticesClose
CHECK_DEADLOCK FALSE
