\* A worker that serves several connections with one workeraa_http struct.
SPECIFICATION LiveSpec
CONSTANTS
  HeaderLen = 2
  RequestSize = 3
  ResponseLen = 2
  MaxConns = 3
  ClientMax = 4
INVARIANTS FirstAnswered SocketInv ClosedOnce BlindWait
PROPERTIES OwnResponse WorkerReturns
CHECK_DEADLOCK FALSE
