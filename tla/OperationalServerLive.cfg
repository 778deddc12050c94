SPECIFICATION ProgressSpec
CONSTANTS
  c1 = c1  c2 = c2  c3 = c3  h1 = h1  h2 = h2
  Conns <- ThreeConns
  Hashes <- OneHash
  None = None
  Acceptor = Acceptor
  SendBuf = 1
  MaxRequests = 2
CHECK_DEADLOCK FALSE
PROPERTIES DepartureEnds RequestHandled ConnectionServed
