SPECIFICATION Spec
CONSTANTS
  c1 = c1  c2 = c2  c3 = c3  h1 = h1  h2 = h2
  Conns <- TwoConns
  Hashes <- TwoHashes
  None = None
  Acceptor = Acceptor
  SendBuf = 1
  MaxRequests = 3
SYMMETRY SymmetryTwo
CHECK_DEADLOCK FALSE
INVARIANTS Typed HandledIsForgotten
PROPERTY ServedIsListed
