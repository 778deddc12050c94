SPECIFICATION Spec
CONSTANTS
  c1 = c1  c2 = c2  c3 = c3  h1 = h1  h2 = h2
  Conns <- ThreeConns
  Hashes <- TwoHashes
  None = None
  Acceptor = Acceptor
  SendBuf = 1
  MaxRequests = 1
SYMMETRY SymmetryThree
CHECK_DEADLOCK FALSE
INVARIANTS Isolation RegistrationKept SlotAccounted
PROPERTY ServiceSpec
