SPECIFICATION FairSpec
CONSTANTS
  c1 = c1  c2 = c2
  Conns <- TwoConns
  None = None
  Acceptor = Acceptor
  RequestLength = 1
  MaxChars = 2
CHECK_DEADLOCK FALSE
INVARIANT ListAccounted
PROPERTY ThreadEnds
