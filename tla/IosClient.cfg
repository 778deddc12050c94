SPECIFICATION FairSpec
CONSTANTS
  MaxSockets = 2
  MaxPackets = 3
  Packets = {"unregister", "malformed"}
CHECK_DEADLOCK FALSE
INVARIANTS HeardInOrder NeverDeaf ViewAgrees NothingAbandoned ToldRight
PROPERTY LossTold
