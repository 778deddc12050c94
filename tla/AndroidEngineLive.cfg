SPECIFICATION FairSpec
CONSTANTS
  MaxConnects = 2
  MaxPackets = 1
  Packets = {"malformed"}
CHECK_DEADLOCK FALSE
INVARIANTS NeverDeaf ToldOnce
PROPERTY LossNoticed
