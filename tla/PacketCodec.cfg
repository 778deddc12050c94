SPECIFICATION FairSpec
CONSTANTS
  MAGIC_FIELD <- Magic
  PACKET_MAX_SIZE = 19
  Packets <- SomePackets
  MaxPackets = 3
CHECK_DEADLOCK FALSE
INVARIANT NothingPastOversize
PROPERTIES ChannelSpec Delivery
