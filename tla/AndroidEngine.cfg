SPECIFICATION Spec
CONSTANTS
  MaxConnects = 2
  MaxPackets = 2
  Packets = {"OLEH"}
CHECK_DEADLOCK FALSE
INVARIANTS OneReader HeardInOrder NothingLeftOpen CheckIsOver
