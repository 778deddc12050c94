SPECIFICATION FairSpec
CONSTANT MaxClients = 2
CHECK_DEADLOCK FALSE
INVARIANTS ConnectionsAccounted StopLogsNoError
PROPERTIES StoppedIsQuiet StopReturns
