SPECIFICATION Spec
CONSTANTS
  t1 = t1  t2 = t2  t3 = t3
  Threads <- ThreeThreads
  None = None
  MaxCalls = 2
SYMMETRY Symmetry
CHECK_DEADLOCK FALSE
PROPERTY SettlesForGood
