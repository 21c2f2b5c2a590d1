SPECIFICATION FairSpec
CONSTANTS
  c1 = c1
  c2 = c2
  c3 = c3
  MaxCalls = 1
  CPU <- MCCPU
  Increments <- MCIncrements
  Scripts <- MCScripts
PROPERTIES
  Linearizable
  NoLostWakeup
CHECK_DEADLOCK FALSE
