SPECIFICATION PSpec
CONSTANTS
  PA = {g1, g2, g3, g4, g5, g6}
  IPA = {0}
  UIPA = {8}
  Base <- MCBase
  StartLevel = 2
  NumAux = 1
  StartTables = 1
  RecAux = 1
  NumRealms = 2
  NoAddr = NoAddr
INVARIANTS CleansUp FailsOnlyForDevices Mirror
PROPERTIES  PostambleReturns
SYMMETRY Granules
