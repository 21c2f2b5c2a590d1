SPECIFICATION SSpec
CONSTANTS
  PA <- MCPA
  IPA = {100, 101, 300}
  UIPA = {200, 400}
  Base <- MCBase
  StartLevel = 1
  NumAux = 1
  StartTables = 4
  RecAux = 2
  NumRealms = 1
  NoAddr = NoAddr
  RecCount = 2
  SlRtts = 2
  ImageIpa <- MCImageIpa
  SharedIpa = 200
  TestIpa = 300
  TestUipa = 400
INVARIANTS SetupComplete CreateRollsBack
PROPERTIES SetupIsUndone
