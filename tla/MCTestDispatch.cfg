SPECIFICATION Spec
CONSTANTS
  NumTests = 4
  Unsupported = {2}
  SuiteRange = FALSE
  RangeMin = 0
  RangeMax = 0
  NvmMayFail = TRUE
INVARIANTS CountedInOrder TotalsExact ResetBlamesRunningTest
PROPERTIES Terminates
