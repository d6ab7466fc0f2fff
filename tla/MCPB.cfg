CONSTANTS
  NbVars = 4
  InitNbMax = 2
  IncrNbMax = 1
  IncrPostpone = 1
  Problems <- None
  Appendable <- None
  Assumable <- None
  MaxCalls = 1
  LbdWindow = 2
  PBProblems <- MCProblems
  Appended <- MCAppended
  CuttingModes = {TRUE, FALSE}
  LubyConstant = 2
SPECIFICATION PBFairSpec
INVARIANTS SatMeetsAll ClausesUnsatSound ConstraintsWatched NothingMissed PBReasonsImply CutFollows CutAsserts
PROPERTIES PBCallsReturn
