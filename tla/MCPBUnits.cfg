CONSTANTS
  NbVars = 5
  InitNbMax = 2
  IncrNbMax = 1
  IncrPostpone = 1
  Problems <- None
  Appendable <- None
  Assumable <- None
  MaxCalls = 1
  LbdWindow = 2
  PBProblems <- UnitsProblems
  Appended <- UnitsAppended
  CuttingModes = {TRUE, FALSE}
  LubyConstant = 2
SPECIFICATION PBSpec
INVARIANT SatMeetsAll
