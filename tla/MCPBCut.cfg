CONSTANTS
  NbVars = 3
  InitNbMax = 2
  IncrNbMax = 1
  IncrPostpone = 1
  Problems <- None
  Appendable <- None
  Assumable <- None
  MaxCalls = 0
  LbdWindow = 2
  PBProblems <- CutProblems
  Appended <- None
  CuttingModes = {TRUE}
  LubyConstant = 2
SPECIFICATION PBSpec
INVARIANT PBNoPanic
