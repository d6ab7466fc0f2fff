CONSTANTS
  NbVars = 4
  InitNbMax = 2
  IncrNbMax = 1
  IncrPostpone = 1
  Problems <- FewModels
  Appendable <- NoClauses
  Assumable <- NoClauses
  MaxCalls = 0
  LbdWindow = 2
SPECIFICATION EnumFairSpec
INVARIANTS AllModelsFound OneDecisionPerLevel
PROPERTIES CountEnds
