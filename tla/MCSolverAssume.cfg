CONSTANTS
  NbVars = 4
  InitNbMax = 10
  IncrNbMax = 1
  IncrPostpone = 1
  Problems <- Assumed
  Appendable <- NoClauses
  Assumable <- MCAssumable
  MaxCalls = 2
  LbdWindow = 2
SPECIFICATION Spec
INVARIANT ReasonsImply
PROPERTIES RefinesService
