CONSTANTS
  NbVars = 5
  InitNbMax = 10
  IncrNbMax = 1
  IncrPostpone = 1
  Problems <- Twice
  Appendable <- NoClauses
  Assumable <- NoClauses
  MaxCalls = 0
  LbdWindow = 2
SPECIFICATION EnumSpec
INVARIANT CountedOnce
