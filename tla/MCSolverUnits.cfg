CONSTANTS
  NbVars = 3
  InitNbMax = 10
  IncrNbMax = 1
  IncrPostpone = 1
  Problems <- WithUnit
  Appendable <- NoClauses
  Assumable <- NegatedUnit
  MaxCalls = 2
  LbdWindow = 2
SPECIFICATION Spec
INVARIANT SatSound
