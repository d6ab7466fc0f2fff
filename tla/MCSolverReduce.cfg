CONSTANTS
  NbVars = 6
  InitNbMax = 2
  IncrNbMax = 1
  IncrPostpone = 1
  Problems <- UnitsOnly
  Appendable <- NoClauses
  Assumable <- NoClauses
  MaxCalls = 0
  LbdWindow = 2
SPECIFICATION Spec
INVARIANT NoPanic
